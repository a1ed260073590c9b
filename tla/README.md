# Verification of the ReAct agent server

TLA+ models of the agent server in this repository (`app/`), TLC runs that
check them on small instances, and TLAPS proofs of the properties that matter
most, for every value of the constants.

Paths below are relative to the repository; `agent_router.py:45` is line 45 of
`app/api/v1/routers/agent_router.py`.

## 1. The system

One uvicorn process with one event loop serves a streaming chat endpoint
(`Dockerfile`). A request passes the rate limiter, then the security checks,
then the router (`main.py:71-106`; middlewares run in the reverse of the order
they are added in). The router turns the generator of the use case into
server-sent events. The use case loads the conversation, runs the reasoning
loop, and saves the conversation. The loop alternates between a streamed
response of a language model and one tool.

The models take one such process. The terraform of the repository runs up to
five replicas (`terraform/main.tf:487-488`): the deques of the limiter, the
memoised objects and the vector store are then one for each, so that the limit
of section 3 is a limit per replica; the table is shared by all, as it is
by the requests of one process.

```
 client --POST /chat--> RateLimitMiddleware --> SecurityMiddleware --> agent_router.chat
   ^                                                                      |  async generator
   |  SSE: thought, action, observation, final_answer, done | error       v
   +---------------------------------------------------------- RunAgentUseCase.execute
                                                   load |  | run           | save
                              MySQLConversationAdapter <+  v               +> MySQLConversationAdapter
                                                    ReactOrchestrator.run
                                     chat_completion_stream |   | execute
                            OpenAI / Claude / LangChain <---+   +---> ToolRegistry
                                                                  ERP | RAG | tax tool
```

| Component | State it keeps | Operations | Hard behaviour | What makes it correct |
|---|---|---|---|---|
| Reasoning loop (`react_orchestrator.py`, `agent.py`) | `AgentState`: steps, iteration, final answer; the response being read | one iteration of reading, thinking, acting, observing; giving up | responses that mix text, blanks, malformed and several tool calls; failures and disconnects at each await | whole rounds in order; the tool asked for is the tool run; at most `max_iterations` responses; an answer comes from a response without a call; it ends |
| Chat use case and endpoint (`run_agent.py`, `agent_router.py`) | a copy of the conversation per request; the events sent | load or create, run, save, done; classification of errors | requests that interleave at every await and every event; database and model failures; clients that leave | one terminal event; transcripts are whole exchanges; what is lost, and when |
| Conversation repository (`mysql_conversation_adapter.py`) | the `conversations` table | `find_by_id`, `save` (MERGE) | concurrent saves of one row, without a version | a save adds the exchange of its request to what the request loaded |
| Rate limiter (`rate_limit_middleware.py`) | a deque of admission times for each key | admit or reject; measure after the response | the second half of `dispatch` runs after other requests; cut-off times; cut seconds | no window holds more than the limit; the advice to the client is right |
| Chroma RAG adapter (`chroma_rag_adapter.py`) | store object, asyncio lock, the collection on disk | search, open or build | a coroutine that is cancelled while its thread goes on; failed builds; restarts | no search in an empty index; no search waits for ever; the corpus is there once |
| LLM adapters (`openai_adapter.py`, `claude_adapter.py`, `langchain_adapter.py`) | a buffer of the tool calls of one response | read events, yield text and sentinels | calls in fragments, parallel calls, responses cut by `max_tokens` or a content filter, ended without a reason, or broken off | the loop is shown the calls of the model, in order, each once and with its own arguments, but for those that a cut loses, which are counted |
| Tax tool (`tax_tool.py`) | none | expected tax, discrepancy, alert | two roundings, a tolerance, rates of three decimals, credit notes | an alert is right up to a known number of cents, and has the right sign |
| Tool registry (`tool_registry.py`) | none | dispatch to ERP, RAG, tax | a tool that raises; arguments that are missing, null, empty, no numbers, zero or negative | every call ends in a result; "there is none" is said only when there is none, or when a RAG adapter has swallowed its failure |
| ERP adapter (`mysql_erp_adapter.py`) | none | three queries | optional filters, a limit, rows created at once | the newest rows asked for |
| Simulated RAG adapter (`simulated_rag_adapter.py`) | the corpus, read once | search | ranking cut before irrelevant documents are dropped | the best documents, none irrelevant |
| Security middleware (`security_middleware.py`) | the valid keys | key, length, injection, sensitive data, role | order of the checks; a body that cannot be read is passed on; two parsers of one body, and two limits of one length | what security can read the agent runs for only if it was found clean; the two limits agree |
| Wiring (`dependencies.py`, `llm_factory.py`, `settings.py`, `main.py`) | the memoised objects, the settings | resolve the dependencies of a request | threads of the pool that miss the same cache at once; a factory that raises halfway | one set of objects from some point on; none seen half made; failure only of chats, and only for a missing key or a corpus that does not parse |
| Database lifecycle (`mysql_client.py`) | engine, session factory | start, stop | use before start, after stop | no request finds it uninitialised |
| History and health endpoints | none | read only | - | counted, or exempt |

Components share little: the use case and the repository share the table; the
requests share the table, the limiter's deques, the memoised adapters and the
vector store; everything else belongs to one request. The models follow that: a module per shared state,
and one for each computation of a single request that has an interesting order.

`PROJECT.json` lists the hazards, each at its line, and the properties that
would catch it going wrong.

## 2. Modules

| Module | Models | State and actions in the code |
|---|---|---|
| `AgentRun` | what a run promises, abstractly | turns, tools executed, answer; `StartTurn`, `UseTool`, `AnswerFromModel`, `GiveUp`, `Finish`, `Fail`, `Abandon` |
| `ReactOrchestrator` | the loop, line by line | `iteration`, `steps`, `finalAnswer` are `AgentState`; `text`, `toolCall` are `accumulated_text` and `tool_call_data`; `BeginIteration` (58-70), `ReceivePlain`, `ReceiveToolCall` (66-77), `EndOfStream` (79-98), `ActAfterThought`, `AnswerAfterThought`, `CallTool`, `ToolReturns` (100-110), `GiveUp` (122-129), `Return`, `LlmFails`, `Abandon` |
| `ReactOrchestratorProofs` | theorems about the loop | |
| `ConversationStore` | what the table promises, abstractly | `Open`, `Commit`, `Close` of an exchange |
| `RunAgent` | concurrent chat requests | `conversation[r]` is the request's `Conversation`, `events[r]` what it was sent, `table` the rows; `ReceiveWithId`, `ReceiveWithoutId`, `FindById`, `FindFails`, `SendStep`, `SendAnswer`, `AgentFails`, `AddAnswer`, `SaveCommits`, `SaveFails`, `SendDone`, `Disconnect` |
| `RunAgentProofs` | theorems about requests and rows | |
| `RateLimiter` | the sliding window | `windows` is `_windows`; `Admit` and `Limit` are `dispatch` up to `call_next`, `Respond` and `Fail` what comes after it, `Tick` the clock |
| `RateLimiterProofs` | theorems about the limiter | |
| `Gateway` | what a request passes before its handler: limiter, security, router | extends `RateLimiter`; `place[r]` is the layer that has the request; `Enter`, `TurnAway` (`rate_limit_middleware.py:44-66`), `RejectKey`, `ReceiveBody`, `PassBodiless` (`security_middleware.py:97-201`), `StartChat`, `AnswerHistory`, `EndStream` (`agent_router.py`), `PassExempt`, `Lose` |
| `GatewayProofs` | theorems about the composition | |
| `AdapterHandout` | what the wiring promises about RAG adapters, abstractly | `Ask`, `HandKept`, `HandMade`, `Refuse`, `Forget` |
| `Wiring` | the memoised factories in the threads of the pool | `cache[f]` is what `lru_cache` stores for factory `f`, `got[r][f]` what it returned to request `r`, `at[r]` the function its thread is in; `InitDb`, `Resolve`, `Hit`, `Miss`, `Construct`, `Raise`, `Return`, `Reboot` |
| `WiringProofs` | theorems about the wiring, and that it implements `AdapterHandout` | |
| `ChromaIndex` | lazy initialisation of the vector store | `lock[a]`, `opened[a]` are `_lock` and `_vectorstore` of adapter `a`, `dir` and `copies` the disk, `job[s]` the call in the executor; `Search`, `Acquire`, `Publish`, `BuildRaises`, `Query`, `Cancel` are the coroutine, `StartJob`, `LoadCollection`, `BeginBuild`, `AddDocuments`, `BuildFails` the thread |
| `RagService` | requests that are handed an adapter and search with it | composes `ChromaIndex` with `AdapterHandout`; `Depend`, `SearchRegulations`, `InLoop`, `InExecutor`, `Leave`, `Stop` |
| `RagServiceProofs` | theorems about the initialisation and the composition | |
| `LlmStream` | three adapters reading one response | `buffer` is `tool_use_buffer` or `tool_call_accumulator`; the provider's events are `SendText`, `OpenCall`, `SendFragment`, `CloseEmptyCall`, and the ends `Finish`, `CutOff`, `EndUnexplained`, `Break`; `Announced` is what OpenAI's client library makes of a call that is complete, `Flush` what LangChain's adapter yields at the end |
| `LlmStreamProofs` | theorems about the streams | |
| `TaxTool` | the calculation in exact arithmetic | `Call` (`tool_registry.py:203-209`), `Calculate` (95-160), `Refuse` (`tool_registry.py:139-168`) |
| `ToolRegistry` | `execute` over all tools, the ERP queries and the search of either RAG adapter | extends `TaxTool`; `Execute` (dispatch and arguments), `GetRow`, `ListRows`, `QueryFails` (ERP adapter), `Search` (`SearchSimulated`, `SearchChroma`: an adapter's result, or the `[]` it makes of a failure), `SearchFails` (a store of Chroma that does not open), `TaxStep` |
| `ToolRegistryProofs` | theorems about the calculation, and about what the registry returns | |
| `MC*` | instances for TLC | symmetry, bodies, settings, rows, ranges of amounts |

Four conventions hold throughout.

*Steps.* The code is single-threaded asyncio: what lies between two awaits (or
yields) is one action. Two things run in threads and have actions of their own:
the executor's build of the vector store, and the plain functions that FastAPI
resolves dependencies with.

*Composition.* A component's module is extended by the one that composes it
(`Gateway` over `RateLimiter`, `RagService` over `ChromaIndex` and
`AdapterHandout`, `ToolRegistry` over `TaxTool`); the composed step is the
component's action, with what the other components do at the same time. Where
the detail is another module it is replaced by an abstract one that is shown to
be implemented: `AgentRun` by the loop, `ConversationStore` by the requests,
`AdapterHandout` by the wiring.

*Ghost variables* (`committed`, `missed`, `dbDown`, `admitted`, `orphans`,
`reloads`, `strays`, `late`, `unread`, and `asked` and `executed` where the code keeps no list) record
history for the properties; no guard reads them.

*Slips.* A definition with a comment that begins with "Slip:" is not part of
the model. It is the definition after it with a plausible mistake, kept beside
it so that each property can be seen to fail when the mistake is made.
`PROJECT.json` pairs each property with its slip.

## 3. Runs

| Run | What it shows | Bounds, and why they are enough |
|---|---|---|
| `react_loop` | `StepGrammar`, `ToolFidelity`, `BudgetKept`, `AnswerIsEarned`, `PromptIsClosed`, `Termination`, `ImplementsRun` | 3 iterations: a round, a round that uses what it replays, and the last. 3 chunks of a response: two calls and a text in any order. 2 tools: two calls that differ |
| `dropped_tool_call` | a response with two calls loses the first (`EveryCallObserved` fails) | 1 iteration, 2 chunks |
| `run_agent` | `TranscriptsAreExchanges`, `StoredAnswersWereSent`, `LossNeedsOverlap`, `MixedRowNeedsOverlap`, `StreamGrammar`, `ImplementsStore`, and under fairness `EveryRequestEnds`, `AnswerLeadsToDone` | 3 requests: two that overlap and one that comes before, between or after. 1 id a client brings, and the ids the server makes. 1 step before the answer: whether there was one is all that other requests can tell |
| `lost_update` | the later of two overlapping saves wins (`SaveExtends` fails) | 2 requests |
| `multi_turn` | a continuation is answered without the history (`ContinuationSeesHistory` fails) | 2 requests |
| `erp_outage` | a database failure is never `ERP_UNAVAILABLE` (`OutageIsReported` fails) | 2 requests |
| `gateway` | `WindowBound`, `RetryAfterSuffices`, `RetryAfterIsTight`, `RemainingIsSafe`, `StreamsWereScreened`, `LengthLimitsAgree`, `EveryRequestCounts` | limit 2 and 3 requests: a full window and one beyond it, or after it. 2 keys, one valid. Window of 2 s, 2 ticks a second: times on and off whole seconds. 7 ticks: more than a window and a wait. 14 bodies: one for each way through the checks, those that only one of the two parsers reads, and lengths on both sides of the limits |
| `wiring` | `LateRequestsShare`, `HandedOutWhole`, `FailsByConfiguration`, `ImplementsHandout` | 4 requests on 2 threads: two that miss at once, one that finds part of what they made, one that comes late. 7 environments: each model provider with and without its key, each RAG adapter and the fallback to the simulated one, a corpus that does not parse where it is read and where it is not. Any number of restarts |
| `rag` | `BuilderHoldsLock`, `OpenedIsIndexed`, `DuplicatesNeedOverlap`, `WaitersCanGo` | 3 requests with up to 3 adapters: a builder, one that waits or builds beside it, one that comes late. 1 restart |
| `indexed_once` | two builds at once after a cancellation (`IndexedOnce` fails) | 2 searches, no restart |
| `llm_stream` | `SentinelsAreFaithful`, `LostCallsNeedCut` for each adapter | 3 blocks: text and two calls in any order. 2 fragments: a first and a last. A response ends complete, cut, filtered, without a reason, or breaks off |
| `tools` | `AlertIsAccurate`, `StatusHasTheSign`, `AbsenceIsReal`, `ListIsNewest`, `SearchIsBest` | 31 amounts, 8 rates, declarations in tenths of a cent from four cents below zero to eight above: all distances from a cent at which a rounding or the tolerance changes its mind. Any table of 4 rows, two created at once; either RAG adapter, and any corpus of up to 4 documents with 3 scores, one more than the default `top_k`; limits from -2 to 5, null and malformed |

`react_loop` and `llm_stream` also check the type invariant of their module.
Those of all modules are proved (section 4), but for `ToolRegistry`, which adds
none to that of `TaxTool`.

### What the failing runs say

Five runs are expected to fail: they state what a comment, a document or the
request collection says and find that the code does otherwise.

* A response with two tool calls: only the last is executed
  (`react_orchestrator.py:75`). All three adapters yield a sentinel for each
  parallel call, so this happens with the providers' default settings.
* Two requests that continue one conversation at once: the exchange saved first
  is lost (`run_agent.py:69`, `mysql_conversation_adapter.py:50`).
  `LossNeedsOverlap` shows that nothing else loses a saved exchange.
* A continued conversation is loaded and saved, but the model is given the new
  query alone (`run_agent.py:84`).
* No failure of the database reaches the client as `ERP_UNAVAILABLE`
  (`run_agent.py:69`, `run_agent.py:136`, `tool_registry.py:160`).
* A search cancelled while it builds the vector store lets the next one build
  it as well; the corpus is then in the collection twice
  (`chroma_rag_adapter.py:178`). `DuplicatesNeedOverlap` shows that beside this
  only a load that fails (line 214), or an adapter of which there are two
  (`dependencies.py:35`), adds it again.

Some further facts are not runs of their own but conditions of properties that
hold. Where a text of the repository says otherwise it is quoted.

* LangChain's adapter yields the calls it has gathered for the reasons
  `tool_calls` and `stop` only (`langchain_adapter.py:182`). At any other end,
  `max_tokens`, a content filter, or none, they are dropped without an error, and
  text that came with them is taken for an answer. The deployment is LangChain on
  Azure OpenAI (`terraform/main.tf:498-516`), which filters. The other adapters can lose
  the last call if no reason comes. `MayLose` in `LostCallsNeedCut` is how many
  calls each end may cost.
* The docstring of the tax tool says that a positive discrepancy is an
  under-declaration (`tax_tool.py:7`). The code computes declared less expected,
  so that a positive one is an over-declaration, as line 73 of the same file and
  the tests say. `StatusHasTheSign` states the sign of the code.
* `SecurityMiddleware` "validates every incoming request"
  (`security_middleware.py:2`). It parses the text it decodes, the router parses
  the bytes. JSON behind a byte order mark, or in UTF-16, is read by the router
  alone: security takes it for an empty object, and its query reaches the agent
  unscreened. `StreamsWereScreened` promises clean bodies only for what security
  can read.
* A search of Chroma whose query raises returns `[]` (`chroma_rag_adapter.py:135-137`),
  and so does either adapter if the file of the corpus is missing
  (`simulated_rag_adapter.py:32-34`), so that the model reads "no regulation"
  where the corpus was not looked at. `AbsenceIsReal` excepts these (`unread`).
* A row may have the user of one request and the context of another if both
  created it at once: `MixedRowNeedsOverlap`.
* The objects of `dependencies.py`, which a comment calls "created once at startup"
  (line 23), are made when the first requests need them, and by each of these
  if they come at once; an early request may go on with an adapter that no other
  request sees. What holds is `LateRequestsShare`.
* A negative `top_k` is a slice from the end, so that the simulated search returns
  all but the last documents: the bound in `SearchIsBest` is for `top_k` of at
  least 0.

### Deadlock

TLC checks for deadlock in all runs but `gateway`, whose clock and requests are
bounded and simply stop. `Wiring` can always restart, so there the check says
nothing; that a request's dependencies are resolved in finitely many steps is
proved instead (`ResolutionIsFinite`). The others have an explicit stuttering
step (`Terminated`, `AllEnded`, `Quiet`, `ServiceQuiet`, `Over`, `Ended`) enabled only when
all work has ended, so that any other standstill is reported.

### Fairness

* `ReactOrchestrator`: weak fairness of `Proceed`, the generator's own next
  step. The event loop resumes a generator that can go on, a provider ends its
  stream (`MaxChunks` stands for `max_tokens`) or fails, and a tool returns.
  Failing and leaving are not forced.
* `RunAgent`: weak fairness of `Advance(r)` for each request: the event loop
  starves no coroutine, the database answers or fails, and the run of the agent
  ends, which is `Termination` of the module before. Clients need not send
  anything, nor leave.
* No other run uses fairness. That no search of the vector store waits for ever
  is stated as a state property instead, `WaitersCanGo`: whoever waits for a lock
  can take it, or its holder has a step to take. With threads that are
  scheduled, embeddings that answer or fail, and the first-come order of
  asyncio.Lock, that is enough for each waiter to be served.

## 4. Proofs

The theorems hold for every value of the constants that the `ASSUME`s of the
modules allow; TLC evaluates those on each run. Each proof module has the same
shape: an inductive invariant (`IInv`, `Inv`, or one with the component's name
such as `GatewayInv`, `WiringInv`, `ServiceInv`, `RegistryInv`, `TaxInv`), a lemma for `Init`, one for each conjunct
under `[Next]_vars` with one step per action, a theorem that the invariant
holds (`Invariance`), and one theorem for each property. The type invariant is a
theorem of its own (`TypeCorrect`, `StreamTypes`) for each component; in the
compositions it is a conjunct of the inductive invariant.

**`ReactOrchestratorProofs`**: `TypeCorrect`, `StepsFollowGrammar`,
`ToolsAreFaithful`, `BudgetIsKept` (at most `MaxIterations` responses and as many
tools), `AnswersAreEarned`, `PromptsAreClosed`, and
`LoopImplementsRun` (the loop refines `AgentRun`; the safety part of
`ImplementsRun`, which is all `AgentRun` states). None of the properties is inductive: they
speak of lists of steps and say little about where the generator is. The
invariant adds what is known at each suspension point: which step was the last
and of which response (`pc` against `Last(steps)`), that the tools executed so
far belong to earlier iterations unless one is running, that the response being
read agrees with its last sentinel, and that each executed tool has its
observation among the steps unless it is running. The refinement uses the
invariant at the step that runs a tool and the one that answers, where the
abstract guards ask that the turn ran no tool. Of the loop's end: `RunsAreFinite` (a
run takes at most `MaxIterations * (MaxChunks + 5) + 2` steps) and `RunsNeverStick` (until
it has ended, the guard of one of the loop's own steps holds). The measure counts
the iterations left and, within one, the chunks that may still come and the steps after
them; it falls at every step, since a response is opened once per iteration.
`OnlyOvertakenCallsAreLost` says which responses lose a call.

**`RunAgentProofs`**: `TypeCorrect`, `TranscriptsAreWhole`, `StoredWasSent`,
`NoLossWithoutOverlap`, `NoMixWithoutOverlap`, `StreamsAreGrammatical`, and
`RequestsImplementStore` (the requests and the table refine `ConversationStore`),
for any number of requests, ids and steps. The properties speak of rows, but a row is
written from the copy of a request, and a copy is read from a row, so neither is
invariant alone. The invariant says of a copy what the properties say of a row:
it is a transcript of committed exchanges, then the request's own query, then its
answer (`Copies`); an exchange of the conversation that it lacks was committed
since it was read, or lost before (`CopiesMiss`); its user and context are the
request's, or those of a row (`CopiesMix`). `IdsGiven` says that nobody can
bring the id of a request that has not ended, so a new conversation has no row.
The refinement maps a transcript to the sequence of its exchanges: the list of
messages is read in pairs, a query and its answer (`ExchangesBut`). What a request
opened with is then its copy without its own exchange, at whatever point the
request is (`SavesWhatItOpened`), and a save puts that and its own exchange into
the row; the invariant is what makes the pairs whole. `RequestsAreFinite` bounds the steps
of a request, whatever the other requests do, and `AnswersGoOn` says where one can go
that has sent its answer: not to an error. `UndisturbedSavesExtend`,
`HistoryIsNeverSeen` and `LoadFailuresAreInternal` say when the claims of three
failing runs hold. The first needs one more invariant (`Undisturbed`): the copy of a
request that has missed no save is what the row of its conversation holds now, and its own
query.

**`RateLimiterProofs`**: `TypeCorrect`, `WindowIsBounded`,
`RemainingNeverOverstated`, `RetryIsEnough`, `RetryIsTight`. The bound
speaks of all admissions ever made, the code only of the deque. The invariant (`Remembered`) says that the deque is a
tail of the admissions no longer than the limit, and that every admission before
it is older than the window. A new admission then has fewer than the limit
behind it in any window it belongs to. `Retry-After` is about the moment a client
was turned away, which is past when the property is read: `Told` keeps, for each
such client, where the run of exactly `MaxRequests` admissions starts (`Blocks`)
that were in its window then, the first of which gave the advice. Later
admissions come after that run and after that moment, so it stays the same.

**`GatewayProofs`**: `GatewayRunsTheLimiter` (each step of the gateway is a step
of the limiter, so its theorems hold; `GatewayKeepsTheBound` and `GatewayKeepsItsWord` are
among them), `StreamsAreScreened`, `LengthLimitsHold`, `AllRequestsCount`. What a
body is known to be when the agent runs comes from two layers: `Screened` says that
a body waiting for the handler was parsed by the router, and that it passed the
checks or security could not read it; the router's validation adds its form and
that it is no longer than the schema allows. The lengths of the two
limits are the constants of the code, and the theorem fails if one of them is
changed alone. The count adds that a request the limiter has
not seen has no key (`Waiting`), for a finite set of requests.

**`WiringProofs`**: `LateShare`, `MadeBeforeHandedOut`, `OnlyConfigurationFails`,
`WiringImplementsHandout`. The invariant says that a
function that a thread is in has not returned to it yet (`Unmade`), so that what
a thread was given never changes; that whoever made an object that is stored or
held is alive and had all its parts (`MakersAreSound`); and that late requests
make no part of an orchestrator (`LateMakeNothing`). The adapter behind an
orchestrator therefore stays what it is while other threads make more. That a
request fails only for a missing key or a corpus that does not parse, and only if it
wants the agent, needs which functions it is in (`OnItsWay`): those that can raise
are called on behalf of the use case alone. The
refinement maps a request that has its orchestrator to one that was handed the
adapter behind it. `ResolutionIsFinite` says that the dependencies of a request take
fourteen steps at most, and that no other thread sets it back: no function is
called again once it has returned to the thread, since what it returned is kept.

**`RagServiceProofs`**, of the vector store: `TypeCorrect`, `LockIsHeld`,
`OpenedHasDocuments`, `HoldersCanGo`, `DuplicatesAreCaused`. The invariant adds
that a build that finished found a corpus or made one (`DoneIsIndexed`), that a
search builds once at most and awaits no build it has not asked for (`BuildsOnce`),
and an account: the copies and the builds under way are no more than the adapters
in use, the cancelled builders and the failed loads together (`Accounted`). The
count needs finite sets of searches and adapters, assumptions of the module.
Of the composition: `ServiceUsesIndex` (each step of it is a step of
`ChromaIndex`), `ServiceKeepsIndex`, and `OverlapsAreTheCause`: the adapters
searched with are the kept one and the strays, over restarts too.
`OnceWithoutAccidents` follows: without strays, cancelled builds and failed loads the
corpus is indexed once. `SearchesAreFinite` bounds the steps of a search and its
build (seven), and those the holder of a lock still has (five): a step of a search
brings it nearer to its end, and no other search sets it back.

**`LlmStreamProofs`**: `StreamTypes`, `SentinelsFaithful`,
`CallsAreLostByCutsOnly`, for each adapter, any tools and any number of blocks
and fragments. The properties compare what the loop was shown with what the
model asked for; the invariant adds what is in between. `BufferHolds` says what
an adapter holds while the response streams: nothing with OpenAI, whose client
keeps the calls; the open call with Claude, or none; all calls with LangChain; each
with the fragments that the provider has sent of it. `ShownSoFar` says
how many calls were shown by then (with OpenAI all but the last, with LangChain
none), `OneIsOpen` that a call is opened when the one before it is complete, and
`ShownAtEnd` how many were shown when the response has ended, for each adapter and
each end. `LostCallsAreCounted` makes the bound of `LostCallsNeedCut` exact: it states
that number, and which responses with calls the loop takes for an
answer.

**`ToolRegistryProofs`**, of the tax tool: `TypeCorrect`, `AlertsAreAccurate`,
`StatusesHaveTheSign`, for all integers: each rounding is off by half a cent at
most, so a difference above two cents is always reported and one below a cent
never. The discrepancy that is returned is within a cent of the exact one and has its sign.
`RegistryRunsTheTaxTool` carries this over to the registry
(`RegistryAlerts`). Of the rows and documents: `AbsencesAreReal`,
`ListsAreNewest`, `SearchesAreBest`, for every finite table, every corpus, either
RAG adapter (but the last, which is about the simulated one) and all arguments. Sorting is a choice among the sequences that hold each element once
and are in order (`InOrder`), so nothing is assumed of an algorithm; the lemmas
say of such a sequence that it has as many places as there are elements, hence
each of them (`EachOnce`), and what remains after a limit, a slice and the removal
of scores of zero (`NewestIs`, `SliceIs`, `RelevantIs`, `BestIs`, and `NearestIs` for Chroma). The search rests
on the order of these: a relevant document that is not returned was cut off, and
then all before it are relevant too.

### What the proofs say of liveness, and what TLC adds

The prover has neither the rules of fairness nor ENABLED, so `Termination`,
`EveryRequestEnds` and `AnswerLeadsToDone`, and the invariant `WaitersCanGo`, are
model-checked only. Of each, the part that can be said without
them is proved for every instance:

| Model-checked | Proved | Left to TLC |
|---|---|---|
| `Termination` | `RunsAreFinite`: each step lowers a natural number. `RunsNeverStick`: until the end a guard of `Proceed` holds | that an action whose guard holds is enabled, and that weak fairness then takes it |
| `EveryRequestEnds` | `RequestsAreFinite`: each step lowers one request's number and leaves the others' | that `Advance(r)` is enabled, and its fairness |
| `AnswerLeadsToDone` | `AnswersGoOn`: after the answer nothing but the save, done or leaving | the same |
| `WaitersCanGo` | `HoldersCanGo`: the holder of a lock awaits a build that is queued, at work or over. `SearchesAreFinite`: it has five steps left at most | that in each of these the thread or the search has a step |

### What the proofs say of the failing runs

A counterexample shows that a claim can fail. For each of the five claims a theorem
says when it does, for every instance:

| Refuted by TLC | Holds exactly, or as long as |
|---|---|
| `EveryCallObserved` | at the loop head, exactly for responses whose calls are all of one tool, as arguments are not told apart; only the last call is executed in any case (`OnlyOvertakenCallsAreLost`) |
| `SaveExtends` | as long as the saves of a conversation missed no other (`UndisturbedSavesExtend` for one save, `SerialSavesKeepAll` for a conversation) |
| `ContinuationSeesHistory` | exactly for the first query of a conversation (`HistoryIsNeverSeen`) |
| `OutageIsReported` | for no request whose conversation the database did not give: it is sent `INTERNAL_ERROR`, and no other is (`LoadFailuresAreInternal`) |
| `IndexedOnce` | as long as there is no stray adapter, no cancelled build and no failed load (`OnceWithoutAccidents`) |

Induction over data is out of reach too, but nothing here needs it: counts are taken
with the theorems on finite sets, and the lists of rows and documents are
characterised rather than computed.

## 5. Abstractions

* Texts are identified by the response or the request they come from. Messages
  of a conversation are "the query of r" and "the answer to r".
* `ToolRegistry.execute` always returns a result (`tool_registry.py:160-168`);
  whether the result is an error does not change the control of the loop. What
  the result holds is modelled in `ToolRegistry`, for one call at a time: nothing
  is kept between calls.
* Errors of a run are reduced to which of the two keyword lists
  (`run_agent.py:107-123`) their text matches.
* Between the use case and the router an event is one step: nothing awaits
  between the `yield` of the one and of the other but the send itself.
* A crash of the server during chat requests is all of them disconnecting; the
  table survives. In `ChromaIndex` it is an action, since the thread and the
  directory matter there.
* The MERGE is one transaction; a connection that breaks after the commit looks
  to `execute` like success, because the failure is swallowed.
* Of the texts in a streamed response only the number is kept. An adapter yields a
  text at once, so nothing but its place among the sentinels is lost, and that is
  what `ReactOrchestrator` takes to be arbitrary.
* The providers and their client libraries are external, modelled from how the
  adapters use them: which events come, in which order, and what the OpenAI
  client does with a response that is cut (it raises, because the tools are
  strict). They send the calls of a response one after the other, so that a fragment
  is always of the last call; what the adapters would make of an index out of this
  order is left out.
* Time in the limiter is discrete. All comparisons in the code are between times
  and whole seconds, so finer ticks add positions between the same cuts.
* Money is exact. The floats of the code can fall on either side of an exact
  half cent, so both neighbours are outcomes there. Errors of floats far from
  a half cent are below what `round` keeps for amounts of ordinary size. NaN and
  infinities, which Python's JSON reader accepts, are left out: with NaN the
  comparison at `tax_tool.py:124` is false and the status would be OK.
* A body is known by the JSON it is, which of the two parsers reads it (`readable`:
  the text that security decodes with `errors="replace"`, the bytes that the router
  parses), whether its query is missing or no string, the length of the query, which
  pattern lists match it, the role, and whether the remaining fields fit the schema.
  Where both parsers read a body they find the same in it. Regular expressions are
  not modelled. The length of a `user_id` is not either: the column holds 36
  characters, the schema allows more, and a save that fails for it is one of those
  that `SaveFails` stands for.
* Rows of the ERP are any subset of a set; the query sees one state of the
  table. SQL Server is external: `ORDER BY` may order rows of one time in any
  way, and a negative `TOP` is refused.
* The relevance of a document is a number; how words make it is left out. The
  port says scores are in [0, 1] (`rag_port.py:15`); the simulated adapter adds
  0.1 for each word of the title, so they may be above 1, and nothing but the
  ranking uses them.
* Which RAG adapter `_get_rag_adapter` makes is fixed by the settings: `Wiring` has
  the choice, the fallback without an OpenAI key, and the corpus that does not parse;
  `ToolRegistry` has the searches of both. The composition `RagService` is about
  Chroma, since the simulated one has no state. What the collection of Chroma holds
  is the subject of `ChromaIndex`; to `ToolRegistry` it is any corpus, and a search may
  come back without a look at it.
* `functools.lru_cache`, FastAPI's thread pool and Starlette's middleware stack
  are external, modelled from how the code uses them: `lru_cache` holds no lock
  while it calls the function and keeps the first object that is stored.
* The limiter's assumption that the limit is positive excludes
  `max_requests = 0`, for which the code raises (`rate_limit_middleware.py:55`).

Not modelled: the wording of messages, prompts and events; regular expressions;
the words of documents; SQL text beyond what the queries select; logging; deployment. Code without a
caller: `chat_completion` of the adapters, `Conversation.to_llm_messages`, the
metadata filter of the searches with `_match_operator`. The contents of the
history endpoints, which are read-only. `close_db` in a process that goes on
(deployed, a process ends with its lifespan), and the memory of `_windows`, which is not a state the
properties relate to.

## 6. State of the plan

Done: the loop, the requests and their table, the limiter and the gateway around
it, the wiring, the vector store and its use by requests, the streams, the tools;
proofs of every safety property that the runs check, but for the one that speaks
of ENABLED, and of the three refinements; for this one and the liveness properties,
proofs of what can be said without ENABLED and fairness; and for each claim that a run
refutes, a proof of when it holds.

What would come next, in this order:

1. `LlmStream` as the reader of `ReactOrchestrator`: a module that composes them,
   in which the chunks of a response are what an adapter makes of a stream, and the
   loss of calls is counted from the model's request to the tool that runs.
2. The requests with the loop inside: `AgentRun` in the place of `SendStep` and
   `SendAnswer` of `RunAgent`.
3. Scores of the simulated search from words, as a fold over the query.
4. `close_db` and a second `lifespan` in one process, if the server is ever run
   so.
