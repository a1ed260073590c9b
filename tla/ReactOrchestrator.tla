--------------------------- MODULE ReactOrchestrator ---------------------------
(***************************************************************************)
(* The reasoning loop of one chat request: ReactOrchestrator.run, the      *)
(* AgentState it drives and the LLM stream it reads.                       *)
(*                                                                         *)
(* run is an async generator that nothing interferes with between two      *)
(* suspension points (a yield of a step, the wait for a chunk, the wait    *)
(* for a tool): an action below is the code from one of them to the next,  *)
(* or to the loop head.  Texts are abstracted to the number of the response  *)
(* that produced them.                                                     *)
(***************************************************************************)
EXTENDS Integers, Sequences, SequencesExt

CONSTANTS
    Tools,          \* tool names a model may ask for, registered or not
    NoTool,         \* tool_call_data is None
    MaxIterations,  \* settings.AGENT_MAX_ITERATIONS
    MaxChunks       \* bound: chunks in one response (max_tokens of the provider)

ASSUME ToolsAssumption == NoTool \notin Tools
ASSUME BoundsAssumption == MaxIterations \in Nat /\ MaxChunks \in Nat

VARIABLES
    pc,             \* where the generator is suspended
    iteration,      \* state.current_iteration
    steps,          \* state.steps, which are also the steps yielded
    finalAnswer,    \* state.final_answer: NoAnswer, Fallback or a response
    text,           \* accumulated_text has a non-blank character
    toolCall,       \* tool_call_data
    asked,          \* tool calls of the current response that parsed
    received,       \* chunks received of the current response
    executed,       \* calls of ToolRegistry.execute, oldest first
    prompt          \* steps replayed in the messages of the current request

response == <<text, toolCall, asked, received>>
vars == <<pc, iteration, steps, finalAnswer, text, toolCall, asked, received,
          executed, prompt>>

NoAnswer == -1
Fallback == 0

\* A chunk is text, white space, a sentinel that does not parse, or the
\* sentinel of a call of the tool it names.
Plain == {"text", "blank", "malformed"}

Step(type, of, tool) == [type |-> type, of |-> of, tool |-> tool]

Steps == [type : {"thought", "action", "observation", "final_answer"},
          of : Nat, tool : Tools \union {NoTool}]

Calls == [turn : Nat, tool : Tools]

Ended == {"returned", "failed", "abandoned"}

-----------------------------------------------------------------------------

Init ==
    /\ pc = "loop"
    /\ iteration = 0
    /\ steps = << >>
    /\ finalAnswer = NoAnswer
    /\ text = FALSE
    /\ toolCall = NoTool
    /\ asked = << >>
    /\ received = 0
    /\ executed = << >>
    /\ prompt = << >>

\* Slip: one iteration too many.
IsDoneLate == finalAnswer # NoAnswer \/ iteration > MaxIterations

IsDone == finalAnswer # NoAnswer \/ iteration >= MaxIterations

\* The loop head is reached first, after an observation, and after an empty response.
AtLoopHead == pc \in {"loop", "observation"}

\* Slip: observations are left out of the messages.
BuildMessagesUnobserved(s) ==
    Restrict(s, {i \in DOMAIN s : s[i].type \in {"thought", "action"}})

\* _build_messages replays every step but a final answer; the message of a
\* step is kept under the position of the step.
BuildMessages(s) == Restrict(s, {i \in DOMAIN s : s[i].type # "final_answer"})

AddStep(step) ==
    /\ steps' = Append(steps, step)
    /\ finalAnswer' = IF step.type = "final_answer" THEN step.of ELSE finalAnswer
    /\ pc' = step.type

\* Slip: an iteration that follows a tool call is not counted.
BeginIterationUncounted ==
    /\ AtLoopHead
    /\ ~IsDone
    /\ iteration' = IF toolCall = NoTool THEN iteration + 1 ELSE iteration
    /\ prompt' = BuildMessages(steps)
    /\ text' = FALSE
    /\ toolCall' = NoTool
    /\ asked' = << >>
    /\ received' = 0
    /\ pc' = "streaming"
    /\ UNCHANGED <<steps, finalAnswer, executed>>

BeginIteration ==
    /\ AtLoopHead
    /\ ~IsDone
    /\ iteration' = iteration + 1
    /\ prompt' = BuildMessages(steps)
    /\ text' = FALSE
    /\ toolCall' = NoTool
    /\ asked' = << >>
    /\ received' = 0
    /\ pc' = "streaming"
    /\ UNCHANGED <<steps, finalAnswer, executed>>

ReceivePlain(chunk) ==
    /\ pc = "streaming"
    /\ received < MaxChunks
    /\ received' = received + 1
    /\ text' = (text \/ chunk = "text")
    /\ UNCHANGED <<pc, iteration, steps, finalAnswer, toolCall, asked, executed, prompt>>

\* Slip: the first call of a response wins.
ReceiveToolCallFirst(tool) ==
    /\ pc = "streaming"
    /\ received < MaxChunks
    /\ received' = received + 1
    /\ toolCall' = IF toolCall = NoTool THEN tool ELSE toolCall
    /\ asked' = Append(asked, tool)
    /\ UNCHANGED <<pc, iteration, steps, finalAnswer, text, executed, prompt>>

\* A later call of the same response takes the place of an earlier one.
ReceiveToolCall(tool) ==
    /\ pc = "streaming"
    /\ received < MaxChunks
    /\ received' = received + 1
    /\ toolCall' = tool
    /\ asked' = Append(asked, tool)
    /\ UNCHANGED <<pc, iteration, steps, finalAnswer, text, executed, prompt>>

AddAction == AddStep(Step("action", iteration, toolCall))

\* Slip: an empty response does not use up its iteration.
EndOfStreamRetried ==
    /\ pc = "streaming"
    /\ \/ text /\ AddStep(Step("thought", iteration, NoTool)) /\ UNCHANGED iteration
       \/ ~text /\ toolCall # NoTool /\ AddAction /\ UNCHANGED iteration
       \/ /\ ~text /\ toolCall = NoTool
          /\ pc' = "loop" /\ iteration' = iteration - 1
          /\ UNCHANGED <<steps, finalAnswer>>
    /\ UNCHANGED <<response, executed, prompt>>

EndOfStream ==
    /\ pc = "streaming"
    /\ \/ /\ text
          /\ AddStep(Step("thought", iteration, NoTool))
       \/ /\ ~text
          /\ toolCall # NoTool
          /\ AddAction
       \/ /\ ~text
          /\ toolCall = NoTool
          /\ pc' = "loop"
          /\ UNCHANGED <<steps, finalAnswer>>
    /\ UNCHANGED <<iteration, response, executed, prompt>>

ActAfterThought ==
    /\ pc = "thought"
    /\ toolCall # NoTool
    /\ AddAction
    /\ UNCHANGED <<iteration, response, executed, prompt>>

\* Slip: a thought is an answer even if the response also asked for a tool.
AnswerAfterAnyThought ==
    /\ pc = "thought"
    /\ AddStep(Step("final_answer", iteration, NoTool))
    /\ UNCHANGED <<iteration, response, executed, prompt>>

AnswerAfterThought ==
    /\ pc = "thought"
    /\ toolCall = NoTool
    /\ AddStep(Step("final_answer", iteration, NoTool))
    /\ UNCHANGED <<iteration, response, executed, prompt>>

CallTool ==
    /\ pc = "action"
    /\ executed' = Append(executed, [turn |-> iteration, tool |-> toolCall])
    /\ pc' = "executing"
    /\ UNCHANGED <<iteration, steps, finalAnswer, response, prompt>>

\* Slip: a tool that fails is not observed.
ToolReturnsUnobserved ==
    /\ pc = "executing"
    /\ pc' = "loop"
    /\ UNCHANGED <<iteration, steps, finalAnswer, response, executed, prompt>>

\* Slip: a tool that fails is called again in the same iteration.
ToolReturnsRetried ==
    /\ pc = "executing"
    /\ pc' = "action"
    /\ UNCHANGED <<iteration, steps, finalAnswer, response, executed, prompt>>

\* ToolRegistry.execute turns every failure into a result, so that a tool
\* always ends in an observation that names the tool.
ToolReturns ==
    /\ pc = "executing"
    /\ AddStep(Step("observation", iteration, toolCall))
    /\ UNCHANGED <<iteration, response, executed, prompt>>

GiveUp ==
    /\ AtLoopHead
    /\ IsDone
    /\ finalAnswer = NoAnswer
    /\ AddStep(Step("final_answer", Fallback, NoTool))
    /\ UNCHANGED <<iteration, response, executed, prompt>>

Return ==
    /\ pc = "final_answer"
    /\ pc' = "returned"
    /\ UNCHANGED <<iteration, steps, finalAnswer, response, executed, prompt>>

\* The request to the provider or its stream raises.
LlmFails ==
    /\ pc = "streaming"
    /\ pc' = "failed"
    /\ UNCHANGED <<iteration, steps, finalAnswer, response, executed, prompt>>

\* The client disconnects: cancellation reaches whatever the generator awaits.
Abandon ==
    /\ pc \notin Ended \union {"loop"}
    /\ pc' = "abandoned"
    /\ UNCHANGED <<iteration, steps, finalAnswer, response, executed, prompt>>

Terminated == pc \in Ended /\ UNCHANGED vars

Stream ==
    \/ \E chunk \in Plain : ReceivePlain(chunk)
    \/ \E tool \in Tools : ReceiveToolCall(tool)
    \/ EndOfStream

Proceed ==
    \/ BeginIteration
    \/ Stream
    \/ ActAfterThought
    \/ AnswerAfterThought
    \/ CallTool
    \/ ToolReturns
    \/ GiveUp
    \/ Return

Next == Proceed \/ LlmFails \/ Abandon \/ Terminated

Spec == Init /\ [][Next]_vars

\* The event loop resumes a suspended generator, the provider ends every
\* stream, tools return.  Nothing obliges the provider to fail or the client
\* to leave.
FairSpec == Spec /\ WF_vars(Proceed)

-----------------------------------------------------------------------------

TypeOK ==
    /\ pc \in {"loop", "streaming", "thought", "action", "executing",
               "observation", "final_answer"} \union Ended
    /\ iteration \in 0..MaxIterations
    /\ steps \in Seq(Steps)
    /\ finalAnswer \in {NoAnswer, Fallback} \union (1..MaxIterations)
    /\ text \in BOOLEAN
    /\ toolCall \in Tools \union {NoTool}
    /\ asked \in Seq(Tools)
    /\ received \in 0..MaxChunks
    /\ executed \in Seq(Calls)
    /\ DOMAIN prompt \subseteq Nat
    /\ \A i \in DOMAIN prompt : prompt[i] \in Steps

\* What may follow what in a list of steps.
MayFollow(a, b) ==
    \/ /\ a.type = "thought"
       /\ b.type \in {"action", "final_answer"}
       /\ b.of = a.of
    \/ /\ a.type = "action"
       /\ b.type = "observation"
       /\ b.of = a.of /\ b.tool = a.tool
    \/ /\ a.type = "observation"
       /\ b.type \in {"thought", "action"}
       /\ b.of > a.of
    \/ /\ a.type = "observation"
       /\ b.type = "final_answer"
       /\ b.of = Fallback

\* The steps a client is shown are whole rounds in the order of the responses:
\* a thought leads to the action or the answer of its own response, an action
\* to the observation of its own tool, and nothing follows the answer
\* (react_orchestrator.py:79-129).
StepGrammar ==
    /\ \A i \in 1..(Len(steps) - 1) : MayFollow(steps[i], steps[i + 1])
    /\ Len(steps) > 0 => /\ steps[1].type # "observation"
                         /\ steps[1].type = "final_answer" => steps[1].of = Fallback

\* The tool that runs is the last one the response asked for, at most once for
\* each response, and the observation shown is that of the tool that ran
\* (react_orchestrator.py:72-76, 90-110).
ToolFidelity ==
    /\ \A i, j \in DOMAIN executed : i < j => executed[i].turn < executed[j].turn
    /\ AtLoopHead /\ asked # << >> =>
         /\ executed # << >> /\ steps # << >>
         /\ Last(executed) = [turn |-> iteration, tool |-> Last(asked)]
         /\ Last(steps).tool = Last(asked)

\* No run asks the model for more than MaxIterations responses; it runs at most
\* one tool and shows at most three steps for each, and one answer: what a
\* request costs is bounded (agent.py:54-64, react_orchestrator.py:58-59).
BudgetKept ==
    /\ iteration <= MaxIterations
    /\ Len(executed) <= iteration
    /\ Len(steps) <= 3 * iteration + 1

\* The answer is the text of a response that asked for no tool, or, once every
\* iteration is used and no response was an answer, the fallback text; a run
\* that returns has one (react_orchestrator.py:112-129).
AnswerIsEarned ==
    /\ pc = "returned" => finalAnswer # NoAnswer
    /\ finalAnswer # NoAnswer => steps # << >> /\ Last(steps).of = finalAnswer
    /\ finalAnswer = Fallback => iteration = MaxIterations
    /\ finalAnswer > 0 => /\ text /\ asked = << >> /\ finalAnswer = iteration
                          /\ \A i \in DOMAIN executed : executed[i].turn < iteration

\* A request to the model replays whole rounds only: each action it replays is
\* followed by its observation, and every tool run so far is replayed
\* (react_orchestrator.py:131-150).
PromptIsClosed ==
    /\ \A i \in DOMAIN prompt : prompt[i].type = "action" =>
         /\ i + 1 \in DOMAIN prompt
         /\ prompt[i + 1] = Step("observation", prompt[i].of, prompt[i].tool)
    /\ pc = "streaming" =>
         \A j \in DOMAIN executed : \E i \in DOMAIN prompt :
            prompt[i] = Step("observation", executed[j].turn, executed[j].tool)

\* The module comment says a tool call is executed and observed
\* (react_orchestrator.py:8); a response may hold several.
EveryCallObserved ==
    AtLoopHead =>
      \A i \in DOMAIN asked : \E j \in DOMAIN executed :
          executed[j] = [turn |-> iteration, tool |-> asked[i]]

\* Every run that is neither failed nor abandoned returns, whatever the model
\* answers: no mixture of blank responses, malformed calls and tool calls keeps
\* the loop going (react_orchestrator.py:58-129).
Termination == <>(pc \in Ended)

Run == INSTANCE AgentRun WITH
    status <- CASE pc = "returned" -> "answered"
                [] pc \in {"failed", "abandoned"} -> pc
                [] OTHER -> "running",
    turn <- iteration, trail <- executed, answer <- finalAnswer

\* The loop implements the abstract run.
ImplementsRun == Run!Spec
=============================================================================
