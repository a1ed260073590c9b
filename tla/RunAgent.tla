-------------------------------- MODULE RunAgent --------------------------------
(***************************************************************************)
(* Concurrent chat requests over the conversations table: the streaming    *)
(* endpoint (agent_router.chat), RunAgentUseCase.execute, and the load and *)
(* the save of MySQLConversationAdapter.                                   *)
(*                                                                         *)
(* The server is one process with one event loop; requests interleave at   *)
(* every await and every event sent.  Each request works on a copy of the  *)
(* conversation of its own, read when it starts and written when it ends.  *)
(* The reasoning loop (module ReactOrchestrator) is reduced to the steps   *)
(* it yields.  A crash of the process is every open request disconnecting. *)
(***************************************************************************)
EXTENDS Naturals, Sequences, SequencesExt

CONSTANTS
    Requests,       \* chat requests, each with its own query and user
    Known,          \* conversation ids a client may bring along
    None,           \* no conversation id, no row, no conversation
    MaxSteps        \* bound: MaxSteps[r] steps are shown before the answer to r

ASSUME RequestsAssumption == None \notin Requests \union Known
ASSUME IdsAssumption == Requests \intersect Known = {}
ASSUME StepsAssumption == MaxSteps \in [Requests -> Nat]

\* uuid4 gives a request an id of its own, written as the request.
Ids == Known \union Requests

\* A message is the query of a request or the answer to it.  user is the request
\* that supplied the user_id of a conversation, context the one that supplied
\* user_context and rag_id.
Messages == [role : {"user", "assistant"}, by : Requests]
Conversations == [id : Ids, user : Requests, context : Requests, messages : Seq(Messages)]

ASSUME NoneAssumption == None \notin Conversations

VARIABLES
    pc,             \* pc[r]: where the request is suspended
    given,          \* given[r]: conversation_id of the request body
    conversation,   \* conversation[r]: the Conversation object of the request
    prompt,         \* prompt[r]: the messages the model is given as a dialogue
    events,         \* events[r]: SSE events sent, oldest first
    table,          \* table[c]: the row of conversation c
    committed,      \* ghost: requests whose MERGE was committed
    missed,         \* ghost: missed[r]: requests that committed after r loaded
    dbDown          \* ghost: requests the database failed before their answer

vars == <<pc, given, conversation, prompt, events, table, committed, missed, dbDown>>

User(r) == [role |-> "user", by |-> r]
Assistant(r) == [role |-> "assistant", by |-> r]

NewConversation(id, r) == [id |-> id, user |-> r, context |-> r, messages |-> << >>]

AddMessage(conv, message) == [conv EXCEPT !.messages = Append(@, message)]

Ended == {"done", "error", "gone"}

\* Which words of its keyword lists execute finds in the exception; only the
\* model's stream raises, since tools return their failures.
Exceptions == [llmWord : BOOLEAN, dbWord : BOOLEAN]

Classify(exc) ==
    CASE exc.llmWord -> "LLM_UNAVAILABLE"
      [] ~exc.llmWord /\ exc.dbWord -> "ERP_UNAVAILABLE"
      [] OTHER -> "AGENT_ERROR"

ErrorCodes == {"LLM_UNAVAILABLE", "ERP_UNAVAILABLE", "AGENT_ERROR", "INTERNAL_ERROR"}

-----------------------------------------------------------------------------

Init ==
    /\ pc = [r \in Requests |-> "idle"]
    /\ given = [r \in Requests |-> None]
    /\ conversation = [r \in Requests |-> None]
    /\ prompt = [r \in Requests |-> << >>]
    /\ events = [r \in Requests |-> << >>]
    /\ table = [c \in Ids |-> None]
    /\ committed = {}
    /\ missed = [r \in Requests |-> {}]
    /\ dbDown = {}

Goto(r, place) == pc' = [pc EXCEPT ![r] = place]

Send(r, event) == events' = [events EXCEPT ![r] = Append(@, event)]

\* The part of execute between the load and the first step: the query is added
\* to the conversation, and the agent is given the query alone.
StartAgent(r, conv) ==
    /\ conversation' = [conversation EXCEPT ![r] = AddMessage(conv, User(r))]
    /\ prompt' = [prompt EXCEPT ![r] = <<User(r)>>]
    /\ Goto(r, "running")

\* A client brings an id of its own, or one it got from a done event.
ReceiveWithId(r) ==
    /\ pc[r] = "idle"
    /\ \E c \in Known \union {q \in Requests : pc[q] = "done" /\ given[q] = None} :
          given' = [given EXCEPT ![r] = c]
    /\ Goto(r, "finding")
    /\ UNCHANGED <<conversation, prompt, events, table, committed, missed, dbDown>>

ReceiveWithoutId(r) ==
    /\ pc[r] = "idle"
    /\ StartAgent(r, NewConversation(r, r))
    /\ UNCHANGED <<given, events, table, committed, missed, dbDown>>

\* Slip: the stored conversation is ignored.
FindByIdForgets(r) ==
    /\ pc[r] = "finding"
    /\ StartAgent(r, NewConversation(given[r], r))
    /\ UNCHANGED <<given, events, table, committed, missed, dbDown>>

\* Slip: the context of a stored conversation is replaced by the request's.
FindByIdRefreshes(r) ==
    /\ pc[r] = "finding"
    /\ StartAgent(r, IF table[given[r]] = None
                     THEN NewConversation(given[r], r)
                     ELSE [table[given[r]] EXCEPT !.context = r])
    /\ UNCHANGED <<given, events, table, committed, missed, dbDown>>

FindById(r) ==
    /\ pc[r] = "finding"
    /\ StartAgent(r, IF table[given[r]] = None
                     THEN NewConversation(given[r], r)
                     ELSE table[given[r]])
    /\ UNCHANGED <<given, events, table, committed, missed, dbDown>>

\* find_by_id is called outside the try block of execute.
FindFails(r) ==
    /\ pc[r] = "finding"
    /\ Send(r, "INTERNAL_ERROR")
    /\ Goto(r, "error")
    /\ dbDown' = dbDown \union {r}
    /\ UNCHANGED <<given, conversation, prompt, table, committed, missed>>

\* A thought, an action or an observation; the observation may be that of an
\* ERP call the database refused.
SendStep(r) ==
    /\ pc[r] = "running"
    /\ Len(events[r]) < MaxSteps[r]
    /\ Send(r, "step")
    /\ \/ dbDown' = dbDown
       \/ dbDown' = dbDown \union {r}
    /\ UNCHANGED <<pc, given, conversation, prompt, table, committed, missed>>

\* Slip: the answer is saved without being sent.
SendAnswerNot(r) ==
    /\ pc[r] = "running"
    /\ Goto(r, "answered")
    /\ UNCHANGED <<given, conversation, prompt, events, table, committed, missed, dbDown>>

SendAnswer(r) ==
    /\ pc[r] = "running"
    /\ Send(r, "final_answer")
    /\ Goto(r, "answered")
    /\ UNCHANGED <<given, conversation, prompt, table, committed, missed, dbDown>>

\* Slip: the conversation is saved after a failure as well.
AgentFailsAndSaves(r) ==
    /\ pc[r] = "running"
    /\ \E exc \in Exceptions : Send(r, Classify(exc))
    /\ Goto(r, "saving")
    /\ UNCHANGED <<given, conversation, prompt, table, committed, missed, dbDown>>

\* Slip: a run that fails is put back as if it had never been received.
AgentFailsAndRequeues(r) ==
    /\ pc[r] = "running"
    /\ Goto(r, "idle")
    /\ UNCHANGED <<given, conversation, prompt, events, table, committed, missed, dbDown>>

\* Nothing is saved, and the query is lost with the request.
AgentFails(r) ==
    /\ pc[r] = "running"
    /\ \E exc \in Exceptions : Send(r, Classify(exc))
    /\ Goto(r, "error")
    /\ UNCHANGED <<given, conversation, prompt, table, committed, missed, dbDown>>

\* The generator is resumed after the answer.
AddAnswer(r) ==
    /\ pc[r] = "answered"
    /\ conversation' = [conversation EXCEPT ![r] = AddMessage(@, Assistant(r))]
    /\ Goto(r, "saving")
    /\ UNCHANGED <<given, prompt, events, table, committed, missed, dbDown>>

\* Slip: a row that exists is not updated.
MergeInsertOnly(row, conv) == IF row = None THEN conv ELSE row

\* The MERGE of save: a row that exists keeps its user_id.
Merge(row, conv) == IF row = None THEN conv ELSE [conv EXCEPT !.user = row.user]

\* MERGE is one transaction.  An error after the commit looks the same from
\* here: save's exceptions are swallowed.
SaveCommits(r) ==
    LET conv == conversation[r] IN
    /\ pc[r] = "saving"
    /\ table' = [table EXCEPT ![conv.id] = Merge(@, conv)]
    /\ committed' = committed \union {r}
    /\ missed' = [q \in Requests |->
                    IF /\ pc[q] \in {"running", "answered", "saving"}
                       /\ q # r /\ conversation[q].id = conv.id
                    THEN missed[q] \union {r} ELSE missed[q]]
    /\ Goto(r, "closing")
    /\ UNCHANGED <<given, conversation, prompt, events, dbDown>>

\* Slip: a save that fails ends the stream in an error.
SaveFailsLoudly(r) ==
    /\ pc[r] = "saving"
    /\ Send(r, "INTERNAL_ERROR")
    /\ Goto(r, "error")
    /\ UNCHANGED <<given, conversation, prompt, table, committed, missed, dbDown>>

SaveFails(r) ==
    /\ pc[r] = "saving"
    /\ Goto(r, "closing")
    /\ UNCHANGED <<given, conversation, prompt, events, table, committed, missed, dbDown>>

SendDone(r) ==
    /\ pc[r] = "closing"
    /\ Send(r, "done")
    /\ Goto(r, "done")
    /\ UNCHANGED <<given, conversation, prompt, table, committed, missed, dbDown>>

\* The client leaves: CancelledError is no Exception, so nothing more is sent
\* or saved; a save under way has committed (SaveCommits came first) or not.
Disconnect(r) ==
    /\ pc[r] \notin Ended \union {"idle"}
    /\ Goto(r, "gone")
    /\ UNCHANGED <<given, conversation, prompt, events, table, committed, missed, dbDown>>

Advance(r) ==
    \/ FindById(r) \/ FindFails(r)
    \/ SendStep(r) \/ SendAnswer(r) \/ AgentFails(r)
    \/ AddAnswer(r)
    \/ SaveCommits(r) \/ SaveFails(r)
    \/ SendDone(r)

AllEnded == (\A r \in Requests : pc[r] \in Ended) /\ UNCHANGED vars

Next ==
    \/ \E r \in Requests :
         ReceiveWithId(r) \/ ReceiveWithoutId(r) \/ Advance(r) \/ Disconnect(r)
    \/ AllEnded

Spec == Init /\ [][Next]_vars

\* The event loop resumes every request, the database answers or fails, and a
\* run of the agent ends (ReactOrchestrator!Termination).  Clients need not
\* send anything, nor leave.
FairSpec == Spec /\ \A r \in Requests : WF_vars(Advance(r))

-----------------------------------------------------------------------------

TypeOK ==
    /\ pc \in [Requests -> {"idle", "finding", "running", "answered", "saving",
                            "closing"} \union Ended]
    /\ given \in [Requests -> Ids \union {None}]
    /\ conversation \in [Requests -> Conversations \union {None}]
    /\ prompt \in [Requests -> Seq(Messages)]
    /\ events \in [Requests -> Seq({"step", "final_answer", "done"} \union ErrorCodes)]
    /\ table \in [Ids -> Conversations \union {None}]
    /\ committed \subseteq Requests
    /\ missed \in [Requests -> SUBSET Requests]
    /\ dbDown \subseteq Requests

\* The exchanges a list of messages holds.
Answered(messages) == {q \in Requests : Assistant(q) \in Range(messages)}

\* A stored transcript is made of whole exchanges: each query is followed by
\* the answer to it, and no request appears twice -- failures, disconnects and
\* overwrites never leave a query without its answer
\* (run_agent.py:81, 94-137, mysql_conversation_adapter.py:32-79).
TranscriptsAreExchanges ==
    \A c \in Ids : table[c] # None =>
      LET m == table[c].messages IN
      /\ table[c].id = c
      /\ Len(m) > 0 /\ Len(m) % 2 = 0
      /\ \A i \in 1..Len(m) : i % 2 = 1 =>
           \E q \in Requests : m[i] = User(q) /\ m[i + 1] = Assistant(q)
      /\ IsInjective(m)

\* No transcript holds an answer its client was not sent
\* (run_agent.py:97-100, 129-137).
StoredAnswersWereSent ==
    \A c \in Ids : table[c] # None =>
      \A q \in Answered(table[c].messages) :
         "final_answer" \in Range(events[q]) /\ conversation[q].id = c

\* An exchange that was saved is missing from its conversation only if a
\* request that had loaded it before saved after: requests that do not overlap
\* lose nothing (run_agent.py:68-69, 134-135).
LossNeedsOverlap ==
    \A r \in committed :
      LET c == conversation[r].id IN
      /\ table[c] # None
      /\ \/ r \in Answered(table[c].messages)
         \/ \E w \in committed : conversation[w].id = c /\ r \in missed[w]

\* The user and the context of a row come from one request, unless two
\* requests created the conversation at once (run_agent.py:73-79,
\* mysql_conversation_adapter.py:48-58).
MixedRowNeedsOverlap ==
    \A c \in Ids : table[c] # None /\ table[c].user # table[c].context =>
      table[c].user \in missed[table[c].context]

\* What a client is sent: steps, then at most one answer; done comes after an
\* answer, an error instead of one, and either is the last event
\* (run_agent.py:94-145, agent_router.py:45-109).
StreamGrammar ==
    \A r \in Requests :
      LET sent == events[r] IN
      /\ \A i \in 1..(Len(sent) - 1) :
           \/ sent[i] = "step" /\ sent[i + 1] # "done"
           \/ sent[i] = "final_answer" /\ sent[i + 1] = "done"
      /\ sent # <<"done">>
      /\ pc[r] = "done" <=> sent # << >> /\ Last(sent) = "done"
      /\ pc[r] = "error" <=> sent # << >> /\ Last(sent) \in ErrorCodes

\* A request that was received, with a conversation id or without one, is told
\* something final or its client has left (agent_router.py:45-109).
EveryRequestEnds ==
    \A r \in Requests : pc[r] \notin Ended \union {"idle"} ~> pc[r] \in Ended

\* Once a client has its answer it also gets done, whatever happens to the
\* save: a save that fails neither hangs the stream nor ends it in an error
\* (run_agent.py:134-145).
AnswerLeadsToDone ==
    \A r \in Requests : pc[r] = "answered" ~> pc[r] \in {"done", "gone"}

\* A save replaces a transcript by one that extends it ("Continue an existing
\* conversation", chat_request.py:15).
SaveExtends ==
    \A c \in Ids : table[c] # None =>
      \A r \in committed : conversation[r].id = c => r \in Answered(table[c].messages)

\* The model that answers a request of a conversation is given the messages of
\* that conversation (the multi-turn request of postman_collection.json:151-169).
ContinuationSeesHistory ==
    \A r \in Requests : pc[r] = "running" =>
      IsPrefix(conversation[r].messages, prompt[r])

\* A request the database failed before its answer ends in ERP_UNAVAILABLE
\* (run_agent.py:13, 41, postman_collection.json:325).
OutageIsReported ==
    \A r \in dbDown : pc[r] \in {"done", "error"} => Last(events[r]) = "ERP_UNAVAILABLE"

\* The exchanges in a list of messages, without those of q: queries stand at odd
\* places and the answer to each at the next one.
ExchangesBut(q, messages) ==
    [i \in {j \in 1..(Len(messages) \div 2) : messages[2 * j].by # q} |->
        messages[2 * i].by]

Store == INSTANCE ConversationStore WITH
    history <- [c \in Ids |-> IF table[c] = None THEN << >>
                              ELSE ExchangesBut(None, table[c].messages)],
    phase <- [r \in Requests |->
                CASE r \in committed -> "committed"
                  [] r \notin committed /\ pc[r] \in {"closing"} \union Ended -> "closed"
                  [] pc[r] \in {"idle", "finding"} -> "idle"
                  [] OTHER -> "open"],
    target <- [r \in Requests |-> IF conversation[r] = None THEN None
                                  ELSE conversation[r].id],
    opened <- [r \in Requests |-> IF conversation[r] = None THEN << >>
                                  ELSE ExchangesBut(r, conversation[r].messages)]

\* Requests and the table together implement the abstract store.
ImplementsStore == Store!Spec
=============================================================================
