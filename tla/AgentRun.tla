------------------------------- MODULE AgentRun -------------------------------
(***************************************************************************)
(* What one run of the ReAct agent promises to its caller, independent of  *)
(* how responses are streamed and which steps are shown: it makes at most  *)
(* MaxIterations turns, runs at most one tool in a turn, and then answers  *)
(* exactly once -- with the text of the turn it is in, or with the         *)
(* fallback text when the turns are used up -- unless it fails or is       *)
(* abandoned by the client.                                                *)
(***************************************************************************)
EXTENDS Integers, Sequences

CONSTANTS
    Tools,          \* names a model may ask for
    MaxIterations   \* settings.AGENT_MAX_ITERATIONS

NoAnswer == -1      \* no FINAL_ANSWER step yet
Fallback == 0       \* the "maximum number of reasoning steps" text

VARIABLES
    status,         \* "running", "answered", "failed" or "abandoned"
    turn,           \* turns started
    trail,          \* tool executions, oldest first
    answer          \* NoAnswer, Fallback, or the turn whose text is the answer

vars == <<status, turn, trail, answer>>

-----------------------------------------------------------------------------

Init ==
    /\ status = "running"
    /\ turn = 0
    /\ trail = << >>
    /\ answer = NoAnswer

StartTurn ==
    /\ status = "running"
    /\ answer = NoAnswer
    /\ turn < MaxIterations
    /\ turn' = turn + 1
    /\ UNCHANGED <<status, trail, answer>>

\* A turn runs one tool at most.
UseTool ==
    /\ status = "running"
    /\ answer = NoAnswer
    /\ turn > 0
    /\ \A i \in DOMAIN trail : trail[i].turn < turn
    /\ \E t \in Tools : trail' = Append(trail, [turn |-> turn, tool |-> t])
    /\ UNCHANGED <<status, turn, answer>>

\* A turn that ran a tool does not answer.
AnswerFromModel ==
    /\ status = "running"
    /\ answer = NoAnswer
    /\ turn > 0
    /\ \A i \in DOMAIN trail : trail[i].turn < turn
    /\ answer' = turn
    /\ UNCHANGED <<status, turn, trail>>

GiveUp ==
    /\ status = "running"
    /\ answer = NoAnswer
    /\ turn = MaxIterations
    /\ answer' = Fallback
    /\ UNCHANGED <<status, turn, trail>>

Finish ==
    /\ status = "running"
    /\ answer # NoAnswer
    /\ status' = "answered"
    /\ UNCHANGED <<turn, trail, answer>>

\* Only a turn in progress can fail: after the answer nothing is asked of the model.
Fail ==
    /\ status = "running"
    /\ answer = NoAnswer
    /\ turn > 0
    /\ status' = "failed"
    /\ UNCHANGED <<turn, trail, answer>>

Abandon ==
    /\ status = "running"
    /\ status' = "abandoned"
    /\ UNCHANGED <<turn, trail, answer>>

Next == StartTurn \/ UseTool \/ AnswerFromModel \/ GiveUp \/ Finish \/ Fail \/ Abandon

Spec == Init /\ [][Next]_vars
=============================================================================
