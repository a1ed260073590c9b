--------------------------- MODULE ConversationStore ---------------------------
(***************************************************************************)
(* What the conversations table promises to concurrent chat requests: a    *)
(* request opens a conversation on the history stored at that moment, and  *)
(* if it commits it replaces the stored history by the one it opened with  *)
(* followed by its own exchange, whatever was stored in between.           *)
(***************************************************************************)
EXTENDS Sequences

CONSTANTS
    Requests,       \* chat requests; each makes one exchange at most
    Ids,            \* conversation ids
    None            \* no conversation opened

VARIABLES
    history,        \* history[c]: the exchanges stored for c, oldest first
    phase,          \* phase[r]: "idle", "open", "committed" or "closed"
    target,         \* target[r]: the conversation r opened
    opened          \* opened[r]: the history r opened it with

vars == <<history, phase, target, opened>>

-----------------------------------------------------------------------------

Init ==
    /\ history = [c \in Ids |-> << >>]
    /\ phase = [r \in Requests |-> "idle"]
    /\ target = [r \in Requests |-> None]
    /\ opened = [r \in Requests |-> << >>]

Open(r, c) ==
    /\ phase[r] = "idle"
    /\ phase' = [phase EXCEPT ![r] = "open"]
    /\ target' = [target EXCEPT ![r] = c]
    /\ opened' = [opened EXCEPT ![r] = history[c]]
    /\ UNCHANGED history

Commit(r) ==
    /\ phase[r] = "open"
    /\ phase' = [phase EXCEPT ![r] = "committed"]
    /\ history' = [history EXCEPT ![target[r]] = Append(opened[r], r)]
    /\ UNCHANGED <<target, opened>>

Close(r) ==
    /\ phase[r] \in {"idle", "open"}
    /\ phase' = [phase EXCEPT ![r] = "closed"]
    /\ UNCHANGED <<history, target, opened>>

Next == \E r \in Requests : (\E c \in Ids : Open(r, c)) \/ Commit(r) \/ Close(r)

Spec == Init /\ [][Next]_vars
=============================================================================
