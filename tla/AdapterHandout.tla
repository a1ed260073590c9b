------------------------------ MODULE AdapterHandout ------------------------------
(***************************************************************************)
(* What module Wiring promises about the RAG adapters of the requests: the *)
(* requests that come before an adapter is kept are each handed one that   *)
(* one of them made, the first of these is kept, and a request that comes  *)
(* later is handed the kept one.  An adapter is named by its maker; a set  *)
(* of at most one request stands for an adapter there may not be.          *)
(***************************************************************************)

CONSTANT Requests

VARIABLES
    stage,          \* stage[r]: "none", "asking", "handed", "without" or "gone"
    early,          \* requests that came before an adapter was kept
    handed,         \* handed[r]: the adapter r searches with
    kept            \* the adapter later requests are handed

handoutVars == <<stage, early, handed, kept>>

HandoutInit ==
    /\ stage = [r \in Requests |-> "none"]
    /\ early = {}
    /\ handed = [r \in Requests |-> {}]
    /\ kept = {}

Enter(r, place) == stage' = [stage EXCEPT ![r] = place]

Ask(r) ==
    /\ stage[r] = "none"
    /\ Enter(r, "asking")
    /\ early' = IF kept = {} THEN early \union {r} ELSE early
    /\ UNCHANGED <<handed, kept>>

HandKept(r) ==
    /\ stage[r] = "asking"
    /\ kept # {}
    /\ Enter(r, "handed")
    /\ handed' = [handed EXCEPT ![r] = kept]
    /\ UNCHANGED <<early, kept>>

HandMade(r) ==
    /\ stage[r] = "asking"
    /\ r \in early
    /\ Enter(r, "handed")
    /\ \E q \in early :
         /\ handed' = [handed EXCEPT ![r] = {q}]
         /\ kept' = IF kept = {} THEN {q} ELSE kept
    /\ UNCHANGED early

\* The request wants no orchestrator, or making one raised.
Refuse(r) ==
    /\ stage[r] = "asking"
    /\ Enter(r, "without")
    /\ UNCHANGED <<early, handed, kept>>

\* The process stops.
Forget ==
    /\ stage' = [r \in Requests |-> IF stage[r] = "none" THEN "none" ELSE "gone"]
    /\ early' = {}
    /\ handed' = [r \in Requests |-> {}]
    /\ kept' = {}

HandoutNext ==
    \/ \E r \in Requests : Ask(r) \/ HandKept(r) \/ HandMade(r) \/ Refuse(r)
    \/ Forget

HandoutSpec == HandoutInit /\ [][HandoutNext]_handoutVars
=============================================================================
