------------------------------ MODULE MCRunAgent ------------------------------
(* The agent shows one step of one request, and the answer alone of the others. *)
EXTENDS RunAgent, TLC

Stepping == CHOOSE r \in Requests : TRUE

MCMaxSteps == [r \in Requests |-> IF r = Stepping THEN 1 ELSE 0]
=============================================================================
