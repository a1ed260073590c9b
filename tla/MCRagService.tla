------------------------------ MODULE MCRagService ------------------------------
(* Requests are interchangeable, and so are the adapters they make.              *)
EXTENDS RagService, TLC

RequestSymmetry == Permutations(Requests)
=============================================================================
