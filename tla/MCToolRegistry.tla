------------------------------ MODULE MCToolRegistry ------------------------------
(* Tax: amounts around multiples of the rates, a credit note among them, and        *)
(* declarations in tenths of a cent from four cents below zero to eight above.      *)
(* ERP: four rows, two of them created at once, and a user without any.             *)
(* Search: up to four documents, so that the default of three cuts.                 *)
EXTENDS ToolRegistry

SmallAmounts == -9..21
TableRates == {50, 81, 85, 100, 130, 200, 210, 250}
NearDeclarations == {100 * n : n \in -40..80}

MCRows == {
    [id |-> "s1", user |-> "u1", status |-> "moving", at |-> 1],
    [id |-> "s2", user |-> "u1", status |-> "delivered", at |-> 2],
    [id |-> "s3", user |-> "u2", status |-> "moving", at |-> 2],
    [id |-> "s4", user |-> "u1", status |-> "moving", at |-> 3]}
MCTexts == {Null, "", "s1", "s9", "u1", "u3", "moving"}
MCNumbers == -2..5 \union {Null, Malformed}
MCCorpora == UNION {[1..n -> 0..2] : n \in 0..4}
=============================================================================
