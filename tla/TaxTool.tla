-------------------------------- MODULE TaxTool --------------------------------
(***************************************************************************)
(* calculate_tax_discrepancy, as ToolRegistry calls it: the expected tax   *)
(* of an amount, rounded to cents, against a declared tax.                 *)
(*                                                                         *)
(* Money is counted exactly: amounts in cents, rates in thousandths, and   *)
(* taxes in thousandths of a cent, so that amount * rate is a tax.  The    *)
(* code computes with floats: of two cents that are equally near it picks  *)
(* either, depending on how the float falls.                               *)
(***************************************************************************)
EXTENDS Integers

CONSTANTS
    Amounts,        \* amounts, in cents; negative for a credit note
    Rates,          \* the rates of _TAX_RATES and _DEFAULT_RATE, in thousandths
    Declarations,   \* declared taxes, in thousandths of a cent
    Undeclared,     \* declared_tax is None
    Malformed       \* an argument that float() or the dictionary refuses

ASSUME MoneyAssumption ==
    Amounts \subseteq Int /\ Rates \subseteq Int /\ Declarations \subseteq Int
ASSUME SentinelAssumption == Undeclared \notin Int /\ Malformed \notin Int

VARIABLES
    amount, rate, declared,     \* the arguments, and the rate of the region
    pc,                         \* "idle", "called", "calculated" or "refused"
    expected, discrepancy,      \* in thousandths of a cent, whole cents
    status                      \* "none", "OK", "UNDER_DECLARED" or "OVER_DECLARED"

vars == <<amount, rate, declared, pc, expected, discrepancy, status>>

Cent == 1000

Magnitude(x) == IF x < 0 THEN -x ELSE x

\* round(x, 2): the whole cents next to x.
RoundToCents(x) ==
    {c \in {(x \div Cent) * Cent, (x \div Cent + 1) * Cent} : 2 * Magnitude(x - c) <= Cent}

-----------------------------------------------------------------------------

Init ==
    /\ amount = 0
    /\ rate = 0
    /\ declared = Undeclared
    /\ pc = "idle"
    /\ expected = 0
    /\ discrepancy = 0
    /\ status = "none"

\* The model names an amount, a region, which decides the rate, and perhaps a
\* declared tax.
Call ==
    /\ pc = "idle"
    /\ amount' \in Amounts \union {Malformed}
    /\ rate' \in Rates
    /\ declared' \in Declarations \union {Undeclared, Malformed}
    /\ pc' = "called"
    /\ UNCHANGED <<expected, discrepancy, status>>

\* Slip: the tolerance is left out.
StatusWithoutTolerance(d) ==
    CASE d = 0 -> "OK"
      [] d < 0 -> "UNDER_DECLARED"
      [] d > 0 -> "OVER_DECLARED"

\* The tolerance is one cent.
Status(d) ==
    CASE Magnitude(d) <= Cent -> "OK"
      [] d < -Cent -> "UNDER_DECLARED"
      [] d > Cent -> "OVER_DECLARED"

\* Slip: the declared tax is taken from the expected one.
CalculateSwapped ==
    /\ pc = "called"
    /\ amount # Malformed /\ declared # Malformed
    /\ \E e \in RoundToCents(amount * rate) :
         /\ expected' = e
         /\ declared' = IF declared = Undeclared THEN e ELSE declared
         /\ discrepancy' \in RoundToCents(e - declared')
    /\ status' = Status(discrepancy')
    /\ pc' = "calculated"
    /\ UNCHANGED <<amount, rate>>

\* An undeclared tax is taken to be the expected one.
Calculate ==
    /\ pc = "called"
    /\ amount # Malformed /\ declared # Malformed
    /\ \E e \in RoundToCents(amount * rate) :
         /\ expected' = e
         /\ declared' = IF declared = Undeclared THEN e ELSE declared
         /\ discrepancy' \in RoundToCents(declared' - e)
    /\ status' = Status(discrepancy')
    /\ pc' = "calculated"
    /\ UNCHANGED <<amount, rate>>

\* The registry turns the exception into a failed result.
Refuse ==
    /\ pc = "called"
    /\ amount = Malformed \/ declared = Malformed
    /\ pc' = "refused"
    /\ UNCHANGED <<amount, rate, declared, expected, discrepancy, status>>

Returned == pc \in {"calculated", "refused"} /\ UNCHANGED vars

Next == Call \/ Calculate \/ Refuse \/ Returned

Spec == Init /\ [][Next]_vars

-----------------------------------------------------------------------------

TypeOK ==
    /\ amount \in Amounts \union {0, Malformed}
    /\ rate \in Rates \union {0}
    /\ pc \in {"idle", "called", "calculated", "refused"}
    /\ pc = "calculated" => amount \in Int /\ declared \in Int
    /\ expected \in Int
    /\ discrepancy \in Int
    /\ status \in {"none", "OK", "UNDER_DECLARED", "OVER_DECLARED"}

\* How far the declared tax is from the exact one.
Error == declared - amount * rate

\* Two roundings and the tolerance together never hide a difference of more
\* than two cents, and never report one of less than one
\* (tax_tool.py:63, 116-126).
AlertIsAccurate ==
    pc = "calculated" =>
      /\ Magnitude(Error) > 2 * Cent => status # "OK"
      /\ Magnitude(Error) < Cent => status = "OK"

\* The returned discrepancy is the exact difference to a cent, and its sign, the
\* status and the exact difference agree, credit notes included: negative for a
\* tax that is under-declared, positive for one that is over-declared
\* (tax_tool.py:73, 122, 126-147).
StatusHasTheSign ==
    /\ pc = "calculated" => Magnitude(discrepancy - Error) <= Cent
    /\ status = "UNDER_DECLARED" => discrepancy < 0 /\ Error < 0
    /\ status = "OVER_DECLARED" => discrepancy > 0 /\ Error > 0
=============================================================================
