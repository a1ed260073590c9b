--------------------------- MODULE ToolRegistryProofs ---------------------------
(***************************************************************************)
(* The tax tool for every amount, rate and declaration; the rows and the   *)
(* documents that the registry returns for every table, corpus and         *)
(* argument.                                                               *)
(***************************************************************************)
EXTENDS ToolRegistry, FiniteSetTheorems, SequenceTheorems, TLAPS

\* What rounding may do to a tax: half a cent, and a whole number stays one.
LEMMA RoundingError ==
    ASSUME NEW x \in Int, NEW c \in RoundToCents(x)
    PROVE  /\ c \in Int /\ -500 <= x - c /\ x - c <= 500
           /\ \E n \in Int : c = n * 1000
<1>1. (x \div Cent) \in Int
  BY DEF Cent
<1>2. c \in {(x \div Cent) * Cent, (x \div Cent + 1) * Cent} /\ 2 * Magnitude(x - c) <= Cent
  BY DEF RoundToCents
<1>3. c \in Int
  BY <1>1, <1>2 DEF Cent
<1>4. -500 <= x - c /\ x - c <= 500
  BY <1>2, <1>3 DEF Magnitude, Cent
<1>5. \E n \in Int : c = n * 1000
  <2>1. CASE c = (x \div Cent) * Cent
    BY <1>1, <2>1 DEF Cent
  <2>2. CASE c = (x \div Cent + 1) * Cent
    <3>1. (x \div Cent + 1) \in Int
      BY <1>1
    <3> QED
      BY <2>2, <3>1 DEF Cent
  <2> QED
    BY <1>2, <2>1, <2>2
<1> QED
  BY <1>3, <1>4, <1>5

\* The two roundings together, for a tax p, its rounding e, a declared tax d
\* and the rounded difference x.
LEMMA TwoRoundings ==
    ASSUME NEW p \in Int, NEW e \in Int, NEW d \in Int, NEW x \in Int,
           -500 <= p - e, p - e <= 500,
           -500 <= d - e - x, d - e - x <= 500
    PROVE  d - p \in Int /\ -1000 <= (d - p) - x /\ (d - p) - x <= 1000
OBVIOUS

\* The status is decided by where the rounded difference lies.
LEMMA StatusOf ==
    ASSUME NEW x \in Int
    PROVE  /\ -1000 <= x /\ x <= 1000 => Status(x) = "OK"
           /\ x < -1000 => Status(x) = "UNDER_DECLARED"
           /\ x > 1000 => Status(x) = "OVER_DECLARED"
<1>1. CASE -1000 <= x /\ x <= 1000
  <2>1. Magnitude(x) <= Cent
    BY <1>1 DEF Magnitude, Cent
  <2>2. ~(x < -Cent) /\ ~(x > Cent)
    BY <1>1 DEF Cent
  <2> QED
    BY <1>1, <2>1, <2>2 DEF Status
<1>2. CASE x < -1000
  <2>1. ~(Magnitude(x) <= Cent) /\ x < -Cent /\ ~(x > Cent)
    BY <1>2 DEF Magnitude, Cent
  <2> QED
    BY <1>2, <2>1 DEF Status
<1>3. CASE x > 1000
  <2>1. ~(Magnitude(x) <= Cent) /\ ~(x < -Cent) /\ x > Cent
    BY <1>3 DEF Magnitude, Cent
  <2> QED
    BY <1>3, <2>1 DEF Status
<1> QED
  BY <1>1, <1>2, <1>3

\* What a calculation has found is the exact difference up to two roundings.
Explained ==
    pc = "calculated" =>
      /\ Error \in Int
      /\ -Cent <= Error - discrepancy /\ Error - discrepancy <= Cent
      /\ \E n \in Int : discrepancy = n * 1000
      /\ status = Status(discrepancy)

TaxInv == TypeOK /\ Explained /\ (pc # "calculated" => status = "none")

LEMMA TaxInit == Init => TaxInv
<1> SUFFICES ASSUME Init PROVE TaxInv
  OBVIOUS
<1> QED
  BY DEF Init, TaxInv, TypeOK, Explained

LEMMA CalculateKeeps ==
    ASSUME TaxInv, Calculate
    PROVE  TaxInv'
<1>1. amount \in Int /\ rate \in Int /\ amount' = amount /\ rate' = rate
  BY MoneyAssumption DEF TaxInv, TypeOK, Calculate
<1> DEFINE p == amount * rate
<1>2. p \in Int
  BY <1>1
<1>product. (amount * rate)' = p
  BY <1>1
<1> HIDE DEF p
<1>3. PICK e \in RoundToCents(p) :
         /\ expected' = e
         /\ declared' = IF declared = Undeclared THEN e ELSE declared
         /\ discrepancy' \in RoundToCents(declared' - e)
  BY DEF Calculate, p
<1>4. e \in Int /\ -500 <= p - e /\ p - e <= 500
  BY <1>2, <1>3, RoundingError
<1>5. declared' \in Int
  BY <1>3, <1>4, MoneyAssumption DEF Calculate
<1>6. declared' - e \in Int
  BY <1>4, <1>5
<1>7. /\ discrepancy' \in Int
      /\ -500 <= declared' - e - discrepancy' /\ declared' - e - discrepancy' <= 500
  BY <1>3, <1>6, RoundingError
<1>whole. \E n \in Int : discrepancy' = n * 1000
  BY <1>3, <1>6, RoundingError
<1>8. Error' = declared' - p
  BY <1>product DEF Error
<1>9. Explained'
  <2>1. Error' \in Int /\ -Cent <= Error' - discrepancy' /\ Error' - discrepancy' <= Cent
    <3>1. \A d, x \in Int :
            -500 <= d - e - x /\ d - e - x <= 500 =>
              d - p \in Int /\ -1000 <= (d - p) - x /\ (d - p) - x <= 1000
      BY <1>2, <1>4, TwoRoundings
    <3>2. /\ declared' - p \in Int
          /\ -1000 <= (declared' - p) - discrepancy'
          /\ (declared' - p) - discrepancy' <= 1000
      BY <1>5, <1>7, <3>1
    <3> QED
      BY <1>8, <3>2 DEF Cent
  <2>2. status' = Status(discrepancy')
    BY DEF Calculate
  <2> QED
    BY <1>whole, <2>1, <2>2, Zenon DEF Explained
<1>10. status' \in {"OK", "UNDER_DECLARED", "OVER_DECLARED"}
  <2>1. \/ -1000 <= discrepancy' /\ discrepancy' <= 1000
        \/ discrepancy' < -1000
        \/ discrepancy' > 1000
    BY <1>7
  <2> QED
    BY <1>7, <2>1, StatusOf DEF Calculate
<1>11. TypeOK'
  BY <1>1, <1>3, <1>4, <1>5, <1>7, <1>10 DEF TypeOK, TaxInv, Calculate
<1> QED
  BY <1>9, <1>11 DEF TaxInv, Calculate

LEMMA TaxNext == TaxInv /\ [Next]_vars => TaxInv'
<1> SUFFICES ASSUME TaxInv, [Next]_vars PROVE TaxInv'
  OBVIOUS
<1>1. CASE Calculate
  BY <1>1, CalculateKeeps
<1>2. CASE Call \/ Refuse
  BY <1>2 DEF TaxInv, TypeOK, Explained, Call, Refuse
<1>3. CASE UNCHANGED vars
  BY <1>3 DEF TaxInv, TypeOK, Explained, Error, vars
<1> QED
  BY <1>1, <1>2, <1>3 DEF Next, Returned

THEOREM TaxInvariance == Spec => []TaxInv
<1> QED
  BY TaxInit, TaxNext, PTL DEF Spec

\* Every result has its type, whatever the amounts and rates
\* (tax_tool.py:114-160).
THEOREM TypeCorrect == Spec => []TypeOK
<1>1. TaxInv => TypeOK
  BY DEF TaxInv
<1> QED
  BY <1>1, TaxInvariance, PTL

\* For every amount, rate and declaration, a difference of more than two cents
\* is reported and one of less than one is not (tax_tool.py:116-126).
THEOREM AlertsAreAccurate == Spec => []AlertIsAccurate
<1>1. TaxInv => AlertIsAccurate
  <2> SUFFICES ASSUME TaxInv, pc = "calculated"
               PROVE  /\ Magnitude(Error) > 2 * Cent => status # "OK"
                      /\ Magnitude(Error) < Cent => status = "OK"
    BY DEF AlertIsAccurate
  <2>1. /\ Error \in Int /\ discrepancy \in Int
        /\ -Cent <= Error - discrepancy /\ Error - discrepancy <= Cent
        /\ status = Status(discrepancy)
    BY DEF TaxInv, TypeOK, Explained
  <2>2. Magnitude(Error) > 2 * Cent => discrepancy < -1000 \/ discrepancy > 1000
    BY <2>1 DEF Magnitude, Cent
  <2>3. Magnitude(Error) < Cent => -1000 <= discrepancy /\ discrepancy <= 1000
    <3> SUFFICES ASSUME Magnitude(Error) < Cent
                 PROVE  -1000 <= discrepancy /\ discrepancy <= 1000
      OBVIOUS
    <3>1. -2000 < discrepancy /\ discrepancy < 2000
      BY <2>1 DEF Magnitude, Cent
    <3>2. PICK n \in Int : discrepancy = n * 1000
      BY DEF TaxInv, Explained
    <3> QED
      BY <3>1, <3>2
  <2> QED
    BY <2>1, <2>2, <2>3, StatusOf
<1> QED
  BY <1>1, TaxInvariance, PTL

\* For every amount, rate and declaration, the discrepancy is the exact one to a
\* cent, and its sign and the status name the side on which the declared tax is
\* wrong (tax_tool.py:122-147).
THEOREM StatusesHaveTheSign == Spec => []StatusHasTheSign
<1>1. TaxInv => StatusHasTheSign
  <2> SUFFICES ASSUME TaxInv
               PROVE  StatusHasTheSign
    OBVIOUS
  <2>1. CASE pc # "calculated"
    BY <2>1 DEF TaxInv, StatusHasTheSign
  <2>2. CASE pc = "calculated"
    <3>1. /\ Error \in Int /\ discrepancy \in Int
          /\ -1000 <= Error - discrepancy /\ Error - discrepancy <= 1000
          /\ status = Status(discrepancy)
      BY <2>2 DEF TaxInv, TypeOK, Explained, Cent
    <3>range. \/ -1000 <= discrepancy /\ discrepancy <= 1000
              \/ discrepancy < -1000
              \/ discrepancy > 1000
      BY <3>1
    <3>status. /\ -1000 <= discrepancy /\ discrepancy <= 1000 => status = "OK"
               /\ discrepancy < -1000 => status = "UNDER_DECLARED"
               /\ discrepancy > 1000 => status = "OVER_DECLARED"
      <4>1. PICK x \in Int : x = discrepancy
        BY <3>1
      <4>2. /\ -1000 <= x /\ x <= 1000 => Status(x) = "OK"
            /\ x < -1000 => Status(x) = "UNDER_DECLARED"
            /\ x > 1000 => Status(x) = "OVER_DECLARED"
        BY StatusOf
      <4> QED
        BY <3>1, <4>1, <4>2
    <3>2. Magnitude(discrepancy - Error) <= Cent
      BY <3>1 DEF Magnitude, Cent
    <3>3. status = "UNDER_DECLARED" => discrepancy < 0 /\ Error < 0
      <4>1. status = "UNDER_DECLARED" => discrepancy < -1000
        BY <3>range, <3>status
      <4> QED
        BY <3>1, <4>1
    <3>4. status = "OVER_DECLARED" => discrepancy > 0 /\ Error > 0
      <4>1. status = "OVER_DECLARED" => discrepancy > 1000
        BY <3>range, <3>status
      <4> QED
        BY <3>1, <4>1
    <3> QED
      BY <3>2, <3>3, <3>4 DEF StatusHasTheSign
  <2> QED
    BY <2>1, <2>2
<1> QED
  BY <1>1, TaxInvariance, PTL

-----------------------------------------------------------------------------

\* The registry calls the tax tool and changes nothing of it otherwise
\* (tool_registry.py:145-146, 203-209).
THEOREM RegistryRunsTheTaxTool == ToolSpec => Spec
<1>1. ToolInit => Init
  BY DEF ToolInit
<1>2. [ToolNext]_<<vars, registryVars>> => [Next]_vars
  BY DEF ToolNext, Execute, GetRow, ListRows, QueryFails, Search, SearchFails, TaxStep,
     Ended, Next
<1> QED
  BY <1>1, <1>2, PTL DEF ToolSpec, Spec

\* What the alerts promise holds of the tool as the registry runs it.
THEOREM RegistryAlerts == ToolSpec => [](AlertIsAccurate /\ StatusHasTheSign)
<1> QED
  BY RegistryRunsTheTaxTool, AlertsAreAccurate, StatusesHaveTheSign, PTL

-----------------------------------------------------------------------------

\* A sequence of all elements of a finite set has each of them once.
LEMMA EachOnce ==
    ASSUME NEW S, IsFiniteSet(S), NEW p \in SetToSeqs(S)
    PROVE  /\ p \in Seq(S)
           /\ Len(p) = Cardinality(S) /\ Len(p) \in Nat /\ DOMAIN p = 1..Len(p)
           /\ \A i, j \in DOMAIN p : i # j => p[i] # p[j]
           /\ \A x \in S : \E i \in DOMAIN p : p[i] = x
<1> DEFINE n == Cardinality(S)
<1>1. n \in Nat
  BY FS_CardinalityType
<1>2. p \in [1..n -> S] /\ \A i, j \in 1..n : i # j => p[i] # p[j]
  BY DEF SetToSeqs
<1>3. p \in Seq(S) /\ Len(p) = n /\ DOMAIN p = 1..n
  BY <1>1, <1>2
<1>4. p \in Injection(1..n, S)
  BY <1>2 DEF Injection, IsInjective
<1>5. Cardinality(1..n) = n /\ IsFiniteSet(1..n)
  BY <1>1, FS_Interval
<1>6. p \in Surjection(1..n, S)
  BY <1>4, <1>5, FS_Injection
<1>7. \A x \in S : \E i \in 1..n : p[i] = x
  BY <1>6 DEF Surjection
<1> QED
  BY <1>1, <1>2, <1>3, <1>7

\* As many values as places, when no value comes twice.
LEMMA SizeOfRange ==
    ASSUME NEW S, NEW f \in Seq(S), \A i, j \in DOMAIN f : i # j => f[i] # f[j]
    PROVE  Cardinality({f[i] : i \in DOMAIN f}) = Len(f)
<1> DEFINE R == {f[i] : i \in DOMAIN f}
<1>1. Len(f) \in Nat /\ DOMAIN f = 1..Len(f) /\ f \in [1..Len(f) -> R]
  BY SMT
<1>2. f \in Injection(1..Len(f), R) /\ f \in Surjection(1..Len(f), R)
  BY <1>1 DEF Injection, Surjection, IsInjective
<1>3. ExistsBijection(1..Len(f), R)
  BY <1>2 DEF ExistsBijection, Bijection
<1> QED
  BY <1>1, <1>3, FS_CountingElements

\* The first n elements of a sequence.
LEMMA FirstOfIs ==
    ASSUME NEW S, NEW p \in Seq(S), NEW n \in Nat
    PROVE  /\ FirstOf(p, n) \in Seq(S)
           /\ Len(FirstOf(p, n)) = IF n < Len(p) THEN n ELSE Len(p)
           /\ \A i \in 1..Len(FirstOf(p, n)) : FirstOf(p, n)[i] = p[i]
<1>1. CASE n < Len(p)
  <2>1. \A i \in 1..n : p[i] \in S
    BY <1>1
  <2>2. /\ SubSeq(p, 1, n) \in Seq(S)
        /\ Len(SubSeq(p, 1, n)) = IF 1 <= n THEN n - 1 + 1 ELSE 0
        /\ \A i \in 1..(n - 1 + 1) : SubSeq(p, 1, n)[i] = p[1 + i - 1]
    BY <2>1, SubSeqProperties
  <2>3. Len(SubSeq(p, 1, n)) = n
    BY <2>2
  <2>4. \A i \in 1..n : SubSeq(p, 1, n)[i] = p[i]
    BY <2>2
  <2> QED
    BY <1>1, <2>2, <2>3, <2>4 DEF FirstOf
<1>2. CASE ~(n < Len(p))
  BY <1>2 DEF FirstOf
<1> QED
  BY <1>1, <1>2

\* A slice is a beginning of the sequence, of n elements if there are so many and
\* n does not count from the end.
LEMMA SliceIs ==
    ASSUME NEW S, NEW p \in Seq(S), NEW n \in Int
    PROVE  /\ Slice(p, n) \in Seq(S)
           /\ Len(Slice(p, n)) <= Len(p)
           /\ n >= 0 => Len(Slice(p, n)) = IF n < Len(p) THEN n ELSE Len(p)
           /\ \A i \in 1..Len(Slice(p, n)) : Slice(p, n)[i] = p[i]
<1> DEFINE last == IF n < 0 THEN Len(p) + n ELSE n
<1>1. last \in Int /\ Len(p) \in Nat /\ (n < 0 => last < Len(p)) /\ (n >= 0 => last = n)
  OBVIOUS
<1>2. Slice(p, n) = IF last < 1 THEN << >> ELSE FirstOf(p, last)
  BY DEF Slice
<1> HIDE DEF last
<1>3. CASE last < 1
  <2>1. Slice(p, n) = << >>
    BY <1>2, <1>3
  <2> QED
    BY <1>1, <1>3, <2>1
<1>4. CASE ~(last < 1)
  <2>1. last \in Nat
    BY <1>1, <1>4
  <2>2. Slice(p, n) = FirstOf(p, last)
    BY <1>2, <1>4
  <2>3. /\ FirstOf(p, last) \in Seq(S)
        /\ Len(FirstOf(p, last)) = IF last < Len(p) THEN last ELSE Len(p)
        /\ \A i \in 1..Len(FirstOf(p, last)) : FirstOf(p, last)[i] = p[i]
    BY <2>1, FirstOfIs
  <2> QED
    BY <1>1, <2>1, <2>2, <2>3
<1> QED
  BY <1>3, <1>4

-----------------------------------------------------------------------------

\* f holds the n newest rows of S, or all if there are fewer.
NewestRows(f, S, n) ==
    /\ f \in Seq(S)
    /\ Cardinality({f[i] : i \in DOMAIN f}) = Len(f)
    /\ Len(f) <= n
    /\ \A i, j \in DOMAIN f : i < j => f[i].at >= f[j].at
    /\ \A row \in S \ {f[i] : i \in DOMAIN f} :
         Len(f) = n /\ \A i \in DOMAIN f : f[i].at >= row.at
    /\ f = << >> => S = {} \/ n = 0

\* That is what a query for the n newest rows of S returns.
LEMMA NewestIs ==
    ASSUME NEW S, IsFiniteSet(S), \A row \in S : row.at \in Int,
           NEW n \in Nat, NEW f \in Newest(S, n)
    PROVE  NewestRows(f, S, n)
<1>1. PICK p \in SetToSeqs(S) :
        f = FirstOf(p, n) /\ \A i, j \in DOMAIN p : i < j => p[i].at >= p[j].at
  BY DEF Newest, Ordered, InOrder
<1>2. p \in Seq(S) /\ Len(p) \in Nat /\ DOMAIN p = 1..Len(p)
  BY EachOnce
<1>once. \A i, j \in DOMAIN p : i # j => p[i] # p[j]
  BY EachOnce
<1>all. \A x \in S : \E i \in DOMAIN p : p[i] = x
  BY EachOnce
<1>3. /\ f \in Seq(S) /\ Len(f) = (IF n < Len(p) THEN n ELSE Len(p))
      /\ \A i \in 1..Len(f) : f[i] = p[i]
  BY <1>1, <1>2, FirstOfIs
<1>long. Len(p) \in Nat /\ Len(f) = (IF n < Len(p) THEN n ELSE Len(p))
  BY <1>2, <1>3
<1>4. Len(f) \in Nat /\ Len(f) <= n /\ Len(f) <= Len(p) /\ (Len(f) < Len(p) => Len(f) = n)
  BY <1>long
<1>dom. DOMAIN f = 1..Len(f)
  BY <1>3
<1>sub. DOMAIN f \subseteq DOMAIN p
  <2>1. DOMAIN p = 1..Len(p)
    BY <1>2
  <2>2. 1..Len(f) \subseteq 1..Len(p)
    BY <1>long, <1>4
  <2> QED
    BY <1>dom, <2>1, <2>2
<1>5. \A i \in DOMAIN f : f[i] = p[i]
  BY <1>3, <1>dom
<1>6. \A i, j \in DOMAIN f : (i # j => f[i] # f[j]) /\ (i < j => f[i].at >= f[j].at)
  <2> TAKE i, j \in DOMAIN f
  <2>1. i \in DOMAIN p /\ j \in DOMAIN p /\ f[i] = p[i] /\ f[j] = p[j]
    BY <1>sub, <1>5
  <2> QED
    BY <1>1, <1>once, <2>1
<1>7. Cardinality({f[i] : i \in DOMAIN f}) = Len(f)
  BY <1>3, <1>6, SizeOfRange
<1>8. ASSUME NEW row \in S \ {f[i] : i \in DOMAIN f}
      PROVE  Len(f) = n /\ \A i \in DOMAIN f : f[i].at >= row.at
  <2>1. PICK k \in DOMAIN p : p[k] = row
    BY <1>all
  <2>2. k \notin DOMAIN f
    BY <1>5, <2>1
  <2>3. k \in 1..Len(p) /\ k \notin 1..Len(f)
    BY <1>2, <1>dom, <2>2
  <2>4. Len(f) < k /\ Len(f) < Len(p)
    BY <1>long, <1>4, <2>3
  <2>5. \A i \in DOMAIN f : i \in DOMAIN p /\ i < k
    BY <1>4, <1>dom, <1>sub, <2>3, <2>4
  <2>6. \A i \in DOMAIN f : p[i].at >= p[k].at
    BY <1>1, <2>5
  <2> QED
    BY <1>4, <1>5, <2>1, <2>4, <2>6
<1>9. ASSUME f = << >>, n # 0
      PROVE  S = {}
  <2>1. Len(f) = 0
    BY <1>9
  <2>2. Len(p) = 0
    BY <1>4, <1>long, <1>9, <2>1
  <2> QED
    BY <1>2, <1>all, <2>2
<1> QED
  BY <1>3, <1>4, <1>6, <1>7, <1>8, <1>9 DEF NewestRows

\* What is left of the documents p when those that score nothing go.
LEMMA RelevantIs ==
    ASSUME NEW scores \in Seq(Nat), NEW p \in Seq(DOMAIN scores),
           NEW f \in Relevant(p, scores)
    PROVE  /\ f \in Seq(DOMAIN scores) /\ Len(f) <= Len(p)
           /\ \A i \in DOMAIN f : scores[f[i]] > 0 /\ \E a \in DOMAIN p : f[i] = p[a]
           /\ \A i, j \in DOMAIN f : i < j =>
                \E a, b \in DOMAIN p : a < b /\ f[i] = p[a] /\ f[j] = p[b]
           /\ \A a \in DOMAIN p : scores[p[a]] > 0 => \E i \in DOMAIN f : f[i] = p[a]
           /\ (\A a \in DOMAIN p : scores[p[a]] > 0) => Len(f) = Len(p)
<1> DEFINE places == {i \in DOMAIN p : scores[p[i]] > 0}
<1>1. PICK kept \in SetToSeqs(places) :
        /\ f = [i \in DOMAIN kept |-> p[kept[i]]]
        /\ \A i, j \in DOMAIN kept : i < j => kept[i] < kept[j]
  BY DEF Relevant, InOrder
<1>2. Len(p) \in Nat /\ DOMAIN p = 1..Len(p) /\ places \subseteq DOMAIN p
  <2>1. Len(p) \in Nat /\ DOMAIN p = 1..Len(p)
    OBVIOUS
  <2>2. places \subseteq DOMAIN p
    BY Zenon
  <2> QED
    BY <2>1, <2>2
<1>3. IsFiniteSet(1..Len(p)) /\ Cardinality(1..Len(p)) = Len(p)
  <2>1. /\ IsFiniteSet(1..Len(p))
        /\ Cardinality(1..Len(p)) = IF 1 > Len(p) THEN 0 ELSE Len(p) - 1 + 1
    <3>1. Len(p) \in Int
      BY <1>2
    <3> QED
      BY <3>1, FS_Interval
  <2> QED
    BY <1>2, <2>1
<1>4. IsFiniteSet(places) /\ Cardinality(places) <= Len(p)
  <2>1. places \in SUBSET (1..Len(p))
    BY <1>2
  <2> QED
    BY <1>3, <2>1, FS_Subset
<1>5. \A i \in places : i \in DOMAIN p /\ scores[p[i]] > 0 /\ p[i] \in DOMAIN scores
  OBVIOUS
<1>all. (\A a \in DOMAIN p : scores[p[a]] > 0) => places = 1..Len(p)
  BY <1>2
<1>in. \A a \in DOMAIN p : scores[p[a]] > 0 => a \in places
  OBVIOUS
<1> HIDE DEF places
<1>6. /\ kept \in Seq(places) /\ Len(kept) = Cardinality(places) /\ Len(kept) \in Nat
      /\ DOMAIN kept = 1..Len(kept)
      /\ \A x \in places : \E i \in DOMAIN kept : kept[i] = x
  BY <1>4, EachOnce
<1>7. \A i \in DOMAIN kept : kept[i] \in places
  BY <1>6
<1>8. f \in Seq(DOMAIN scores) /\ Len(f) = Len(kept) /\ DOMAIN f = DOMAIN kept
  <2>1. \A i \in 1..Len(kept) : p[kept[i]] \in DOMAIN scores
    BY <1>5, <1>6, <1>7
  <2>2. f = [i \in 1..Len(kept) |-> p[kept[i]]]
    BY <1>1, <1>6
  <2>3. f \in Seq(DOMAIN scores) /\ Len(f) = Len(kept)
    <3> DEFINE n == Len(kept)
               g(i) == p[kept[i]]
    <3>1. n \in Nat /\ \A i \in 1..n : g(i) \in DOMAIN scores
      BY <1>6, <2>1
    <3>2. f = [i \in 1..n |-> g(i)]
      BY <2>2
    <3> HIDE DEF n, g
    <3>3. f \in Seq(DOMAIN scores) /\ Len(f) = n
      BY <3>1, <3>2
    <3> QED
      BY <3>3 DEF n
  <2> QED
    BY <1>6, <2>2, <2>3
<1>9. \A i \in DOMAIN f : f[i] = p[kept[i]]
  BY <1>1, <1>8
<1>10. \A i \in DOMAIN f : scores[f[i]] > 0 /\ \E a \in DOMAIN p : f[i] = p[a]
  BY <1>5, <1>7, <1>8, <1>9
<1>11. \A i, j \in DOMAIN f : i < j =>
         \E a, b \in DOMAIN p : a < b /\ f[i] = p[a] /\ f[j] = p[b]
  BY <1>1, <1>5, <1>7, <1>8, <1>9
<1>12. \A a \in DOMAIN p : scores[p[a]] > 0 => \E i \in DOMAIN f : f[i] = p[a]
  BY <1>6, <1>8, <1>9, <1>in
<1>13. (\A a \in DOMAIN p : scores[p[a]] > 0) => Len(f) = Len(p)
  BY <1>3, <1>6, <1>8, <1>all
<1> QED
  BY <1>4, <1>6, <1>8, <1>10, <1>11, <1>12, <1>13
-----------------------------------------------------------------------------

\* A query is under way only for a call that did not raise at once, and whatever
\* was returned has the three properties.
RegistryInv ==
    /\ outcome = "waiting" => call \in ErpCalls \union RagCalls /\ ~Raises(call)
    /\ AbsenceIsReal
    /\ ListIsNewest
    /\ SearchIsBest

LEMMA RegistryInit == ToolInit => RegistryInv
<1> SUFFICES ASSUME ToolInit PROVE RegistryInv
  OBVIOUS
<1>1. outcome = "none"
  BY DEF ToolInit
<1> QED
  BY <1>1 DEF RegistryInv, AbsenceIsReal, ListIsNewest, SearchIsBest

\* Without a result there is nothing to show.
LEMMA NoResult ==
    ASSUME outcome' # "ok"
    PROVE  AbsenceIsReal' /\ ListIsNewest' /\ SearchIsBest'
BY DEF AbsenceIsReal, ListIsNewest, SearchIsBest

LEMMA ExecuteInv ==
    ASSUME RegistryInv, NEW c \in ErpCalls \union RagCalls \union UnknownCalls, Execute(c)
    PROVE  RegistryInv'
<1>1. outcome' # "ok" /\ call' = c
  BY DEF Execute
<1>2. ASSUME outcome' = "waiting"
      PROVE  call' \in ErpCalls \union RagCalls /\ ~Raises(call')
  <2>1. ~Raises(c)
    BY <1>2 DEF Execute
  <2>2. c \notin UnknownCalls
    BY <2>1 DEF Raises, UnknownCalls
  <2> QED
    BY <1>1, <2>1, <2>2
<1> QED
  BY <1>1, <1>2, NoResult DEF RegistryInv

\* The kinds of calls, by their names.
LEMMA GetCalls ==
    ASSUME NEW c \in ErpCalls \union RagCalls, c.tool = "get_erp_data", c.action = "get"
    PROVE  c \in [tool : {"get_erp_data"}, action : {"get"}, id : Texts]
BY DEF ErpCalls, RagCalls

LEMMA ListCalls ==
    ASSUME NEW c \in ErpCalls \union RagCalls, c.tool = "get_erp_data", c.action = "list"
    PROVE  c \in [tool : {"get_erp_data"}, action : {"list"},
                  user : Texts, status : Texts, limit : Numbers]
BY DEF ErpCalls, RagCalls

LEMMA SearchCalls ==
    ASSUME NEW c \in ErpCalls \union RagCalls, c.tool = "search_regulations"
    PROVE  c \in RagCalls
BY DEF ErpCalls, RagCalls

\* A number that int() accepts, or its default.
LEMMA DefaultIs ==
    ASSUME NEW n \in Numbers, n # Malformed, NEW d \in Int
    PROVE  Default(n, d) \in Int /\ Default(n, d) = IF n = Null THEN d ELSE n
BY NumberAssumption DEF Default

LEMMA TablesAreFinite ==
    ASSUME NEW table \in SUBSET Rows, NEW S \in SUBSET table
    PROVE  IsFiniteSet(S) /\ \A row \in S : row.at \in Int
<1>1. S \in SUBSET Rows
  OBVIOUS
<1> QED
  BY <1>1, TableAssumption, FS_Subset

LEMMA GetInv ==
    ASSUME RegistryInv, GetRow
    PROVE  RegistryInv'
<1>1. /\ call' = call /\ call.tool = "get_erp_data" /\ call.action = "get" /\ outcome' = "ok"
  BY DEF GetRow
<1>2. PICK table \in SUBSET Rows :
        source' = table /\ result' \in Newest({row \in table : row.id = call.id}, 1)
  BY DEF GetRow
<1> DEFINE S == {row \in table : row.id = call.id}
<1>3. IsFiniteSet(S) /\ \A row \in S : row.at \in Int
  <2>1. S \in SUBSET table
    OBVIOUS
  <2> QED
    BY <2>1, TablesAreFinite
<1>4. result' = << >> => S = {}
  <2>1. PICK T \in SUBSET Rows : T = S
    OBVIOUS
  <2>2. PICK r \in Newest(T, 1) : r = result'
    BY <1>2, <2>1
  <2>3. 1 \in Nat /\ IsFiniteSet(T) /\ \A row \in T : row.at \in Int
    BY <1>3, <2>1
  <2>4. NewestRows(r, T, 1)
    BY <2>3, NewestIs
  <2> QED
    BY <2>1, <2>2, <2>4 DEF NewestRows
<1>5. AbsenceIsReal'
  BY <1>1, <1>2, <1>4 DEF AbsenceIsReal
<1>6. ListIsNewest' /\ SearchIsBest'
  BY <1>1 DEF ListIsNewest, SearchIsBest
<1> QED
  BY <1>1, <1>5, <1>6 DEF RegistryInv

LEMMA ListInv ==
    ASSUME RegistryInv, ListRows
    PROVE  RegistryInv'
<1> DEFINE n == Default(call.limit, 20)
<1>1. /\ call' = call /\ call.tool = "get_erp_data" /\ call.action = "list"
      /\ outcome = "waiting" /\ outcome' = "ok" /\ n >= 0
  BY DEF ListRows
<1>2. PICK table \in SUBSET Rows :
        source' = table /\ result' \in Newest({row \in table : Matches(row, call)}, n)
  BY DEF ListRows
<1> DEFINE S == {row \in table : Matches(row, call)}
<1>3. call.limit \in Numbers /\ call.limit # Malformed
  <2>1. call \in ErpCalls \union RagCalls /\ ~Raises(call)
    BY <1>1 DEF RegistryInv
  <2> QED
    BY <1>1, <2>1, ListCalls DEF Raises
<1>4. n \in Nat /\ n = IF call.limit = Null THEN 20 ELSE call.limit
  <2>1. 20 \in Int
    OBVIOUS
  <2>2. n \in Int /\ n = IF call.limit = Null THEN 20 ELSE call.limit
    BY <1>3, <2>1, DefaultIs
  <2> QED
    BY <1>1, <2>2
<1>5. IsFiniteSet(S) /\ \A row \in S : row.at \in Int
  <2>1. S \in SUBSET table
    OBVIOUS
  <2> QED
    BY <2>1, TablesAreFinite
<1>6. Wanted' = S
  <2>1. \A row \in table :
          Matches(row, call) <=> call.user \in {Null, "", row.user}
                                 /\ call.status \in {Null, "", row.status}
    <3>1. \A x, y : (x \notin {Null, ""} => y = x) <=> x \in {Null, "", y}
      BY Zenon
    <3> QED
      BY <3>1, Zenon DEF Matches, Given
  <2>2. Wanted' = {row \in table : call.user \in {Null, "", row.user}
                                   /\ call.status \in {Null, "", row.status}}
    BY <1>1, <1>2 DEF Wanted
  <2> QED
    BY <2>1, <2>2, Zenon
<1>set. PICK T \in SUBSET Rows : T = S
  OBVIOUS
<1>size. PICK m \in Nat : m = n
  BY <1>4
<1>7. PICK r \in Newest(T, m) : r = result'
  BY <1>2, <1>set, <1>size
<1>fin. IsFiniteSet(T) /\ \A row \in T : row.at \in Int
  BY <1>5, <1>set
<1> HIDE DEF n, S
<1>8. NewestRows(r, T, m)
  BY <1>fin, NewestIs
<1>9. {r[i] : i \in DOMAIN r} \subseteq T
  BY <1>8 DEF NewestRows
<1>10. ListIsNewest'
  BY <1>1, <1>4, <1>6, <1>set, <1>size, <1>7, <1>8, <1>9 DEF ListIsNewest, NewestRows
<1>11. AbsenceIsReal'
  <2>1. n = 0 => call.limit = 0
    BY <1>4
  <2> QED
    BY <1>1, <1>6, <1>set, <1>size, <1>7, <1>8, <2>1 DEF AbsenceIsReal, NewestRows
<1>12. SearchIsBest'
  BY <1>1 DEF SearchIsBest
<1> QED
  BY <1>1, <1>10, <1>11, <1>12 DEF RegistryInv

\* Of documents ranked by their scores, those before another one score no less.
LEMMA RankingIs ==
    ASSUME NEW scores \in Seq(Nat), NEW p \in Rankings(scores)
    PROVE  /\ p \in Seq(DOMAIN scores)
           /\ \A d \in DOMAIN scores : \E a \in DOMAIN p : p[a] = d
           /\ \A a, b \in DOMAIN p : a < b =>
                \/ scores[p[a]] > scores[p[b]]
                \/ scores[p[a]] = scores[p[b]] /\ p[a] < p[b]
<1>1. /\ p \in SetToSeqs(DOMAIN scores)
      /\ \A a, b \in DOMAIN p : a < b =>
           \/ scores[p[a]] > scores[p[b]]
           \/ scores[p[a]] = scores[p[b]] /\ p[a] < p[b]
  BY DEF Rankings, InOrder
<1>2. IsFiniteSet(DOMAIN scores)
  <2>1. DOMAIN scores = 1..Len(scores) /\ 1 \in Int /\ Len(scores) \in Int
    OBVIOUS
  <2>2. IsFiniteSet(1..Len(scores))
    BY <2>1, FS_Interval
  <2> QED
    BY <2>1, <2>2
<1>3. /\ p \in Seq(DOMAIN scores)
      /\ \A d \in DOMAIN scores : \E a \in DOMAIN p : p[a] = d
  BY <1>1, <1>2, EachOnce
<1> QED
  BY <1>1, <1>3

\* f holds the first n documents of those that score, best first.
BestDocuments(f, scores, n) ==
    LET Before(d, e) == scores[d] > scores[e] \/ (scores[d] = scores[e] /\ d < e)
        found == {f[i] : i \in DOMAIN f}
        relevant == {d \in DOMAIN scores : scores[d] > 0}
    IN  /\ found \subseteq relevant
        /\ \A i, j \in DOMAIN f : i < j => Before(f[i], f[j])
        /\ \A d \in found : \A e \in relevant \ found : Before(d, e)
        /\ n >= 0 => Len(f) <= n
        /\ n >= 0 /\ relevant # found => Len(f) = n
        /\ n > 0 /\ f = << >> => relevant = {}

\* That is what a search for n documents returns.
LEMMA BestIs ==
    ASSUME NEW scores \in Seq(Nat), NEW p \in Rankings(scores), NEW n \in Int,
           NEW f \in Relevant(Slice(p, n), scores)
    PROVE  BestDocuments(f, scores, n)
<1> DEFINE Before(d, e) == scores[d] > scores[e] \/ (scores[d] = scores[e] /\ d < e)
           found == {f[i] : i \in DOMAIN f}
           relevant == {d \in DOMAIN scores : scores[d] > 0}
           s == Slice(p, n)
<1>1. p \in Seq(DOMAIN scores) /\ \A d \in DOMAIN scores : \E a \in DOMAIN p : p[a] = d
  BY RankingIs
<1>2. \A a, b \in DOMAIN p : a < b => Before(p[a], p[b])
  BY RankingIs
<1>3. /\ s \in Seq(DOMAIN scores)
      /\ Len(s) <= Len(p)
      /\ n >= 0 => Len(s) = IF n < Len(p) THEN n ELSE Len(p)
      /\ \A i \in 1..Len(s) : s[i] = p[i]
  BY <1>1, SliceIs
<1>rel. f \in Relevant(s, scores)
  OBVIOUS
<1>nat. Len(s) \in Nat /\ Len(p) \in Nat
  BY <1>1, <1>3
<1>len. DOMAIN s = 1..Len(s) /\ DOMAIN p = 1..Len(p)
  BY <1>1, <1>3
<1>first. \A i \in 1..Len(s) : s[i] = p[i]
  BY <1>3
<1> HIDE DEF s
<1>short. Len(s) <= Len(p) /\ (n >= 0 => Len(s) = IF n < Len(p) THEN n ELSE Len(p))
  BY <1>3
<1>dom. \A a \in DOMAIN s : a \in DOMAIN p /\ s[a] = p[a]
  <2>1. \A a \in DOMAIN s : s[a] = p[a]
    BY <1>first, <1>len
  <2>2. 1..Len(s) \subseteq 1..Len(p)
    BY <1>nat, <1>short
  <2> QED
    BY <1>len, <2>1, <2>2
<1>4. f \in Seq(DOMAIN scores) /\ Len(f) <= Len(s)
  BY <1>3, <1>rel, RelevantIs
<1>5. \A i \in DOMAIN f : scores[f[i]] > 0 /\ \E a \in DOMAIN s : f[i] = s[a]
  BY <1>3, <1>rel, RelevantIs
<1>6. \A i, j \in DOMAIN f : i < j =>
        \E a, b \in DOMAIN s : a < b /\ f[i] = s[a] /\ f[j] = s[b]
  BY <1>3, <1>rel, RelevantIs
<1>7. \A a \in DOMAIN s : scores[s[a]] > 0 => \E i \in DOMAIN f : f[i] = s[a]
  BY <1>3, <1>rel, RelevantIs
<1>8. (\A a \in DOMAIN s : scores[s[a]] > 0) => Len(f) = Len(s)
  BY <1>3, <1>rel, RelevantIs
<1>9. found \subseteq relevant
  BY <1>4, <1>5
<1>10. \A i, j \in DOMAIN f : i < j => Before(f[i], f[j])
  BY <1>2, <1>6, <1>dom
\* A relevant document that is not found was cut off.
<1>11. ASSUME NEW e \in relevant \ found
       PROVE  Len(s) < Len(p) /\ \A a \in DOMAIN s : Before(s[a], e)
  <2>1. PICK b \in DOMAIN p : p[b] = e
    BY <1>1
  <2>2. b \notin DOMAIN s
    <3> SUFFICES ASSUME b \in DOMAIN s PROVE FALSE
      OBVIOUS
    <3>1. s[b] = e /\ scores[s[b]] > 0
      BY <1>dom, <2>1
    <3> QED
      BY <1>7, <3>1
  <2>3. b \in 1..Len(p) /\ b \notin 1..Len(s)
    BY <1>len, <2>2
  <2>4. Len(s) < b /\ Len(s) < Len(p)
    BY <1>nat, <2>3
  <2>5. \A a \in DOMAIN s : a < b
    BY <1>nat, <1>len, <2>3, <2>4
  <2> QED
    BY <1>2, <1>dom, <2>1, <2>4, <2>5
<1>12. ASSUME NEW d \in found, NEW e \in relevant \ found
       PROVE  Before(d, e)
  <2>1. PICK a \in DOMAIN s : d = s[a]
    BY <1>5
  <2> QED
    BY <1>11, <2>1
<1>13. n >= 0 => Len(s) <= n /\ (Len(s) < Len(p) => Len(s) = n)
  BY <1>nat, <1>short
<1>14. n >= 0 => Len(f) <= n
  <2>1. Len(f) \in Nat /\ Len(f) <= Len(s) /\ Len(s) \in Nat
    BY <1>4, <1>nat
  <2> QED
    BY <1>13, <2>1
<1>15. ASSUME n >= 0, relevant # found
       PROVE  Len(f) = n
  <2>1. PICK e \in relevant : e \notin found
    BY <1>9, <1>15
  <2>2. Len(s) < Len(p) /\ \A a \in DOMAIN s : Before(s[a], e)
    BY <1>11, <2>1
  <2>3. \A a \in DOMAIN s : s[a] \in DOMAIN scores
    BY <1>3
  <2>4. scores[e] > 0 /\ scores[e] \in Nat /\ \A d \in DOMAIN scores : scores[d] \in Nat
    BY <2>1
  <2>5. \A a \in DOMAIN s : scores[s[a]] > 0
    BY <2>2, <2>3, <2>4
  <2> QED
    BY <1>8, <1>13, <1>15, <2>2, <2>5
<1>16. ASSUME n > 0, f = << >>
       PROVE  relevant = {}
  <2>1. Len(f) = 0 /\ found = {}
    BY <1>16
  <2> QED
    BY <1>15, <1>16, <2>1
<1> QED
  BY <1>9, <1>10, <1>12, <1>14, <1>15, <1>16 DEF BestDocuments

\* What is nearest is all of the collection; nothing comes of it only if it is empty.
LEMMA NearestIs ==
    ASSUME NEW scores \in Seq(Nat), NEW p \in Nearest(scores), NEW n \in Nat, n > 0,
           FirstOf(p, n) = << >>
    PROVE  DOMAIN scores = {}
<1>1. p \in SetToSeqs(DOMAIN scores)
  BY DEF Nearest, InOrder
<1>2. IsFiniteSet(DOMAIN scores)
  <2>1. DOMAIN scores = 1..Len(scores) /\ 1 \in Int /\ Len(scores) \in Int
    OBVIOUS
  <2> QED
    BY <2>1, FS_Interval
<1>3. p \in Seq(DOMAIN scores) /\ \A d \in DOMAIN scores : \E a \in DOMAIN p : p[a] = d
  BY <1>1, <1>2, EachOnce
<1>4. Len(FirstOf(p, n)) = IF n < Len(p) THEN n ELSE Len(p)
  BY <1>3, FirstOfIs
<1>5. Len(FirstOf(p, n)) = 0 /\ Len(p) \in Nat
  BY <1>3
<1>6. Len(p) = 0
  BY <1>4, <1>5
<1>7. DOMAIN p = {}
  BY <1>3, <1>6
<1> QED
  BY <1>3, <1>7

\* The number of documents that a search asks for.
LEMMA TopK ==
    ASSUME RegistryInv, outcome = "waiting", call.tool = "search_regulations"
    PROVE  /\ Default(call.top_k, 3) \in Int
           /\ Default(call.top_k, 3) = IF call.top_k = Null THEN 3 ELSE call.top_k
<1>1. call \in ErpCalls \union RagCalls /\ ~Raises(call)
  BY DEF RegistryInv
<1>2. call \in RagCalls
  BY <1>1, SearchCalls
<1>3. call.top_k \in Numbers /\ call.top_k # Malformed
  BY <1>1, <1>2 DEF Raises, RagCalls
<1>4. 3 \in Int
  OBVIOUS
<1> QED
  BY <1>3, <1>4, DefaultIs

\* The promises of a search, given what it has read.
LEMMA SearchedInv ==
    ASSUME outcome' = "ok", call'.tool = "search_regulations",
           \/ unread'
           \/ result' # << >>
           \/ \A d \in DOMAIN source' : provider' = "simulated" /\ source'[d] = 0
           \/ call'.top_k # Null /\ call'.top_k <= 0,
           SearchIsBest'
    PROVE  RegistryInv'
<1>1. AbsenceIsReal'
  BY DEF AbsenceIsReal
<1>2. ListIsNewest'
  BY DEF ListIsNewest
<1> QED
  BY <1>1, <1>2 DEF RegistryInv

LEMMA SimulatedInv ==
    ASSUME RegistryInv, Search, provider = "simulated"
    PROVE  RegistryInv'
<1> DEFINE n == Default(call.top_k, 3)
<1>1. /\ call' = call /\ provider' = provider /\ call.tool = "search_regulations"
      /\ outcome = "waiting" /\ outcome' = "ok"
  BY DEF Search
<1>2. PICK scores \in Corpora : source' = scores /\ SearchSimulated(scores)
  BY DEF Search
<1>3. scores \in Seq(Nat)
  BY CorpusAssumption
<1>4. n \in Int /\ n = IF call.top_k = Null THEN 3 ELSE call.top_k
  BY <1>1, TopK
<1>5. CASE unread'
  BY <1>1, <1>5, SearchedInv DEF SearchIsBest
<1>6. CASE ~unread'
  <2>1. PICK p \in Rankings(scores) : result' \in Relevant(Slice(p, n), scores)
    BY <1>2, <1>6 DEF SearchSimulated
  <2>2. PICK m \in Int : m = n
    BY <1>4
  <2>3. PICK f \in Relevant(Slice(p, m), scores) : f = result'
    BY <2>1, <2>2
  <2>4. BestDocuments(f, scores, m)
    BY <1>3, BestIs
  <2> HIDE DEF n
  <2>5. SearchIsBest'
    BY <1>1, <1>2, <1>4, <2>2, <2>3, <2>4 DEF SearchIsBest, BestDocuments
  <2>6. ASSUME result' = << >>, ~(call.top_k # Null /\ call.top_k <= 0)
        PROVE  \A d \in DOMAIN scores : scores[d] = 0
    <3>1. m > 0
      BY <1>4, <2>2, <2>6
    <3>2. {d \in DOMAIN scores : scores[d] > 0} = {}
      BY <2>3, <2>4, <2>6, <3>1 DEF BestDocuments
    <3>3. \A d \in DOMAIN scores : scores[d] \in Nat
      BY <1>3
    <3> QED
      BY <3>2, <3>3
  <2>7. \/ result' # << >>
        \/ \A d \in DOMAIN source' : provider' = "simulated" /\ source'[d] = 0
        \/ call'.top_k # Null /\ call'.top_k <= 0
    BY <1>1, <1>2, <2>6
  <2> QED
    BY <1>1, <2>5, <2>7, SearchedInv
<1> QED
  BY <1>5, <1>6

LEMMA ChromaInv ==
    ASSUME RegistryInv, Search, provider # "simulated"
    PROVE  RegistryInv'
<1> DEFINE n == Default(call.top_k, 3)
<1>1. /\ call' = call /\ provider' = provider /\ call.tool = "search_regulations"
      /\ outcome = "waiting" /\ outcome' = "ok"
  BY DEF Search
<1>2. PICK scores \in Corpora : source' = scores /\ SearchChroma(scores)
  BY DEF Search
<1>3. SearchIsBest'
  BY <1>1 DEF SearchIsBest
<1>4. ASSUME ~unread', result' = << >>
      PROVE  DOMAIN source' = {}
  <2>1. n \in Int
    BY <1>1, TopK
  <2>2. n > 0 /\ \E p \in Nearest(scores) : result' = FirstOf(p, n)
    BY <1>2, <1>4 DEF SearchChroma
  <2>3. PICK m \in Nat : m = n /\ m > 0
    BY <2>1, <2>2
  <2>4. PICK p \in Nearest(scores) : FirstOf(p, m) = << >>
    BY <1>4, <2>2, <2>3
  <2> HIDE DEF n
  <2>5. scores \in Seq(Nat)
    BY CorpusAssumption
  <2> QED
    BY <1>2, <2>3, <2>4, <2>5, NearestIs
<1> QED
  BY <1>1, <1>3, <1>4, SearchedInv

LEMMA SearchInv ==
    ASSUME RegistryInv, Search
    PROVE  RegistryInv'
BY SimulatedInv, ChromaInv

LEMMA RegistryNext == RegistryInv /\ [ToolNext]_<<vars, registryVars>> => RegistryInv'
<1> SUFFICES ASSUME RegistryInv, [ToolNext]_<<vars, registryVars>> PROVE RegistryInv'
  OBVIOUS
<1>1. ASSUME NEW c \in ErpCalls \union RagCalls \union UnknownCalls, Execute(c)
      PROVE  RegistryInv'
  BY <1>1, ExecuteInv
<1>2. CASE GetRow
  BY <1>2, GetInv
<1>3. CASE ListRows
  BY <1>3, ListInv
<1>4. CASE QueryFails \/ SearchFails
  <2>1. outcome' = "error"
    BY <1>4 DEF QueryFails, SearchFails
  <2> QED
    BY <2>1, NoResult DEF RegistryInv
<1>5. CASE Search
  BY <1>5, SearchInv
<1>6. CASE UNCHANGED registryVars
  <2>1. /\ outcome' = outcome /\ call' = call /\ source' = source /\ result' = result
        /\ provider' = provider /\ unread' = unread
    BY <1>6 DEF registryVars
  <2>2. Wanted' = Wanted
    BY <2>1 DEF Wanted
  <2>3. AbsenceIsReal'
    BY <2>1, <2>2 DEF RegistryInv, AbsenceIsReal
  <2>4. ListIsNewest'
    BY <2>1, <2>2 DEF RegistryInv, ListIsNewest
  <2>5. SearchIsBest'
    BY <2>1 DEF RegistryInv, SearchIsBest
  <2> QED
    BY <2>1, <2>3, <2>4, <2>5 DEF RegistryInv
<1> QED
  BY <1>1, <1>2, <1>3, <1>4, <1>5, <1>6 DEF ToolNext, TaxStep, Ended

THEOREM RegistryInvariance == ToolSpec => []RegistryInv
<1> QED
  BY RegistryInit, RegistryNext, PTL DEF ToolSpec

\* For every table, corpus and argument, an empty observation means that nothing
\* fits, unless a RAG adapter swallowed the failure (tool_registry.py:175-191,
\* mysql_erp_adapter.py:61-71, chroma_rag_adapter.py:114-164).
THEOREM AbsencesAreReal == ToolSpec => []AbsenceIsReal
<1>1. RegistryInv => AbsenceIsReal
  BY DEF RegistryInv
<1> QED
  BY <1>1, RegistryInvariance, PTL

\* For every table and limit, a list has the newest of the rows asked for
\* (mysql_erp_adapter.py:55-87).
THEOREM ListsAreNewest == ToolSpec => []ListIsNewest
<1>1. RegistryInv => ListIsNewest
  BY DEF RegistryInv
<1> QED
  BY <1>1, RegistryInvariance, PTL

\* For every simulated corpus and top_k, a search has the best documents, best first
\* (simulated_rag_adapter.py:40-96).
THEOREM SearchesAreBest == ToolSpec => []SearchIsBest
<1>1. RegistryInv => SearchIsBest
  BY DEF RegistryInv
<1> QED
  BY <1>1, RegistryInvariance, PTL

=============================================================================
