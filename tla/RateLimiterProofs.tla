---------------------------- MODULE RateLimiterProofs ----------------------------
(***************************************************************************)
(* The sliding window of the rate limiter bounds every stretch of time,    *)
(* for every limit, window, set of keys and number of requests.            *)
(*                                                                         *)
(* WindowBound speaks of all admissions, the limiter remembers some.  The  *)
(* invariant that relates them is Remembered: the deque of a key is the    *)
(* tail of its admissions, no longer than the limit, and whatever it has   *)
(* forgotten left the window before now.                                   *)
(***************************************************************************)
EXTENDS RateLimiter, SequenceTheorems, FiniteSetTheorems, WellFoundedInduction,
        TLAPS

\* The deque q is what is left of the admissions a: their tail, and the rest
\* is before start.
IsTail(q, a, start) ==
    \E f \in Nat :
      /\ Len(a) = f + Len(q)
      /\ \A i \in 1..Len(q) : q[i] = a[f + i]
      /\ \A i \in 1..f : a[i] < start

Remembered ==
    \A k \in Keys :
      /\ Len(windows[k]) <= MaxRequests
      /\ IsTail(windows[k], admitted[k], now - Window)

\* A request that has been admitted has a key.
Keyed == \A r \in Requests : pc[r] = "calling" => key[r] \in Keys

Inv ==
    /\ TypeOK
    /\ Keyed
    /\ Remembered
    /\ WindowBound

-----------------------------------------------------------------------------

\* A set of natural numbers that is not empty has a least element.
LEMMA LeastNat ==
    ASSUME NEW T \in SUBSET Nat, T # {}
    PROVE  \E x \in T : \A y \in T : x <= y
  <1>1. PICK x \in T : \A y \in T : ~(<<y, x>> \in OpToRel(<, Nat))
    BY WFMin, NatLessThanWellFounded
  <1>2. \A y \in T : ~(y < x)
    BY <1>1 DEF OpToRel
  <1>3. QED
    BY <1>2

\* Evict drops a prefix of times before start, and stops at the first time
\* that is not.
LEMMA EvictDropsPrefix ==
    ASSUME NEW q \in Seq(Nat), NEW start \in Int
    PROVE  \E n \in 0..Len(q) :
             /\ Evict(q, start) = SubSeq(q, n + 1, Len(q))
             /\ \A i \in 1..n : q[i] < start
             /\ n < Len(q) => q[n + 1] >= start
  <1> DEFINE Old(n) == /\ \A i \in 1..n : q[i] < start
                       /\ n < Len(q) => q[n + 1] >= start
  <1>1. Len(q) \in Nat /\ \A i \in 1..Len(q) : q[i] \in Nat
    OBVIOUS
  <1>2. \E n \in 0..Len(q) : Old(n)
    <2> DEFINE Kept == {i \in 1..Len(q) : q[i] >= start}
    <2>1. CASE Kept = {}
      <3>1. Old(Len(q))
        BY <1>1, <2>1
      <3>2. QED
        BY <1>1, <3>1
    <2>2. CASE Kept # {}
      <3>1. PICK x \in Kept : \A y \in Kept : x <= y
        <4>1. Kept \in SUBSET Nat
          OBVIOUS
        <4> HIDE DEF Kept
        <4>2. QED
          BY <2>2, <4>1, LeastNat
      <3>2. x \in 1..Len(q) /\ q[x] >= start
        OBVIOUS
      <3>3. \A i \in 1..(x - 1) : q[i] < start
        BY <1>1, <3>1, <3>2
      <3>4. Old(x - 1) /\ x - 1 \in 0..Len(q)
        BY <1>1, <3>2, <3>3
      <3> HIDE DEF Old
      <3>5. QED
        BY <3>4
    <2>3. QED
      BY <2>1, <2>2
  <1>3. QED
    <2> DEFINE n == CHOOSE m \in 0..Len(q) : Old(m)
    <2>1. n \in 0..Len(q) /\ Old(n)
      BY <1>2
    <2>2. Evict(q, start) = SubSeq(q, n + 1, Len(q))
      BY DEF Evict
    <2>3. QED
      BY <2>1, <2>2

\* The parameters are natural numbers.
LEMMA Parameters == Window \in Nat /\ MaxRequests \in Nat /\ MaxRequests > 0 /\ Second \in Nat
  BY LimitAssumption, TimeAssumption DEF Window

\* What eviction leaves of a tail is a tail, no longer than before.
LEMMA EvictKeepsTail ==
    ASSUME NEW a \in Seq(Nat), NEW q \in Seq(Nat), NEW start \in Int, IsTail(q, a, start)
    PROVE  /\ Evict(q, start) \in Seq(Nat)
           /\ Len(Evict(q, start)) <= Len(q)
           /\ IsTail(Evict(q, start), a, start)
  <1>1. PICK g \in Nat : /\ Len(a) = g + Len(q)
                         /\ \A i \in 1..Len(q) : q[i] = a[g + i]
                         /\ \A i \in 1..g : a[i] < start
    BY DEF IsTail
  <1>2. PICK n \in 0..Len(q) : /\ Evict(q, start) = SubSeq(q, n + 1, Len(q))
                               /\ \A i \in 1..n : q[i] < start
    BY EvictDropsPrefix
  <1> DEFINE e == Evict(q, start)
  <1>3. Len(q) \in Nat /\ Len(a) \in Nat /\ n \in Nat /\ n <= Len(q)
    OBVIOUS
  <1>4. e \in Seq(Nat) /\ Len(e) = Len(q) - n
    BY <1>2, <1>3
  <1>5. \A i \in 1..(Len(q) - n) : e[i] = q[n + i]
    BY <1>2, <1>3
  <1> HIDE DEF e
  <1>6. Len(a) = (g + n) + Len(e)
    BY <1>1, <1>3, <1>4
  <1>7. ASSUME NEW i \in 1..Len(e) PROVE e[i] = a[(g + n) + i]
    <2>1. i \in 1..(Len(q) - n) /\ n + i \in 1..Len(q) /\ g + (n + i) = (g + n) + i
      BY <1>3, <1>4
    <2>2. e[i] = q[n + i] /\ q[n + i] = a[g + (n + i)]
      BY <1>1, <1>5, <2>1
    <2>3. QED
      BY <2>1, <2>2
  <1>8. ASSUME NEW i \in 1..(g + n) PROVE a[i] < start
    <2>1. CASE i <= g
      BY <1>1, <2>1
    <2>2. CASE i > g
      <3>1. i - g \in 1..n /\ i - g \in 1..Len(q) /\ g + (i - g) = i
        BY <1>3, <2>2
      <3>2. q[i - g] = a[g + (i - g)] /\ q[i - g] < start
        BY <1>1, <1>2, <3>1
      <3>3. QED
        BY <3>1, <3>2
    <2>3. QED
      BY <2>1, <2>2
  <1>9. g + n \in Nat
    BY <1>3
  <1>10. IsTail(e, a, start)
    BY <1>6, <1>7, <1>8, <1>9 DEF IsTail
  <1>11. QED
    BY <1>3, <1>4, <1>10 DEF e

\* What dispatch looks at after evicting is a tail of the admissions.
LEMMA CurrentRemembered ==
    ASSUME TypeOK, Remembered, NEW k \in Keys
    PROVE  /\ Current(k) \in Seq(Nat)
           /\ Len(Current(k)) <= MaxRequests
           /\ IsTail(Current(k), admitted[k], now - Window)
  <1>1. windows[k] \in Seq(Nat) /\ admitted[k] \in Seq(Nat) /\ now \in Nat
    BY DEF TypeOK
  <1>2. now - Window \in Int
    BY <1>1, Parameters
  <1>3. Len(windows[k]) <= MaxRequests /\ IsTail(windows[k], admitted[k], now - Window)
    BY DEF Remembered
  <1>4. /\ Current(k) \in Seq(Nat) /\ Len(Current(k)) <= Len(windows[k])
        /\ IsTail(Current(k), admitted[k], now - Window)
    BY <1>1, <1>2, <1>3, EvictKeepsTail DEF Current
  <1>5. QED
    BY <1>1, <1>3, <1>4, Parameters

-----------------------------------------------------------------------------

LEMMA InitInvariant == Init => Inv
  <1> SUFFICES ASSUME Init PROVE Inv
    OBVIOUS
  <1>1. TypeOK
    BY DEF Init, TypeOK
  <1>2. Keyed /\ Remembered /\ WindowBound
    BY Parameters DEF Init, Keyed, Remembered, IsTail, WindowBound
  <1>3. QED
    BY <1>1, <1>2 DEF Inv

\* The type invariant is preserved by every step.
LEMMA TypeStep ==
    ASSUME Inv, [Next]_vars
    PROVE  TypeOK'
  <1> USE Parameters DEF Inv, TypeOK
  <1>1. ASSUME NEW r \in Requests, NEW k \in Keys, Admit(r, k) PROVE TypeOK'
    <2>1. Append(Current(k), now) \in Seq(Nat) /\ Append(admitted[k], now) \in Seq(Nat)
      BY CurrentRemembered
    <2>2. QED
      BY <1>1, <2>1 DEF Admit, Dispatch
  <1>2. ASSUME NEW r \in Requests, NEW k \in Keys, Limit(r, k) PROVE TypeOK'
    <2>1. Current(k) \in Seq(Nat) /\ Len(Current(k)) > 0
      BY <1>2, CurrentRemembered DEF Limit
    <2>2. RetryAfter(k) \in Int
      <3>1. Head(Current(k)) \in Nat
        BY <2>1
      <3>2. QED
        BY <3>1, TimeAssumption DEF RetryAfter
    <2>3. QED
      BY <1>2, <2>1, <2>2 DEF Limit, Dispatch
  <1>3. ASSUME NEW r \in Requests, Respond(r) PROVE TypeOK'
    <2>1. MaxRequests - Len(windows'[key[r]]) \in Int
      OBVIOUS
    <2>2. QED
      BY <1>3, <2>1 DEF Respond
  <1>4. ASSUME NEW r \in Requests, Fail(r) PROVE TypeOK'
    BY <1>4 DEF Fail
  <1>5. CASE Tick
    BY <1>5 DEF Tick
  <1>6. CASE UNCHANGED vars
    BY <1>6 DEF vars
  <1>7. QED
    BY <1>1, <1>2, <1>3, <1>4, <1>5, <1>6 DEF Next

LEMMA KeyedStep ==
    ASSUME Inv, [Next]_vars
    PROVE  Keyed'
  <1> USE DEF Inv, TypeOK, Keyed
  <1>1. ASSUME NEW r \in Requests, NEW k \in Keys, Admit(r, k) \/ Limit(r, k) PROVE Keyed'
    BY <1>1 DEF Admit, Limit, Dispatch
  <1>2. ASSUME NEW r \in Requests, Respond(r) \/ Fail(r) PROVE Keyed'
    BY <1>2 DEF Respond, Fail
  <1>3. CASE Tick \/ UNCHANGED vars
    BY <1>3 DEF Tick, vars
  <1>4. QED
    BY <1>1, <1>2, <1>3 DEF Next

\* A tail stays one when time passes.
LEMMA TailLater ==
    ASSUME NEW a \in Seq(Nat), NEW q \in Seq(Nat), NEW start \in Int, NEW later \in Int,
           start <= later, IsTail(q, a, start)
    PROVE  IsTail(q, a, later)
  <1>1. PICK f \in Nat : /\ Len(a) = f + Len(q)
                         /\ \A i \in 1..Len(q) : q[i] = a[f + i]
                         /\ \A i \in 1..f : a[i] < start
    BY DEF IsTail
  <1>2. ASSUME NEW i \in 1..f PROVE a[i] < later
    <2>1. i \in 1..Len(a)
      BY <1>1
    <2>2. a[i] \in Nat /\ a[i] < start
      BY <1>1, <2>1
    <2>3. QED
      BY <2>2
  <1>3. QED
    BY <1>1, <1>2 DEF IsTail

\* An admission is added to the tail and to the admissions alike.
LEMMA TailAppend ==
    ASSUME NEW a \in Seq(Nat), NEW q \in Seq(Nat), NEW start \in Int, NEW t \in Nat,
           IsTail(q, a, start)
    PROVE  IsTail(Append(q, t), Append(a, t), start)
  <1>1. PICK f \in Nat : /\ Len(a) = f + Len(q)
                         /\ \A i \in 1..Len(q) : q[i] = a[f + i]
                         /\ \A i \in 1..f : a[i] < start
    BY DEF IsTail
  <1> DEFINE b == Append(a, t)
             p == Append(q, t)
  <1>2. /\ Len(b) = Len(a) + 1 /\ \A i \in 1..Len(a) : b[i] = a[i]
        /\ b[Len(a) + 1] = t /\ Len(a) \in Nat
    BY AppendProperties
  <1>3. /\ Len(p) = Len(q) + 1 /\ \A i \in 1..Len(q) : p[i] = q[i]
        /\ p[Len(q) + 1] = t /\ Len(q) \in Nat
    BY AppendProperties
  <1> HIDE DEF b, p
  <1>4. Len(b) = f + Len(p)
    BY <1>1, <1>2, <1>3
  <1>5. ASSUME NEW i \in 1..Len(p) PROVE p[i] = b[f + i]
    <2>1. CASE i = Len(q) + 1
      BY <1>1, <1>2, <1>3, <2>1
    <2>2. CASE i \in 1..Len(q)
      <3>1. f + i \in 1..Len(a)
        BY <1>1, <1>2, <1>3, <2>2
      <3>2. QED
        BY <1>1, <1>2, <1>3, <2>2, <3>1
    <2>3. QED
      BY <1>3, <2>1, <2>2
  <1>6. ASSUME NEW i \in 1..f PROVE b[i] < start
    <2>1. i \in 1..Len(a)
      BY <1>1, <1>2, <1>3
    <2>2. QED
      BY <1>1, <1>2, <2>1
  <1>7. QED
    BY <1>4, <1>5, <1>6 DEF IsTail, b, p

\* The deques remember the admissions that are still in the window.
LEMMA RememberedStep ==
    ASSUME Inv, [Next]_vars
    PROVE  Remembered'
  <1> USE Parameters DEF Inv
  <1>1. now \in Nat /\ now' \in Nat /\ now - Window \in Int /\ now' - Window \in Int
    BY TypeStep DEF TypeOK
  <1>2. ASSUME NEW k \in Keys
        PROVE  /\ windows[k] \in Seq(Nat) /\ admitted[k] \in Seq(Nat)
               /\ Len(windows[k]) <= MaxRequests
               /\ IsTail(windows[k], admitted[k], now - Window)
    BY DEF TypeOK, Remembered
  <1>3. ASSUME NEW r \in Requests, NEW k \in Keys, Admit(r, k) PROVE Remembered'
    <2>1. /\ windows' = [windows EXCEPT ![k] = Append(Current(k), now)]
          /\ admitted' = [admitted EXCEPT ![k] = Append(@, now)]
          /\ now' = now /\ Len(Current(k)) < MaxRequests
      BY <1>3 DEF Admit, Dispatch
    <2>2. Current(k) \in Seq(Nat) /\ IsTail(Current(k), admitted[k], now - Window)
      BY CurrentRemembered
    <2>3. IsTail(Append(Current(k), now), Append(admitted[k], now), now - Window)
      BY <1>1, <1>2, <2>2, TailAppend
    <2>4. Len(Append(Current(k), now)) <= MaxRequests
      BY <1>1, <2>1, <2>2
    <2>5. /\ windows'[k] = Append(Current(k), now) /\ admitted'[k] = Append(admitted[k], now)
          /\ \A l \in Keys \ {k} : windows'[l] = windows[l] /\ admitted'[l] = admitted[l]
      BY <2>1 DEF TypeOK
    <2>6. QED
      BY <1>2, <2>1, <2>3, <2>4, <2>5 DEF Remembered
  <1>4. ASSUME NEW r \in Requests, NEW k \in Keys, Limit(r, k) PROVE Remembered'
    <2>1. windows' = [windows EXCEPT ![k] = Current(k)] /\ UNCHANGED <<now, admitted>>
      BY <1>4 DEF Limit, Dispatch
    <2>2. /\ IsTail(Current(k), admitted[k], now - Window)
          /\ Len(Current(k)) <= MaxRequests
      BY CurrentRemembered
    <2>3. /\ windows'[k] = Current(k)
          /\ \A l \in Keys \ {k} : windows'[l] = windows[l]
      BY <2>1 DEF TypeOK
    <2>4. QED
      BY <1>2, <2>1, <2>2, <2>3 DEF Remembered
  <1>5. CASE Tick
    <2>1. UNCHANGED <<windows, admitted>> /\ now - Window <= now' - Window
      BY <1>1, <1>5 DEF Tick
    <2>2. \A k \in Keys : IsTail(windows[k], admitted[k], now' - Window)
      BY <1>1, <1>2, <2>1, TailLater
    <2>3. QED
      BY <1>2, <2>1, <2>2 DEF Remembered
  <1>6. CASE UNCHANGED <<now, windows, admitted>>
    BY <1>2, <1>6 DEF Remembered
  <1>7. QED
    BY <1>3, <1>4, <1>5, <1>6 DEF Next, Respond, Fail, vars

\* An admission comes more than a window after the one MaxRequests before it:
\* that one has been forgotten.
LEMMA WindowBoundStep ==
    ASSUME Inv, [Next]_vars
    PROVE  WindowBound'
  <1> USE Parameters DEF Inv
  <1>1. ASSUME NEW r \in Requests, NEW k \in Keys, Admit(r, k) PROVE WindowBound'
    <2> DEFINE a == admitted[k]
               c == Current(k)
    <2>1. /\ a \in Seq(Nat) /\ Len(a) \in Nat /\ now \in Nat
          /\ admitted' = [admitted EXCEPT ![k] = Append(a, now)]
          /\ Len(c) < MaxRequests /\ c \in Seq(Nat) /\ Len(c) \in Nat
      BY <1>1, CurrentRemembered DEF Admit, TypeOK
    <2>2. IsTail(c, a, now - Window)
      BY CurrentRemembered
    <2>3. /\ admitted'[k] = Append(a, now)
          /\ \A l \in Keys \ {k} : admitted'[l] = admitted[l]
      BY <2>1 DEF TypeOK
    <2> HIDE DEF a, c
    <2>4. PICK f \in Nat : /\ Len(a) = f + Len(c)
                           /\ \A i \in 1..f : a[i] < now - Window
      BY <2>2 DEF IsTail
    <2> DEFINE b == Append(a, now)
    <2>5. /\ Len(b) = Len(a) + 1 /\ \A i \in 1..Len(a) : b[i] = a[i]
          /\ b[Len(a) + 1] = now
      BY <2>1, AppendProperties
    <2> HIDE DEF b
    <2>6. ASSUME NEW i \in 1..(Len(b) - MaxRequests)
          PROVE  b[i + MaxRequests] - b[i] > Window
      <3>1. CASE i + MaxRequests = Len(a) + 1
        <4>1. i \in 1..f /\ i \in 1..Len(a)
          <5>1. i \in Nat /\ i >= 1 /\ i = Len(a) + 1 - MaxRequests
            BY <2>1, <2>5, <3>1
          <5>2. Len(a) + 1 - MaxRequests <= f
            BY <2>1, <2>4
          <5>3. i <= Len(a)
            BY <2>1, <5>1
          <5>4. QED
            BY <2>1, <5>1, <5>2, <5>3
        <4>2. b[i] = a[i] /\ a[i] \in Nat /\ a[i] < now - Window /\ b[i + MaxRequests] = now
          BY <2>1, <2>4, <2>5, <3>1, <4>1
        <4>3. QED
          BY <2>1, <4>2
      <3>2. CASE i + MaxRequests <= Len(a)
        <4>1. i \in 1..(Len(a) - MaxRequests) /\ i \in 1..Len(a) /\ i + MaxRequests \in 1..Len(a)
          BY <2>1, <3>2
        <4>2. a[i + MaxRequests] - a[i] > Window
          BY <4>1 DEF WindowBound, a
        <4>3. b[i] = a[i]
          BY <2>5, <4>1
        <4>4. b[i + MaxRequests] = a[i + MaxRequests]
          BY <2>5, <4>1
        <4>5. QED
          BY <4>2, <4>3, <4>4
      <3>3. i + MaxRequests = Len(a) + 1 \/ i + MaxRequests <= Len(a)
        <4>1. i \in 1..(Len(a) + 1 - MaxRequests)
          BY <2>5
        <4>2. Len(a) \in Nat
          BY <2>1
        <4>3. i \in Nat /\ i <= Len(a) + 1 - MaxRequests
          BY <4>1, <4>2
        <4>4. QED
          BY <4>2, <4>3
      <3>4. QED
        BY <3>1, <3>2, <3>3
    <2>7. QED
      BY <2>3, <2>6 DEF WindowBound, b
  <1>2. CASE UNCHANGED admitted
    BY <1>2 DEF WindowBound
  <1>3. QED
    BY <1>1, <1>2 DEF Next, Limit, Respond, Fail, Tick, vars

LEMMA NextInvariant == Inv /\ [Next]_vars => Inv'
  BY TypeStep, KeyedStep, RememberedStep, WindowBoundStep DEF Inv

\* The inductive invariant holds in every reachable state.
THEOREM Invariance == Spec => []Inv
  BY InitInvariant, NextInvariant, PTL DEF Spec

\* Deques and admissions are sequences of times.
THEOREM TypeCorrect == Spec => []TypeOK
  BY Invariance, PTL DEF Inv

\* No stretch of time as long as the window holds more than MaxRequests
\* admissions of a key.
THEOREM WindowIsBounded == Spec => []WindowBound
  BY Invariance, PTL DEF Inv

-----------------------------------------------------------------------------

\* The admissions in the window are among those the deque remembers.
LEMMA RecentAreRemembered ==
    ASSUME Inv, NEW r \in Requests, pc[r] = "calling"
    PROVE  Cardinality(Recent(r)) <= Len(windows[key[r]])
  <1> DEFINE a == admitted[key[r]]
             q == windows[key[r]]
  <1>1. a \in Seq(Nat) /\ q \in Seq(Nat) /\ now \in Nat /\ IsTail(q, a, now - Window)
    BY DEF Inv, TypeOK, Keyed, Remembered
  <1> HIDE DEF q
  <1>2. PICK f \in Nat : Len(a) = f + Len(q) /\ \A i \in 1..f : a[i] < now - Window
    BY <1>1 DEF IsTail
  <1>3. Len(q) \in Nat /\ Len(a) \in Nat /\ DOMAIN a = 1..Len(a)
    BY <1>1
  <1> HIDE DEF a
  <1>4. ASSUME NEW i \in DOMAIN a, a[i] >= now - Window PROVE i \in (f + 1)..Len(a)
    <2>1. i \in 1..Len(a) /\ a[i] \in Nat
      BY <1>1, <1>3
    <2>2. ~(i <= f)
      BY <1>1, <1>2, <1>4, <2>1, Parameters
    <2>3. QED
      BY <2>1, <2>2
  <1>5. Recent(r) \in SUBSET ((f + 1)..Len(a))
    BY <1>4 DEF Recent, a
  <1>6. /\ IsFiniteSet((f + 1)..Len(a))
        /\ Cardinality((f + 1)..Len(a)) = IF f + 1 > Len(a) THEN 0 ELSE Len(a) - (f + 1) + 1
    <2>1. f + 1 \in Int /\ Len(a) \in Int
      BY <1>3
    <2>2. QED
      BY <2>1, FS_Interval
  <1>7. Cardinality(Recent(r)) <= Cardinality((f + 1)..Len(a)) /\ IsFiniteSet(Recent(r))
    BY <1>5, <1>6, FS_Subset
  <1>8. Cardinality((f + 1)..Len(a)) = Len(q)
    BY <1>2, <1>3, <1>6
  <1>9. QED
    BY <1>7, <1>8 DEF q

\* The allowance a response announces is never more than is left.
THEOREM RemainingNeverOverstated == Spec => RemainingIsSafe
  <1> DEFINE Safe == \A r \in Requests : pc[r] = "calling" /\ pc'[r] = "answered" =>
                       0 <= header'[r] /\ header'[r] <= MaxRequests - Cardinality(Recent(r))
  <1>1. Inv /\ [Next]_vars => [Safe]_vars
    <2> SUFFICES ASSUME Inv, [Next]_vars, NEW r \in Requests,
                        pc[r] = "calling", pc'[r] = "answered"
                 PROVE  0 <= header'[r] /\ header'[r] <= MaxRequests - Cardinality(Recent(r))
      OBVIOUS
    <2>1. Respond(r)
      <3> USE DEF Inv, TypeOK
      <3>1. ASSUME NEW s \in Requests, NEW k \in Keys, Admit(s, k) \/ Limit(s, k) PROVE FALSE
        BY <3>1 DEF Admit, Limit, Dispatch
      <3>2. ASSUME NEW s \in Requests, Fail(s) PROVE FALSE
        BY <3>2 DEF Fail
      <3>3. ASSUME NEW s \in Requests, s # r, Respond(s) PROVE FALSE
        BY <3>3 DEF Respond
      <3>4. ASSUME Tick \/ UNCHANGED vars PROVE FALSE
        BY <3>4 DEF Tick, vars
      <3>5. QED
        BY <3>1, <3>2, <3>3, <3>4 DEF Next
    <2>2. header'[r] = MaxRequests - Len(windows[key[r]])
      BY <2>1 DEF Respond, Inv, TypeOK
    <2>3. Len(windows[key[r]]) \in Nat /\ Len(windows[key[r]]) <= MaxRequests
      BY DEF Inv, TypeOK, Keyed, Remembered
    <2>4. Cardinality(Recent(r)) \in Nat
      <3>1. admitted[key[r]] \in Seq(Nat)
        BY DEF Inv, TypeOK, Keyed
      <3>2. Recent(r) \in SUBSET (1..Len(admitted[key[r]]))
        BY <3>1 DEF Recent
      <3>3. IsFiniteSet(Recent(r))
        BY <3>1, <3>2, FS_Interval, FS_Subset
      <3>4. QED
        BY <3>3, FS_CardinalityType
    <2>5. QED
      BY <2>2, <2>3, <2>4, RecentAreRemembered, Parameters
  <1>2. QED
    BY <1>1, Invariance, PTL DEF Spec, RemainingIsSafe

-----------------------------------------------------------------------------

\* Admissions are in the order of time, none of them ahead of the clock.
Timely ==
    \A k \in Keys :
      /\ \A i \in 1..Len(admitted[k]) : admitted[k][i] <= now
      /\ \A i, j \in 1..Len(admitted[k]) : i <= j => admitted[k][i] <= admitted[k][j]

\* Of the admissions a, the MaxRequests after the first f were in the window at
\* time t, none came later in the same instant, and h is how many seconds the
\* first of them stays there, rounded up.
Blocks(a, t, h, f) ==
    /\ f + MaxRequests <= Len(a)
    /\ \A i \in 1..f : a[i] < t - Window
    /\ \A i \in (f + 1)..(f + MaxRequests) : a[i] >= t - Window /\ a[i] <= t
    /\ \A i \in (f + MaxRequests + 1)..Len(a) : a[i] > t
    /\ h >= 1
    /\ (h - 1) * Second <= a[f + 1] + Window - t
    /\ a[f + 1] + Window - t < h * Second

\* What a client that was turned away was told is still so.
Told ==
    \A r \in Requests : pc[r] = "limited" =>
      /\ key[r] \in Keys /\ arrived[r] <= now
      /\ \E f \in Nat : Blocks(admitted[key[r]], arrived[r], header[r], f)

\* Whole seconds, rounded down and up.
LEMMA WholeSeconds ==
    ASSUME NEW x \in Int, NEW s \in Nat, s > 0
    PROVE  /\ x \div s \in Int
           /\ (x \div s) * s <= x /\ x < (x \div s + 1) * s
           /\ x >= 0 => x \div s >= 0
  <1> DEFINE y == x \div s
  <1>1. (x \div s) * s <= x
    OBVIOUS
  <1>2. x < (x \div s) * s + s
    OBVIOUS
  <1>3. y \in Int /\ x < y * s + s
    BY <1>2
  <1> HIDE DEF y
  <1>4. (y + 1) * s = y * s + s
    BY <1>3
  <1>5. x < (y + 1) * s
    BY <1>3, <1>4
  <1>6. x >= 0 => x \div s >= 0
    OBVIOUS
  <1>7. QED
    BY <1>1, <1>3, <1>5, <1>6 DEF y

\* A deque that is full when it is looked at holds the latest MaxRequests
\* admissions, all of them in the window.
LEMMA FullDeque ==
    ASSUME Inv, Timely, NEW k \in Keys, Len(Current(k)) >= MaxRequests
    PROVE  \E f \in Nat :
             /\ Len(admitted[k]) = f + MaxRequests
             /\ Head(Current(k)) = admitted[k][f + 1]
             /\ \A i \in 1..f : admitted[k][i] < now - Window
             /\ \A i \in (f + 1)..(f + MaxRequests) :
                  admitted[k][i] >= now - Window /\ admitted[k][i] <= now
  <1> DEFINE a == admitted[k]
             c == Current(k)
             q == windows[k]
             start == now - Window
  <1> USE Parameters
  <1>1. /\ a \in Seq(Nat) /\ q \in Seq(Nat) /\ c \in Seq(Nat) /\ now \in Nat /\ start \in Int
        /\ Len(c) <= MaxRequests /\ IsTail(c, a, start)
    BY CurrentRemembered DEF Inv, TypeOK
  <1>2. Len(c) = MaxRequests /\ Len(c) >= 1
    BY <1>1
  <1>3. c[1] >= start
    <2>1. PICK n \in 0..Len(q) : /\ Evict(q, start) = SubSeq(q, n + 1, Len(q))
                                 /\ n < Len(q) => q[n + 1] >= start
      BY <1>1, EvictDropsPrefix
    <2>2. c = SubSeq(q, n + 1, Len(q))
      BY <2>1 DEF Current
    <2>3. Len(q) \in Nat /\ n \in Nat
      BY <1>1
    <2> HIDE DEF c, q, start
    <2>4. n < Len(q)
      <3>1. ASSUME n + 1 > Len(q) PROVE FALSE
        <4>1. c = << >>
          BY <1>1, <2>2, <2>3, <3>1
        <4>2. QED
          BY <1>2, <4>1
      <3>2. QED
        BY <2>3, <3>1
    <2>5. c[1] = q[n + 1]
      BY <1>1, <2>2, <2>3, <2>4
    <2>6. QED
      BY <2>1, <2>4, <2>5
  <1> HIDE DEF c
  <1>4. PICK f \in Nat : /\ Len(a) = f + Len(c)
                         /\ \A i \in 1..Len(c) : c[i] = a[f + i]
                         /\ \A i \in 1..f : a[i] < start
    BY <1>1 DEF IsTail
  <1>5. a[f + 1] = c[1] /\ Head(c) = c[1] /\ f + 1 \in 1..Len(a)
    <2>1. 1 \in 1..Len(c) /\ Head(c) = c[1]
      BY <1>1, <1>2
    <2>2. Len(a) >= f + 1
      BY <1>1, <1>2, <1>4
    <2>3. QED
      BY <1>4, <2>1, <2>2
  <1>6. /\ \A i \in 1..Len(a) : a[i] <= now
        /\ \A i, j \in 1..Len(a) : i <= j => a[i] <= a[j]
    BY DEF Timely
  <1>7. \A i \in 1..Len(a) : a[i] \in Nat
    BY <1>1
  <1> HIDE DEF a
  <1>8. ASSUME NEW i \in (f + 1)..(f + MaxRequests) PROVE a[i] >= start /\ a[i] <= now
    <2>1. i \in 1..Len(a) /\ f + 1 <= i
      BY <1>2, <1>4
    <2>2. a[f + 1] <= a[i] /\ a[i] <= now /\ a[i] \in Nat /\ a[f + 1] \in Nat
      BY <1>5, <1>6, <1>7, <2>1
    <2>3. a[f + 1] >= start
      BY <1>3, <1>5
    <2>4. QED
      BY <1>1, <2>2, <2>3
  <1>9. QED
    BY <1>2, <1>4, <1>5, <1>8 DEF a, c

\* Later admissions do not change which ones blocked.
LEMMA BlocksAppend ==
    ASSUME NEW a \in Seq(Nat), NEW t \in Nat, NEW h \in Int, NEW f \in Nat, NEW n \in Nat,
           Blocks(a, t, h, f), n > t
    PROVE  Blocks(Append(a, n), t, h, f)
  <1> DEFINE b == Append(a, n)
  <1>1. /\ Len(b) = Len(a) + 1 /\ \A i \in 1..Len(a) : b[i] = a[i]
        /\ b[Len(a) + 1] = n /\ Len(a) \in Nat
    BY AppendProperties
  <1> HIDE DEF b
  <1> USE Parameters
  <1>2. f + MaxRequests <= Len(a)
    BY DEF Blocks
  <1>3. \A i \in 1..(f + MaxRequests) : b[i] = a[i]
    BY <1>1, <1>2
  <1>4. b[f + 1] = a[f + 1]
    BY <1>3
  <1>5. \A i \in (f + MaxRequests + 1)..Len(b) : b[i] > t
    <2> SUFFICES ASSUME NEW i \in (f + MaxRequests + 1)..Len(b) PROVE b[i] > t
      OBVIOUS
    <2>1. CASE i = Len(a) + 1
      BY <1>1, <2>1
    <2>2. CASE i # Len(a) + 1
      <3>1. i \in (f + MaxRequests + 1)..Len(a) /\ i \in 1..Len(a)
        BY <1>1, <2>2
      <3>2. QED
        BY <1>1, <3>1 DEF Blocks
    <2>3. QED
      BY <2>1, <2>2
  <1>6. \A i \in 1..f : b[i] < t - Window
    BY <1>3 DEF Blocks
  <1>7. \A i \in (f + 1)..(f + MaxRequests) : b[i] >= t - Window /\ b[i] <= t
    <2> SUFFICES ASSUME NEW i \in (f + 1)..(f + MaxRequests)
                 PROVE  b[i] >= t - Window /\ b[i] <= t
      OBVIOUS
    <2>1. i \in 1..(f + MaxRequests) /\ a[i] >= t - Window /\ a[i] <= t
      BY DEF Blocks
    <2>2. QED
      BY <1>3, <2>1
  <1>8. f + MaxRequests <= Len(b)
    BY <1>1, <1>2
  <1>9. QED
    BY <1>4, <1>5, <1>6, <1>7, <1>8 DEF Blocks, b

LEMMA TimelyStep ==
    ASSUME Inv, Timely, [Next]_vars
    PROVE  Timely'
  <1> USE DEF Inv, TypeOK
  <1>1. ASSUME NEW r \in Requests, NEW k \in Keys, Admit(r, k) PROVE Timely'
    <2> DEFINE a == admitted[k]
               b == Append(a, now)
    <2>1. /\ a \in Seq(Nat) /\ now \in Nat /\ now' = now
          /\ admitted' = [admitted EXCEPT ![k] = b]
      BY <1>1 DEF Admit, Dispatch
    <2>2. /\ Len(b) = Len(a) + 1 /\ \A i \in 1..Len(a) : b[i] = a[i]
          /\ b[Len(a) + 1] = now /\ Len(a) \in Nat
      BY <2>1, AppendProperties
    <2>3. /\ \A i \in 1..Len(a) : a[i] <= now
          /\ \A i, j \in 1..Len(a) : i <= j => a[i] <= a[j]
      BY DEF Timely
    <2>4. admitted'[k] = b /\ \A l \in Keys \ {k} : admitted'[l] = admitted[l]
      BY <2>1
    <2> HIDE DEF a, b
    <2>5. ASSUME NEW i \in 1..Len(b) PROVE i \in 1..Len(a) \/ i = Len(a) + 1
      BY <2>2
    <2>6. ASSUME NEW i \in 1..Len(b) PROVE b[i] <= now
      <3>1. CASE i \in 1..Len(a)
        BY <2>2, <2>3, <3>1
      <3>2. CASE i = Len(a) + 1
        BY <2>1, <2>2, <3>2
      <3>3. QED
        BY <2>5, <3>1, <3>2
    <2>7. ASSUME NEW i \in 1..Len(b), NEW j \in 1..Len(b), i <= j PROVE b[i] <= b[j]
      <3>1. CASE j = Len(a) + 1
        BY <2>2, <2>6, <3>1
      <3>2. CASE j \in 1..Len(a)
        <4>1. i \in 1..Len(a)
          BY <2>2, <2>7, <3>2
        <4>2. QED
          BY <2>2, <2>3, <2>7, <3>2, <4>1
      <3>3. QED
        BY <2>5, <3>1, <3>2
    <2>8. QED
      BY <2>1, <2>4, <2>6, <2>7 DEF Timely
  <1>2. CASE UNCHANGED admitted /\ now <= now'
    <2> SUFFICES ASSUME NEW k \in Keys, NEW i \in 1..Len(admitted[k])
                 PROVE  admitted[k][i] <= now'
      BY <1>2 DEF Timely
    <2>1. admitted[k][i] <= now /\ admitted[k][i] \in Nat /\ now \in Nat /\ now' \in Nat
      BY TypeStep DEF Timely
    <2>2. QED
      BY <1>2, <2>1
  <1>3. QED
    BY <1>1, <1>2 DEF Next, Limit, Dispatch, Respond, Fail, Tick, vars

\* While the clock stands at the time a client of k was turned away, nobody else
\* of k is admitted: its deque stays full.
LEMMA BlockedStaysBlocked ==
    ASSUME Inv, NEW k \in Keys, NEW f \in Nat, NEW h, Blocks(admitted[k], now, h, f)
    PROVE  Len(Current(k)) >= MaxRequests
  <1> DEFINE a == admitted[k]
             c == Current(k)
  <1> USE Parameters
  <1>1. /\ a \in Seq(Nat) /\ c \in Seq(Nat) /\ now \in Nat /\ IsTail(c, a, now - Window)
    BY CurrentRemembered DEF Inv, TypeOK
  <1> HIDE DEF a, c
  <1>2. PICK g \in Nat : Len(a) = g + Len(c) /\ \A i \in 1..g : a[i] < now - Window
    BY <1>1 DEF IsTail
  <1>3. f + MaxRequests <= Len(a) /\ a[f + 1] >= now - Window
    <2>1. f + 1 \in (f + 1)..(f + MaxRequests)
      OBVIOUS
    <2>2. QED
      BY <2>1 DEF Blocks, a
  <1>4. f + 1 \in 1..Len(a)
    BY <1>1, <1>3
  <1>5. a[f + 1] \in Nat
    BY <1>1, <1>4
  <1>6. ~(f + 1 \in 1..g)
    BY <1>1, <1>2, <1>3, <1>5
  <1>7. g <= f
    BY <1>6
  <1>8. QED
    BY <1>1, <1>2, <1>3, <1>7 DEF c

LEMMA ToldStep ==
    ASSUME Inv, Timely, Told, [Next]_vars
    PROVE  Told'
  <1> USE DEF Inv, TypeOK
  <1>1. ASSUME NEW r \in Requests, NEW k \in Keys, Admit(r, k) PROVE Told'
    <2>1. /\ pc' = [pc EXCEPT ![r] = "calling"] /\ now' = now /\ now \in Nat
          /\ header' = header /\ Len(Current(k)) < MaxRequests
          /\ admitted' = [admitted EXCEPT ![k] = Append(admitted[k], now)]
      BY <1>1 DEF Admit, Dispatch
    <2>2. \A s \in Requests \ {r} : key'[s] = key[s] /\ arrived'[s] = arrived[s]
      BY <1>1 DEF Admit, Dispatch
    <2> SUFFICES ASSUME NEW s \in Requests, pc'[s] = "limited"
                 PROVE  /\ key'[s] \in Keys /\ arrived'[s] <= now'
                        /\ \E f \in Nat : Blocks(admitted'[key'[s]], arrived'[s], header'[s], f)
      BY DEF Told
    <2>3. s # r /\ pc[s] = "limited"
      BY <2>1
    <2>4. key[s] \in Keys /\ arrived[s] <= now /\ key'[s] = key[s] /\ arrived'[s] = arrived[s]
      BY <2>2, <2>3 DEF Told
    <2>5. PICK f \in Nat : Blocks(admitted[key[s]], arrived[s], header[s], f)
      BY <2>3 DEF Told
    <2>6. CASE key[s] # k
      <3>1. admitted'[key[s]] = admitted[key[s]]
        BY <2>1, <2>4, <2>6
      <3>2. QED
        BY <2>1, <2>4, <2>5, <3>1
    <2>7. CASE key[s] = k
      <3>1. arrived[s] # now
        <4> SUFFICES ASSUME arrived[s] = now PROVE FALSE
          OBVIOUS
        <4>1. Len(Current(k)) >= MaxRequests
          BY <2>5, <2>7, BlockedStaysBlocked
        <4>2. Len(Current(k)) \in Nat
          BY CurrentRemembered
        <4>3. QED
          BY <2>1, <4>1, <4>2, Parameters
      <3>2. now > arrived[s]
        BY <2>1, <2>4, <3>1
      <3>3. Blocks(Append(admitted[k], now), arrived[s], header[s], f)
        BY <2>1, <2>5, <2>7, <3>2, BlocksAppend
      <3>4. admitted'[k] = Append(admitted[k], now)
        BY <2>1
      <3>5. QED
        BY <2>1, <2>4, <2>7, <3>3, <3>4
    <2>8. QED
      BY <2>6, <2>7
  <1>2. ASSUME NEW r \in Requests, NEW k \in Keys, Limit(r, k) PROVE Told'
    <2>1. /\ pc' = [pc EXCEPT ![r] = "limited"] /\ now' = now /\ now \in Nat
          /\ key' = [key EXCEPT ![r] = k] /\ arrived' = [arrived EXCEPT ![r] = now]
          /\ header' = [header EXCEPT ![r] = RetryAfter(k)]
          /\ Len(Current(k)) >= MaxRequests /\ admitted' = admitted
      BY <1>2 DEF Limit, Dispatch
    <2> SUFFICES ASSUME NEW s \in Requests, pc'[s] = "limited"
                 PROVE  /\ key'[s] \in Keys /\ arrived'[s] <= now'
                        /\ \E f \in Nat : Blocks(admitted'[key'[s]], arrived'[s], header'[s], f)
      BY DEF Told
    <2>2. CASE s # r
      BY <2>1, <2>2 DEF Told
    <2>3. CASE s = r
      <3>1. key'[s] = k /\ arrived'[s] = now /\ header'[s] = RetryAfter(k)
        BY <2>1, <2>3
      <3>2. \E f \in Nat : Blocks(admitted[k], now, RetryAfter(k), f)
        <4> DEFINE a == admitted[k]
        <4>1. PICK f \in Nat :
                /\ Len(a) = f + MaxRequests
                /\ Head(Current(k)) = a[f + 1]
                /\ \A i \in 1..f : a[i] < now - Window
                /\ \A i \in (f + 1)..(f + MaxRequests) : a[i] >= now - Window /\ a[i] <= now
          BY <2>1, FullDeque
        <4>2. a \in Seq(Nat)
          OBVIOUS
        <4> HIDE DEF a
        <4>3. f + 1 \in 1..Len(a) /\ f + 1 \in (f + 1)..(f + MaxRequests)
          BY <4>1, Parameters
        <4>4. a[f + 1] \in Nat /\ a[f + 1] >= now - Window
          BY <4>1, <4>2, <4>3
        <4> DEFINE x == a[f + 1] + Window - now
                   h == x \div Second
        <4>5. x \in Int /\ x >= 0 /\ x = Window - (now - a[f + 1])
          BY <2>1, <4>4, Parameters
        <4>6. Second \in Nat /\ Second > 0
          BY TimeAssumption
        <4>7. RetryAfter(k) = h + 1
          BY <4>1, <4>5 DEF RetryAfter
        <4> HIDE DEF x
        <4>8. h * Second <= x /\ x < (h + 1) * Second /\ h \in Nat
          <5>1. /\ h \in Int /\ h * Second <= x /\ x < (h + 1) * Second
                /\ x >= 0 => h >= 0
            BY <4>5, <4>6, WholeSeconds
          <5> HIDE DEF h
          <5>2. QED
            BY <4>5, <5>1
        <4> HIDE DEF h
        <4>9. /\ RetryAfter(k) >= 1
              /\ (RetryAfter(k) - 1) * Second <= x
              /\ x < RetryAfter(k) * Second
          <5>1. RetryAfter(k) - 1 = h /\ RetryAfter(k) >= 1
            BY <4>7, <4>8
          <5>2. QED
            BY <4>7, <4>8, <5>1
        <4>10. (f + MaxRequests + 1)..Len(a) = {}
          BY <4>1, Parameters
        <4>11. f + MaxRequests <= Len(a)
          BY <4>1, Parameters
        <4>12. Blocks(a, now, RetryAfter(k), f)
          BY <4>1, <4>9, <4>10, <4>11 DEF Blocks, x
        <4>13. QED
          BY <4>12 DEF a
      <3>3. QED
        BY <2>1, <3>1, <3>2
    <2>4. QED
      BY <2>2, <2>3
  <1>3. ASSUME NEW r \in Requests, Respond(r) \/ Fail(r) PROVE Told'
    BY <1>3 DEF Respond, Fail, Told
  <1>4. ASSUME Tick PROVE Told'
    BY <1>4 DEF Tick, Told
  <1>5. ASSUME UNCHANGED vars PROVE Told'
    BY <1>5 DEF vars, Told
  <1>6. QED
    BY <1>1, <1>2, <1>3, <1>4, <1>5 DEF Next

\* Everything that is so of the clients that were turned away.
RetryInv == Inv /\ Timely /\ Told

LEMMA RetryInvariance == Spec => []RetryInv
  <1>1. Init => RetryInv
    <2> SUFFICES ASSUME Init PROVE RetryInv
      OBVIOUS
    <2>1. Timely /\ Told
      BY DEF Init, Timely, Told
    <2>2. QED
      BY <2>1, InitInvariant DEF RetryInv
  <1>2. RetryInv /\ [Next]_vars => RetryInv'
    BY NextInvariant, TimelyStep, ToldStep DEF RetryInv
  <1>3. QED
    BY <1>1, <1>2, PTL DEF Spec

\* What was in the window at t and leaves it before t + w is not in it at n, which
\* is no earlier.
LEMMA LeavesInTime ==
    ASSUME NEW x \in Nat, NEW t \in Nat, NEW n \in Nat, NEW window \in Nat, NEW w \in Int,
           x + window - t < w, n >= t + w, x >= n - window
    PROVE  FALSE
  OBVIOUS

\* Who waits as told is admitted, unless others of the key came before: once the
\* first of the admissions that blocked has left the window, the deque that is
\* left is shorter than the limit.
THEOREM RetryIsEnough == Spec => []RetryAfterSuffices
  <1>1. RetryInv => RetryAfterSuffices
    <2> SUFFICES ASSUME RetryInv, NEW r \in Requests, pc[r] = "limited",
                        now >= arrived[r] + header[r] * Second,
                        \A i \in DOMAIN admitted[key[r]] : admitted[key[r]][i] <= arrived[r]
                 PROVE  Len(Current(key[r])) < MaxRequests
      BY DEF RetryAfterSuffices
    <2> DEFINE k == key[r]
               a == admitted[k]
               t == arrived[r]
               h == header[r]
    <2>1. /\ k \in Keys /\ a \in Seq(Nat) /\ t \in Nat /\ h \in Int /\ now \in Nat
          /\ Second \in Nat /\ Window \in Nat /\ h * Second \in Int
          /\ MaxRequests \in Nat /\ MaxRequests > 0
      BY Parameters DEF RetryInv, Inv, TypeOK, Told
    <2>2. PICK f \in Nat : Blocks(a, t, h, f)
      BY DEF RetryInv, Told
    <2>3. now >= t + h * Second /\ \A i \in 1..Len(a) : a[i] <= t
      BY <2>1
    <2>4. Len(Current(k)) \in Nat
      BY <2>1, CurrentRemembered DEF RetryInv, Inv
    <2> SUFFICES ASSUME Len(Current(k)) >= MaxRequests PROVE FALSE
      BY <2>1, <2>4
    <2>5. PICK g \in Nat : /\ Len(a) = g + MaxRequests
                           /\ \A i \in (g + 1)..(g + MaxRequests) : a[i] >= now - Window
      BY <2>1, FullDeque DEF RetryInv
    <2> HIDE DEF k, a, t, h
    <2>6. \A i \in 1..Len(a) : a[i] \in Nat
      <3>1. a \in Seq(Nat)
        BY <2>1
      <3>2. QED
        BY <3>1
    <2>7. f + MaxRequests <= Len(a) /\ a[f + 1] + Window - t < h * Second
      BY <2>2 DEF Blocks
    <2>8. f = g
      <3>1. f <= g
        BY <2>1, <2>5, <2>7
      <3>2. ASSUME f < g PROVE FALSE
        <4>1. Len(a) \in (f + MaxRequests + 1)..Len(a) /\ Len(a) \in 1..Len(a)
          BY <2>1, <2>5, <3>2
        <4>2. a[Len(a)] > t
          BY <2>2, <4>1 DEF Blocks
        <4>3. a[Len(a)] <= t /\ a[Len(a)] \in Nat
          BY <2>3, <2>6, <4>1
        <4>4. QED
          BY <2>1, <4>2, <4>3
      <3>3. QED
        BY <3>1, <3>2
    <2>9. a[f + 1] >= now - Window /\ a[f + 1] \in Nat
      <3>1. f + 1 \in (g + 1)..(g + MaxRequests) /\ f + 1 \in 1..Len(a)
        BY <2>1, <2>5, <2>8
      <3>2. a[f + 1] >= now - Window
        BY <2>5, <3>1
      <3>3. a[f + 1] \in Nat
        BY <2>6, <3>1
      <3>4. QED
        BY <3>2, <3>3
    <2> DEFINE w == h * Second
    <2>10. w \in Int /\ now >= t + w /\ a[f + 1] + Window - t < w
      BY <2>1, <2>3, <2>7
    <2>11. t \in Nat /\ now \in Nat /\ Window \in Nat
      BY <2>1
    <2> HIDE DEF w
    <2>12. QED
      BY <2>9, <2>10, <2>11, LeavesInTime
  <1>2. QED
    BY <1>1, RetryInvariance, PTL

\* Nobody is turned away early, or told to wait a second too long.
THEOREM RetryIsTight == Spec => []RetryAfterIsTight
  <1>1. RetryInv => RetryAfterIsTight
    <2> SUFFICES ASSUME RetryInv, NEW r \in Requests, pc[r] = "limited"
                 PROVE  LET k == key[r]
                            blocking == {i \in DOMAIN admitted[k] :
                                 admitted[k][i] \in (arrived[r] - Window)..arrived[r]}
                        IN  /\ header[r] >= 1
                            /\ Cardinality(blocking) = MaxRequests
                            /\ \A i \in blocking :
                                 (header[r] - 1) * Second <= admitted[k][i] + Window - arrived[r]
      BY DEF RetryAfterIsTight
    <2> DEFINE k == key[r]
               a == admitted[k]
               t == arrived[r]
               h == header[r]
               blocking == {i \in DOMAIN a : a[i] \in (t - Window)..t}
    <2>1. /\ k \in Keys /\ a \in Seq(Nat) /\ t \in Nat /\ h \in Int
          /\ Second \in Nat /\ Window \in Nat /\ (h - 1) * Second \in Int
          /\ MaxRequests \in Nat /\ MaxRequests > 0
      BY Parameters DEF RetryInv, Inv, TypeOK, Told
    <2>2. PICK f \in Nat : Blocks(a, t, h, f)
      BY DEF RetryInv, Told
    <2>3. \A i, j \in 1..Len(a) : i <= j => a[i] <= a[j]
      BY <2>1 DEF RetryInv, Timely
    <2>4. blocking = {i \in DOMAIN a : a[i] \in (t - Window)..t}
      OBVIOUS
    <2> HIDE DEF k, a, t, h, blocking
    <2>5. DOMAIN a = 1..Len(a) /\ Len(a) \in Nat /\ \A i \in 1..Len(a) : a[i] \in Nat
      BY <2>1
    <2>6. f + MaxRequests <= Len(a)
      BY <2>2 DEF Blocks
    <2>7. blocking = (f + 1)..(f + MaxRequests)
      <3>1. ASSUME NEW i \in (f + 1)..(f + MaxRequests) PROVE i \in blocking
        <4>1. i \in 1..Len(a) /\ a[i] >= t - Window /\ a[i] <= t
          BY <2>1, <2>2, <2>5, <2>6 DEF Blocks
        <4>2. a[i] \in (t - Window)..t
          BY <2>1, <2>5, <4>1
        <4>3. QED
          BY <2>4, <2>5, <4>1, <4>2
      <3>2. ASSUME NEW i \in blocking PROVE i \in (f + 1)..(f + MaxRequests)
        <4>1. i \in 1..Len(a) /\ a[i] \in Nat /\ a[i] >= t - Window /\ a[i] <= t
          BY <2>1, <2>4, <2>5
        <4>2. ~(i \in 1..f)
          BY <2>1, <2>2, <4>1 DEF Blocks
        <4>3. ~(i \in (f + MaxRequests + 1)..Len(a))
          BY <2>1, <2>2, <4>1 DEF Blocks
        <4>4. QED
          BY <2>1, <2>5, <2>6, <4>1, <4>2, <4>3
      <3>3. QED
        BY <3>1, <3>2
    <2>8. Cardinality(blocking) = MaxRequests
      <3>1. f + 1 \in Int /\ f + MaxRequests \in Int /\ f + 1 <= f + MaxRequests
        BY <2>1
      <3>2. Cardinality((f + 1)..(f + MaxRequests)) = (f + MaxRequests) - (f + 1) + 1
        BY <3>1, FS_Interval
      <3>3. QED
        BY <2>1, <2>7, <3>2
    <2>9. ASSUME NEW i \in blocking PROVE (h - 1) * Second <= a[i] + Window - t
      <3>1. i \in 1..Len(a) /\ f + 1 \in 1..Len(a) /\ f + 1 <= i
        BY <2>1, <2>5, <2>6, <2>7
      <3>2. a[f + 1] <= a[i] /\ a[f + 1] \in Nat /\ a[i] \in Nat
        BY <2>3, <2>5, <3>1
      <3>3. (h - 1) * Second <= a[f + 1] + Window - t
        BY <2>2 DEF Blocks
      <3>4. QED
        BY <2>1, <3>2, <3>3
    <2>10. h >= 1
      BY <2>2 DEF Blocks
    <2>11. QED
      BY <2>8, <2>9, <2>10 DEF k, a, t, h, blocking
  <1>2. QED
    BY <1>1, RetryInvariance, PTL
=============================================================================
