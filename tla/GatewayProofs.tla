------------------------------ MODULE GatewayProofs ------------------------------
(***************************************************************************)
(* The way of a request through the layers, for every set of keys and of   *)
(* bodies.  Each step of the gateway is a step of the rate limiter or none *)
(* of its business, so what is proved of the limiter (RateLimiterProofs)   *)
(* holds behind it.  What the router may rely on is in Screened: a body    *)
(* that comes to it was let pass by every check, or security did not see   *)
(* it, since it is empty or only the router can read it.                   *)
(***************************************************************************)
EXTENDS Gateway, RateLimiterProofs

Layers == {"client", "security", "chat", "history", "streaming", "ended"}

GatewayTypeOK ==
    /\ place \in [Requests -> Layers]
    /\ body \in [Requests -> Bodies \union {NoBody}]

\* The limiter is waiting for whoever has the request.
Waiting ==
    \A r \in Requests :
      /\ place[r] \in {"security", "chat", "history"} => pc[r] = "calling"
      /\ pc[r] = "idle" => key[r] = None

\* What the router gets was authorised, and screened.
Screened ==
    \A r \in Requests :
      /\ place[r] \in {"chat", "streaming"} =>
           /\ key[r] \in ValidKeys /\ body[r] \in Bodies
           /\ Screen(body[r]) = "passed" /\ Parses(body[r])
      /\ place[r] = "streaming" => Validates(body[r])

GatewayInv == Inv /\ GatewayTypeOK /\ Waiting /\ Screened /\ EveryRequestCounts

-----------------------------------------------------------------------------

\* A step of the gateway is one of the limiter, or leaves it alone.
LEMMA StepIsLimiterStep ==
    ASSUME [GatewayNext]_gatewayVars
    PROVE  [Next]_vars
  <1>1. ASSUME NEW r \in Requests, NEW k \in Keys, Enter(r, k) \/ TurnAway(r, k)
        PROVE  Next
    BY <1>1 DEF Enter, TurnAway, Next
  <1>2. ASSUME NEW r \in Requests, PassExempt(r) \/ EndStream(r) PROVE UNCHANGED vars
    BY <1>2 DEF PassExempt, EndStream
  <1>3. ASSUME NEW r \in Requests,
               \/ RejectKey(r) \/ ReceiveBody(r) \/ PassBodiless(r)
               \/ StartChat(r) \/ AnswerHistory(r) \/ Lose(r)
        PROVE  Respond(r) \/ Fail(r) \/ UNCHANGED vars
    BY <1>3 DEF RejectKey, ReceiveBody, PassBodiless, StartChat, AnswerHistory, Lose,
                Answer, Drop
  <1>4. ASSUME Tick \/ UNCHANGED gatewayVars PROVE [Next]_vars
    BY <1>4 DEF Next, gatewayVars
  <1>5. QED
    BY <1>1, <1>2, <1>3, <1>4 DEF GatewayNext, Next

\* Behind the gateway the limiter does what its own specification says.
THEOREM GatewayRunsTheLimiter == GatewaySpec => Spec
  <1>1. GatewayInit => Init
    BY DEF GatewayInit
  <1>2. [GatewayNext]_gatewayVars => [Next]_vars
    BY StepIsLimiterStep
  <1>3. QED
    BY <1>1, <1>2, PTL DEF GatewaySpec, Spec

\* So the requests of a key that reach security are as few as configured.
THEOREM GatewayKeepsTheBound == GatewaySpec => []WindowBound
  BY GatewayRunsTheLimiter, WindowIsBounded, PTL

\* And whatever the layers behind the limiter do to its requests, the remaining
\* quota is not overstated, and who waits as Retry-After says is let in, unless
\* others came, and is not told to wait a second too long
\* (rate_limit_middleware.py:46-75).
THEOREM GatewayKeepsItsWord ==
    GatewaySpec => RemainingIsSafe /\ [](RetryAfterSuffices /\ RetryAfterIsTight)
  BY GatewayRunsTheLimiter, RemainingNeverOverstated, RetryIsEnough, RetryIsTight, PTL

-----------------------------------------------------------------------------

\* What passes the screen was not looked at, or no check finds anything in it.
LEMMA PassedIsClean ==
    ASSUME NEW b, Screen(b) = "passed"
    PROVE  Unread(b) \/ Finding(b) = {}
  <1> SUFFICES ASSUME ~Unread(b), Finding(b) # {} PROVE FALSE
    OBVIOUS
  <1> DEFINE least == CHOOSE i \in Finding(b) : \A j \in Finding(b) : i <= j
  <1>1. DOMAIN Checks(b) = 1..7
    BY DEF Checks
  <1>2. Finding(b) \subseteq 1..7
    BY <1>1 DEF Finding
  <1>3. least \in Finding(b)
    <2>1. Finding(b) \in SUBSET Nat
      BY <1>2
    <2>2. \E i \in Finding(b) : \A j \in Finding(b) : i <= j
      BY <2>1, LeastNat
    <2>3. QED
      BY <2>2
  <1>4. ASSUME NEW i \in 1..7 PROVE Checks(b)[i].outcome \in {"raised", "refused"}
    <2>1. i = 1 \/ i = 2 \/ i = 3 \/ i = 4 \/ i = 5 \/ i = 6 \/ i = 7
      OBVIOUS
    <2>2. /\ Checks(b)[1].outcome = "raised" /\ Checks(b)[2].outcome = "refused"
          /\ Checks(b)[3].outcome = "raised" /\ Checks(b)[4].outcome = "refused"
          /\ Checks(b)[5].outcome = "refused" /\ Checks(b)[6].outcome = "refused"
          /\ Checks(b)[7].outcome = "refused"
      BY DEF Checks
    <2>3. QED
      BY <2>1, <2>2
  <1>5. Screen(b) = Checks(b)[least].outcome
    BY DEF Screen
  <1> HIDE DEF least
  <1>6. QED
    BY <1>2, <1>3, <1>4, <1>5

LEMMA LengthsAreNatural == ASSUME NEW b \in AllBodies PROVE b.length \in Nat
  BY Zenon DEF AllBodies

\* The second check is for the length.
LEMMA CleanIsShort ==
    ASSUME NEW b, Finding(b) = {}, b.length \in Nat
    PROVE  b.length <= MaxPromptLength
  <1>1. DOMAIN Checks(b) = 1..7 /\ 2 \in 1..7
    BY DEF Checks
  <1>2. Checks(b)[2].finds = TooLong(b)
    BY DEF Checks
  <1>3. ~TooLong(b)
    BY <1>1, <1>2 DEF Finding
  <1>4. QED
    BY <1>3 DEF TooLong, MaxPromptLength

-----------------------------------------------------------------------------

LEMMA GatewayInitInvariant == GatewayInit => GatewayInv
  <1> SUFFICES ASSUME GatewayInit PROVE GatewayInv
    OBVIOUS
  <1>1. Inv
    BY InitInvariant DEF GatewayInit
  <1>2. GatewayTypeOK /\ Waiting /\ Screened
    BY DEF GatewayInit, Init, GatewayTypeOK, Layers, Waiting, Screened
  <1>3. EveryRequestCounts
    <2> SUFFICES ASSUME NEW k \in Keys
                 PROVE  Len(admitted[k])
                        = Cardinality({r \in Requests : key[r] = k /\ pc[r] # "limited"})
      BY DEF EveryRequestCounts
    <2>1. {r \in Requests : key[r] = k /\ pc[r] # "limited"} = {}
      BY KeysAssumption DEF GatewayInit, Init
    <2>2. admitted[k] = << >>
      BY DEF GatewayInit, Init
    <2>3. QED
      BY <2>1, <2>2, FS_EmptySet
  <1>4. QED
    BY <1>1, <1>2, <1>3 DEF GatewayInv

\* Where a request goes from where it is.
LEMMA GatewayTypeStep ==
    ASSUME GatewayInv, [GatewayNext]_gatewayVars
    PROVE  GatewayTypeOK'
  <1> USE DEF GatewayInv, GatewayTypeOK, Layers
  <1>1. ASSUME NEW r \in Requests, NEW k \in Keys, Enter(r, k) \/ TurnAway(r, k)
        PROVE  GatewayTypeOK'
    BY <1>1 DEF Enter, TurnAway, MoveTo
  <1>2. ASSUME NEW r \in Requests, PassExempt(r) \/ EndStream(r) PROVE GatewayTypeOK'
    BY <1>2 DEF PassExempt, EndStream, MoveTo, SetBody
  <1>3. ASSUME NEW r \in Requests, RejectKey(r) \/ AnswerHistory(r) \/ Lose(r)
        PROVE  GatewayTypeOK'
    BY <1>3 DEF RejectKey, AnswerHistory, Lose, Answer, Drop, MoveTo, SetBody
  <1>4. ASSUME NEW r \in Requests, ReceiveBody(r) PROVE GatewayTypeOK'
    <2>1. \/ Answer(r) \/ Drop(r)
          \/ \E b \in Bodies : MoveTo(r, "chat") /\ SetBody(r, b)
      BY <1>4 DEF ReceiveBody
    <2>2. QED
      BY <2>1 DEF Answer, Drop, MoveTo, SetBody
  <1>5. ASSUME NEW r \in Requests, PassBodiless(r) \/ StartChat(r) PROVE GatewayTypeOK'
    BY <1>5 DEF PassBodiless, StartChat, Answer, MoveTo, SetBody
  <1>6. ASSUME (Tick /\ UNCHANGED <<place, body>>) \/ UNCHANGED gatewayVars PROVE GatewayTypeOK'
    BY <1>6 DEF gatewayVars
  <1>7. QED
    BY <1>1, <1>2, <1>3, <1>4, <1>5, <1>6 DEF GatewayNext

LEMMA WaitingStep ==
    ASSUME GatewayInv, [GatewayNext]_gatewayVars
    PROVE  Waiting'
  <1> USE DEF GatewayInv, GatewayTypeOK, Layers, Inv, TypeOK, Waiting
  <1>1. ASSUME NEW r \in Requests, NEW k \in Keys, Enter(r, k) \/ TurnAway(r, k)
        PROVE  Waiting'
    BY <1>1 DEF Enter, TurnAway, MoveTo, Admit, Limit, Dispatch
  <1>2. ASSUME NEW r \in Requests, PassExempt(r) \/ EndStream(r) PROVE Waiting'
    BY <1>2 DEF PassExempt, EndStream, MoveTo, vars
  <1>3. ASSUME NEW r \in Requests, Answer(r) \/ Drop(r) PROVE Waiting'
    BY <1>3 DEF Answer, Drop, MoveTo, Respond, Fail
  <1>4. ASSUME NEW r \in Requests, ReceiveBody(r) PROVE Waiting'
    <2>1. \/ Answer(r) \/ Drop(r)
          \/ place[r] = "security" /\ MoveTo(r, "chat") /\ UNCHANGED vars
      BY <1>4 DEF ReceiveBody
    <2>2. QED
      BY <1>3, <2>1 DEF MoveTo, vars
  <1>5. ASSUME NEW r \in Requests, PassBodiless(r) PROVE Waiting'
    BY <1>3, <1>5 DEF PassBodiless, MoveTo, vars
  <1>6. ASSUME NEW r \in Requests, StartChat(r) PROVE Waiting'
    BY <1>3, <1>6 DEF StartChat, MoveTo, Respond
  <1>7. ASSUME NEW r \in Requests, RejectKey(r) \/ AnswerHistory(r) \/ Lose(r)
        PROVE  Waiting'
    BY <1>3, <1>7 DEF RejectKey, AnswerHistory, Lose
  <1>8. ASSUME (Tick /\ UNCHANGED <<place, body>>) \/ UNCHANGED gatewayVars PROVE Waiting'
    BY <1>8 DEF gatewayVars, vars, Tick
  <1>9. QED
    BY <1>1, <1>2, <1>4, <1>5, <1>6, <1>7, <1>8 DEF GatewayNext

\* A body comes to the router through ReceiveBody alone, and keeps its key.
LEMMA ScreenedStep ==
    ASSUME GatewayInv, [GatewayNext]_gatewayVars
    PROVE  Screened'
  <1> USE DEF GatewayInv, GatewayTypeOK, Layers, Inv, TypeOK, Screened
  <1>1. ASSUME NEW r \in Requests, NEW k \in Keys, Enter(r, k) \/ TurnAway(r, k)
        PROVE  Screened'
    BY <1>1 DEF Enter, TurnAway, MoveTo, Admit, Limit, Dispatch
  <1>2. ASSUME NEW r \in Requests, PassExempt(r) \/ EndStream(r) PROVE Screened'
    BY <1>2 DEF PassExempt, EndStream, MoveTo, SetBody, vars
  <1>3. ASSUME NEW r \in Requests, Answer(r) \/ Drop(r) PROVE Screened'
    BY <1>3 DEF Answer, Drop, MoveTo, SetBody, Respond, Fail
  <1>4. ASSUME NEW r \in Requests, ReceiveBody(r) PROVE Screened'
    <2>1. \/ Answer(r) \/ Drop(r)
          \/ \E b \in Bodies : /\ key[r] \in ValidKeys
                              /\ Screen(b) = "passed" /\ Parses(b)
                              /\ MoveTo(r, "chat") /\ SetBody(r, b) /\ UNCHANGED vars
      BY <1>4 DEF ReceiveBody, Authorised
    <2>2. QED
      BY <1>3, <2>1 DEF MoveTo, SetBody, vars
  <1>5. ASSUME NEW r \in Requests, PassBodiless(r) PROVE Screened'
    BY <1>3, <1>5 DEF PassBodiless, MoveTo, vars
  <1>6. ASSUME NEW r \in Requests, StartChat(r) PROVE Screened'
    BY <1>3, <1>6 DEF StartChat, MoveTo, Respond
  <1>7. ASSUME NEW r \in Requests, RejectKey(r) \/ AnswerHistory(r) \/ Lose(r)
        PROVE  Screened'
    BY <1>3, <1>7 DEF RejectKey, AnswerHistory, Lose
  <1>8. ASSUME (Tick /\ UNCHANGED <<place, body>>) \/ UNCHANGED gatewayVars PROVE Screened'
    BY <1>8 DEF gatewayVars, vars, Tick
  <1>9. QED
    BY <1>1, <1>2, <1>4, <1>5, <1>6, <1>7, <1>8 DEF GatewayNext

\* The requests that were counted against key k.
Counted(k) == {r \in Requests : key[r] = k /\ pc[r] # "limited"}

\* An admission adds its request to those of its key; nothing else changes them.
LEMMA CountsStep ==
    ASSUME Inv, Waiting, EveryRequestCounts, [Next]_vars
    PROVE  EveryRequestCounts'
  <1> USE DEF Inv, TypeOK, Waiting
  <1> SUFFICES ASSUME NEW k \in Keys PROVE Len(admitted'[k]) = Cardinality(Counted(k)')
    BY DEF EveryRequestCounts, Counted
  <1>1. Len(admitted[k]) = Cardinality(Counted(k)) /\ admitted[k] \in Seq(Nat)
    BY DEF EveryRequestCounts, Counted
  <1>2. IsFiniteSet(Counted(k))
    BY RequestsAssumption, FS_Subset DEF Counted
  <1>3. ASSUME NEW r \in Requests, Admit(r, k) PROVE Len(admitted'[k]) = Cardinality(Counted(k)')
    <2>1. r \notin Counted(k)
      BY <1>3, KeysAssumption DEF Admit, Dispatch, Counted
    <2>2. Counted(k)' = Counted(k) \union {r}
      BY <1>3 DEF Admit, Dispatch, Counted
    <2>3. Cardinality(Counted(k)') = Cardinality(Counted(k)) + 1
      BY <1>2, <2>1, <2>2, FS_AddElement
    <2>4. Len(admitted'[k]) = Len(admitted[k]) + 1
      BY <1>1, <1>3 DEF Admit
    <2>5. QED
      BY <1>1, <2>3, <2>4
  <1>4. ASSUME NEW r \in Requests, NEW l \in Keys, (l # k /\ Admit(r, l)) \/ Limit(r, l)
        PROVE  Counted(k)' = Counted(k) /\ admitted'[k] = admitted[k]
    BY <1>4, KeysAssumption DEF Admit, Limit, Dispatch, Counted
  <1>5. ASSUME NEW r \in Requests, Respond(r) \/ Fail(r)
        PROVE  Counted(k)' = Counted(k) /\ admitted'[k] = admitted[k]
    BY <1>5 DEF Respond, Fail, Counted
  <1>6. ASSUME Tick \/ UNCHANGED vars
        PROVE  Counted(k)' = Counted(k) /\ admitted'[k] = admitted[k]
    BY <1>6 DEF Tick, vars, Counted
  <1>7. QED
    BY <1>1, <1>3, <1>4, <1>5, <1>6 DEF Next

LEMMA GatewayNextInvariant == GatewayInv /\ [GatewayNext]_gatewayVars => GatewayInv'
  <1> SUFFICES ASSUME GatewayInv, [GatewayNext]_gatewayVars PROVE GatewayInv'
    OBVIOUS
  <1>1. [Next]_vars
    BY StepIsLimiterStep
  <1>2. Inv' /\ EveryRequestCounts'
    BY <1>1, NextInvariant, CountsStep DEF GatewayInv
  <1>3. QED
    BY <1>2, GatewayTypeStep, WaitingStep, ScreenedStep DEF GatewayInv

\* The inductive invariant holds in every reachable state.
THEOREM GatewayInvariance == GatewaySpec => []GatewayInv
  BY GatewayInitInvariant, GatewayNextInvariant, PTL DEF GatewaySpec

\* What the agent runs for was read by the router, and found clean by security if
\* security could read it too.
THEOREM StreamsAreScreened == GatewaySpec => []StreamsWereScreened
  <1>1. GatewayInv => StreamsWereScreened
    <2> SUFFICES ASSUME GatewayInv, NEW r \in Requests, place[r] = "streaming"
                 PROVE  /\ key[r] \in ValidKeys
                        /\ body[r].form = "object" /\ "bytes" \in body[r].readable
                        /\ "text" \in body[r].readable => Finding(body[r]) = {}
      BY DEF StreamsWereScreened
    <2>1. /\ key[r] \in ValidKeys /\ Screen(body[r]) = "passed"
          /\ Parses(body[r]) /\ body[r].form = "object"
      BY DEF GatewayInv, Screened, Validates
    <2>2. "bytes" \in body[r].readable
      BY <2>1 DEF Parses
    <2>3. "text" \in body[r].readable => Finding(body[r]) = {}
      BY <2>1, PassedIsClean DEF Unread
    <2>4. QED
      BY <2>1, <2>2, <2>3
  <1>2. QED
    BY <1>1, GatewayInvariance, PTL

\* No limit refuses what the other allows: what security measured fits the schema,
\* and what the schema let through fits the limit of security.
THEOREM LengthLimitsHold == GatewaySpec => []LengthLimitsAgree
  <1>1. GatewayInv => LengthLimitsAgree
    <2> SUFFICES ASSUME GatewayInv, NEW r \in Requests
                 PROVE  /\ place[r] = "chat" /\ ~Unread(body[r])
                             => body[r].length <= MaxQueryLength
                        /\ place[r] = "streaming" => body[r].length <= MaxPromptLength
      BY DEF LengthLimitsAgree
    <2>1. ASSUME place[r] = "chat", ~Unread(body[r])
          PROVE  body[r].length <= MaxQueryLength
      <3>1. body[r] \in Bodies /\ Screen(body[r]) = "passed"
        BY <2>1 DEF GatewayInv, Screened
      <3>2. Finding(body[r]) = {}
        BY <2>1, <3>1, PassedIsClean
      <3>3. body[r] \in AllBodies
        BY <3>1, GatewayAssumption
      <3>4. body[r].length \in Nat
        BY <3>3, LengthsAreNatural
      <3>5. QED
        BY <3>2, <3>4, CleanIsShort DEF MaxPromptLength, MaxQueryLength
    <2>2. ASSUME place[r] = "streaming" PROVE body[r].length <= MaxPromptLength
      BY <2>2 DEF GatewayInv, Screened, Validates, MaxPromptLength, MaxQueryLength
    <2>3. QED
      BY <2>1, <2>2
  <1>2. QED
    BY <1>1, GatewayInvariance, PTL

\* No request that reaches the limiter goes uncounted, or is counted twice.
THEOREM AllRequestsCount == GatewaySpec => []EveryRequestCounts
  BY GatewayInvariance, PTL DEF GatewayInv
=============================================================================
