------------------------------- MODULE WiringProofs -------------------------------
(***************************************************************************)
(* The wiring for any number of requests and any environments.  What a     *)
(* thread was given by a function never changes, because a function is     *)
(* called only when it has not returned to the thread yet: an object keeps *)
(* the parts it was made with.                                             *)
(***************************************************************************)
EXTENDS Wiring, TLAPS

\* The parts of an orchestrator.
Parts == {"llm", "registry", "erp", "rag"}

\* f is called by g.
CalledBy(f, g) ==
    \/ g = "run_agent" /\ f \in {"orchestrator", "conversation"}
    \/ g = "get_history" /\ f = "conversation"
    \/ g = "orchestrator" /\ f \in {"llm", "registry"}
    \/ g = "registry" /\ f \in {"erp", "rag"}

\* The object q made for f has its parts.
Whole(q, f) ==
    /\ f = "orchestrator" => got[q]["llm"] # {} /\ got[q]["registry"] # {}
    /\ f = "registry" => got[q]["erp"] # {} /\ got[q]["rag"] # {}

\* A factory that r is in has not returned to r.
Unmade(r) ==
    /\ at[r] \in Factories => got[r][at[r]] = {}
    /\ at[r] \in Parts => got[r]["orchestrator"] = {}
    /\ at[r] \in {"erp", "rag"} => got[r]["registry"] = {}

Live(r) == at[r] \notin {"none", "gone"}

\* The requests whose objects r holds.
Makers(f) == cache[f] \union UNION {got[r][f] : r \in Requests}

AtMostOne(S) == S = {} \/ \E q \in Requests : S = {q}

Unresolved == \A r \in Requests : ~Live(r) => got[r] = Nothing

DatabaseIsUp == (up <=> sessions) /\ \A r \in Requests : Running(r) => up

Slots ==
    /\ \A f \in Factories : AtMostOne(cache[f])
    /\ \A r \in Requests, f \in Factories : AtMostOne(got[r][f])

\* Makers are live, made whole objects, and had what these need.
MakersAreSound ==
    \A f \in Factories : \A q \in Makers(f) :
      /\ Live(q)
      /\ Whole(q, f)
      /\ f \in {"llm", "orchestrator"} => HasLlmKey
      /\ f \in {"rag", "registry", "orchestrator"} => RagLoads

\* Late requests make nothing but a conversation adapter.
LateMakeNothing ==
    /\ late # {} => Stored("orchestrator")
    /\ \A r \in late :
         /\ Live(r)
         /\ at[r] \notin Parts \union {"orchestrator"}
         /\ got[r]["orchestrator"] \subseteq cache["orchestrator"]
         /\ \A f \in Parts \union {"orchestrator"} : r \notin Makers(f)

\* Only a chat request comes to where an orchestrator and its parts are made.
OnItsWay(r) ==
    /\ at[r] \in UseCases => at[r] = wants[r]
    /\ at[r] \in Parts \union {"orchestrator"} => wants[r] = "run_agent"

\* Why a request was refused its dependencies.
RefusedFor(r) == at[r] = "raised" => wants[r] = "run_agent" /\ ~(HasLlmKey /\ RagLoads)

WiringInv ==
    /\ WiringTypeOK
    /\ \A r \in Requests : Unmade(r)
    /\ \A r \in Requests : OnItsWay(r)
    /\ Unresolved
    /\ DatabaseIsUp
    /\ Slots
    /\ MakersAreSound
    /\ LateMakeNothing
    /\ \A r \in Requests : RefusedFor(r)

-----------------------------------------------------------------------------

\* What the sequences of calls mean.
LEMMA NeedsCalls ==
    ASSUME NEW g \in UseCases \union Factories
    PROVE  /\ \A i \in DOMAIN Needs[g] : Needs[g][i] \in Factories /\ CalledBy(Needs[g][i], g)
           /\ \A f \in Factories : CalledBy(f, g) => \E i \in DOMAIN Needs[g] : Needs[g][i] = f
  BY DEF Needs, UseCases, Factories, CalledBy

LEMMA CallFacts ==
    ASSUME NEW r \in Requests, Running(r), NEW f \in Factories, Calls(r, f)
    PROVE  CalledBy(f, at[r]) /\ got[r][f] = {}
  BY NeedsCalls DEF Calls, Missing, Running

LEMMA AllReturned ==
    ASSUME NEW r \in Requests, Running(r), Missing(r) = {}
    PROVE  /\ Whole(r, at[r])
           /\ at[r] = "run_agent" => got[r]["orchestrator"] # {}
  <1>1. \A f \in Factories : CalledBy(f, at[r]) => got[r][f] # {}
    BY NeedsCalls DEF Missing, Running
  <1> QED
    BY <1>1 DEF Whole, CalledBy, Factories

\* The steps of the threads, by what they change.
LEMMA StepForms ==
    ASSUME WiringInv, NEW r \in Requests, ThreadStep(r)
    PROVE  /\ UNCHANGED <<settings, up, sessions, wants, late>>
           /\ Running(r)
           /\ \/ \E f \in Factories :
                   /\ CalledBy(f, at[r]) /\ got[r][f] = {} /\ Stored(f)
                   /\ got' = [got EXCEPT ![r][f] = cache[f]]
                   /\ UNCHANGED <<at, cache>>
              \/ \E f \in Factories :
                   /\ CalledBy(f, at[r]) /\ got[r][f] = {} /\ ~Stored(f)
                   /\ at' = [at EXCEPT ![r] = f]
                   /\ UNCHANGED <<got, cache>>
              \/ /\ at[r] \in Factories /\ Whole(r, at[r]) /\ ~Raises(at[r])
                 /\ got' = [got EXCEPT ![r][at[r]] = {r}]
                 /\ cache' = IF Stored(at[r]) THEN cache ELSE [cache EXCEPT ![at[r]] = {r}]
                 /\ at' = [at EXCEPT ![r] = Caller(r)]
              \/ /\ at[r] \in Factories /\ Raises(at[r])
                 /\ at' = [at EXCEPT ![r] = "raised"]
                 /\ UNCHANGED <<got, cache>>
              \/ /\ at[r] \in UseCases
                 /\ at' = [at EXCEPT ![r] = "returned"]
                 /\ UNCHANGED <<got, cache>>
  <1>1. CASE Hit(r)
    BY <1>1, CallFacts DEF Hit
  <1>2. CASE Miss(r)
    BY <1>2, CallFacts DEF Miss, Goto
  <1>3. CASE Construct(r)
    BY <1>3, AllReturned DEF Construct, Made, Goto, Running
  <1>4. CASE Raise(r)
    BY <1>4 DEF Raise, Goto, Running
  <1>5. CASE Return(r)
    BY <1>5 DEF Return, Goto, Running
  <1> QED
    BY <1>1, <1>2, <1>3, <1>4, <1>5 DEF ThreadStep

LEMMA WiringInit0 == WiringInit => WiringInv
  <1> SUFFICES ASSUME WiringInit PROVE WiringInv
    OBVIOUS
  <1>1. WiringTypeOK
    BY DEF WiringInit, WiringTypeOK, Nothing
  <1>2. \A f \in Factories : Makers(f) = {}
    BY DEF WiringInit, Makers, Nothing
  <1>3. (\A r \in Requests : Unmade(r)) /\ Unresolved /\ DatabaseIsUp /\ Slots
    BY DEF WiringInit, Unmade, Unresolved, DatabaseIsUp, Slots, AtMostOne, Nothing, Running,
           UseCases, Factories, Parts
  <1>4. MakersAreSound /\ LateMakeNothing
    BY <1>2 DEF WiringInit, MakersAreSound, LateMakeNothing
  <1>5. \A r \in Requests : OnItsWay(r) /\ RefusedFor(r)
    BY DEF WiringInit, OnItsWay, RefusedFor, UseCases, Parts
  <1> QED
    BY <1>1, <1>3, <1>4, <1>5 DEF WiringInv

LEMMA RebootInv == WiringInv /\ Reboot => WiringInv'
  <1> SUFFICES ASSUME WiringInv, Reboot PROVE WiringInv'
    OBVIOUS
  <1>1. WiringTypeOK'
    BY DEF Reboot, WiringInv, WiringTypeOK, Nothing
  <1>2. \A r \in Requests : at'[r] \in {"none", "gone"}
    BY DEF Reboot
  <1>3. \A f \in Factories : Makers(f)' = {}
    BY DEF Reboot, Makers, Nothing
  <1>4. (\A r \in Requests : Unmade(r)') /\ Unresolved' /\ DatabaseIsUp' /\ Slots'
    BY <1>2 DEF Reboot, Unmade, Unresolved, DatabaseIsUp, Slots, AtMostOne, Nothing, Running,
           UseCases, Factories, Parts
  <1>5. MakersAreSound' /\ LateMakeNothing'
    BY <1>3 DEF Reboot, MakersAreSound, LateMakeNothing
  <1>6. \A r \in Requests : OnItsWay(r)' /\ RefusedFor(r)'
    BY <1>2 DEF OnItsWay, RefusedFor, UseCases, Parts
  <1> QED
    BY <1>1, <1>4, <1>5, <1>6 DEF WiringInv

LEMMA ResolveInv == ASSUME WiringInv, NEW r \in Requests, Resolve(r) PROVE WiringInv'
  <1>1. /\ UNCHANGED <<settings, up, sessions, wants, got, cache>>
        /\ up /\ at[r] = "none" /\ at' = [at EXCEPT ![r] = wants[r]] /\ wants[r] \in UseCases
        /\ late' = IF Stored("orchestrator") THEN late \union {r} ELSE late
    BY DEF Resolve, Goto, WiringInv, WiringTypeOK
  <1>2. at'[r] = wants[r] /\ \A q \in Requests \ {r} : at'[q] = at[q]
    BY <1>1 DEF WiringInv, WiringTypeOK
  <1>3. WiringTypeOK'
    BY <1>1 DEF WiringInv, WiringTypeOK
  <1>4. \A q \in Requests : Unmade(q)'
    BY <1>1, <1>2 DEF WiringInv, Unmade, UseCases, Factories, Parts
  <1>5. Unresolved' /\ DatabaseIsUp' /\ Slots'
    BY <1>1, <1>2 DEF WiringInv, Unresolved, DatabaseIsUp, Slots, Running, Live
  <1>6. \A f \in Factories : Makers(f)' = Makers(f)
    BY <1>1 DEF Makers
  <1>7. \A q \in Requests : Live(q) => Live(q)'
    BY <1>1, <1>2 DEF Live, UseCases
  <1>8. /\ HasLlmKey' = HasLlmKey /\ RagLoads' = RagLoads
        /\ \A q, f : Whole(q, f)' = Whole(q, f)
    BY <1>1 DEF HasLlmKey, RagLoads, IsSimulated, Whole
  <1>9. \A f \in Factories : Makers(f) \subseteq Requests
    BY DEF Makers, WiringInv, WiringTypeOK
  <1>10. MakersAreSound'
    BY <1>6, <1>7, <1>8, <1>9 DEF WiringInv, MakersAreSound
  <1>11. \A f \in Factories : r \notin Makers(f)
    BY <1>1 DEF WiringInv, MakersAreSound, Live
  <1>12. got[r]["orchestrator"] = {}
    BY <1>1 DEF WiringInv, Unresolved, Live, Nothing, Factories
  <1>13. LateMakeNothing'
    BY <1>1, <1>2, <1>6, <1>7, <1>11, <1>12
    DEF WiringInv, WiringTypeOK, LateMakeNothing, Stored, Live, UseCases, Parts, Factories
  <1>14. \A q \in Requests : OnItsWay(q)' /\ RefusedFor(q)'
    BY <1>1, <1>2, <1>8 DEF WiringInv, OnItsWay, RefusedFor, UseCases, Parts
  <1> QED
    BY <1>3, <1>4, <1>5, <1>10, <1>13, <1>14 DEF WiringInv

LEMMA HitInv ==
    ASSUME WiringInv, NEW r \in Requests, Running(r), NEW f \in Factories,
           CalledBy(f, at[r]), got[r][f] = {}, Stored(f),
           got' = [got EXCEPT ![r][f] = cache[f]],
           UNCHANGED <<settings, up, sessions, wants, late, at, cache>>
    PROVE  WiringInv'
  <1> USE DEF WiringInv
  <1>1. /\ got'[r][f] = cache[f]
        /\ \A q \in Requests, g \in Factories : q # r \/ g # f => got'[q][g] = got[q][g]
    BY DEF WiringTypeOK
  <1>2. WiringTypeOK'
    BY DEF WiringTypeOK
  <1>3. CalledBy(f, at[r]) => f # at[r] /\ (at[r] \in Parts => f # "orchestrator")
                              /\ (at[r] \in {"erp", "rag"} => f # "registry")
    BY DEF CalledBy, Parts
  <1>4. \A q \in Requests : Unmade(q)'
    BY <1>1, <1>3 DEF Unmade, Factories, Parts
  <1>5. Live(r)
    BY DEF Running, Live, UseCases, Factories
  <1>6. Unresolved' /\ DatabaseIsUp'
    BY <1>5 DEF Unresolved, DatabaseIsUp, Running, Live, WiringTypeOK
  <1>7. Slots'
    BY <1>1 DEF Slots, AtMostOne
  <1>8. \A g \in Factories : Makers(g)' = Makers(g)
    BY <1>1 DEF Makers
  <1>9. \A q \in Requests, g \in Factories : Whole(q, g) => Whole(q, g)'
    BY <1>1 DEF Whole, Stored, Factories
  <1>10. \A g \in Factories : Makers(g) \subseteq Requests
    BY DEF Makers, WiringTypeOK
  <1>11. MakersAreSound'
    BY <1>8, <1>9, <1>10 DEF MakersAreSound, Live, HasLlmKey, RagLoads, IsSimulated
  <1>12. LateMakeNothing'
    BY <1>1, <1>8 DEF LateMakeNothing, Live, Stored, WiringTypeOK, Factories, Parts
  <1>13. \A q \in Requests : OnItsWay(q)' /\ RefusedFor(q)'
    BY DEF OnItsWay, RefusedFor, HasLlmKey, RagLoads, IsSimulated
  <1> QED
    BY <1>2, <1>4, <1>6, <1>7, <1>11, <1>12, <1>13

\* Where a thread goes inside its calls makes no object.
LEMMA MoveInv ==
    ASSUME WiringInv, NEW r \in Requests, Running(r),
           NEW place \in Factories \union {"raised", "returned"},
           at' = [at EXCEPT ![r] = place],
           place \in Factories => CalledBy(place, at[r]) /\ got[r][place] = {} /\ ~Stored(place),
           place = "raised" => wants[r] = "run_agent" /\ ~(HasLlmKey /\ RagLoads),
           UNCHANGED <<settings, up, sessions, wants, late, got, cache>>
    PROVE  WiringInv'
  <1> USE DEF WiringInv
  <1>1. at'[r] = place /\ \A q \in Requests \ {r} : at'[q] = at[q]
    BY DEF WiringTypeOK
  <1>2. WiringTypeOK'
    BY DEF WiringTypeOK
  <1>3. \A q \in Requests : Unmade(q)'
    BY <1>1 DEF Unmade, CalledBy, Factories, Parts
  <1>4. up
    BY DEF DatabaseIsUp
  <1>5. \A q \in Requests : Live(q)' <=> Live(q)
    BY <1>1 DEF Live, Running, UseCases, Factories
  <1>6. Unresolved' /\ DatabaseIsUp' /\ Slots'
    BY <1>4, <1>5 DEF Unresolved, DatabaseIsUp, Slots
  <1>7. \A f \in Factories : Makers(f)' = Makers(f) /\ Makers(f) \subseteq Requests
    BY DEF Makers, WiringTypeOK
  <1>8. /\ HasLlmKey' = HasLlmKey /\ RagLoads' = RagLoads
        /\ \A q, f : Whole(q, f)' = Whole(q, f)
    BY DEF HasLlmKey, RagLoads, IsSimulated, Whole
  <1>9. MakersAreSound'
    BY <1>5, <1>7, <1>8 DEF MakersAreSound
  <1>10. r \in late => place \notin Parts \union {"orchestrator"}
    BY DEF LateMakeNothing, CalledBy, Parts, Stored, Factories
  <1>11. LateMakeNothing'
    BY <1>1, <1>5, <1>7, <1>10 DEF LateMakeNothing, Stored, WiringTypeOK, Factories, Parts
  <1>12. \A q \in Requests : RefusedFor(q)'
    BY <1>1, <1>8 DEF RefusedFor, Factories
  <1>13. OnItsWay(r)'
    BY <1>1 DEF OnItsWay, CalledBy, UseCases, Factories, Parts
  <1>14. \A q \in Requests : OnItsWay(q)'
    BY <1>1, <1>13 DEF OnItsWay
  <1> QED
    BY <1>2, <1>3, <1>6, <1>9, <1>11, <1>12, <1>14

LEMMA ConstructInv ==
    ASSUME WiringInv, NEW r \in Requests, NEW f \in Factories,
           at[r] = f, Whole(r, f), ~Raises(f),
           got' = [got EXCEPT ![r][f] = {r}],
           cache' = IF Stored(f) THEN cache ELSE [cache EXCEPT ![f] = {r}],
           at' = [at EXCEPT ![r] = Caller(r)],
           UNCHANGED <<settings, up, sessions, wants, late>>
    PROVE  WiringInv'
  <1> USE DEF WiringInv
  <1>1. /\ got'[r][f] = {r}
        /\ \A q \in Requests, g \in Factories : q # r \/ g # f => got'[q][g] = got[q][g]
    BY DEF WiringTypeOK
  <1>2. /\ cache'[f] = IF Stored(f) THEN cache[f] ELSE {r}
        /\ \A g \in Factories \ {f} : cache'[g] = cache[g]
    BY DEF WiringTypeOK
  <1>3. /\ Caller(r) \in UseCases \union {"orchestrator", "registry"}
        /\ f \in {"erp", "rag"} => Caller(r) = "registry"
        /\ f \in {"llm", "registry"} => Caller(r) = "orchestrator"
        /\ f \notin Parts => Caller(r) \in UseCases
    BY DEF Caller, WiringTypeOK, Factories, Parts
  <1>4. at'[r] = Caller(r) /\ \A q \in Requests \ {r} : at'[q] = at[q]
    BY DEF WiringTypeOK
  <1>5. WiringTypeOK'
    <2>1. at' \in [Requests -> UseCases \union Factories \union {"none", "returned", "raised", "gone"}]
      BY <1>3 DEF WiringTypeOK, Factories
    <2>2. got' \in [Requests -> [Factories -> SUBSET Requests]] /\ cache' \in [Factories -> SUBSET Requests]
      BY DEF WiringTypeOK
    <2> QED
      BY <2>1, <2>2 DEF WiringTypeOK
  <1>6. got[r][f] = {} /\ (f \in Parts => got[r]["orchestrator"] = {})
        /\ (f \in {"erp", "rag"} => got[r]["registry"] = {})
    BY DEF Unmade
  <1>7. Unmade(r)'
    BY <1>1, <1>3, <1>4, <1>6 DEF Unmade, Factories, Parts, UseCases
  <1>8. \A q \in Requests \ {r} : Unmade(q)'
    BY <1>1, <1>4 DEF Unmade, Factories, Parts
  <1>9. Live(r) /\ \A q \in Requests : Live(q)' <=> Live(q)
    BY <1>3, <1>4 DEF Live, UseCases, Factories
  <1>10. Unresolved'
    BY <1>9 DEF Unresolved, WiringTypeOK
  <1>11. DatabaseIsUp'
    BY <1>3, <1>4 DEF DatabaseIsUp, Running, Factories
  <1>12. Slots'
    BY <1>1, <1>2 DEF Slots, AtMostOne
  <1>13. /\ \A g \in Factories \ {f} : Makers(g)' = Makers(g)
         /\ Makers(f)' \subseteq Makers(f) \union {r}
         /\ \A g \in Factories : Makers(g) \subseteq Requests
    BY <1>1, <1>2, <1>5 DEF Makers, WiringTypeOK
  <1>14. \A q \in Requests, g \in Factories : Whole(q, g) => Whole(q, g)'
    BY <1>1, <1>6 DEF Whole, Factories
  <1>15. /\ HasLlmKey' = HasLlmKey /\ (f = "llm" => HasLlmKey)
         /\ RagLoads' = RagLoads /\ (f = "rag" => RagLoads)
    BY DEF HasLlmKey, RagLoads, IsSimulated, Raises
  <1>16. ASSUME NEW part \in Factories, got[r][part] # {}
         PROVE  \E q \in Makers(part) : TRUE
    BY <1>16 DEF Makers
  <1>17. /\ f = "orchestrator" => HasLlmKey
         /\ f \in {"registry", "orchestrator"} => RagLoads
    <2>1. {"llm", "registry", "rag"} \subseteq Factories
      BY DEF Factories
    <2>2. f = "orchestrator" => got[r]["llm"] # {} /\ got[r]["registry"] # {}
      BY DEF Whole
    <2>3. f = "registry" => got[r]["rag"] # {}
      BY DEF Whole
    <2> QED
      BY <1>16, <2>1, <2>2, <2>3 DEF MakersAreSound
  <1>18. MakersAreSound'
    BY <1>9, <1>13, <1>14, <1>15, <1>17 DEF MakersAreSound
  <1>19. LateMakeNothing'
    <2>1. f \in Parts \union {"orchestrator"} => r \notin late
      BY DEF LateMakeNothing
    <2>2. late # {} => Stored("orchestrator")'
      BY <1>2 DEF LateMakeNothing, Stored, Factories
    <2>3. late # {} => cache'["orchestrator"] = cache["orchestrator"]
      BY <1>2 DEF LateMakeNothing, Stored, Factories
    <2>4. \A q \in late : q \in Requests /\ (q = r => f = "conversation")
      BY <2>1 DEF WiringTypeOK, Factories, Parts
    <2>5. \A q \in late : at'[q] \notin Parts \union {"orchestrator"}
      BY <1>3, <1>4, <2>4 DEF LateMakeNothing, UseCases, Parts
    <2>6. \A q \in late : got'[q]["orchestrator"] \subseteq cache'["orchestrator"]
      BY <1>1, <2>3, <2>4 DEF LateMakeNothing, Factories
    <2>7. \A q \in late, g \in Parts \union {"orchestrator"} : q \notin Makers(g)'
      BY <1>13, <2>1 DEF LateMakeNothing, Factories, Parts
    <2> QED
      BY <1>9, <2>2, <2>4, <2>5, <2>6, <2>7 DEF LateMakeNothing
  <1>20. \A q \in Requests : RefusedFor(q)'
    BY <1>3, <1>4, <1>15 DEF UseCases, RefusedFor
  <1>21. OnItsWay(r)'
    BY <1>4 DEF OnItsWay, Caller, Factories, UseCases, Parts, WiringTypeOK
  <1>22. \A q \in Requests : OnItsWay(q)'
    BY <1>4, <1>21 DEF OnItsWay
  <1> QED
    BY <1>5, <1>7, <1>8, <1>10, <1>11, <1>12, <1>18, <1>19, <1>20, <1>22

LEMMA ThreadInv == ASSUME WiringInv, NEW r \in Requests, ThreadStep(r) PROVE WiringInv'
  <1>1. sessions
    BY StepForms DEF WiringInv, DatabaseIsUp
  <1>2. at[r] \in Factories /\ Raises(at[r]) =>
          wants[r] = "run_agent" /\ ~(HasLlmKey /\ RagLoads)
    BY <1>1 DEF Raises, WiringInv, OnItsWay, Parts
  <1>3. UNCHANGED <<settings, up, sessions, wants, late>> /\ Running(r)
    BY StepForms
  <1>4. ASSUME NEW f \in Factories, CalledBy(f, at[r]), got[r][f] = {}, Stored(f),
               got' = [got EXCEPT ![r][f] = cache[f]], UNCHANGED <<at, cache>>
        PROVE  WiringInv'
    BY <1>3, <1>4, HitInv
  <1>5. ASSUME NEW f \in Factories, CalledBy(f, at[r]), got[r][f] = {}, ~Stored(f),
               at' = [at EXCEPT ![r] = f], UNCHANGED <<got, cache>>
        PROVE  WiringInv'
    BY <1>3, <1>5, MoveInv DEF Factories
  <1>6. ASSUME at[r] \in Factories, Whole(r, at[r]), ~Raises(at[r]),
               got' = [got EXCEPT ![r][at[r]] = {r}],
               cache' = IF Stored(at[r]) THEN cache ELSE [cache EXCEPT ![at[r]] = {r}],
               at' = [at EXCEPT ![r] = Caller(r)]
        PROVE  WiringInv'
    BY <1>3, <1>6, ConstructInv
  <1>7. ASSUME at[r] \in Factories, Raises(at[r]), at' = [at EXCEPT ![r] = "raised"],
               UNCHANGED <<got, cache>>
        PROVE  WiringInv'
    BY <1>2, <1>3, <1>7, MoveInv DEF Factories
  <1>8. ASSUME at' = [at EXCEPT ![r] = "returned"], UNCHANGED <<got, cache>> PROVE WiringInv'
    BY <1>3, <1>8, MoveInv DEF Factories
  <1> QED
    BY <1>4, <1>5, <1>6, <1>7, <1>8, StepForms

LEMMA WiringStep == WiringInv /\ [WiringNext]_wiringVars => WiringInv'
  <1> SUFFICES ASSUME WiringInv, [WiringNext]_wiringVars PROVE WiringInv'
    OBVIOUS
  <1>1. CASE InitDb
    BY <1>1 DEF InitDb, WiringInv, WiringTypeOK, Unmade, Unresolved, DatabaseIsUp, Slots,
                MakersAreSound, LateMakeNothing, Makers, Live, Whole, Stored, Running,
                HasLlmKey, RagLoads, IsSimulated, OnItsWay, RefusedFor
  <1>2. CASE UNCHANGED wiringVars
    BY <1>2 DEF wiringVars, WiringInv, WiringTypeOK, Unmade, Unresolved, DatabaseIsUp, Slots,
                MakersAreSound, LateMakeNothing, Makers, Live, Whole, Stored, Running,
                HasLlmKey, RagLoads, IsSimulated, OnItsWay, RefusedFor
  <1> QED
    BY <1>1, <1>2, RebootInv, ResolveInv, ThreadInv DEF WiringNext

-----------------------------------------------------------------------------

THEOREM WiringInvariance == WiringSpec => []WiringInv
  <1> QED
    BY WiringInit0, WiringStep, PTL DEF WiringSpec

\* For any number of requests and restarts of the process, a request that comes
\* when an orchestrator is stored makes none of its parts
\* (dependencies.py:25-78).
THEOREM LateShare == WiringSpec => []LateRequestsShare
  <1>1. ASSUME WiringInv, NEW r \in late, NEW f \in Parts
        PROVE  r \notin cache[f] \union got[r][f]
    BY <1>1 DEF WiringInv, WiringTypeOK, LateMakeNothing, Makers
  <1>2. WiringInv => LateRequestsShare
    BY <1>1 DEF WiringInv, LateMakeNothing, LateRequestsShare, Parts
  <1> QED
    BY <1>2, WiringInvariance, PTL

\* Whatever is handed out or stored has all its parts, although no lock is held
\* while it is made (dependencies.py:25-78).
THEOREM MadeBeforeHandedOut == WiringSpec => []HandedOutWhole
  <1>1. ASSUME NEW f \in Factories, NEW q, Whole(q, f)
        PROVE  \A i \in DOMAIN Needs[f] : got[q][Needs[f][i]] # {}
    BY <1>1 DEF Whole, Needs, Factories
  <1>2. WiringInv => HandedOutWhole
    BY <1>1 DEF WiringInv, MakersAreSound, HandedOutWhole, Makers
  <1> QED
    BY <1>2, WiringInvariance, PTL

\* The dependencies of a request fail for chat requests alone, for the missing key of
\* the model provider or a corpus that the simulated adapter cannot read, and for
\* nothing else: the database is always initialised by then
\* (llm_factory.py:13-36, simulated_rag_adapter.py:31-38, mysql_client.py:39-42).
THEOREM OnlyConfigurationFails == WiringSpec => []FailsByConfiguration
  <1>1. ASSUME WiringInv, NEW r \in Requests, got[r]["orchestrator"] # {}
        PROVE  HasLlmKey /\ RagLoads
    <2>1. PICK q \in got[r]["orchestrator"] : TRUE
      BY <1>1
    <2>2. q \in Makers("orchestrator") /\ "orchestrator" \in Factories
      BY <2>1 DEF Makers, Factories
    <2> QED
      BY <1>1, <2>2 DEF WiringInv, MakersAreSound
  <1>2. WiringInv => FailsByConfiguration
    BY <1>1 DEF WiringInv, RefusedFor, FailsByConfiguration
  <1> QED
    BY <1>2, WiringInvariance, PTL

-----------------------------------------------------------------------------

\* An orchestrator that was made has one RAG adapter, made by a request that was
\* not late.
LEMMA RagOfOne ==
    ASSUME WiringInv, NEW q \in Makers("orchestrator")
    PROVE  \E a \in Early : RagBehind({q}) = {a}
  <1> USE DEF WiringInv
  <1>1. {"orchestrator", "registry", "rag"} \subseteq Factories /\ "rag" \in Parts
    BY DEF Factories, Parts
  <1>2. q \in Requests /\ got[q]["registry"] # {}
    BY <1>1 DEF Makers, WiringTypeOK, MakersAreSound, Whole
  <1>3. PICK p \in Requests : got[q]["registry"] = {p}
    BY <1>1, <1>2 DEF Slots, AtMostOne
  <1>4. p \in Makers("registry")
    BY <1>2, <1>3 DEF Makers
  <1>5. got[p]["rag"] # {}
    BY <1>1, <1>4 DEF MakersAreSound, Whole
  <1>6. PICK a \in Requests : got[p]["rag"] = {a}
    BY <1>1, <1>5 DEF Slots, AtMostOne
  <1>7. a \in Makers("rag")
    BY <1>6 DEF Makers
  <1>8. a \in Early
    BY <1>1, <1>7 DEF MakersAreSound, LateMakeNothing, Live, Early
  <1>9. RagBehind({q}) = {a}
    BY <1>3, <1>6 DEF RagBehind, Follow
  <1> QED
    BY <1>8, <1>9

LEMMA RagOfAll ==
    WiringInv => \A q \in Makers("orchestrator") : \E a \in Early : RagBehind({q}) = {a}
  BY RagOfOne

LEMMA RagOfOneNext ==
    (WiringInv => \A q \in Makers("orchestrator") : \E a \in Early : RagBehind({q}) = {a})'
  BY RagOfAll, PTL

LEMMA NoOrchestratorNoRag == RagBehind({}) = {}
  BY DEF RagBehind, Follow

LEMMA KeptIsStored == WiringInv => (Kept = {} <=> ~Stored("orchestrator"))
  <1> SUFFICES ASSUME WiringInv PROVE Kept = {} <=> ~Stored("orchestrator")
    OBVIOUS
  <1>1. CASE cache["orchestrator"] = {}
    BY <1>1, NoOrchestratorNoRag DEF Kept, Stored
  <1>2. ASSUME NEW q \in Requests, cache["orchestrator"] = {q} PROVE Kept # {}
    BY <1>2, RagOfOne DEF Makers, Kept
  <1> QED
    BY <1>1, <1>2 DEF WiringInv, Slots, AtMostOne, Factories, Stored

\* What an orchestrator searches with does not change.
LEMMA RagStays ==
    ASSUME WiringInv, NEW owners, owners \subseteq Makers("orchestrator"),
           \A q \in Requests, g \in Factories : got[q][g] # {} => got'[q][g] = got[q][g]
    PROVE  RagBehind(owners)' = RagBehind(owners)
  <1> USE DEF WiringInv
  <1>1. {"orchestrator", "registry", "rag"} \subseteq Factories
    BY DEF Factories
  <1>2. \A q \in owners : q \in Requests /\ got'[q]["registry"] = got[q]["registry"]
    BY <1>1 DEF Makers, WiringTypeOK, MakersAreSound, Whole
  <1>3. Follow(owners, "registry")' = Follow(owners, "registry")
    BY <1>2 DEF Follow
  <1>4. \A p \in Follow(owners, "registry") : p \in Makers("registry") /\ p \in Requests
    BY <1>1, <1>2 DEF Follow, Makers, WiringTypeOK
  <1>5. \A p \in Follow(owners, "registry") : got'[p]["rag"] = got[p]["rag"]
    BY <1>1, <1>4 DEF MakersAreSound, Whole
  <1> QED
    BY <1>3, <1>5 DEF RagBehind, Follow

GotStays == \A q \in Requests, g \in Factories : got[q][g] # {} => got'[q][g] = got[q][g]

LEMMA KeptStays ==
    ASSUME WiringInv, GotStays, cache'["orchestrator"] = cache["orchestrator"]
    PROVE  Kept' = Kept
  <1>1. PICK o : o = cache["orchestrator"]
    OBVIOUS
  <1>2. o \subseteq Makers("orchestrator")
    BY <1>1 DEF Makers
  <1>3. RagBehind(o)' = RagBehind(o)
    BY <1>2, RagStays DEF GotStays
  <1>4. Kept = RagBehind(o) /\ Kept' = RagBehind(o)'
    BY <1>1 DEF Kept, RagBehind, Follow
  <1> QED
    BY <1>3, <1>4

LEMMA HandedStays ==
    ASSUME WiringInv, GotStays, NEW r \in Requests,
           got'[r]["orchestrator"] = got[r]["orchestrator"]
    PROVE  Handed'[r] = Handed[r]
  <1>1. PICK o : o = got[r]["orchestrator"]
    OBVIOUS
  <1>2. o \subseteq Makers("orchestrator")
    BY <1>1 DEF Makers
  <1>3. RagBehind(o)' = RagBehind(o)
    BY <1>2, RagStays DEF GotStays
  <1>4. Handed[r] = RagBehind(o) /\ Handed'[r] = RagBehind(o)'
    BY <1>1 DEF Handed, RagBehind, Follow
  <1> QED
    BY <1>3, <1>4

\* The stage of a request follows from its place and its orchestrator.
LEMMA Stages ==
    ASSUME NEW r \in Requests
    PROVE  /\ at[r] \in {"none", "gone"} => Stage[r] = at[r]
           /\ Live(r) /\ got[r]["orchestrator"] # {} => Stage[r] = "handed"
           /\ Running(r) /\ got[r]["orchestrator"] = {} => Stage[r] = "asking"
           /\ at[r] \in {"raised", "returned"} /\ got[r]["orchestrator"] = {} => Stage[r] = "without"
  BY DEF Stage, Live, Running, UseCases, Factories

LEMMA StagesNext ==
    ASSUME NEW r \in Requests
    PROVE  /\ at'[r] \in {"none", "gone"} => Stage'[r] = at'[r]
           /\ Live(r)' /\ got'[r]["orchestrator"] # {} => Stage'[r] = "handed"
           /\ Running(r)' /\ got'[r]["orchestrator"] = {} => Stage'[r] = "asking"
           /\ at'[r] \in {"raised", "returned"} /\ got'[r]["orchestrator"] = {} => Stage'[r] = "without"
  BY DEF Stage, Live, Running, UseCases, Factories

\* A step that leaves the orchestrators alone, and moves at most one request
\* within its calls, is a stutter of the handout.
LEMMA Stutter ==
    ASSUME WiringInv, GotStays, cache'["orchestrator"] = cache["orchestrator"], late' = late,
           \A r \in Requests :
             /\ got'[r]["orchestrator"] = got[r]["orchestrator"]
             /\ \/ at'[r] = at[r]
                \/ Running(r) /\ Running(r)'
                \/ Live(r) /\ Live(r)' /\ got[r]["orchestrator"] # {}
    PROVE  UNCHANGED <<Stage, Early, Handed, Kept>>
  <1>1. Kept' = Kept
    BY KeptStays
  <1>2. Handed' = Handed
    BY HandedStays DEF Handed
  <1>3. Early' = Early
    BY DEF Early, Live, Running, UseCases, Factories
  <1>4. \A r \in Requests : Stage'[r] = Stage[r]
    <2>1. TAKE r \in Requests
    <2>2. CASE at'[r] = at[r]
      BY <2>2 DEF Stage, Running
    <2>3. CASE Running(r) /\ Running(r)'
      BY <2>3, Stages, StagesNext DEF Live, Running, UseCases, Factories
    <2>4. CASE Live(r) /\ Live(r)' /\ got[r]["orchestrator"] # {}
      BY <2>4, Stages, StagesNext
    <2> QED
      BY <2>2, <2>3, <2>4
  <1>5. Stage' = Stage
    BY <1>4 DEF Stage
  <1> QED
    BY <1>1, <1>2, <1>3, <1>5

\* What is left of the handout's steps when only r changes stage.
LEMMA OneStage ==
    ASSUME NEW r \in Requests, NEW place, Stage'[r] = place,
           \A q \in Requests \ {r} : at'[q] = at[q] /\ got'[q]["orchestrator"] = got[q]["orchestrator"]
    PROVE  Stage' = [Stage EXCEPT ![r] = place]
  <1>1. \A q \in Requests \ {r} : Stage'[q] = Stage[q]
    BY DEF Stage, Running
  <1>2. Stage = [q \in Requests |-> Stage[q]] /\ Stage' = [q \in Requests |-> Stage'[q]]
    BY DEF Stage
  <1> QED
    BY <1>1, <1>2

LEMMA ResolveAsks == ASSUME WiringInv, NEW r \in Requests, Resolve(r) PROVE Handout!Ask(r)
  <1>1. /\ got' = got /\ cache' = cache /\ at[r] = "none" /\ at' = [at EXCEPT ![r] = wants[r]]
        /\ late' = IF Stored("orchestrator") THEN late \union {r} ELSE late
        /\ wants[r] \in UseCases /\ r \notin late
    BY DEF Resolve, Goto, WiringInv, WiringTypeOK, LateMakeNothing, Live
  <1>2. at'[r] = wants[r] /\ \A q \in Requests \ {r} : at'[q] = at[q]
    BY <1>1 DEF WiringInv, WiringTypeOK
  <1>3. got'[r]["orchestrator"] = {}
    BY <1>1 DEF WiringInv, Unresolved, Live, Nothing, Factories
  <1>4. Stage[r] = "none" /\ Stage'[r] = "asking"
    BY <1>1, <1>2, <1>3, Stages, StagesNext DEF Running
  <1>5. Stage' = [Stage EXCEPT ![r] = "asking"]
    BY <1>1, <1>2, <1>4, OneStage
  <1>6. Early' = IF Kept = {} THEN Early \union {r} ELSE Early
    BY <1>1, <1>2, KeptIsStored DEF Early, UseCases
  <1>7. Handed' = Handed /\ Kept' = Kept
    BY <1>1 DEF Handed, Kept, RagBehind, Follow
  <1> QED
    BY <1>4, <1>5, <1>6, <1>7 DEF Handout!Ask, Handout!Enter

\* A use case that wants no orchestrator, or a key that is missing.
LEMMA EndRefuses ==
    ASSUME WiringInv, NEW r \in Requests, Running(r), NEW place \in {"raised", "returned"},
           at' = [at EXCEPT ![r] = place], got[r]["orchestrator"] = {},
           UNCHANGED <<late, got, cache>>
    PROVE  Handout!Refuse(r)
  <1>1. at'[r] = place /\ \A q \in Requests \ {r} : at'[q] = at[q]
    BY DEF WiringInv, WiringTypeOK
  <1>2. Stage[r] = "asking" /\ Stage'[r] = "without"
    BY <1>1, Stages, StagesNext
  <1>3. Stage' = [Stage EXCEPT ![r] = "without"]
    BY <1>1, <1>2, OneStage
  <1>4. Early' = Early
    BY <1>1 DEF Early, Running, UseCases, Factories
  <1>5. Handed' = Handed /\ Kept' = Kept
    BY DEF Handed, Kept, RagBehind, Follow
  <1> QED
    BY <1>2, <1>3, <1>4, <1>5 DEF Handout!Refuse, Handout!Enter

LEMMA HitHandsKept ==
    ASSUME WiringInv, NEW r \in Requests, Running(r),
           got[r]["orchestrator"] = {}, Stored("orchestrator"),
           got' = [got EXCEPT ![r]["orchestrator"] = cache["orchestrator"]],
           UNCHANGED <<late, at, cache>>
    PROVE  Handout!HandKept(r)
  <1>1. /\ got'[r]["orchestrator"] = cache["orchestrator"] /\ GotStays
        /\ \A q \in Requests \ {r} : got'[q]["orchestrator"] = got[q]["orchestrator"]
    BY DEF WiringInv, WiringTypeOK, GotStays, Factories
  <1>2. Live(r)'
    BY DEF Running, Live, UseCases, Factories
  <1>3. Stage[r] = "asking" /\ Stage'[r] = "handed"
    BY <1>1, <1>2, Stages, StagesNext DEF Stored
  <1>4. Stage' = [Stage EXCEPT ![r] = "handed"]
    BY <1>1, <1>3, OneStage
  <1>5. Kept' = Kept /\ Kept # {}
    BY <1>1, KeptStays, KeptIsStored
  <1>6. Handed'[r] = Kept'
    BY <1>1 DEF Handed, Kept, RagBehind, Follow
  <1>7. \A q \in Requests \ {r} : Handed'[q] = Handed[q]
    BY <1>1, HandedStays
  <1>8. Handed' = [Handed EXCEPT ![r] = Kept]
    BY <1>5, <1>6, <1>7 DEF Handed
  <1>9. Early' = Early
    BY DEF Early
  <1> QED
    BY <1>3, <1>4, <1>5, <1>8, <1>9 DEF Handout!HandKept, Handout!Enter

LEMMA ConstructHandsMade ==
    ASSUME WiringInv, WiringInv', NEW r \in Requests, at[r] = "orchestrator",
           got' = [got EXCEPT ![r]["orchestrator"] = {r}],
           cache' = IF Stored("orchestrator") THEN cache
                    ELSE [cache EXCEPT !["orchestrator"] = {r}],
           at' = [at EXCEPT ![r] = Caller(r)], late' = late
    PROVE  Handout!HandMade(r)
  <1>1. got[r]["orchestrator"] = {} /\ Live(r) /\ r \notin late
    BY DEF WiringInv, Unmade, LateMakeNothing, Live, Factories
  <1>2. /\ got'[r]["orchestrator"] = {r} /\ GotStays
        /\ \A q \in Requests \ {r} : got'[q]["orchestrator"] = got[q]["orchestrator"]
    BY <1>1 DEF WiringInv, WiringTypeOK, GotStays, Factories
  <1>3. at'[r] \in UseCases /\ \A q \in Requests \ {r} : at'[q] = at[q]
    BY DEF WiringInv, WiringTypeOK, Caller
  <1>4. Live(r)'
    BY <1>3 DEF Live, UseCases
  <1>5. Stage[r] = "asking" /\ Stage'[r] = "handed"
    BY <1>1, <1>2, <1>4, Stages, StagesNext DEF Running, Factories
  <1>6. Stage' = [Stage EXCEPT ![r] = "handed"]
    BY <1>2, <1>3, <1>5, OneStage
  <1>7. Early' = Early /\ r \in Early
    BY <1>1, <1>3, <1>4 DEF Early, Live
  <1>8. r \in Makers("orchestrator")'
    BY <1>2 DEF Makers
  <1>9. PICK a \in Early : RagBehind({r})' = {a}
    <2>1. \E a \in Early' : RagBehind({r})' = {a}
      BY <1>8, RagOfOneNext
    <2> QED
      BY <1>7, <2>1
  <1>10. Handed'[r] = {a}
    BY <1>2, <1>9 DEF Handed, RagBehind, Follow
  <1>11. \A q \in Requests \ {r} : Handed'[q] = Handed[q]
    BY <1>2, HandedStays
  <1>12. Handed' = [Handed EXCEPT ![r] = {a}]
    BY <1>10, <1>11 DEF Handed
  <1>13. Kept' = IF Kept = {} THEN {a} ELSE Kept
    <2>1. CASE Stored("orchestrator")
      BY <1>2, <2>1, KeptStays, KeptIsStored
    <2>2. CASE ~Stored("orchestrator")
      <3>1. cache'["orchestrator"] = {r}
        BY <2>2 DEF WiringInv, WiringTypeOK, Factories
      <3>2. Kept' = {a}
        BY <1>9, <3>1 DEF Kept, RagBehind, Follow
      <3> QED
        BY <2>2, <3>2, KeptIsStored
    <2> QED
      BY <2>1, <2>2
  <1> QED
    BY <1>5, <1>6, <1>7, <1>12, <1>13 DEF Handout!HandMade, Handout!Enter

LEMMA RebootForgets == ASSUME WiringInv, Reboot PROVE Handout!Forget
  <1>1. \A r \in Requests : Stage[r] = "none" <=> at[r] = "none"
    <2>1. TAKE r \in Requests
    <2>2. at[r] \in {"none", "gone", "raised", "returned"} \/ Running(r)
      BY DEF WiringInv, WiringTypeOK, Running
    <2> QED
      BY <2>2, Stages DEF Live, Running, UseCases, Factories
  <1>2. \A r \in Requests : Stage'[r] = at'[r]
    BY StagesNext DEF Reboot
  <1>3. Stage' = [q \in Requests |-> Stage'[q]]
    BY DEF Stage
  <1>4. Stage' = [r \in Requests |-> IF Stage[r] = "none" THEN "none" ELSE "gone"]
    BY <1>1, <1>2, <1>3 DEF Reboot
  <1>5. Early' = {}
    BY DEF Reboot, Early
  <1>6. Handed' = [r \in Requests |-> {}] /\ Kept' = {}
    BY DEF Reboot, Handed, Kept, RagBehind, Follow, Nothing, Factories
  <1> QED
    BY <1>4, <1>5, <1>6 DEF Handout!Forget

LEMMA ThreadHands ==
    ASSUME WiringInv, WiringInv', NEW r \in Requests, ThreadStep(r)
    PROVE  [Handout!HandoutNext]_<<Stage, Early, Handed, Kept>>
  <1>1. UNCHANGED <<settings, up, sessions, wants, late>> /\ Running(r)
    BY StepForms
  <1>2. Live(r) /\ WiringTypeOK
    BY <1>1 DEF Running, Live, UseCases, Factories, WiringInv
  <1>3. ASSUME NEW f \in Factories, CalledBy(f, at[r]), got[r][f] = {}, Stored(f),
               got' = [got EXCEPT ![r][f] = cache[f]], UNCHANGED <<at, cache>>
        PROVE  Handout!HandKept(r) \/ UNCHANGED <<Stage, Early, Handed, Kept>>
    <2>1. CASE f = "orchestrator"
      BY <1>1, <1>3, <2>1, HitHandsKept
    <2>2. CASE f # "orchestrator"
      <3>1. GotStays /\ \A q \in Requests : got'[q]["orchestrator"] = got[q]["orchestrator"]
        BY <1>2, <1>3, <2>2 DEF GotStays, WiringTypeOK, Factories
      <3> QED
        BY <1>1, <1>3, <3>1, Stutter
    <2> QED
      BY <2>1, <2>2
  <1>4. ASSUME NEW f \in Factories, at' = [at EXCEPT ![r] = f], UNCHANGED <<got, cache>>
        PROVE  UNCHANGED <<Stage, Early, Handed, Kept>>
    <2>1. at'[r] = f /\ \A q \in Requests \ {r} : at'[q] = at[q]
      BY <1>2, <1>4 DEF WiringTypeOK
    <2>2. Running(r)' /\ GotStays
      BY <1>4, <2>1 DEF Running, GotStays
    <2> QED
      BY <1>1, <1>4, <2>1, <2>2, Stutter
  <1>5. ASSUME at[r] \in Factories,
               got' = [got EXCEPT ![r][at[r]] = {r}],
               cache' = IF Stored(at[r]) THEN cache ELSE [cache EXCEPT ![at[r]] = {r}],
               at' = [at EXCEPT ![r] = Caller(r)]
        PROVE  Handout!HandMade(r) \/ UNCHANGED <<Stage, Early, Handed, Kept>>
    <2>1. CASE at[r] = "orchestrator"
      BY <1>1, <1>5, <2>1, ConstructHandsMade
    <2>2. CASE at[r] # "orchestrator"
      <3>1. at'[r] = Caller(r) /\ \A q \in Requests \ {r} : at'[q] = at[q]
        BY <1>2, <1>5 DEF WiringTypeOK
      <3>2. Running(r)'
        BY <1>2, <1>5, <3>1 DEF Running, Caller, WiringTypeOK, Factories
      <3>3. got[r][at[r]] = {}
        BY <1>5 DEF WiringInv, Unmade
      <3>4. GotStays /\ \A q \in Requests : got'[q]["orchestrator"] = got[q]["orchestrator"]
        BY <1>2, <1>5, <2>2, <3>3 DEF GotStays, WiringTypeOK, Factories
      <3>5. cache'["orchestrator"] = cache["orchestrator"]
        BY <1>2, <1>5, <2>2 DEF WiringTypeOK, Factories
      <3> QED
        BY <1>1, <1>5, <3>1, <3>2, <3>4, <3>5, Stutter
    <2> QED
      BY <2>1, <2>2
  <1>6. ASSUME NEW place \in {"raised", "returned"}, at' = [at EXCEPT ![r] = place],
               UNCHANGED <<got, cache>>
        PROVE  Handout!Refuse(r) \/ UNCHANGED <<Stage, Early, Handed, Kept>>
    <2>1. CASE got[r]["orchestrator"] = {}
      BY <1>1, <1>6, <2>1, EndRefuses
    <2>2. CASE got[r]["orchestrator"] # {}
      <3>1. at'[r] = place /\ \A q \in Requests \ {r} : at'[q] = at[q]
        BY <1>2, <1>6 DEF WiringTypeOK
      <3>2. Live(r)' /\ GotStays
        BY <1>6, <3>1 DEF Live, GotStays
      <3> QED
        BY <1>1, <1>2, <1>6, <2>2, <3>1, <3>2, Stutter
    <2> QED
      BY <2>1, <2>2
  <1> QED
    BY <1>3, <1>4, <1>5, <1>6, StepForms DEF Handout!HandoutNext

LEMMA WiringHands ==
    WiringInv /\ WiringInv' /\ [WiringNext]_wiringVars
      => [Handout!HandoutNext]_<<Stage, Early, Handed, Kept>>
  <1> SUFFICES ASSUME WiringInv, WiringInv', [WiringNext]_wiringVars
               PROVE  [Handout!HandoutNext]_<<Stage, Early, Handed, Kept>>
    OBVIOUS
  <1>1. CASE InitDb \/ UNCHANGED wiringVars
    <2>1. UNCHANGED <<at, got, cache, late>>
      BY <1>1 DEF InitDb, wiringVars
    <2> QED
      BY <2>1, Stutter DEF GotStays
  <1> QED
    BY <1>1, ResolveAsks, ThreadHands, RebootForgets DEF WiringNext, Handout!HandoutNext

\* The memoised factories, called by any number of threads that no lock orders,
\* hand out RAG adapters as AdapterHandout says: every request gets one that was
\* made by a request that came before one was kept, and once one is kept
\* it is what later requests get (dependencies.py:35-78).
THEOREM WiringImplementsHandout == WiringSpec => ImplementsHandout
  <1>1. WiringInit => Handout!HandoutInit
    <2> SUFFICES ASSUME WiringInit PROVE Handout!HandoutInit
      OBVIOUS
    <2>1. \A r \in Requests : Stage[r] = "none"
      BY Stages DEF WiringInit
    <2>2. Stage = [q \in Requests |-> Stage[q]]
      BY DEF Stage
    <2>3. Early = {} /\ Handed = [r \in Requests |-> {}] /\ Kept = {}
      BY DEF WiringInit, Early, Handed, Kept, RagBehind, Follow, Nothing, Factories
    <2> QED
      BY <2>1, <2>2, <2>3 DEF Handout!HandoutInit
  <1>2. WiringInv /\ WiringInv' /\ [WiringNext]_wiringVars
          => [Handout!HandoutNext]_(Handout!handoutVars)
    BY WiringHands DEF Handout!handoutVars
  <1> QED
    BY <1>1, <1>2, WiringInvariance, PTL
    DEF WiringSpec, ImplementsHandout, Handout!HandoutSpec

-----------------------------------------------------------------------------
(***************************************************************************)
(* What resolving the dependencies of a request can come to.               *)
(***************************************************************************)

\* The functions that have not returned to a thread.
Gap(g, f) == IF g[f] = {} THEN 1 ELSE 0

Gaps(g) == Gap(g, "orchestrator") + Gap(g, "llm") + Gap(g, "registry")
           + Gap(g, "erp") + Gap(g, "rag") + Gap(g, "conversation")

\* The calls that are under way.
Depth(place) ==
    CASE place \in UseCases -> 0
      [] place \in {"orchestrator", "conversation"} -> 1
      [] place \in {"llm", "registry"} -> 2
      [] place \in {"erp", "rag"} -> 3

\* The most steps a request has left.
StepsLeft(r) ==
    CASE at[r] = "none" -> 14
      [] Running(r) -> 2 * Gaps(got[r]) - Depth(at[r]) + 1
      [] OTHER -> 0

LEMMA GapsFill ==
    ASSUME NEW g \in [Factories -> SUBSET Requests], NEW f \in Factories, g[f] = {},
           NEW x, x # {}
    PROVE  Gaps([g EXCEPT ![f] = x]) = Gaps(g) - 1
  BY DEF Gaps, Gap, Factories

LEMMA GapsAreNatural == ASSUME NEW g PROVE Gaps(g) \in Nat
  BY DEF Gaps, Gap

LEMMA DepthValues ==
    /\ Depth("run_agent") = 0 /\ Depth("get_history") = 0
    /\ Depth("orchestrator") = 1 /\ Depth("conversation") = 1
    /\ Depth("llm") = 2 /\ Depth("registry") = 2
    /\ Depth("erp") = 3 /\ Depth("rag") = 3
  BY DEF Depth, UseCases

\* Each call under way is of a function that has not returned.
LEMMA DepthIsGap ==
    ASSUME WiringInv, NEW r \in Requests, Running(r)
    PROVE  Depth(at[r]) \in Nat /\ Depth(at[r]) <= Gaps(got[r])
  <1>1. CASE at[r] \in UseCases
    BY <1>1, GapsAreNatural, DepthValues DEF UseCases
  <1>2. CASE at[r] \in {"orchestrator", "conversation"}
    <2>1. got[r][at[r]] = {}
      BY <1>2 DEF WiringInv, Unmade, Factories
    <2>2. Depth(at[r]) = 1
      BY <1>2, DepthValues
    <2> QED
      BY <1>2, <2>1, <2>2 DEF Gaps, Gap
  <1>3. CASE at[r] \in {"llm", "registry"}
    <2>1. got[r][at[r]] = {} /\ got[r]["orchestrator"] = {}
      BY <1>3 DEF WiringInv, Unmade, Factories, Parts
    <2>2. Depth(at[r]) = 2
      BY <1>3, DepthValues
    <2> QED
      BY <1>3, <2>1, <2>2 DEF Gaps, Gap
  <1>4. CASE at[r] \in {"erp", "rag"}
    <2>1. got[r][at[r]] = {} /\ got[r]["orchestrator"] = {} /\ got[r]["registry"] = {}
      BY <1>4 DEF WiringInv, Unmade, Factories, Parts
    <2>2. Depth(at[r]) = 3
      BY <1>4, DepthValues
    <2> QED
      BY <1>4, <2>1, <2>2 DEF Gaps, Gap
  <1> QED
    BY <1>1, <1>2, <1>3, <1>4 DEF Running, Factories

LEMMA LeftIsNatural ==
    ASSUME WiringInv, NEW r \in Requests
    PROVE  StepsLeft(r) \in Nat /\ (Running(r) => StepsLeft(r) > 0)
  <1>1. CASE Running(r)
    <2>1. StepsLeft(r) = 2 * Gaps(got[r]) - Depth(at[r]) + 1
      BY <1>1 DEF StepsLeft, Running, UseCases, Factories
    <2> QED
      BY <1>1, <2>1, DepthIsGap, GapsAreNatural
  <1>2. CASE ~Running(r)
    BY <1>2 DEF StepsLeft
  <1> QED
    BY <1>1, <1>2

\* A call goes one deeper, a return one back.
LEMMA Depths ==
    ASSUME WiringTypeOK, NEW r \in Requests, Running(r)
    PROVE  /\ \A f \in Factories : CalledBy(f, at[r]) => Depth(f) = Depth(at[r]) + 1
           /\ at[r] \in Factories => /\ Depth(Caller(r)) = Depth(at[r]) - 1
                                     /\ Caller(r) \in UseCases \union Factories
  <1>1. \A f \in Factories : CalledBy(f, at[r]) => Depth(f) = Depth(at[r]) + 1
    BY DepthValues DEF CalledBy
  <1>2. CASE at[r] \in {"orchestrator", "conversation"}
    <2>1. Caller(r) = wants[r] /\ wants[r] \in UseCases
      BY <1>2 DEF Caller, WiringTypeOK
    <2> QED
      BY <1>1, <1>2, <2>1, DepthValues DEF UseCases
  <1>3. CASE at[r] \in {"llm", "registry"}
    <2>1. Caller(r) = "orchestrator"
      BY <1>3 DEF Caller
    <2> QED
      BY <1>1, <1>3, <2>1, DepthValues DEF Factories
  <1>4. CASE at[r] \in {"erp", "rag"}
    <2>1. Caller(r) = "registry"
      BY <1>4 DEF Caller
    <2> QED
      BY <1>1, <1>4, <2>1, DepthValues DEF Factories
  <1> QED
    BY <1>1, <1>2, <1>3, <1>4 DEF Factories

LEMMA LeftOf ==
    ASSUME NEW r \in Requests
    PROVE  /\ at[r] = "none" => StepsLeft(r) = 14
           /\ Running(r) => StepsLeft(r) = 2 * Gaps(got[r]) - Depth(at[r]) + 1
           /\ at[r] \in {"returned", "raised", "gone"} => StepsLeft(r) = 0
  BY DEF StepsLeft, Running, UseCases, Factories

LEMMA LeftOfNext ==
    ASSUME NEW r \in Requests
    PROVE  /\ at'[r] = "none" => StepsLeft(r)' = 14
           /\ at'[r] \in UseCases \union Factories =>
                StepsLeft(r)' = 2 * Gaps(got'[r]) - Depth(at'[r]) + 1
           /\ at'[r] \in {"returned", "raised", "gone"} => StepsLeft(r)' = 0
  BY DEF StepsLeft, Running, UseCases, Factories, Gaps, Gap, Depth

\* Each step of a thread returns from a call, makes one, or ends the request.
LEMMA ThreadStepsCount ==
    ASSUME WiringInv, NEW r \in Requests, ThreadStep(r)
    PROVE  StepsLeft(r)' < StepsLeft(r) /\ StepsLeft(r)' <= StepsLeft(r)
  <1>1. Running(r)
    BY StepForms
  <1>2. /\ StepsLeft(r) = 2 * Gaps(got[r]) - Depth(at[r]) + 1 /\ StepsLeft(r) > 0
        /\ StepsLeft(r) \in Nat
    BY <1>1, LeftOf, LeftIsNatural
  <1>3. got[r] \in [Factories -> SUBSET Requests] /\ WiringTypeOK
    BY DEF WiringInv, WiringTypeOK
  <1>4. Depth(at[r]) \in Nat /\ Gaps(got[r]) \in Nat
    BY <1>1, DepthIsGap, GapsAreNatural
  <1>5. ASSUME NEW f \in Factories, CalledBy(f, at[r]), got[r][f] = {}, Stored(f),
               got' = [got EXCEPT ![r][f] = cache[f]], UNCHANGED <<at, cache>>
        PROVE  StepsLeft(r)' < StepsLeft(r) /\ StepsLeft(r)' <= StepsLeft(r)
    <2>1. got'[r] = [got[r] EXCEPT ![f] = cache[f]]
      BY <1>5 DEF WiringInv, WiringTypeOK
    <2>2. Gaps(got'[r]) = Gaps(got[r]) - 1
      BY <1>3, <1>5, <2>1, GapsFill DEF Stored
    <2>3. StepsLeft(r)' = 2 * Gaps(got'[r]) - Depth(at[r]) + 1
      BY <1>1, <1>5, LeftOfNext DEF Running
    <2> QED
      BY <1>2, <1>4, <2>2, <2>3
  <1>6. ASSUME NEW f \in Factories, CalledBy(f, at[r]),
               at' = [at EXCEPT ![r] = f], UNCHANGED <<got, cache>>
        PROVE  StepsLeft(r)' < StepsLeft(r) /\ StepsLeft(r)' <= StepsLeft(r)
    <2>1. at'[r] = f /\ got'[r] = got[r]
      BY <1>6 DEF WiringInv, WiringTypeOK
    <2>2. Depth(f) = Depth(at[r]) + 1
      BY <1>1, <1>3, <1>6, Depths
    <2>3. StepsLeft(r)' = 2 * Gaps(got[r]) - Depth(f) + 1
      BY <2>1, LeftOfNext
    <2> QED
      BY <1>2, <1>4, <2>2, <2>3
  <1>7. ASSUME at[r] \in Factories, got' = [got EXCEPT ![r][at[r]] = {r}],
               at' = [at EXCEPT ![r] = Caller(r)]
        PROVE  StepsLeft(r)' < StepsLeft(r) /\ StepsLeft(r)' <= StepsLeft(r)
    <2>1. got'[r] = [got[r] EXCEPT ![at[r]] = {r}] /\ at'[r] = Caller(r)
      BY <1>7 DEF WiringInv, WiringTypeOK
    <2>2. got[r][at[r]] = {}
      BY <1>7 DEF WiringInv, Unmade
    <2>3. Gaps(got'[r]) = Gaps(got[r]) - 1
      BY <1>3, <1>7, <2>1, <2>2, GapsFill
    <2>4. Depth(Caller(r)) = Depth(at[r]) - 1 /\ Caller(r) \in UseCases \union Factories
      BY <1>1, <1>3, <1>7, Depths
    <2>5. StepsLeft(r)' = 2 * Gaps(got'[r]) - Depth(Caller(r)) + 1
      BY <2>1, <2>4, LeftOfNext
    <2> QED
      BY <1>2, <1>4, <2>3, <2>4, <2>5
  <1>8. ASSUME \/ at' = [at EXCEPT ![r] = "raised"]
               \/ at' = [at EXCEPT ![r] = "returned"]
        PROVE  StepsLeft(r)' < StepsLeft(r) /\ StepsLeft(r)' <= StepsLeft(r)
    <2>1. at'[r] \in {"returned", "raised"}
      BY <1>8 DEF WiringInv, WiringTypeOK
    <2>2. StepsLeft(r)' = 0
      BY <2>1, LeftOfNext
    <2> QED
      BY <1>2, <2>2
  <1> QED
    BY <1>5, <1>6, <1>7, <1>8, StepForms

\* A thread changes nothing of another request.
LEMMA OthersStay ==
    ASSUME WiringInv, NEW r \in Requests, ThreadStep(r) \/ Resolve(r),
           NEW q \in Requests \ {r}
    PROVE  StepsLeft(q)' = StepsLeft(q)
  <1>1. at'[q] = at[q] /\ got'[q] = got[q]
    BY DEF ThreadStep, Hit, Miss, Construct, Raise, Return, Resolve, Goto, Made,
       WiringInv, WiringTypeOK
  <1> QED
    BY <1>1 DEF StepsLeft, Running, Gaps, Gap

LEMMA ResolveCounts ==
    ASSUME WiringInv, NEW r \in Requests, Resolve(r)
    PROVE  StepsLeft(r)' < StepsLeft(r) /\ StepsLeft(r)' <= StepsLeft(r)
  <1>1. at[r] = "none" /\ at'[r] = wants[r] /\ got'[r] = got[r] /\ wants[r] \in UseCases
    BY DEF Resolve, Goto, WiringInv, WiringTypeOK
  <1>2. got[r] = Nothing
    BY <1>1 DEF WiringInv, Unresolved, Live
  <1>3. Gaps(Nothing) = 6
    BY DEF Gaps, Gap, Nothing, Factories
  <1>4. Depth(wants[r]) = 0
    BY <1>1, DepthValues DEF UseCases
  <1>5. StepsLeft(r) = 14 /\ StepsLeft(r)' = 2 * Gaps(Nothing) - Depth(wants[r]) + 1
    BY <1>1, <1>2, LeftOf, LeftOfNext
  <1> QED
    BY <1>3, <1>4, <1>5

LEMMA RebootCounts ==
    ASSUME WiringInv, Reboot, NEW r \in Requests
    PROVE  StepsLeft(r)' <= StepsLeft(r)
  <1>1. at'[r] = IF at[r] = "none" THEN "none" ELSE "gone"
    BY DEF Reboot
  <1>2. StepsLeft(r) \in Nat
    BY LeftIsNatural
  <1> QED
    BY <1>1, <1>2, LeftOf, LeftOfNext

\* Resolving the dependencies of a request takes at most fourteen steps, whatever
\* the threads of other requests make, store or fail at meanwhile: each step
\* makes a call that goes one deeper or returns from one, no function is called
\* again once it has returned to the thread, and no step of another thread and
\* no restart sets a request back (dependencies.py:25-93).
THEOREM ResolutionIsFinite ==
    WiringSpec =>
      /\ \A r \in Requests : StepsLeft(r) = 14
      /\ [](\A r \in Requests : StepsLeft(r) \in Nat)
      /\ [][\A r \in Requests :
              /\ StepsLeft(r)' <= StepsLeft(r)
              /\ Resolve(r) \/ ThreadStep(r) => StepsLeft(r)' < StepsLeft(r)]_wiringVars
  <1>1. WiringInit => \A r \in Requests : StepsLeft(r) = 14
    BY LeftOf DEF WiringInit
  <1>2. WiringInv => \A r \in Requests : StepsLeft(r) \in Nat
    BY LeftIsNatural
  <1>3. ASSUME WiringInv, WiringNext, NEW r \in Requests
        PROVE  /\ StepsLeft(r)' <= StepsLeft(r)
               /\ Resolve(r) \/ ThreadStep(r) => StepsLeft(r)' < StepsLeft(r)
    <2>1. StepsLeft(r) \in Nat
      BY <1>3, LeftIsNatural
    <2>2. CASE Resolve(r) \/ ThreadStep(r)
      BY <1>3, <2>2, ResolveCounts, ThreadStepsCount
    <2>3. CASE \E q \in Requests \ {r} : Resolve(q) \/ ThreadStep(q)
      BY <1>3, <2>1, <2>2, <2>3, OthersStay
    <2>4. CASE Reboot
      BY <1>3, <2>2, <2>4, RebootCounts
    <2>5. CASE InitDb
      <3>1. StepsLeft(r)' = StepsLeft(r)
        BY <2>5 DEF InitDb, StepsLeft, Running, Gaps, Gap
      <3> QED
        BY <2>1, <2>2, <3>1
    <2> QED
      BY <1>3, <2>2, <2>3, <2>4, <2>5 DEF WiringNext
  <1>4. WiringInv /\ [WiringNext]_wiringVars =>
          [\A r \in Requests :
              /\ StepsLeft(r)' <= StepsLeft(r)
              /\ Resolve(r) \/ ThreadStep(r) => StepsLeft(r)' < StepsLeft(r)]_wiringVars
    BY <1>3
  <1> QED
    BY <1>1, <1>2, <1>4, WiringInvariance, PTL DEF WiringSpec
==================================================================================
