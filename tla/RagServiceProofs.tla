---------------------------- MODULE RagServiceProofs ----------------------------
(***************************************************************************)
(* First the vector store, for any number of searches, adapters and        *)
(* restarts.  The lock invariant is inductive with the types; that         *)
(* searches query a full index needs that a finished build found or made   *)
(* one; and the bound on copies needs the builds under way to be counted   *)
(* with the copies they will add.  The account is kept for any bound n on  *)
(* the adapters in use.                                                    *)
(*                                                                         *)
(* Then the service: searches on handed adapters are searches of module    *)
(* ChromaIndex, whose invariants therefore hold here.  The adapters that   *)
(* running searches use are the kept one or strays, so the strays and one  *)
(* more bound the copies that several adapters can add.                    *)
(***************************************************************************)
EXTENDS RagService, FiniteSetTheorems, TLAPS

\* Builds that will add the corpus.
Embedding == {s \in Searches : job[s] = "embedding"}

\* A build ends well only when the collection has documents.
DoneIsIndexed == \A s \in Searches : job[s] = "done" => copies > 0

\* A search builds once: one that has not begun to has no build behind it, and
\* one that awaits its build has one.
BuildsOnce ==
    \A s \in Searches :
      /\ pc[s] = "building" => job[s] # "none"
      /\ pc[s] \in {"idle", "waiting"} => job[s] = "none" /\ s \notin reloads
      /\ job[s] \in {"queued", "started"} => s \notin reloads

\* The searches that were made, and no others, have an adapter.
HasAdapter == \A s \in Searches : pc[s] # "idle" <=> adapter[s] \in Adapters

\* Copies made and under way, when n adapters are in use.
Accounted(n) ==
    copies + Cardinality(Embedding) <= n + Cardinality(orphans) + Cardinality(reloads)

\* Who holds a lock has a build behind it.
HolderIsBuilding ==
    \A s \in Searches, a \in Adapters :
      lock[a] = s => /\ pc[s] = "building" /\ adapter[s] = a
                     /\ job[s] \in Working \union {"queued", "done", "failed"}

IInv ==
    /\ TypeOK
    /\ BuilderHoldsLock
    /\ OpenedIsIndexed
    /\ DoneIsIndexed
    /\ BuildsOnce
    /\ HasAdapter

CountInv == IInv /\ Accounted(Cardinality(Used))

-----------------------------------------------------------------------------

\* Sets of searches are finite, and grow or shrink by one at most.
LEMMA SetsOfSearches ==
    ASSUME NEW S \in SUBSET Searches
    PROVE  IsFiniteSet(S) /\ Cardinality(S) \in Nat
  BY SearchesAssumption, FS_Subset, FS_CardinalityType

LEMMA Larger ==
    ASSUME NEW S \in SUBSET Searches, NEW s \in Searches
    PROVE  /\ Cardinality(S \union {s}) <= Cardinality(S) + 1
           /\ Cardinality(S) <= Cardinality(S \union {s})
           /\ s \notin S => Cardinality(S \union {s}) = Cardinality(S) + 1
  BY SetsOfSearches, FS_AddElement

LEMMA Smaller ==
    ASSUME NEW S \in SUBSET Searches, NEW T \in SUBSET S
    PROVE  Cardinality(T) <= Cardinality(S)
  BY SetsOfSearches, FS_Subset

\* The adapters in use are finitely many, and stay in use.
LEMMA AdaptersInUse ==
    ASSUME TypeOK
    PROVE  IsFiniteSet(Used) /\ Cardinality(Used) \in Nat
  <1>1. Used \in SUBSET Adapters
    BY DEF Used, TypeOK
  <1> QED
    BY <1>1, AdaptersAssumption, FS_Subset, FS_CardinalityType

LEMMA InitInv == Init => CountInv
  <1> SUFFICES ASSUME Init PROVE CountInv
    OBVIOUS
  <1>1. TypeOK
    <2>1. restarts \in 0..MaxRestarts
      BY RestartsAssumption DEF Init
    <2>2. pc \in [Searches -> {"idle", "waiting", "building", "querying"} \union Ended]
      BY DEF Init
    <2>3. job \in [Searches -> {"none", "queued", "done", "failed"} \union Working]
      BY DEF Init
    <2> QED
      BY <2>1, <2>2, <2>3 DEF Init, TypeOK
  <1>2. BuilderHoldsLock /\ OpenedIsIndexed /\ DoneIsIndexed /\ BuildsOnce /\ HasAdapter
    BY SearchesAssumption, AdaptersAssumption
    DEF Init, BuilderHoldsLock, OpenedIsIndexed, DoneIsIndexed, BuildsOnce, HasAdapter, Working
  <1>3. \A n \in Nat : Accounted(n)
    <2>1. Embedding = {} /\ orphans = {} /\ reloads = {} /\ copies = 0
      BY DEF Init, Embedding
    <2> QED
      BY <2>1, FS_EmptySet DEF Accounted
  <1>4. Cardinality(Used) \in Nat
    BY <1>1, AdaptersInUse
  <1> QED
    BY <1>1, <1>2, <1>3, <1>4 DEF IInv, CountInv

LEMMA TypeStep ==
    ASSUME TypeOK, [Next]_vars
    PROVE  TypeOK'
  <1> USE DEF TypeOK, Goto, SetJob, SetLock, Ended, Working
  <1>1. ASSUME NEW s \in Searches, NEW a \in Adapters, Search(s, a) PROVE TypeOK'
    BY <1>1 DEF Search, Locked
  <1>2. ASSUME NEW s \in Searches, Coroutine(s) PROVE TypeOK'
    <2>1. CASE Acquire(s)
      BY <2>1 DEF Acquire, Locked
    <2>2. CASE Publish(s)
      BY <2>2 DEF Publish
    <2>3. CASE BuildRaises(s)
      BY <2>3 DEF BuildRaises
    <2>4. CASE Query(s)
      BY <2>4 DEF Query
    <2> QED
      BY <1>2, <2>1, <2>2, <2>3, <2>4 DEF Coroutine
  <1>3. ASSUME NEW s \in Searches, Thread(s) PROVE TypeOK'
    <2>1. CASE StartJob(s) \/ LoadCollection(s) \/ BuildFails(s)
      BY <2>1 DEF StartJob, LoadCollection, BuildFails
    <2>2. CASE BeginBuild(s)
      BY <2>2 DEF BeginBuild
    <2>3. CASE AddDocuments(s)
      BY <2>3 DEF AddDocuments
    <2> QED
      BY <1>3, <2>1, <2>2, <2>3 DEF Thread
  <1>4. ASSUME NEW s \in Searches, Cancel(s) PROVE TypeOK'
    BY <1>4 DEF Cancel
  <1>5. CASE Restart
    <2>1. restarts' \in 0..MaxRestarts
      BY <1>5, RestartsAssumption DEF Restart
    <2>2. pc' \in [Searches -> {"idle", "waiting", "building", "querying"} \union Ended]
      BY <1>5 DEF Restart
    <2>3. job' \in [Searches -> {"none", "queued", "done", "failed"} \union Working]
      BY <1>5 DEF Restart
    <2> QED
      BY <1>5, <2>1, <2>2, <2>3 DEF Restart
  <1>6. CASE UNCHANGED vars
    BY <1>6 DEF vars
  <1> QED
    BY <1>1, <1>2, <1>3, <1>4, <1>5, <1>6 DEF Next, Quiet

LEMMA LockStep ==
    ASSUME TypeOK, HasAdapter, BuildsOnce, BuilderHoldsLock, [Next]_vars
    PROVE  BuilderHoldsLock'
  <1> USE SearchesAssumption, AdaptersAssumption DEF TypeOK, BuilderHoldsLock, HasAdapter, Goto, SetJob, SetLock, Ended, Working
  <1>1. ASSUME NEW s \in Searches, NEW a \in Adapters, Search(s, a) PROVE BuilderHoldsLock'
    <2>1. pc[s] = "idle" /\ job[s] = "none" /\ adapter' = [adapter EXCEPT ![s] = a]
      BY <1>1 DEF Search, BuildsOnce
    <2>2. CASE UNCHANGED <<lock, job>> /\ (Goto(s, "querying") \/ Goto(s, "waiting"))
      BY <1>1, <2>1, <2>2 DEF Search
    <2>3. CASE ~opened[a] /\ CanLock(a) /\ lock' = [lock EXCEPT ![a] = s]
               /\ job' = [job EXCEPT ![s] = "queued"] /\ Goto(s, "building")
      BY <1>1, <2>1, <2>3 DEF Search, CanLock
    <2> QED
      BY <1>1, <2>2, <2>3 DEF Search, Locked
  <1>2. ASSUME NEW s \in Searches, Coroutine(s) PROVE BuilderHoldsLock'
    <2>1. CASE Acquire(s)
      <3> DEFINE a == adapter[s]
      <3>1. /\ pc[s] = "waiting" /\ job[s] = "none" /\ adapter' = adapter /\ opened' = opened
            /\ a \in Adapters /\ lock[a] = None
        BY <2>1 DEF Acquire, BuildsOnce
      <3>2. CASE UNCHANGED <<lock, job>> /\ Goto(s, "querying")
        BY <3>1, <3>2, <2>1 DEF Acquire
      <3>3. CASE ~opened[a] /\ lock' = [lock EXCEPT ![a] = s]
                 /\ job' = [job EXCEPT ![s] = "queued"] /\ Goto(s, "building")
        BY <3>1, <3>3, <2>1 DEF Acquire
      <3> QED
        BY <2>1, <3>2, <3>3 DEF Acquire, Locked
    <2>2. CASE Publish(s)
      BY <2>2 DEF Publish
    <2>3. CASE BuildRaises(s)
      BY <2>3 DEF BuildRaises
    <2>4. CASE Query(s)
      BY <2>4 DEF Query
    <2> QED
      BY <1>2, <2>1, <2>2, <2>3, <2>4 DEF Coroutine
  <1>3. ASSUME NEW s \in Searches, Thread(s) PROVE BuilderHoldsLock'
    <2>1. CASE StartJob(s)
      BY <2>1 DEF StartJob
    <2>2. CASE LoadCollection(s)
      BY <2>2 DEF LoadCollection
    <2>3. CASE BeginBuild(s)
      BY <2>3 DEF BeginBuild
    <2>4. CASE AddDocuments(s)
      BY <2>4 DEF AddDocuments
    <2>5. CASE BuildFails(s)
      BY <2>5 DEF BuildFails
    <2> QED
      BY <1>3, <2>1, <2>2, <2>3, <2>4, <2>5 DEF Thread
  <1>4. ASSUME NEW s \in Searches, Cancel(s) PROVE BuilderHoldsLock'
    <2>1. /\ adapter' = adapter /\ opened' = opened /\ pc' = [pc EXCEPT ![s] = "cancelled"]
          /\ lock' = [a \in Adapters |-> IF lock[a] = s THEN None ELSE lock[a]]
          /\ orphans \subseteq orphans'
      BY <1>4 DEF Cancel
    <2>2. \A q \in Searches \ {s} : pc'[q] = pc[q] /\ job'[q] = job[q]
      BY <1>4 DEF Cancel
    <2>3. pc'[s] = "cancelled" /\ (job'[s] \in Working \union {"queued"} => s \in orphans')
      BY <1>4 DEF Cancel
    <2>4. \A q \in Searches, a \in Adapters :
            pc'[q] = "building" /\ adapter'[q] = a <=> lock'[a] = q
      BY <2>1, <2>2, <2>3
    <2>5. \A q \in Searches : job'[q] \in Working \union {"queued"} =>
            lock'[adapter'[q]] = q \/ q \in orphans'
      <3> SUFFICES ASSUME NEW q \in Searches, q # s, job'[q] \in Working \union {"queued"}
                   PROVE  lock'[adapter'[q]] = q \/ q \in orphans'
        BY <2>3
      <3>1. adapter[q] \in Adapters
        BY <2>2 DEF BuildsOnce
      <3> QED
        BY <2>1, <2>2, <3>1
    <2>6. \A a \in Adapters : opened'[a] => lock'[a] = None
      BY <2>1
    <2> QED
      BY <2>4, <2>5, <2>6
  <1>5. CASE Restart
    BY <1>5 DEF Restart
  <1>6. CASE UNCHANGED vars
    BY <1>6 DEF vars
  <1> QED
    BY <1>1, <1>2, <1>3, <1>4, <1>5, <1>6 DEF Next, Quiet

\* What is queried has been published, what is published was done, and what is
\* done has documents; no step takes documents away.
LEMMA IndexStep ==
    ASSUME TypeOK, HasAdapter, OpenedIsIndexed, DoneIsIndexed, [Next]_vars
    PROVE  OpenedIsIndexed' /\ DoneIsIndexed'
  <1> USE DEF TypeOK, OpenedIsIndexed, DoneIsIndexed, HasAdapter, Goto, SetJob, SetLock, Ended, Working
  <1>1. ASSUME NEW s \in Searches, NEW a \in Adapters, Search(s, a) PROVE OpenedIsIndexed' /\ DoneIsIndexed'
    BY <1>1 DEF Search, Locked
  <1>2. ASSUME NEW s \in Searches, Coroutine(s) PROVE OpenedIsIndexed' /\ DoneIsIndexed'
    <2>1. CASE Acquire(s)
      BY <2>1 DEF Acquire, Locked
    <2>2. CASE Publish(s)
      BY <2>2 DEF Publish
    <2>3. CASE BuildRaises(s)
      BY <2>3 DEF BuildRaises
    <2>4. CASE Query(s)
      BY <2>4 DEF Query
    <2> QED
      BY <1>2, <2>1, <2>2, <2>3, <2>4 DEF Coroutine
  <1>3. ASSUME NEW s \in Searches, Thread(s) PROVE OpenedIsIndexed' /\ DoneIsIndexed'
    <2>1. CASE StartJob(s)
      BY <2>1 DEF StartJob
    <2>2. CASE LoadCollection(s)
      BY <2>2 DEF LoadCollection
    <2>3. CASE BeginBuild(s)
      BY <2>3 DEF BeginBuild
    <2>4. CASE AddDocuments(s)
      BY <2>4 DEF AddDocuments
    <2>5. CASE BuildFails(s)
      BY <2>5 DEF BuildFails
    <2> QED
      BY <1>3, <2>1, <2>2, <2>3, <2>4, <2>5 DEF Thread
  <1>4. ASSUME NEW s \in Searches, Cancel(s) PROVE OpenedIsIndexed' /\ DoneIsIndexed'
    BY <1>4 DEF Cancel
  <1>5. CASE Restart
    BY <1>5 DEF Restart
  <1>6. CASE UNCHANGED vars
    BY <1>6 DEF vars
  <1> QED
    BY <1>1, <1>2, <1>3, <1>4, <1>5, <1>6 DEF Next, Quiet

LEMMA OnceStep ==
    ASSUME TypeOK, BuildsOnce, HasAdapter, [Next]_vars
    PROVE  BuildsOnce' /\ HasAdapter'
  <1> USE DEF TypeOK, BuildsOnce, HasAdapter, Goto, SetJob, SetLock, Ended, Working
  <1>1. ASSUME NEW s \in Searches, NEW a \in Adapters, Search(s, a) PROVE BuildsOnce' /\ HasAdapter'
    BY <1>1 DEF Search, Locked
  <1>2. ASSUME NEW s \in Searches, Coroutine(s) PROVE BuildsOnce' /\ HasAdapter'
    <2>1. CASE Acquire(s)
      BY <2>1 DEF Acquire, Locked
    <2>2. CASE Publish(s)
      BY <2>2 DEF Publish
    <2>3. CASE BuildRaises(s)
      BY <2>3 DEF BuildRaises
    <2>4. CASE Query(s)
      BY <2>4 DEF Query
    <2> QED
      BY <1>2, <2>1, <2>2, <2>3, <2>4 DEF Coroutine
  <1>3. ASSUME NEW s \in Searches, Thread(s) PROVE BuildsOnce' /\ HasAdapter'
    <2>1. CASE StartJob(s)
      BY <2>1 DEF StartJob
    <2>2. CASE LoadCollection(s)
      BY <2>2 DEF LoadCollection
    <2>3. CASE BeginBuild(s)
      BY <2>3 DEF BeginBuild
    <2>4. CASE AddDocuments(s)
      BY <2>4 DEF AddDocuments
    <2>5. CASE BuildFails(s)
      BY <2>5 DEF BuildFails
    <2> QED
      BY <1>3, <2>1, <2>2, <2>3, <2>4, <2>5 DEF Thread
  <1>4. ASSUME NEW s \in Searches, Cancel(s) PROVE BuildsOnce' /\ HasAdapter'
    BY <1>4 DEF Cancel
  <1>5. CASE Restart
    BY <1>5 DEF Restart
  <1>6. CASE UNCHANGED vars
    BY <1>6 DEF vars
  <1> QED
    BY <1>1, <1>2, <1>3, <1>4, <1>5, <1>6 DEF Next, Quiet

\* A step that adds no copy, starts no embedding and drops no cause keeps the
\* account.
LEMMA AccountKept ==
    ASSUME TypeOK, TypeOK', NEW n \in Nat, Accounted(n), copies' = copies,
           Embedding' \subseteq Embedding,
           orphans \subseteq orphans', reloads \subseteq reloads'
    PROVE  Accounted(n)'
  <1>1. Embedding \in SUBSET Searches /\ Embedding' \in SUBSET Searches
    BY DEF Embedding
  <1>2. /\ orphans \in SUBSET Searches /\ reloads \in SUBSET Searches
        /\ orphans' \in SUBSET Searches /\ reloads' \in SUBSET Searches
        /\ copies \in Nat
    BY DEF TypeOK
  <1>3. /\ Cardinality(Embedding') <= Cardinality(Embedding)
        /\ Cardinality(orphans) <= Cardinality(orphans')
        /\ Cardinality(reloads) <= Cardinality(reloads')
    BY <1>1, <1>2, Smaller
  <1>4. /\ Cardinality(Embedding) \in Nat /\ Cardinality(Embedding') \in Nat
        /\ Cardinality(orphans) \in Nat /\ Cardinality(orphans') \in Nat
        /\ Cardinality(reloads) \in Nat /\ Cardinality(reloads') \in Nat
    BY <1>1, <1>2, SetsOfSearches
  <1> QED
    BY <1>2, <1>3, <1>4 DEF Accounted

\* The searches that hold a lock are as many as the adapters in use, at most.
LEMMA HoldersAreFew ==
    ASSUME TypeOK, NEW M, M \subseteq Adapters, IsFiniteSet(M),
           \A a \in Adapters : lock[a] # None => a \in M
    PROVE  \E holders : /\ IsFiniteSet(holders)
                        /\ Cardinality(holders) <= Cardinality(M)
                        /\ \A a \in Adapters : lock[a] # None => lock[a] \in holders
  <1> DEFINE f == [a \in M |-> lock[a]]
             holders == {lock[a] : a \in M}
  <1>1. f \in Surjection(M, holders)
    BY DEF Surjection
  <1>2. IsFiniteSet(holders) /\ Cardinality(holders) <= Cardinality(M)
    BY <1>1, FS_Surjection
  <1> QED
    BY <1>2

\* An embedding joins the account either as a reload, or while there is no
\* copy, when every other one holds the lock of an adapter in use or belongs to a
\* cancelled search.
LEMMA BeginAccounted ==
    ASSUME IInv, TypeOK', BuilderHoldsLock', HasAdapter',
           NEW M, M \subseteq Adapters, IsFiniteSet(M),
           \A a \in Adapters : lock[a] # None => a \in M,
           NEW n \in Nat, Cardinality(M) <= n, Accounted(n),
           NEW s \in Searches, BeginBuild(s)
    PROVE  Accounted(n)'
  <1>1. /\ Embedding' = Embedding \union {s} /\ s \notin Embedding
        /\ copies' = copies /\ orphans' = orphans
    BY DEF BeginBuild, Embedding, IInv, TypeOK, SetJob
  <1>2. /\ Embedding \in SUBSET Searches /\ Embedding' \in SUBSET Searches
        /\ orphans \in SUBSET Searches /\ reloads \in SUBSET Searches /\ copies \in Nat
    BY DEF Embedding, IInv, TypeOK
  <1>3. /\ Cardinality(Embedding) \in Nat /\ Cardinality(Embedding') \in Nat
        /\ Cardinality(orphans) \in Nat /\ Cardinality(reloads) \in Nat
        /\ IsFiniteSet(orphans)
    BY <1>2, SetsOfSearches
  <1>4. CASE copies = 0 /\ UNCHANGED reloads
    <2>1. PICK holders : /\ IsFiniteSet(holders)
                         /\ Cardinality(holders) <= Cardinality(M)
                         /\ \A a \in Adapters : lock[a] # None => lock[a] \in holders
      BY HoldersAreFew DEF IInv
    <2>2. ASSUME NEW q \in Embedding' PROVE q \in orphans \union holders
      <3>1. q \in Searches /\ (lock'[adapter'[q]] = q \/ q \in orphans')
        BY <2>2 DEF BuilderHoldsLock, Embedding, Working
      <3>2. adapter[q] \in Adapters
        BY <2>2 DEF Embedding, HasAdapter, IInv, BuildsOnce, BeginBuild, SetJob, TypeOK
      <3>3. lock' = lock /\ adapter' = adapter
        BY DEF BeginBuild
      <3> QED
        BY <1>1, <2>1, <3>1, <3>2, <3>3, SearchesAssumption
    <2>3. /\ IsFiniteSet(orphans \union holders)
          /\ Cardinality(orphans \union holders) <= Cardinality(orphans) + Cardinality(holders)
          /\ Cardinality(holders) \in Nat
      <3>1. /\ IsFiniteSet(orphans \union holders)
            /\ Cardinality(orphans \union holders) =
                 Cardinality(orphans) + Cardinality(holders) - Cardinality(orphans \cap holders)
        BY <1>3, <2>1, FS_Union
      <3>2. Cardinality(orphans \cap holders) \in Nat /\ Cardinality(holders) \in Nat
        BY <1>3, <2>1, FS_Intersection, FS_CardinalityType
      <3> QED
        BY <1>3, <3>1, <3>2
    <2>4. Cardinality(Embedding') <= Cardinality(orphans \union holders)
      BY <2>2, <2>3, FS_Subset
    <2>5. Cardinality(M) \in Nat /\ Cardinality(orphans \union holders) \in Nat
      BY <2>3, FS_CardinalityType
    <2> QED
      BY <1>1, <1>3, <1>4, <2>1, <2>3, <2>4, <2>5 DEF Accounted
  <1>5. CASE dir /\ copies > 0 /\ reloads' = reloads \union {s}
    <2>1. s \notin reloads
      BY DEF IInv, BuildsOnce, BeginBuild
    <2>2. Cardinality(reloads') = Cardinality(reloads) + 1
      BY <1>2, <1>5, <2>1, Larger
    <2>3. Cardinality(Embedding') = Cardinality(Embedding) + 1
      BY <1>1, <1>2, Larger
    <2> QED
      BY <1>1, <1>2, <1>3, <2>2, <2>3 DEF Accounted
  <1> QED
    BY <1>4, <1>5 DEF BeginBuild

\* A copy that is added was under way.
LEMMA AddAccounted ==
    ASSUME IInv, NEW n \in Nat, Accounted(n), NEW s \in Searches, AddDocuments(s)
    PROVE  Accounted(n)'
  <1>1. /\ Embedding' = Embedding \ {s} /\ s \in Embedding
        /\ copies' = copies + 1 /\ orphans' = orphans /\ reloads' = reloads
    BY DEF AddDocuments, Embedding, IInv, TypeOK, SetJob
  <1>2. Embedding \in SUBSET Searches /\ orphans \in SUBSET Searches
        /\ reloads \in SUBSET Searches /\ copies \in Nat
    BY DEF Embedding, IInv, TypeOK
  <1>3. IsFiniteSet(Embedding)
    BY <1>2, SetsOfSearches
  <1>4. Cardinality(Embedding') = Cardinality(Embedding) - 1
    BY <1>1, <1>3, FS_RemoveElement
  <1>5. /\ Cardinality(Embedding) \in Nat
        /\ Cardinality(orphans) \in Nat /\ Cardinality(reloads) \in Nat
    BY <1>2, SetsOfSearches
  <1> QED
    BY <1>1, <1>2, <1>4, <1>5 DEF Accounted

LEMMA AccountStep ==
    ASSUME IInv, TypeOK', BuilderHoldsLock', HasAdapter', [Next]_vars,
           NEW M, M \subseteq Adapters, IsFiniteSet(M),
           \A a \in Adapters : lock[a] # None => a \in M,
           NEW n \in Nat, Cardinality(M) <= n, Accounted(n)
    PROVE  Accounted(n)'
  <1>1. TypeOK
    BY DEF IInv
  <1>2. ASSUME NEW s \in Searches, NEW a \in Adapters, Search(s, a) PROVE Accounted(n)'
    <2>1. /\ copies' = copies /\ orphans' = orphans /\ reloads' = reloads
          /\ Embedding' \subseteq Embedding
      BY <1>1, <1>2 DEF Search, Locked, SetJob, Embedding, TypeOK
    <2> QED
      BY <1>1, <2>1, AccountKept
  <1>3. ASSUME NEW s \in Searches, Coroutine(s) PROVE Accounted(n)'
    <2>1. /\ copies' = copies /\ orphans' = orphans /\ reloads' = reloads
          /\ Embedding' \subseteq Embedding
      BY <1>1, <1>3
      DEF Coroutine, Acquire, Locked, Publish, BuildRaises, Query, SetJob, Embedding, TypeOK
    <2> QED
      BY <1>1, <2>1, AccountKept
  <1>4. ASSUME NEW s \in Searches, StartJob(s) \/ LoadCollection(s) \/ BuildFails(s)
        PROVE  Accounted(n)'
    <2>1. /\ copies' = copies /\ orphans' = orphans /\ reloads' = reloads
          /\ Embedding' \subseteq Embedding
      BY <1>1, <1>4 DEF StartJob, LoadCollection, BuildFails, SetJob, Embedding, TypeOK
    <2> QED
      BY <1>1, <2>1, AccountKept
  <1>5. ASSUME NEW s \in Searches, Cancel(s) PROVE Accounted(n)'
    <2>1. /\ copies' = copies /\ orphans \subseteq orphans' /\ reloads' = reloads
          /\ Embedding' \subseteq Embedding
      BY <1>1, <1>5 DEF Cancel, SetJob, Embedding, TypeOK
    <2> QED
      BY <1>1, <2>1, AccountKept
  <1>6. CASE Restart
    <2>1. /\ copies' = copies /\ orphans' = orphans /\ reloads' = reloads
          /\ Embedding' \subseteq Embedding
      BY <1>6 DEF Restart, Embedding
    <2> QED
      BY <1>1, <2>1, AccountKept
  <1>7. CASE UNCHANGED vars
    <2>1. /\ copies' = copies /\ orphans' = orphans /\ reloads' = reloads
          /\ Embedding' \subseteq Embedding
      BY <1>7 DEF vars, Embedding
    <2> QED
      BY <1>1, <2>1, AccountKept
  <1>8. ASSUME NEW s \in Searches, BeginBuild(s) PROVE Accounted(n)'
    BY <1>8, BeginAccounted
  <1>9. ASSUME NEW s \in Searches, AddDocuments(s) PROVE Accounted(n)'
    BY <1>9, AddAccounted
  <1> QED
    BY <1>2, <1>3, <1>4, <1>5, <1>6, <1>7, <1>8, <1>9 DEF Next, Thread, Quiet

LEMMA NextInv == IInv /\ [Next]_vars => IInv'
  <1> SUFFICES ASSUME IInv, [Next]_vars PROVE IInv'
    OBVIOUS
  <1>1. TypeOK'
    BY TypeStep DEF IInv
  <1>2. BuilderHoldsLock'
    BY LockStep DEF IInv
  <1>3. OpenedIsIndexed' /\ DoneIsIndexed'
    BY IndexStep DEF IInv
  <1>4. BuildsOnce' /\ HasAdapter'
    BY OnceStep DEF IInv
  <1> QED
    BY <1>1, <1>2, <1>3, <1>4 DEF IInv

\* An adapter that was used counts as used for ever.
LEMMA UsedGrows ==
    ASSUME IInv, [Next]_vars
    PROVE  Used \subseteq Used'
  <1>1. ASSUME NEW s \in Searches, NEW a \in Adapters, Search(s, a) PROVE Used \subseteq Used'
    <2>1. ASSUME NEW q \in Searches, adapter[q] # None PROVE adapter'[q] = adapter[q]
      BY <1>1, <2>1, AdaptersAssumption DEF Search, IInv, TypeOK, HasAdapter
    <2> QED
      BY <2>1 DEF Used
  <1>2. CASE adapter' = adapter
    BY <1>2 DEF Used
  <1>3. ASSUME NEW s \in Searches, Coroutine(s) \/ Thread(s) \/ Cancel(s) PROVE adapter' = adapter
    BY <1>3 DEF Coroutine, Acquire, Publish, BuildRaises, Query, Thread, StartJob,
                LoadCollection, BeginBuild, AddDocuments, BuildFails, Cancel
  <1>4. Restart \/ UNCHANGED vars => adapter' = adapter
    BY DEF Restart, vars
  <1> QED
    BY <1>1, <1>2, <1>3, <1>4 DEF Next, Quiet

\* The adapters whose lock is held are in use.
LEMMA HeldAreUsed ==
    ASSUME IInv, NEW a \in Adapters, lock[a] # None
    PROVE  \E s \in Searches : pc[s] = "building" /\ adapter[s] = a
  BY DEF IInv, TypeOK, BuilderHoldsLock

LEMMA CountStep == CountInv /\ [Next]_vars => CountInv'
  <1> SUFFICES ASSUME CountInv, [Next]_vars PROVE CountInv'
    OBVIOUS
  <1>1. IInv /\ IInv' /\ TypeOK /\ TypeOK' /\ BuilderHoldsLock' /\ HasAdapter'
    BY NextInv DEF CountInv, IInv
  <1>2. \A a \in Adapters : lock[a] # None => a \in Used
    BY <1>1, HeldAreUsed, AdaptersAssumption DEF Used
  <1>3. Used \subseteq Adapters /\ IsFiniteSet(Used) /\ Cardinality(Used) \in Nat
    BY <1>1, AdaptersInUse DEF Used, TypeOK
  <1>4. PICK n \in Nat : n = Cardinality(Used)
    BY <1>3
  <1>5. Accounted(n)'
    BY <1>1, <1>2, <1>3, <1>4, AccountStep DEF CountInv
  <1>6. n <= Cardinality(Used') /\ Cardinality(Used') \in Nat
    <2>1. Used' \subseteq Adapters
      BY <1>1 DEF Used, TypeOK
    <2>2. IsFiniteSet(Used')
      BY <2>1, AdaptersAssumption, FS_Subset
    <2> QED
      BY <1>1, <1>4, <2>2, UsedGrows, FS_Subset, FS_CardinalityType
  <1>7. /\ Embedding' \in SUBSET Searches /\ orphans' \in SUBSET Searches
        /\ reloads' \in SUBSET Searches /\ copies' \in Nat
    BY <1>1 DEF TypeOK, Embedding
  <1>8. /\ Cardinality(Embedding') \in Nat
        /\ Cardinality(orphans') \in Nat /\ Cardinality(reloads') \in Nat
    BY <1>7, SetsOfSearches
  <1>9. Accounted(Cardinality(Used))'
    BY <1>5, <1>6, <1>7, <1>8 DEF Accounted
  <1> QED
    BY <1>1, <1>9 DEF CountInv

-----------------------------------------------------------------------------

THEOREM Invariance == Spec => []CountInv
  <1> QED
    BY InitInv, CountStep, PTL DEF Spec

\* The state of the adapter and of its builds has its type.
THEOREM TypeCorrect == Spec => []TypeOK
  <1>1. CountInv => TypeOK
    BY DEF CountInv, IInv
  <1> QED
    BY <1>1, Invariance, PTL

\* For any number of searches, failures, cancellations and restarts, the lock
\* is held by the search whose build is awaited and by no other
\* (chroma_rag_adapter.py:173-180).
THEOREM LockIsHeld == Spec => []BuilderHoldsLock
  <1>1. CountInv => BuilderHoldsLock
    BY DEF CountInv, IInv
  <1> QED
    BY <1>1, Invariance, PTL

\* No search ever queries an empty index (chroma_rag_adapter.py:168-181,
\* 200-244).
THEOREM OpenedHasDocuments == Spec => []OpenedIsIndexed
  <1>1. CountInv => OpenedIsIndexed
    BY DEF CountInv, IInv
  <1> QED
    BY <1>1, Invariance, PTL

\* A lock that is held is held by a search whose build waits for a thread, is at
\* work, or has ended, so that the search can publish the store or raise: this is
\* WaitersCanGo without ENABLED (chroma_rag_adapter.py:173-180).
THEOREM HoldersCanGo == Spec => []HolderIsBuilding
  <1>1. CountInv => HolderIsBuilding
    BY DEF CountInv, IInv, TypeOK, BuilderHoldsLock, BuildsOnce, HolderIsBuilding
  <1> QED
    BY <1>1, Invariance, PTL

\* The corpus is indexed once by each adapter at most, and once more for each
\* search cancelled while its thread was at work and each collection that could
\* not be loaded (chroma_rag_adapter.py:200-215).
THEOREM DuplicatesAreCaused == Spec => []DuplicatesHaveACause
  <1>1. CountInv => DuplicatesHaveACause
    <2> SUFFICES ASSUME CountInv PROVE DuplicatesHaveACause
      OBVIOUS
    <2>1. /\ Embedding \in SUBSET Searches /\ orphans \in SUBSET Searches
          /\ reloads \in SUBSET Searches /\ copies \in Nat
      BY DEF CountInv, IInv, TypeOK, Embedding
    <2>2. /\ Cardinality(Embedding) \in Nat
          /\ Cardinality(orphans) \in Nat /\ Cardinality(reloads) \in Nat
      BY <2>1, SetsOfSearches
    <2>3. Cardinality(Used) \in Nat
      BY AdaptersInUse DEF CountInv, IInv
    <2> QED
      BY <2>1, <2>2, <2>3 DEF CountInv, Accounted, DuplicatesHaveACause
  <1> QED
    BY <1>1, Invariance, PTL

-----------------------------------------------------------------------------

\* What RagService adds to the invariant.
HandoutTypes ==
    /\ early \subseteq Requests
    /\ handed \in [Requests -> SUBSET Requests]
    /\ kept \in SUBSET Requests
    /\ strays \in SUBSET Requests

KeptIsOne == kept = {} \/ \E q \in Requests : kept = {q}

\* The searches of this process use the kept adapter or a stray one.
InUse == kept \union strays

RunningUse ==
    \A s \in Searches : pc[s] \in {"waiting", "building", "querying"} => adapter[s] \in InUse

ServiceInv ==
    /\ IInv
    /\ HandoutTypes
    /\ KeptIsOne
    /\ RunningUse
    /\ Accounted(1 + Cardinality(strays))

-----------------------------------------------------------------------------

LEMMA ServiceInit0 == ServiceInit => ServiceInv /\ Init
  <1> SUFFICES ASSUME ServiceInit PROVE ServiceInv
    BY DEF ServiceInit
  <1>1. CountInv
    BY InitInv DEF ServiceInit
  <1>2. HandoutTypes /\ KeptIsOne /\ strays = {}
    BY DEF ServiceInit, HandoutInit, HandoutTypes, KeptIsOne
  <1>3. RunningUse
    BY DEF ServiceInit, Init, RunningUse
  <1>4. Accounted(1)
    <2>1. Embedding = {} /\ orphans = {} /\ reloads = {} /\ copies = 0
      BY DEF ServiceInit, Init, Embedding
    <2> QED
      BY <2>1, FS_EmptySet DEF Accounted
  <1>5. Accounted(1 + Cardinality(strays))
    BY <1>2, <1>4, FS_EmptySet DEF Accounted
  <1> QED
    BY <1>1, <1>2, <1>3, <1>5 DEF ServiceInv, CountInv

\* What the service does to the store, a search, a build or a restart does.
LEMMA StepIsIndexStep ==
    ASSUME HandoutTypes, [ServiceNext]_serviceVars
    PROVE  [Next]_vars
  <1>1. ASSUME NEW r \in Requests, Depend(r) PROVE UNCHANGED vars
    BY <1>1 DEF Depend
  <1>2. ASSUME NEW r \in Requests, SearchRegulations(r) PROVE Next
    <2>1. PICK a \in handed[r] : Search(r, a)
      BY <1>2 DEF SearchRegulations
    <2>2. r \in Searches /\ a \in Adapters
      BY <2>1, ServiceAssumption DEF HandoutTypes
    <2> QED
      BY <2>1, <2>2 DEF Next
  <1>3. ASSUME NEW r \in Requests, InLoop(r) \/ InExecutor(r) \/ Leave(r) PROVE Next
    <2>1. r \in Searches /\ (Coroutine(r) \/ Thread(r) \/ Cancel(r))
      BY <1>3, ServiceAssumption DEF InLoop, InExecutor, Leave
    <2> QED
      BY <2>1 DEF Next
  <1>4. Stop => Next
    BY DEF Stop, Next
  <1>5. ServiceQuiet \/ UNCHANGED serviceVars => UNCHANGED vars
    BY DEF ServiceQuiet, serviceVars
  <1> QED
    BY <1>1, <1>2, <1>3, <1>4, <1>5 DEF ServiceNext

LEMMA HandoutStep ==
    ASSUME HandoutTypes, KeptIsOne, [ServiceNext]_serviceVars
    PROVE  HandoutTypes' /\ KeptIsOne'
  <1> USE DEF HandoutTypes, KeptIsOne, Enter
  <1>1. ASSUME NEW r \in Requests, Ask(r), strays' = strays PROVE HandoutTypes' /\ KeptIsOne'
    BY <1>1 DEF Ask
  <1>2. ASSUME NEW r \in Requests, HandKept(r), strays' = strays PROVE HandoutTypes' /\ KeptIsOne'
    BY <1>2 DEF HandKept
  <1>3. ASSUME NEW r \in Requests, HandMade(r), strays' = strays PROVE HandoutTypes' /\ KeptIsOne'
    BY <1>3 DEF HandMade
  <1>4. ASSUME NEW r \in Requests, Depend(r) PROVE HandoutTypes' /\ KeptIsOne'
    BY <1>1, <1>2, <1>3, <1>4 DEF Depend
  <1>5. ASSUME NEW r \in Requests, SearchRegulations(r) PROVE HandoutTypes' /\ KeptIsOne'
    BY <1>5 DEF SearchRegulations, handoutVars
  <1>6. ASSUME NEW r \in Requests, InLoop(r) \/ InExecutor(r) \/ Leave(r)
        PROVE  HandoutTypes' /\ KeptIsOne'
    BY <1>6 DEF InLoop, InExecutor, Leave, handoutVars
  <1>7. CASE Stop
    BY <1>7 DEF Stop, Forget
  <1>8. CASE ServiceQuiet \/ UNCHANGED serviceVars
    BY <1>8 DEF ServiceQuiet, serviceVars, handoutVars
  <1> QED
    BY <1>4, <1>5, <1>6, <1>7, <1>8 DEF ServiceNext

\* A kept adapter stays kept while searches run, and a stray one is remembered.
LEMMA UseStep ==
    ASSUME ServiceInv, [ServiceNext]_serviceVars
    PROVE  RunningUse' /\ strays \subseteq strays'
  <1> USE DEF ServiceInv, RunningUse, InUse
  <1>1. ASSUME NEW r \in Requests, Depend(r) PROVE RunningUse' /\ strays \subseteq strays'
    <2>1. kept \subseteq kept'
      BY <1>1 DEF Depend, Ask, HandKept, HandMade
    <2> QED
      BY <1>1, <2>1 DEF Depend, vars
  <1>2. ASSUME NEW r \in Requests, SearchRegulations(r) PROVE RunningUse' /\ strays \subseteq strays'
    <2>1. PICK a \in handed[r] : Search(r, a) /\ strays' = strays \union ({a} \ kept) /\ kept' = kept
      BY <1>2 DEF SearchRegulations, handoutVars
    <2>2. /\ adapter' = [adapter EXCEPT ![r] = a] /\ a \in InUse'
          /\ \A s \in Searches \ {r} : pc'[s] = pc[s]
      BY <2>1 DEF Search, Locked, Goto, IInv, TypeOK
    <2>3. adapter'[r] = a /\ \A s \in Searches \ {r} : adapter'[s] = adapter[s]
      BY <2>2, ServiceAssumption DEF IInv, TypeOK
    <2> QED
      BY <2>1, <2>2, <2>3
  <1>3. ASSUME NEW r \in Requests, InLoop(r) \/ InExecutor(r) \/ Leave(r)
        PROVE  RunningUse' /\ strays \subseteq strays'
    <2>1. adapter' = adapter /\ kept' = kept /\ strays' = strays
      BY <1>3 DEF InLoop, InExecutor, Leave, handoutVars, Coroutine, Acquire, Publish,
           BuildRaises, Query, Thread, StartJob, LoadCollection, BeginBuild, AddDocuments,
           BuildFails, Cancel
    <2>2. \A s \in Searches : pc'[s] \in {"waiting", "building", "querying"} =>
                              pc[s] \in {"waiting", "building", "querying"}
      BY <1>3 DEF InLoop, InExecutor, Leave, Coroutine, Acquire, Locked, Publish,
           BuildRaises, Query, Thread, StartJob, LoadCollection, BeginBuild, AddDocuments,
           BuildFails, Cancel, Goto, IInv, TypeOK
    <2> QED
      BY <2>1, <2>2
  <1>4. CASE Stop
    BY <1>4 DEF Stop, Restart
  <1>5. CASE ServiceQuiet \/ UNCHANGED serviceVars
    BY <1>5 DEF ServiceQuiet, serviceVars, handoutVars, vars
  <1> QED
    BY <1>1, <1>2, <1>3, <1>4, <1>5 DEF ServiceNext

\* The adapters in use are the kept one and the strays.
LEMMA FewInUse ==
    ASSUME HandoutTypes, KeptIsOne
    PROVE  /\ InUse \subseteq Adapters /\ IsFiniteSet(InUse)
           /\ IsFiniteSet(strays) /\ Cardinality(strays) \in Nat
           /\ Cardinality(InUse) <= 1 + Cardinality(strays)
  <1>1. InUse \subseteq Adapters /\ strays \in SUBSET Searches
    BY ServiceAssumption DEF HandoutTypes, InUse
  <1>2. IsFiniteSet(InUse) /\ IsFiniteSet(strays) /\ Cardinality(strays) \in Nat
    BY <1>1, AdaptersAssumption, FS_Subset, SetsOfSearches
  <1>3. ASSUME kept = {} PROVE Cardinality(InUse) <= 1 + Cardinality(strays)
    BY <1>2, <1>3 DEF InUse
  <1>4. ASSUME NEW q \in Requests, kept = {q} PROVE Cardinality(InUse) <= 1 + Cardinality(strays)
    <2>1. InUse = strays \union {q} /\ q \in Searches
      BY <1>4, ServiceAssumption DEF InUse
    <2>2. Cardinality(strays \union {q}) <= Cardinality(strays) + 1
      BY <1>1, <2>1, Larger
    <2> QED
      BY <1>2, <2>1, <2>2
  <1> QED
    BY <1>1, <1>2, <1>3, <1>4 DEF KeptIsOne

LEMMA ServiceStep == ServiceInv /\ [ServiceNext]_serviceVars => ServiceInv'
  <1> SUFFICES ASSUME ServiceInv, [ServiceNext]_serviceVars PROVE ServiceInv'
    OBVIOUS
  <1>1. [Next]_vars
    BY StepIsIndexStep DEF ServiceInv
  <1>2. IInv /\ IInv' /\ TypeOK' /\ BuilderHoldsLock' /\ HasAdapter'
    BY <1>1, NextInv DEF ServiceInv, IInv
  <1>3. HandoutTypes' /\ KeptIsOne'
    BY HandoutStep DEF ServiceInv
  <1>4. RunningUse' /\ strays \subseteq strays'
    BY UseStep
  <1>5. /\ InUse \subseteq Adapters /\ IsFiniteSet(InUse)
        /\ Cardinality(strays) \in Nat
        /\ Cardinality(InUse) <= 1 + Cardinality(strays)
    BY FewInUse DEF ServiceInv
  <1>6. PICK n \in Nat : n = 1 + Cardinality(strays)
    BY <1>5
  <1>7. \A a \in Adapters : lock[a] # None => a \in InUse
    BY <1>2, HeldAreUsed DEF ServiceInv, RunningUse
  <1>8. Accounted(n)'
    BY <1>1, <1>2, <1>5, <1>6, <1>7, AccountStep DEF ServiceInv
  <1>9. n <= 1 + Cardinality(strays') /\ Cardinality(strays') \in Nat
    <2>1. strays' \in SUBSET Searches
      BY <1>3, ServiceAssumption DEF HandoutTypes
    <2>2. Cardinality(strays) <= Cardinality(strays') /\ Cardinality(strays') \in Nat
      BY <1>4, <2>1, Smaller, SetsOfSearches
    <2> QED
      BY <1>5, <1>6, <2>2
  <1>10. /\ Embedding' \in SUBSET Searches /\ orphans' \in SUBSET Searches
         /\ reloads' \in SUBSET Searches /\ copies' \in Nat
    BY <1>2 DEF TypeOK, Embedding
  <1>11. /\ Cardinality(Embedding') \in Nat
         /\ Cardinality(orphans') \in Nat /\ Cardinality(reloads') \in Nat
    BY <1>10, SetsOfSearches
  <1>12. Accounted(1 + Cardinality(strays))'
    BY <1>8, <1>9, <1>10, <1>11 DEF Accounted
  <1> QED
    BY <1>2, <1>3, <1>4, <1>12 DEF ServiceInv

-----------------------------------------------------------------------------

THEOREM ServiceInvariance == ServiceSpec => []ServiceInv
  <1> QED
    BY ServiceInit0, ServiceStep, PTL DEF ServiceSpec

\* The searches of the service are searches of the index: what module ChromaIndex
\* promises of any searches on any adapters holds of those of the requests
\* (tool_registry.py:133-152, chroma_rag_adapter.py:94-254).
THEOREM ServiceUsesIndex == ServiceSpec => Spec
  <1>1. ServiceInit => Init
    BY DEF ServiceInit
  <1>2. ServiceInv /\ [ServiceNext]_serviceVars => [Next]_vars
    BY StepIsIndexStep DEF ServiceInv
  <1> QED
    BY <1>1, <1>2, ServiceInvariance, PTL DEF ServiceSpec, Spec

\* In the service too, the state has its type, the lock of an adapter is its
\* builder's, whose build goes on, and no search queries an empty index
\* (chroma_rag_adapter.py:168-181, 200-244).
THEOREM ServiceKeepsIndex ==
    ServiceSpec => [](TypeOK /\ BuilderHoldsLock /\ HolderIsBuilding /\ OpenedIsIndexed)
  <1> QED
    BY ServiceUsesIndex, TypeCorrect, LockIsHeld, HoldersCanGo, OpenedHasDocuments, PTL

\* For any number of requests and restarts, the corpus is in the collection once,
\* and once more at most for each stray adapter, each search cancelled during its
\* build and each collection that could not be loaded
\* (dependencies.py:35-54, chroma_rag_adapter.py:173-215).
THEOREM OverlapsAreTheCause == ServiceSpec => []DuplicatesNeedOverlap
  <1>1. ServiceInv => DuplicatesNeedOverlap
    <2> SUFFICES ASSUME ServiceInv PROVE DuplicatesNeedOverlap
      OBVIOUS
    <2>1. /\ Embedding \in SUBSET Searches /\ orphans \in SUBSET Searches
          /\ reloads \in SUBSET Searches /\ copies \in Nat
      BY DEF ServiceInv, IInv, TypeOK, Embedding
    <2>2. /\ Cardinality(Embedding) \in Nat
          /\ Cardinality(orphans) \in Nat /\ Cardinality(reloads) \in Nat
      BY <2>1, SetsOfSearches
    <2>3. Cardinality(strays) \in Nat
      BY FewInUse DEF ServiceInv
    <2> QED
      BY <2>1, <2>2, <2>3 DEF ServiceInv, Accounted, DuplicatesNeedOverlap
  <1> QED
    BY <1>1, ServiceInvariance, PTL

\* What the documentation says without reserve, that the corpus is indexed once,
\* holds as long as no request searched with a stray adapter, no search was
\* cancelled during its build and no collection failed to load, over any number
\* of restarts (chroma_rag_adapter.py:39, 169).
THEOREM OnceWithoutAccidents ==
    ServiceSpec => [](strays = {} /\ orphans = {} /\ reloads = {} => copies <= 1)
  <1>1. ServiceInv /\ DuplicatesNeedOverlap =>
          (strays = {} /\ orphans = {} /\ reloads = {} => copies <= 1)
    BY FS_EmptySet DEF ServiceInv, IInv, TypeOK, DuplicatesNeedOverlap
  <1> QED
    BY <1>1, ServiceInvariance, OverlapsAreTheCause, PTL

-----------------------------------------------------------------------------

\* What a search and its build have before them.
SearchLeft(place) ==
    CASE place = "idle" -> 7
      [] place = "waiting" -> 6
      [] place = "building" -> 2
      [] place = "querying" -> 1
      [] OTHER -> 0

BuildLeft(place) ==
    CASE place = "queued" -> 3
      [] place = "started" -> 2
      [] place = "embedding" -> 1
      [] OTHER -> 0

\* The most steps a search and its build have left.
StepsLeft(s) == SearchLeft(pc[s]) + BuildLeft(job[s])

LEMMA LeftValues ==
    /\ SearchLeft("idle") = 7 /\ SearchLeft("waiting") = 6
    /\ SearchLeft("building") = 2 /\ SearchLeft("querying") = 1
    /\ \A place \in Ended : SearchLeft(place) = 0
    /\ BuildLeft("queued") = 3 /\ BuildLeft("started") = 2 /\ BuildLeft("embedding") = 1
    /\ BuildLeft("none") = 0 /\ BuildLeft("done") = 0 /\ BuildLeft("failed") = 0
  BY DEF SearchLeft, BuildLeft, Ended

LEMMA LeftTypes ==
    ASSUME NEW x
    PROVE  SearchLeft(x) \in 0..7 /\ BuildLeft(x) \in 0..3
  BY DEF SearchLeft, BuildLeft

\* Where a step of a search leads it and its build.
Moves(s) ==
    \/ /\ pc[s] \in {"idle", "waiting"} /\ job[s] = "none"
       /\ \/ pc'[s] = "querying" /\ job'[s] = "none"
          \/ pc'[s] = "building" /\ job'[s] = "queued"
          \/ pc[s] = "idle" /\ pc'[s] = "waiting" /\ job'[s] = "none"
    \/ /\ pc'[s] = pc[s]
       /\ \/ job[s] = "queued" /\ job'[s] = "started"
          \/ job[s] = "started" /\ job'[s] \in {"embedding", "done", "failed"}
          \/ job[s] = "embedding" /\ job'[s] \in {"done", "failed"}
    \/ /\ job'[s] = job[s]
       /\ \/ pc[s] = "building" /\ pc'[s] \in {"querying", "raised"}
          \/ pc[s] = "querying" /\ pc'[s] \in {"served", "nothing"}
    \/ /\ pc[s] \in {"waiting", "building", "querying"} /\ pc'[s] = "cancelled"
       /\ job'[s] \in {job[s], "none"}

\* A step of the index is one of one search, a restart, or none.
LEMMA StepsMove ==
    ASSUME IInv, NEW s \in Searches,
           (\E a \in Adapters : Search(s, a)) \/ Coroutine(s) \/ Thread(s) \/ Cancel(s)
    PROVE  /\ Moves(s)
           /\ \A q \in Searches \ {s} : pc'[q] = pc[q] /\ job'[q] = job[q]
  <1> USE DEF IInv, TypeOK, Goto, SetJob, Moves
  <1>1. CASE \E a \in Adapters : Search(s, a)
    BY <1>1 DEF Search, Locked, BuildsOnce
  <1>2. CASE Acquire(s)
    BY <1>2 DEF Acquire, Locked, BuildsOnce
  <1>3. CASE Publish(s) \/ BuildRaises(s) \/ Query(s)
    BY <1>3 DEF Publish, BuildRaises, Query
  <1>4. CASE Thread(s)
    BY <1>4 DEF Thread, StartJob, LoadCollection, BeginBuild, AddDocuments, BuildFails, Working
  <1>5. CASE Cancel(s)
    BY <1>5 DEF Cancel
  <1> QED
    BY <1>1, <1>2, <1>3, <1>4, <1>5 DEF Coroutine

LEMMA MovesCount ==
    ASSUME IInv, NEW s \in Searches, Moves(s)
    PROVE  StepsLeft(s)' < StepsLeft(s) /\ StepsLeft(s)' <= StepsLeft(s)
  <1>1. /\ StepsLeft(s) = SearchLeft(pc[s]) + BuildLeft(job[s])
        /\ StepsLeft(s)' = SearchLeft(pc'[s]) + BuildLeft(job'[s])
    BY DEF StepsLeft, SearchLeft, BuildLeft
  <1>2. /\ SearchLeft(pc[s]) \in 0..7 /\ SearchLeft(pc'[s]) \in 0..7
        /\ BuildLeft(job[s]) \in 0..3 /\ BuildLeft(job'[s]) \in 0..3
    BY LeftTypes
  <1>3. SearchLeft(pc'[s]) + BuildLeft(job'[s]) < SearchLeft(pc[s]) + BuildLeft(job[s])
    <2>1. CASE pc[s] \in {"idle", "waiting"} /\ pc'[s] # "cancelled"
      BY <2>1, LeftValues DEF Moves
    <2>2. CASE pc'[s] = pc[s]
      BY <1>2, <2>2, LeftValues DEF Moves
    <2>3. CASE pc[s] \in {"building", "querying"} /\ job'[s] = job[s] /\ pc'[s] # pc[s]
      BY <1>2, <2>3, LeftValues DEF Moves, Ended
    <2>4. CASE pc[s] \in {"waiting", "building", "querying"} /\ pc'[s] = "cancelled"
               /\ job'[s] \in {job[s], "none"}
      BY <1>2, <2>4, LeftValues DEF Ended
    <2> QED
      BY <2>1, <2>2, <2>3, <2>4 DEF Moves
  <1> QED
    BY <1>1, <1>2, <1>3

LEMMA RestartCounts ==
    ASSUME IInv, Restart, NEW s \in Searches
    PROVE  StepsLeft(s)' <= StepsLeft(s)
  <1>1. /\ pc'[s] = IF pc[s] \in {"waiting", "building", "querying"} THEN "cancelled" ELSE pc[s]
        /\ job'[s] = "none"
    BY DEF Restart
  <1>2. /\ StepsLeft(s) = SearchLeft(pc[s]) + BuildLeft(job[s])
        /\ StepsLeft(s)' = SearchLeft(pc'[s]) + BuildLeft(job'[s])
    BY DEF StepsLeft, SearchLeft, BuildLeft
  <1>3. SearchLeft(pc[s]) \in 0..7 /\ BuildLeft(job[s]) \in 0..3
    BY LeftTypes
  <1>4. SearchLeft(pc'[s]) <= SearchLeft(pc[s]) /\ BuildLeft(job'[s]) = 0
    BY <1>1, <1>3, LeftValues DEF Ended
  <1> QED
    BY <1>2, <1>3, <1>4, LeftTypes

\* A search and its build take seven steps at most: a step of a search brings it
\* nearer to its end, and no build, failure, cancellation of another search and
\* no restart sets it back; with HoldersCanGo, a search that waits for the lock
\* waits for a holder that has at most five steps to go
\* (chroma_rag_adapter.py:94-181).
THEOREM SearchesAreFinite ==
    Spec => /\ \A s \in Searches : StepsLeft(s) = 7
            /\ [](\A s \in Searches : StepsLeft(s) \in Nat)
            /\ [](\A s \in Searches, a \in Adapters : lock[a] = s => StepsLeft(s) <= 5)
            /\ [][\/ Restart /\ \A s \in Searches : StepsLeft(s)' <= StepsLeft(s)
                  \/ \E s \in Searches :
                       /\ StepsLeft(s)' < StepsLeft(s)
                       /\ \A q \in Searches \ {s} : StepsLeft(q)' = StepsLeft(q)]_vars
  <1>1. Init => \A s \in Searches : StepsLeft(s) = 7
    BY LeftValues DEF Init, StepsLeft
  <1>2. \A s \in Searches : StepsLeft(s) \in Nat
    BY LeftTypes DEF StepsLeft
  <1>3. CountInv => \A s \in Searches, a \in Adapters : lock[a] = s => StepsLeft(s) <= 5
    BY LeftValues, LeftTypes DEF CountInv, IInv, TypeOK, BuilderHoldsLock, StepsLeft
  <1>4. ASSUME IInv, NEW s \in Searches,
               (\E a \in Adapters : Search(s, a)) \/ Coroutine(s) \/ Thread(s) \/ Cancel(s)
        PROVE  /\ StepsLeft(s)' < StepsLeft(s)
               /\ \A q \in Searches \ {s} : StepsLeft(q)' = StepsLeft(q)
    <2>1. \A q \in Searches \ {s} : StepsLeft(q)' = StepsLeft(q)
      BY <1>4, StepsMove DEF StepsLeft
    <2> QED
      BY <1>4, <2>1, StepsMove, MovesCount
  <1>5. CountInv /\ [Next]_vars =>
          [\/ Restart /\ \A s \in Searches : StepsLeft(s)' <= StepsLeft(s)
           \/ \E s \in Searches :
                /\ StepsLeft(s)' < StepsLeft(s)
                /\ \A q \in Searches \ {s} : StepsLeft(q)' = StepsLeft(q)]_vars
    BY <1>4, RestartCounts DEF CountInv, Next, Quiet
  <1> QED
    BY <1>1, <1>2, <1>3, <1>5, Invariance, PTL DEF Spec
=================================================================================
