------------------------------- MODULE ChromaIndex -------------------------------
(***************************************************************************)
(* ChromaRAGAdapter: searches over a vector store that the first search of *)
(* an adapter opens or builds, behind its asyncio lock, in a thread of the *)
(* executor.  All adapters keep the collection in the same directory; one  *)
(* adapter is meant, and module RagService says when there are more.       *)
(*                                                                         *)
(* A search is a coroutine of the event loop and may be cancelled at any   *)
(* await (its client leaves).  The build it has started is not a           *)
(* coroutine: once its thread runs it goes on to its end.  The collection  *)
(* is on disk and survives the process; the store object does not.  The    *)
(* corpus file is there, has documents, and one batch holds them all, so   *)
(* that they are added at once or not at all.                              *)
(***************************************************************************)
EXTENDS Naturals, FiniteSets

CONSTANTS
    Searches,       \* calls of search
    Adapters,       \* ChromaRAGAdapter objects
    None,           \* no adapter, no search: the lock is free
    MaxRestarts     \* bound: restarts of the process

ASSUME SearchesAssumption == IsFiniteSet(Searches) /\ None \notin Searches
ASSUME AdaptersAssumption == IsFiniteSet(Adapters) /\ None \notin Adapters
ASSUME RestartsAssumption == MaxRestarts \in Nat

VARIABLES
    pc,             \* pc[s]: where the search is suspended
    adapter,        \* adapter[s]: the object whose search s is
    lock,           \* lock[a]: the search that holds _lock of a
    opened,         \* opened[a]: _vectorstore of a is not None
    job,            \* job[s]: the build that s has given to the executor
    dir,            \* the directory .chroma_store exists
    copies,         \* copies of the corpus in the collection
    restarts,       \* restarts so far
    orphans,        \* ghost: searches cancelled while their thread was at work
    reloads         \* ghost: builds that could not load a collection and built it

vars == <<pc, adapter, lock, opened, job, dir, copies, restarts, orphans, reloads>>

Ended == {"served", "nothing", "raised", "cancelled"}

Working == {"started", "embedding"}

-----------------------------------------------------------------------------

Init ==
    /\ pc = [s \in Searches |-> "idle"]
    /\ adapter = [s \in Searches |-> None]
    /\ lock = [a \in Adapters |-> None]
    /\ opened = [a \in Adapters |-> FALSE]
    /\ job = [s \in Searches |-> "none"]
    /\ dir = FALSE
    /\ copies = 0
    /\ restarts = 0
    /\ orphans = {}
    /\ reloads = {}

Goto(s, place) == pc' = [pc EXCEPT ![s] = place]

SetJob(s, stage) == job' = [job EXCEPT ![s] = stage]

SetLock(a, holder) == lock' = [lock EXCEPT ![a] = holder]

\* Slip: the store is not looked at again under the lock.
LockedUnchecked(s, a) ==
    /\ SetLock(a, s)
    /\ SetJob(s, "queued")
    /\ Goto(s, "building")

\* The body of the lock: the store is looked at again, and built if there is none.
Locked(s, a) ==
    \/ /\ opened[a]
       /\ Goto(s, "querying")
       /\ UNCHANGED <<lock, job>>
    \/ /\ ~opened[a]
       /\ SetLock(a, s)
       /\ SetJob(s, "queued")
       /\ Goto(s, "building")

Waiting(a) == {s \in Searches : pc[s] = "waiting" /\ adapter[s] = a}

\* The lock is taken at once when it is free and nobody waits for it.
CanLock(a) == lock[a] = None /\ Waiting(a) = {}

Search(s, a) ==
    /\ pc[s] = "idle"
    /\ adapter' = [adapter EXCEPT ![s] = a]
    /\ \/ opened[a] /\ Goto(s, "querying") /\ UNCHANGED <<lock, job>>
       \/ ~opened[a] /\ CanLock(a) /\ Locked(s, a)
       \/ ~opened[a] /\ ~CanLock(a) /\ Goto(s, "waiting") /\ UNCHANGED <<lock, job>>
    /\ UNCHANGED <<opened, dir, copies, restarts, orphans, reloads>>

Acquire(s) ==
    /\ pc[s] = "waiting"
    /\ lock[adapter[s]] = None
    /\ Locked(s, adapter[s])
    /\ UNCHANGED <<adapter, opened, dir, copies, restarts, orphans, reloads>>

\* The executor has a thread for the build.
StartJob(s) ==
    /\ job[s] = "queued"
    /\ SetJob(s, "started")
    /\ UNCHANGED <<pc, adapter, lock, opened, dir, copies, restarts, orphans, reloads>>

\* The collection is there and has documents.
LoadCollection(s) ==
    /\ job[s] = "started"
    /\ dir /\ copies > 0
    /\ SetJob(s, "done")
    /\ UNCHANGED <<pc, adapter, lock, opened, dir, copies, restarts, orphans, reloads>>

\* Slip: a collection that is on disk is not looked for.
BeginBuildAnyway(s) ==
    /\ job[s] = "started"
    /\ dir' = TRUE
    /\ SetJob(s, "embedding")
    /\ UNCHANGED <<pc, adapter, lock, opened, copies, restarts, orphans, reloads>>

\* There is no collection, it is empty, or opening it raised: the documents
\* are read, the directory is made and the embeddings are asked for.
BeginBuild(s) ==
    /\ job[s] = "started"
    /\ \/ copies = 0 /\ UNCHANGED reloads
       \/ dir /\ copies > 0 /\ reloads' = reloads \union {s}
    /\ dir' = TRUE
    /\ SetJob(s, "embedding")
    /\ UNCHANGED <<pc, adapter, lock, opened, copies, restarts, orphans>>

\* Chroma adds the documents under new ids to what the collection holds.
AddDocuments(s) ==
    /\ job[s] = "embedding"
    /\ copies' = copies + 1
    /\ SetJob(s, "done")
    /\ UNCHANGED <<pc, adapter, lock, opened, dir, restarts, orphans, reloads>>

\* Slip: an index that could not be built counts as built.
BuildFailsQuietly(s) ==
    /\ job[s] = "embedding"
    /\ SetJob(s, "done")
    /\ UNCHANGED <<pc, adapter, lock, opened, dir, copies, restarts, orphans, reloads>>

\* The corpus is unreadable, the store cannot be made or the embeddings fail.
BuildFails(s) ==
    /\ job[s] \in Working
    /\ SetJob(s, "failed")
    /\ UNCHANGED <<pc, adapter, lock, opened, dir, copies, restarts, orphans, reloads>>

Publish(s) ==
    /\ pc[s] = "building"
    /\ job[s] = "done"
    /\ opened' = [opened EXCEPT ![adapter[s]] = TRUE]
    /\ SetLock(adapter[s], None)
    /\ Goto(s, "querying")
    /\ UNCHANGED <<adapter, job, dir, copies, restarts, orphans, reloads>>

\* Slip: the lock is kept when the build raises.
BuildRaisesLocked(s) ==
    /\ pc[s] = "building"
    /\ job[s] = "failed"
    /\ Goto(s, "raised")
    /\ UNCHANGED <<adapter, lock, opened, job, dir, copies, restarts, orphans, reloads>>

\* The build is outside the try block of search.
BuildRaises(s) ==
    /\ pc[s] = "building"
    /\ job[s] = "failed"
    /\ SetLock(adapter[s], None)
    /\ Goto(s, "raised")
    /\ UNCHANGED <<adapter, opened, job, dir, copies, restarts, orphans, reloads>>

\* The query returns documents, or raises and search returns none.
Query(s) ==
    /\ pc[s] = "querying"
    /\ \E result \in {"served", "nothing"} : Goto(s, result)
    /\ UNCHANGED <<adapter, lock, opened, job, dir, copies, restarts, orphans, reloads>>

\* Cancellation takes a queued build back, but not one that has a thread; the
\* lock is released either way.
Cancel(s) ==
    /\ pc[s] \in {"waiting", "building", "querying"}
    /\ Goto(s, "cancelled")
    /\ lock' = [a \in Adapters |-> IF lock[a] = s THEN None ELSE lock[a]]
    /\ SetJob(s, IF pc[s] = "building" /\ job[s] = "queued" THEN "none" ELSE job[s])
    /\ orphans' = IF pc[s] = "building" /\ job[s] \in Working
                  THEN orphans \union {s} ELSE orphans
    /\ UNCHANGED <<adapter, opened, dir, copies, restarts, reloads>>

\* The process stops, with its threads, and is started again.
Restart ==
    /\ restarts < MaxRestarts
    /\ restarts' = restarts + 1
    /\ pc' = [s \in Searches |->
                IF pc[s] \in {"waiting", "building", "querying"} THEN "cancelled" ELSE pc[s]]
    /\ job' = [s \in Searches |-> "none"]
    /\ lock' = [a \in Adapters |-> None]
    /\ opened' = [a \in Adapters |-> FALSE]
    /\ UNCHANGED <<adapter, dir, copies, orphans, reloads>>

Coroutine(s) == Acquire(s) \/ Publish(s) \/ BuildRaises(s) \/ Query(s)

Thread(s) ==
    \/ StartJob(s)
    \/ LoadCollection(s)
    \/ BeginBuild(s)
    \/ AddDocuments(s)
    \/ BuildFails(s)

Quiet == (\A s \in Searches : pc[s] \in Ended /\ job[s] \notin Working) /\ UNCHANGED vars

Next ==
    \/ \E s \in Searches :
          (\E a \in Adapters : Search(s, a)) \/ Coroutine(s) \/ Thread(s) \/ Cancel(s)
    \/ Restart
    \/ Quiet

Spec == Init /\ [][Next]_vars

-----------------------------------------------------------------------------

TypeOK ==
    /\ pc \in [Searches -> {"idle", "waiting", "building", "querying"} \union Ended]
    /\ adapter \in [Searches -> Adapters \union {None}]
    /\ lock \in [Adapters -> Searches \union {None}]
    /\ opened \in [Adapters -> BOOLEAN]
    /\ job \in [Searches -> {"none", "queued", "done", "failed"} \union Working]
    /\ dir \in BOOLEAN
    /\ copies \in Nat
    /\ restarts \in 0..MaxRestarts
    /\ orphans \subseteq Searches
    /\ reloads \subseteq Searches

\* The lock of an adapter is held by the search whose build is awaited, and by
\* no other; so the only builds of an adapter beside it are those of cancelled
\* searches (chroma_rag_adapter.py:173-180).
BuilderHoldsLock ==
    /\ \A s \in Searches, a \in Adapters :
         pc[s] = "building" /\ adapter[s] = a <=> lock[a] = s
    /\ \A s \in Searches : job[s] \in Working \union {"queued"} =>
         lock[adapter[s]] = s \/ s \in orphans
    /\ \A a \in Adapters : opened[a] => lock[a] = None

\* A store that searches query holds the corpus: whatever failed, was cancelled
\* or was restarted before, no search is answered from an empty index
\* (chroma_rag_adapter.py:168-181, 200-244).
OpenedIsIndexed ==
    /\ \A a \in Adapters : opened[a] => copies > 0
    /\ \A s \in Searches : pc[s] = "querying" => opened[adapter[s]]

\* The adapters that searches were made with.
Used == {adapter[s] : s \in Searches} \ {None}

\* The corpus is added again only by a build of another adapter, by one that ran
\* beside that of a cancelled search, or by one that could not load what it
\* found on disk (chroma_rag_adapter.py:200-215).
DuplicatesHaveACause ==
    copies <= Cardinality(Used) + Cardinality(orphans) + Cardinality(reloads)

\* A search that waits for the lock can take it, or the search that holds it has
\* a build that can go on: no failed, cancelled or finished build leaves a lock
\* behind (chroma_rag_adapter.py:173-180).
WaitersCanGo ==
    \A s \in Searches : pc[s] = "waiting" =>
      LET holder == lock[adapter[s]] IN
        holder # None => ENABLED (Publish(holder) \/ BuildRaises(holder) \/ Thread(holder))

\* The lazy initialisation is thread-safe, so the corpus is indexed once and
\* not again on each restart (chroma_rag_adapter.py:39, 169).
IndexedOnce == reloads = {} => copies <= 1
=============================================================================
