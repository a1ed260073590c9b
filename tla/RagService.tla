-------------------------------- MODULE RagService --------------------------------
(***************************************************************************)
(* Requests and the regulations they search: each is handed a RAG adapter  *)
(* as module AdapterHandout says (which module Wiring implements), and its *)
(* search runs on that adapter as module ChromaIndex says.                 *)
(***************************************************************************)
EXTENDS ChromaIndex, AdapterHandout

\* A request makes at most one adapter and, here, one search; both are named by it.
ASSUME ServiceAssumption == Requests \subseteq Searches /\ Requests \subseteq Adapters

VARIABLE strays     \* ghost: adapters searched with that were not the kept one

serviceVars == <<vars, handoutVars, strays>>

ServiceInit == Init /\ HandoutInit /\ strays = {}

\* Requests that are refused an adapter search nothing and are left out.
Depend(r) ==
    /\ Ask(r) \/ HandKept(r) \/ HandMade(r)
    /\ UNCHANGED <<vars, strays>>

\* ToolRegistry._handle_rag of the orchestrator that r runs.
SearchRegulations(r) ==
    /\ \E a \in handed[r] :
         /\ Search(r, a)
         /\ strays' = strays \union ({a} \ kept)
    /\ UNCHANGED handoutVars

InLoop(r) == Coroutine(r) /\ UNCHANGED <<handoutVars, strays>>

InExecutor(r) == Thread(r) /\ UNCHANGED <<handoutVars, strays>>

Leave(r) == Cancel(r) /\ UNCHANGED <<handoutVars, strays>>

Stop == Restart /\ Forget /\ UNCHANGED strays

Answered(r) ==
    \/ stage[r] = "gone"
    \/ stage[r] = "handed" /\ pc[r] \in Ended

ServiceQuiet ==
    /\ \A r \in Requests : Answered(r) /\ job[r] \notin Working
    /\ UNCHANGED serviceVars

ServiceNext ==
    \/ \E r \in Requests :
          Depend(r) \/ SearchRegulations(r) \/ InLoop(r) \/ InExecutor(r) \/ Leave(r)
    \/ Stop
    \/ ServiceQuiet

ServiceSpec == ServiceInit /\ [][ServiceNext]_serviceVars

-----------------------------------------------------------------------------

\* The corpus is in the collection more than once only after a request searched
\* with another adapter than the one that was kept, a search was cancelled while
\* its build ran, or a collection on disk could not be loaded: these accidents
\* bound the copies, over restarts too
\* (dependencies.py:35-54, chroma_rag_adapter.py:173-215).
DuplicatesNeedOverlap ==
    copies <= 1 + Cardinality(strays) + Cardinality(orphans) + Cardinality(reloads)
=============================================================================
