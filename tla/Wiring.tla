---------------------------------- MODULE Wiring ----------------------------------
(***************************************************************************)
(* The objects that dependencies.py makes for the routes.  FastAPI runs    *)
(* get_run_agent_use_case and get_history_use_case, which are plain        *)
(* functions, in the threads of a pool, one for each request.  The         *)
(* factories they call are memoised by functools.lru_cache, which holds no *)
(* lock while it calls the function: two threads that miss both make an    *)
(* object, the first one stored stays, and each thread goes on with the    *)
(* object it made.  A factory that raises stores nothing.                  *)
(*                                                                         *)
(* Which kind of adapter a factory makes is told apart where making it may *)
(* raise: create_llm_adapter needs the key of its provider, and            *)
(* SimulatedRAGAdapter reads the corpus, ChromaRAGAdapter only when it is  *)
(* searched.                                                               *)
(*                                                                         *)
(* An object is named by the request whose thread made it; a set of at     *)
(* most one request stands for a slot that may be empty.                   *)
(***************************************************************************)
EXTENDS Naturals, FiniteSets

CONSTANTS
    Requests,
    Threads,        \* threads of the pool that runs the plain functions
    Environments    \* what the process may be started with

VARIABLES
    settings,       \* what get_settings read from the environment, and the corpus
    up,             \* lifespan has started: the server takes requests
    sessions,       \* _session_factory is set
    wants,          \* wants[r]: the use case the route of the request depends on
    at,             \* at[r]: the function its thread is in, or how it ended
    got,            \* got[r][f]: the object that f returned to it
    cache,          \* cache[f]: the object that is stored for f
    late            \* ghost: requests resolved when an orchestrator was stored

wiringVars == <<settings, up, sessions, wants, at, got, cache, late>>

-----------------------------------------------------------------------------

UseCases == {"run_agent", "get_history"}

Factories == {"orchestrator", "llm", "registry", "erp", "rag", "conversation"}

\* The factories a function calls, in order.
Needs == [
    run_agent    |-> <<"orchestrator", "conversation">>,
    get_history  |-> <<"conversation">>,
    orchestrator |-> <<"llm", "registry">>,
    registry     |-> <<"erp", "rag">>,
    llm          |-> << >>,
    erp          |-> << >>,
    rag          |-> << >>,
    conversation |-> << >>]

\* For a key, whether there is one; of the file of documents, whether a reader
\* gets through it (one that is missing is read as an empty corpus).
Settings == [
    LLM_PROVIDER : {"openai", "claude", "langchain"},
    OPENAI_API_KEY : BOOLEAN,
    ANTHROPIC_API_KEY : BOOLEAN,
    RAG_PROVIDER : {"chroma", "simulated"},
    corpusReads : BOOLEAN]

ASSUME ThreadsAssumption == IsFiniteSet(Requests) /\ Threads \in Nat

ASSUME EnvironmentsAssumption == Environments \subseteq Settings

\* create_llm_adapter finds the key of the provider.
HasLlmKey ==
    IF settings.LLM_PROVIDER = "claude"
    THEN settings.ANTHROPIC_API_KEY ELSE settings.OPENAI_API_KEY

\* Chroma without a key for its embeddings falls back to the simulated adapter.
IsSimulated == settings.RAG_PROVIDER = "simulated" \/ ~settings.OPENAI_API_KEY

RagLoads == IsSimulated => settings.corpusReads

Stored(f) == cache[f] # {}

Nothing == [f \in Factories |-> {}]

WiringInit ==
    /\ settings \in Environments
    /\ up = FALSE
    /\ sessions = FALSE
    /\ wants \in [Requests -> UseCases]
    /\ at = [r \in Requests |-> "none"]
    /\ got = [r \in Requests |-> Nothing]
    /\ cache = Nothing
    /\ late = {}

\* Slip: init_db assigns a local variable.
InitDbLocally ==
    /\ ~up
    /\ up' = TRUE
    /\ UNCHANGED <<settings, sessions, wants, at, got, cache, late>>

\* lifespan up to its yield; when it raises the process exits.
InitDb ==
    /\ ~up
    /\ up' = TRUE
    /\ sessions' = TRUE
    /\ UNCHANGED <<settings, wants, at, got, cache, late>>

Goto(r, place) == at' = [at EXCEPT ![r] = place]

Running(r) == at[r] \in UseCases \union Factories

\* A request waits for a thread of the pool.
Resolve(r) ==
    /\ up
    /\ Cardinality({q \in Requests : Running(q)}) < Threads
    /\ at[r] = "none"
    /\ Goto(r, wants[r])
    /\ late' = IF Stored("orchestrator") THEN late \union {r} ELSE late
    /\ UNCHANGED <<settings, up, sessions, wants, got, cache>>

\* The function that called the one r is in.
Caller(r) ==
    CASE at[r] \in {"orchestrator", "conversation"} -> wants[r]
      [] at[r] \in {"llm", "registry"} -> "orchestrator"
      [] at[r] \in {"erp", "rag"} -> "registry"

\* The calls of the function r is in that have not returned.
Missing(r) == {i \in DOMAIN Needs[at[r]] : got[r][Needs[at[r]][i]] = {}}

\* The call it is at.
Calls(r, f) ==
    \E i \in Missing(r) : Needs[at[r]][i] = f /\ \A j \in Missing(r) : i <= j

Hit(r) ==
    /\ Running(r)
    /\ \E f \in Factories :
         /\ Calls(r, f)
         /\ Stored(f)
         /\ got' = [got EXCEPT ![r][f] = cache[f]]
    /\ UNCHANGED <<settings, up, sessions, wants, at, cache, late>>

\* Slip: the slot is claimed before the object is made.
MissClaims(r) ==
    /\ Running(r)
    /\ \E f \in Factories :
         /\ Calls(r, f)
         /\ ~Stored(f)
         /\ cache' = [cache EXCEPT ![f] = {r}]
         /\ Goto(r, f)
    /\ UNCHANGED <<settings, up, sessions, wants, got, late>>

Miss(r) ==
    /\ Running(r)
    /\ \E f \in Factories :
         /\ Calls(r, f)
         /\ ~Stored(f)
         /\ Goto(r, f)
    /\ UNCHANGED <<settings, up, sessions, wants, got, cache, late>>

\* The body of f raises: the key is missing, the corpus is malformed, or there is no
\* session factory.
Raises(f) ==
    \/ f = "llm" /\ ~HasLlmKey
    \/ f = "rag" /\ ~RagLoads
    \/ f \in {"erp", "conversation"} /\ ~sessions

Made(r) ==
    /\ at[r] \in Factories
    /\ Missing(r) = {}
    /\ ~Raises(at[r])

\* Slip: the object made last is the one that stays.
ConstructLast(r) ==
    /\ Made(r)
    /\ got' = [got EXCEPT ![r][at[r]] = {r}]
    /\ cache' = [cache EXCEPT ![at[r]] = {r}]
    /\ Goto(r, Caller(r))
    /\ UNCHANGED <<settings, up, sessions, wants, late>>

Construct(r) ==
    /\ Made(r)
    /\ got' = [got EXCEPT ![r][at[r]] = {r}]
    /\ cache' = IF Stored(at[r]) THEN cache ELSE [cache EXCEPT ![at[r]] = {r}]
    /\ Goto(r, Caller(r))
    /\ UNCHANGED <<settings, up, sessions, wants, late>>

\* The exception leaves every function; the request is answered by a 500.
Raise(r) ==
    /\ at[r] \in Factories
    /\ Missing(r) = {}
    /\ Raises(at[r])
    /\ Goto(r, "raised")
    /\ UNCHANGED <<settings, up, sessions, wants, got, cache, late>>

Return(r) ==
    /\ at[r] \in UseCases
    /\ Missing(r) = {}
    /\ Goto(r, "returned")
    /\ UNCHANGED <<settings, up, sessions, wants, got, cache, late>>

\* The process stops and is started again: every object of it is gone.
Reboot ==
    /\ up' = FALSE
    /\ sessions' = FALSE
    /\ at' = [r \in Requests |-> IF at[r] = "none" THEN "none" ELSE "gone"]
    /\ got' = [r \in Requests |-> Nothing]
    /\ cache' = Nothing
    /\ late' = {}
    /\ UNCHANGED <<settings, wants>>

ThreadStep(r) == Hit(r) \/ Miss(r) \/ Construct(r) \/ Raise(r) \/ Return(r)

WiringNext ==
    \/ InitDb
    \/ \E r \in Requests : Resolve(r) \/ ThreadStep(r)
    \/ Reboot

-----------------------------------------------------------------------------

\* The objects made by f for the requests that made owners.
Follow(owners, f) == UNION {got[q][f] : q \in owners}

\* The RAG adapter behind the tool registry of an orchestrator.
RagBehind(orchestrators) == Follow(Follow(orchestrators, "registry"), "rag")

WiringSpec == WiringInit /\ [][WiringNext]_wiringVars

\* What the requests see of the RAG adapters: module AdapterHandout.
Stage == [r \in Requests |->
    CASE at[r] \in {"none", "gone"} -> at[r]
      [] at[r] \notin {"none", "gone"} /\ got[r]["orchestrator"] # {} -> "handed"
      [] Running(r) /\ got[r]["orchestrator"] = {} -> "asking"
      [] OTHER -> "without"]

Early == {r \in Requests : at[r] \notin {"none", "gone"}} \ late

Handed == [r \in Requests |-> RagBehind(got[r]["orchestrator"])]

Kept == RagBehind(cache["orchestrator"])

Handout == INSTANCE AdapterHandout WITH
    stage <- Stage, early <- Early, handed <- Handed, kept <- Kept

-----------------------------------------------------------------------------

WiringTypeOK ==
    /\ settings \in Environments
    /\ up \in BOOLEAN
    /\ sessions \in BOOLEAN
    /\ wants \in [Requests -> UseCases]
    /\ at \in [Requests -> UseCases \union Factories
                            \union {"none", "returned", "raised", "gone"}]
    /\ got \in [Requests -> [Factories -> SUBSET Requests]]
    /\ cache \in [Factories -> SUBSET Requests]
    /\ late \subseteq Requests

\* A request resolved when an orchestrator is stored is given that one, and
\* makes none of its parts: however the threads of the first requests
\* interleaved, from then on one orchestrator, with one tool registry, one model
\* and one RAG adapter, serves all (dependencies.py:25-78).
LateRequestsShare ==
    \A r \in late :
      /\ got[r]["orchestrator"] \subseteq cache["orchestrator"]
      /\ \A f \in {"llm", "registry", "erp", "rag"} : r \notin cache[f] \union got[r][f]

\* An object that is handed out or stored has all its parts: no thread sees one
\* that another is still making (dependencies.py:25-78).
HandedOutWhole ==
    \A f \in Factories :
      \A q \in cache[f] \union UNION {got[r][f] : r \in Requests} :
        \A i \in DOMAIN Needs[f] : got[q][Needs[f][i]] # {}

\* Dependencies fail for chat requests alone, and for these exactly when the key of
\* the model provider is missing or the simulated adapter cannot read its corpus:
\* requests for the history are served without either, and no thread ever finds the
\* database uninitialised (llm_factory.py:13-36, simulated_rag_adapter.py:31-38,
\* mysql_client.py:39-42, main.py:46-50).
FailsByConfiguration ==
    \A r \in Requests :
      /\ at[r] = "raised" => wants[r] = "run_agent" /\ ~(HasLlmKey /\ RagLoads)
      /\ got[r]["orchestrator"] # {} => HasLlmKey /\ RagLoads

\* The requests are handed RAG adapters as AdapterHandout promises
\* (dependencies.py:35-78).
ImplementsHandout == Handout!HandoutSpec
=============================================================================
