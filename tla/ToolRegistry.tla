------------------------------- MODULE ToolRegistry -------------------------------
(***************************************************************************)
(* ToolRegistry.execute and what answers it: the tax tool (module          *)
(* TaxTool), the ERP adapter with the queries it sends to the database,    *)
(* and the search of the RAG adapter that is configured.  What raises and  *)
(* is not swallowed by an adapter ends in a failed ToolResult.             *)
(*                                                                         *)
(* A query sees one state of the tables, which others write: any rows may  *)
(* be there.  Numbers may come as digits or floats, which int() makes      *)
(* integers of.  The relevance of a document to a query is a number, and   *)
(* the documents of the corpus are known by their places in it; in Chroma  *)
(* they are those of the collection, which module ChromaIndex says how it  *)
(* comes by.                                                               *)
(***************************************************************************)
EXTENDS TaxTool, SequencesExt

CONSTANTS
    Rows,           \* rows of shipments: id, user, status and time of creation
    Corpora,        \* for each document, its score for the query
    Texts,          \* what comes for an id or a filter; "" and Null among it
    Numbers,        \* what comes for limit and top_k
    Null            \* null, or the key is missing

ASSUME TableAssumption == IsFiniteSet(Rows) /\ \A row \in Rows : row.at \in Int
ASSUME CorpusAssumption == \A scores \in Corpora : scores \in Seq(Nat)
ASSUME NumberAssumption == Numbers \subseteq Int \union {Null, Malformed} /\ Null \notin Int

VARIABLES
    call,           \* the ToolCall: tool, action and arguments
    provider,       \* the RAG adapter: "simulated" or "chroma"
    source,         \* what the table or the corpus held for the query
    unread,         \* ghost: a search returned [] without a look at the corpus
    outcome,        \* "none", "waiting", "ok" or "error"
    result          \* the rows, or the documents, of the ToolResult; None is << >>

registryVars == <<call, provider, source, unread, outcome, result>>

NoCall == [tool |-> "none"]

ErpCalls ==
    [tool : {"get_erp_data"}, action : {"get"}, id : Texts]
    \union [tool : {"get_erp_data"}, action : {"list"},
            user : Texts, status : Texts, limit : Numbers]
    \union [tool : {"get_erp_data"}, action : {"other"}]

RagCalls == [tool : {"search_regulations"}, query : {"text", Null}, top_k : Numbers]

UnknownCalls == [tool : {"other"}]

ToolInit ==
    /\ Init
    /\ call = NoCall
    /\ provider \in {"simulated", "chroma"}
    /\ source = << >>
    /\ unread = FALSE
    /\ outcome = "none"
    /\ result = << >>

-----------------------------------------------------------------------------

\* An unknown tool or action, a key that is missing, a number that int() refuses.
Raises(c) ==
    \/ c.tool = "other"
    \/ c.tool = "get_erp_data" /\ c.action = "other"
    \/ c.tool = "get_erp_data" /\ c.action = "list" /\ c.limit = Malformed
    \/ c.tool = "search_regulations" /\ (c.query = Null \/ c.top_k = Malformed)

\* For get_shipment and get_user_profile, a missing key raises too.
Execute(c) ==
    /\ outcome = "none" /\ pc = "idle"
    /\ call' = c
    /\ \/ ~Raises(c) /\ outcome' = "waiting"
       \/ Raises(c) /\ outcome' = "error"
       \/ c.tool = "get_erp_data" /\ c.action = "get" /\ c.id = Null /\ outcome' = "error"
    /\ UNCHANGED <<vars, provider, source, unread, result>>

\* Slip: zero counts as not given.
DefaultFalsy(n, default) == IF n \in {Null, 0} THEN default ELSE n

Default(n, default) == IF n = Null THEN default ELSE n

\* Slip: only null is no filter.
GivenAny(x) == x # Null

Given(x) == x \notin {Null, ""}

\* The WHERE clause.
Matches(row, c) ==
    /\ Given(c.user) => row.user = c.user
    /\ Given(c.status) => row.status = c.status

\* The sequences that hold each element of S once, sorted.
InOrder(S, Before(_, _)) ==
    {p \in SetToSeqs(S) : \A i, j \in DOMAIN p : i < j => Before(p[i], p[j])}

\* ORDER BY created_at DESC: rows created at once come in any order.
Ordered(S) == InOrder(S, LAMBDA r, q : r.at >= q.at)

FirstOf(p, n) == IF n < Len(p) THEN SubSeq(p, 1, n) ELSE p

\* Slip: the rows are cut first, then ordered.
NewestCutFirst(S, n) ==
    UNION {Ordered(T) : T \in {U \in SUBSET S :
                                 Cardinality(U) = (IF n < Cardinality(S) THEN n ELSE Cardinality(S))}}

\* SELECT TOP(n) ... ORDER BY created_at DESC.
Newest(S, n) == {FirstOf(p, n) : p \in Ordered(S)}

\* TOP(1) ... WHERE id = ...; None if there is no row.
GetRow ==
    /\ outcome = "waiting" /\ call.tool = "get_erp_data" /\ call.action = "get"
    /\ \E table \in SUBSET Rows :
         /\ source' = table
         /\ result' \in Newest({row \in table : row.id = call.id}, 1)
    /\ outcome' = "ok"
    /\ UNCHANGED <<vars, call, provider, unread>>

ListRows ==
    /\ outcome = "waiting" /\ call.tool = "get_erp_data" /\ call.action = "list"
    /\ Default(call.limit, 20) >= 0
    /\ \E table \in SUBSET Rows :
         /\ source' = table
         /\ result' \in Newest({row \in table : Matches(row, call)}, Default(call.limit, 20))
    /\ outcome' = "ok"
    /\ UNCHANGED <<vars, call, provider, unread>>

\* The database is away, or refuses the query, as it does for TOP(-1).
QueryFails ==
    /\ outcome = "waiting" /\ call.tool = "get_erp_data"
    /\ outcome' = "error"
    /\ UNCHANGED <<vars, call, provider, source, unread, result>>

\* list.sort is stable, also in reverse: there is one such order.
Rankings(scores) ==
    InOrder(DOMAIN scores,
        LAMBDA d, e : scores[d] > scores[e] \/ (scores[d] = scores[e] /\ d < e))

\* p[:n]: a negative n counts from the end.
Slice(p, n) ==
    LET last == IF n < 0 THEN Len(p) + n ELSE n
    IN  IF last < 1 THEN << >> ELSE FirstOf(p, last)

\* Documents that score nothing are left out, the others keep their order.
Relevant(p, scores) ==
    LET places == {i \in DOMAIN p : scores[p[i]] > 0}
    IN  {[i \in DOMAIN kept |-> p[kept[i]]] : kept \in InOrder(places, LAMBDA i, j : i < j)}

\* SimulatedRAGAdapter.search; there are no documents if the file was missing
\* when the adapter was made.
SearchSimulated(scores) ==
    \/ /\ \E ranking \in Rankings(scores) :
            result' \in Relevant(Slice(ranking, Default(call.top_k, 3)), scores)
       /\ unread' = FALSE
    \/ result' = << >> /\ unread' = TRUE

\* The nearest documents first, those of one score in any order.
Nearest(scores) == InOrder(DOMAIN scores, LAMBDA d, e : scores[d] >= scores[e])

\* ChromaRAGAdapter.search on an open store.  A query that raises is logged and
\* returns [], as it does for a top_k below one; a collection that was built
\* without the file of the corpus holds nothing.
SearchChroma(scores) ==
    \/ /\ Default(call.top_k, 3) > 0
       /\ \E ranking \in Nearest(scores) :
            result' = FirstOf(ranking, Default(call.top_k, 3))
       /\ unread' = FALSE
    \/ result' = << >> /\ unread' = TRUE

Search ==
    /\ outcome = "waiting" /\ call.tool = "search_regulations"
    /\ \E scores \in Corpora :
         /\ source' = scores
         /\ \/ provider = "simulated" /\ SearchSimulated(scores)
            \/ provider = "chroma" /\ SearchChroma(scores)
    /\ outcome' = "ok"
    /\ UNCHANGED <<vars, call, provider>>

\* The store of Chroma is opened or built outside the try block.
SearchFails ==
    /\ outcome = "waiting" /\ call.tool = "search_regulations" /\ provider = "chroma"
    /\ outcome' = "error"
    /\ UNCHANGED <<vars, call, provider, source, unread, result>>

TaxStep ==
    /\ outcome = "none"
    /\ Call \/ Calculate \/ Refuse
    /\ UNCHANGED registryVars

Ended == (outcome \in {"ok", "error"} \/ Returned) /\ UNCHANGED <<vars, registryVars>>

ToolNext ==
    \/ \E c \in ErpCalls \union RagCalls \union UnknownCalls : Execute(c)
    \/ GetRow \/ ListRows \/ QueryFails \/ Search \/ SearchFails
    \/ TaxStep
    \/ Ended

ToolSpec == ToolInit /\ [][ToolNext]_<<vars, registryVars>>

-----------------------------------------------------------------------------

\* The rows the model asked for.
Wanted == {row \in source :
             /\ call.user \in {Null, "", row.user}
             /\ call.status \in {Null, "", row.status}}

\* What the model reads as "there is none" is so, unless it asked for none or a
\* RAG adapter swallowed the failure: an observation without rows or documents,
\* and without an error, means that no row fits, that no document scores
\* (simulated), or that there is no document at all (Chroma)
\* (tool_registry.py:175-191, mysql_erp_adapter.py:61-71,
\* simulated_rag_adapter.py:47-96, chroma_rag_adapter.py:114-164).
AbsenceIsReal ==
    outcome = "ok" /\ result = << >> =>
      /\ call.tool = "search_regulations" =>
           \/ unread
           \/ \A d \in DOMAIN source : provider = "simulated" /\ source[d] = 0
           \/ call.top_k # Null /\ call.top_k <= 0
      /\ call.tool = "get_erp_data" =>
           /\ call.action = "get" => \A row \in source : row.id # call.id
           /\ call.action = "list" => Wanted = {} \/ call.limit = 0

\* A list has the newest of the rows asked for, each once, and is cut only where
\* the limit says; a row that was left out is no newer than any that is there
\* (mysql_erp_adapter.py:61-86).
ListIsNewest ==
    outcome = "ok" /\ call.tool = "get_erp_data" /\ call.action = "list" =>
      LET listed == {result[i] : i \in DOMAIN result}
          limit == IF call.limit = Null THEN 20 ELSE call.limit
      IN  /\ listed \subseteq Wanted /\ Cardinality(listed) = Len(result)
          /\ Len(result) <= limit
          /\ \A i, j \in DOMAIN result : i < j => result[i].at >= result[j].at
          /\ \A row \in Wanted \ listed :
               Len(result) = limit /\ \A other \in listed : other.at >= row.at

\* A search of the simulated corpus returns the best documents, best first and those
\* of one score in the order of the corpus, none of them irrelevant; with top_k of at
\* least 0 there are no more of them, and fewer only if no others are relevant
\* (simulated_rag_adapter.py:78-96, rag_port.py:38).
SearchIsBest ==
    outcome = "ok" /\ call.tool = "search_regulations" /\ provider = "simulated" /\ ~unread =>
      LET found == {result[i] : i \in DOMAIN result}
          Before(d, e) == source[d] > source[e] \/ (source[d] = source[e] /\ d < e)
          relevant == {d \in DOMAIN source : source[d] > 0}
          top_k == IF call.top_k = Null THEN 3 ELSE call.top_k
      IN  /\ found \subseteq relevant
          /\ \A i, j \in DOMAIN result : i < j => Before(result[i], result[j])
          /\ \A d \in found : \A e \in relevant \ found : Before(d, e)
          /\ top_k >= 0 => Len(result) <= top_k
          /\ top_k >= 0 /\ relevant # found => Len(result) = top_k
=============================================================================
