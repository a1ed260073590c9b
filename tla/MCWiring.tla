-------------------------------- MODULE MCWiring --------------------------------
(* For each provider its key is there or is missing, beside the other key or not; *)
(* each RAG adapter is chosen, and the simulated one in the place of Chroma; and   *)
(* the corpus is malformed where that is read and where it is not.                 *)
EXTENDS Wiring, TLC

Environment(llm, openai, anthropic, rag, reads) ==
    [LLM_PROVIDER |-> llm, OPENAI_API_KEY |-> openai, ANTHROPIC_API_KEY |-> anthropic,
     RAG_PROVIDER |-> rag, corpusReads |-> reads]

MCEnvironments == {
    Environment("openai", TRUE, FALSE, "chroma", FALSE),
    Environment("openai", FALSE, TRUE, "chroma", TRUE),
    Environment("claude", FALSE, TRUE, "chroma", FALSE),
    Environment("claude", FALSE, TRUE, "chroma", TRUE),
    Environment("claude", TRUE, FALSE, "chroma", TRUE),
    Environment("langchain", TRUE, FALSE, "simulated", TRUE),
    Environment("langchain", FALSE, TRUE, "simulated", FALSE)}

RequestSymmetry == Permutations(Requests)
=============================================================================
