----------------------------- MODULE MCLLMRouter -----------------------------
(* Two roles whose chains share the first model, as llm_fast and llm_answer do. *)
EXTENDS LLMRouter

CONSTANTS groq, gemini, openrouter

MCChain == [fast |-> <<groq, openrouter, gemini>>, answer |-> <<groq, gemini>>]
MCRoles == DOMAIN MCChain

=============================================================================
