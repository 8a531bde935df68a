-------------------------- MODULE MCPromptResolver --------------------------
(* PromptResolver for TLC. *)
EXTENDS PromptResolver
=============================================================================
