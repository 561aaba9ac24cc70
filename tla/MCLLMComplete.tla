---------------------------- MODULE MCLLMComplete ----------------------------
(***************************************************************************)
(* Model-checking instance of LLMComplete.                                 *)
(***************************************************************************)
EXTENDS LLMComplete
=============================================================================
