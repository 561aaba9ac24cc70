----------------------------- MODULE MCLLMStream -----------------------------
(***************************************************************************)
(* Model-checking instance of LLMStream.                                   *)
(***************************************************************************)
EXTENDS LLMStream
=============================================================================
