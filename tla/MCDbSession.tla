----------------------------- MODULE MCDbSession -----------------------------
(***************************************************************************)
(* Model-checking instance of DbSession.  Sessions and connections are     *)
(* interchangeable, so the safety run folds them by symmetry.              *)
(***************************************************************************)
EXTENDS DbSession, TLC

Symmetry == Permutations(Sessions) \cup Permutations(Connections)
=============================================================================
