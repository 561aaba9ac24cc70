--------------------------- MODULE MCObjectStorage ---------------------------
(***************************************************************************)
(* Model-checking instance of ObjectStorage.  Calls are interchangeable,   *)
(* and the run has safety properties only.                                 *)
(***************************************************************************)
EXTENDS ObjectStorage

Symmetry == Permutations(Calls)
=============================================================================
