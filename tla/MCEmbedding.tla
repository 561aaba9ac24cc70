----------------------------- MODULE MCEmbedding -----------------------------
(***************************************************************************)
(* Model-checking instance of Embedding: batch sizes below, at and above   *)
(* the length of the argument, and the two a range() refuses or ignores.   *)
(***************************************************************************)
EXTENDS Embedding

MCBatchSizes == {-1, 0, 1, 2, 3}
MCReturningSizes == {-1, 1, 2, 3}
=============================================================================
