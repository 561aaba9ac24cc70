------------------------------ MODULE MCScaffold ------------------------------
(***************************************************************************)
(* Model-checking instance of Scaffold.                                    *)
(***************************************************************************)
EXTENDS Scaffold
=============================================================================
