---------------------------- MODULE MCHealthCheck ----------------------------
(***************************************************************************)
(* Model-checking instance of HealthCheck.                                 *)
(***************************************************************************)
EXTENDS HealthCheck
=============================================================================
