----------------------------- MODULE MCLifespan -----------------------------
(***************************************************************************)
(* Model-checking instance of Lifespan.                                    *)
(***************************************************************************)
EXTENDS Lifespan
=============================================================================
