----------------------------- MODULE MCEnvCache -----------------------------
(***************************************************************************)
(* A small instance of EnvCache for TLC: two workers compete for a bundle  *)
(* of one pipeline and meet another and a native one; three environments   *)
(* are one more than the workers can hold.  Without symmetry, because of   *)
(* the liveness property.                                                  *)
(***************************************************************************)
EXTENDS EnvCache
=============================================================================
