----------------------------- MODULE MCDistVec ------------------------------
(***************************************************************************)
(* DistVec for TLC; the bounds are in the configurations.                  *)
(***************************************************************************)
EXTENDS DistVec
=============================================================================
