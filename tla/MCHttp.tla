------------------------------- MODULE MCHttp -------------------------------
(***************************************************************************)
(* Http for TLC; the bounds are in the configuration.                      *)
(***************************************************************************)
EXTENDS Http
=============================================================================
