---------------------------- MODULE MCLinkState -----------------------------
(***************************************************************************)
(* LinkState for TLC; the bounds are in the configurations.                *)
(***************************************************************************)
EXTENDS LinkState
=============================================================================
