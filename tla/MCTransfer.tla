----------------------------- MODULE MCTransfer -----------------------------
(* Sender, receiver and network together, on small instances. *)
EXTENDS Transfer
=============================================================================
