----------------------------- MODULE MCReceiver -----------------------------
(* The receiver alone, on small instances. *)
EXTENDS Receiver
=============================================================================
