------------------------------ MODULE MCSender ------------------------------
(* The sender alone, on small instances. *)
EXTENDS Sender
=============================================================================
