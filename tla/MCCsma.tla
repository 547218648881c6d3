------------------------------- MODULE MCCsma -------------------------------
(* Values for the constants of Csma that a .cfg cannot hold                *)
EXTENDS Csma

MCIds == 0 .. 3

MCRLists == {<<1, 2, 1>>}
=============================================================================
