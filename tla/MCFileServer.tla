---------------------------- MODULE MCFileServer ----------------------------
(***************************************************************************)
(* FileServer for TLC; the bounds are in the configuration.                *)
(***************************************************************************)
EXTENDS FileServer
=============================================================================
