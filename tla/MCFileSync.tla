---------------------------- MODULE MCFileSync ----------------------------
(* FileSync on small instances. *)
EXTENDS FileSync
=============================================================================
