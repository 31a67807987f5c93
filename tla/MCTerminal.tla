---------------------------- MODULE MCTerminal ----------------------------
(* Terminal on small instances. *)
EXTENDS Terminal
=============================================================================
