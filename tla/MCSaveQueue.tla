---------------------------- MODULE MCSaveQueue ----------------------------
(* Instances of SaveQueue for TLC. *)
EXTENDS SaveQueue, TLC
=============================================================================
