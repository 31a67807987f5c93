---------------------------- MODULE MCDaemonLink ----------------------------
(* Instances of DaemonLink for TLC. *)
EXTENDS DaemonLink
=============================================================================
