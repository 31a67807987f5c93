----------------------------- MODULE MCProcSeam -----------------------------
(* Instances of ProcSeam for TLC. *)
EXTENDS ProcSeam
=============================================================================
