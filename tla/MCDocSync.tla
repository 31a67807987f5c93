---------------------------- MODULE MCDocSync ----------------------------
(* DocSync on small instances. *)
EXTENDS DocSync

CONSTANTS k1, k2

OneIncremental == [k \in {k1} |-> "incremental"]
Mixed == [k \in {k1, k2} |-> IF k = k1 THEN "incremental" ELSE "full"]
=============================================================================
