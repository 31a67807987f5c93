--------------------------- MODULE CallContract ---------------------------
(***************************************************************************)
(* What Rpc::request promises its callers (crates/bemtvi-rpc/src/lib.rs),  *)
(* without channels, tasks or a pending map: a call is issued while the    *)
(* connection accepts calls and turned away afterwards; its fate is        *)
(* decided once, by an answer of its own or by the close that decides all  *)
(* open calls in the same step as it stops accepting new ones; and a call  *)
(* that returns brings back the fate that was decided.                     *)
(***************************************************************************)
CONSTANT Calls

VARIABLES
  accepting,   \* TRUE until the connection is closed
  phase,       \* per call: not made, open, or how it ended
  fate         \* per call: what was decided about it

contractVars == <<accepting, phase, fate>>

Answers   == {"ok", "err"}
Closes    == {"refused", "dropped"}
Withdrawn == {"cancelled", "tooLarge", "closed"}

\* What the caller is told.
Told(f) == CASE f = "ok" -> "ok"
             [] f \in {"err", "refused"} -> "rpcError"
             [] f = "dropped" -> "closed"

Init ==
  /\ accepting = TRUE
  /\ phase = [c \in Calls |-> "idle"] /\ fate = [c \in Calls |-> "empty"]

Issue(c) ==
  /\ phase[c] = "idle" /\ accepting
  /\ phase' = [phase EXCEPT ![c] = "open"]
  /\ UNCHANGED <<accepting, fate>>

TurnAway(c) ==
  /\ phase[c] = "idle" /\ ~accepting
  /\ phase' = [phase EXCEPT ![c] = "closed"]
  /\ UNCHANGED <<accepting, fate>>

Decide(c, f) ==
  /\ phase[c] = "open" /\ fate[c] = "empty" /\ accepting
  /\ fate' = [fate EXCEPT ![c] = f]
  /\ UNCHANGED <<accepting, phase>>

Close(f) ==
  /\ accepting /\ accepting' = FALSE
  /\ fate' = [c \in Calls |-> IF phase[c] = "open" /\ fate[c] = "empty"
                              THEN f ELSE fate[c]]
  /\ UNCHANGED phase

Return(c) ==
  /\ phase[c] = "open" /\ fate[c] # "empty"
  /\ phase' = [phase EXCEPT ![c] = Told(fate[c])]
  /\ UNCHANGED <<accepting, fate>>

\* The caller gives up, or its frame cannot be sent.
Withdraw(c) ==
  /\ phase[c] = "open"
  /\ \E w \in Withdrawn : phase' = [phase EXCEPT ![c] = w]
  /\ UNCHANGED <<accepting, fate>>

Next ==
  \/ \E c \in Calls : \/ Issue(c) \/ TurnAway(c) \/ Return(c) \/ Withdraw(c)
                      \/ \E f \in Answers : Decide(c, f)
  \/ \E f \in Closes : Close(f)

Spec == Init /\ [][Next]_contractVars

=============================================================================
