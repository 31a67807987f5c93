---------------------------- MODULE DaemonLink ----------------------------
(***************************************************************************)
(* The reconnecting link between the local edit-host and its remote daemon *)
(* (crates/bemtvi-server/src/daemon.rs, maintain_link and what it calls),  *)
(* and the editor's side of it: the run-loop arm that reflects the link's  *)
(* status and re-syncs the remote seams after a reconnect (inbound.rs,     *)
(* lifecycle.rs).                                                          *)
(*                                                                         *)
(* The supervisor runs on the link thread, the editor on its own; they     *)
(* share the swappable cells (LinkRpc), a queue of commands and a watch    *)
(* channel that keeps only the latest status.  The four cells are always   *)
(* set together and stand here as one.  Backoff durations are abstracted:  *)
(* a wait ends or is interrupted.                                          *)
(***************************************************************************)
EXTENDS Integers, Sequences

CONSTANTS
  MaxAttempts,   \* ReconnectPolicy::max_attempts
  MaxCmds        \* bound on the commands queued at one time

ASSUME PolicyAssumption == MaxAttempts \in Nat \ {0} /\ MaxCmds \in Nat

VARIABLES
  pc,        \* where the supervisor is
  served,    \* how the last serve or cycle ended
  attempt,   \* attempts made in this cycle
  manual,    \* reconnect_cycle's immediate: the first wait is skipped
  cell,      \* TRUE while the cells hold a connection's Rpc
  live,      \* TRUE while the transport of the current connection is up
  status,    \* the value in the watch channel
  unseen,    \* TRUE while the editor has not looked at it
  cmds,      \* commands queued for the supervisor
  handle,    \* TRUE while the editor holds its ReconnectHandle
  prev,      \* prev_daemon_status
  synced,    \* TRUE when watches, LSP and terminals match the connection
  last,      \* history: the last command the user gave
  tries      \* history: dials failed since the drop or the last :reconnect

supVars  == <<pc, served, attempt, manual>>
cellVars == <<cell, live>>
edVars   == <<prev, synced, handle>>
vars == <<supVars, cellVars, status, unseen, cmds, edVars, last, tries>>

Commands == {"reconnect", "disconnect"}
Phases   == {"connected", "reconnecting", "disconnected"}
PcStates == {"serve", "clear", "clearInflight", "attempt", "backoff", "dial",
             "announce", "park", "parked", "stopped"}

TypeOK ==
  /\ pc \in PcStates
  /\ served \in {"none", "dropped", "disconnect", "closed"}
  /\ attempt \in 0..MaxAttempts
  /\ manual \in BOOLEAN
  /\ cell \in BOOLEAN /\ live \in BOOLEAN
  /\ status \in Phases /\ unseen \in BOOLEAN
  /\ cmds \in Seq(Commands)
  /\ handle \in BOOLEAN
  /\ prev \in Phases /\ synced \in BOOLEAN
  /\ last \in Commands \cup {"none"}
  /\ tries \in 0..MaxAttempts

\* connect_reconnecting_on: the first dial succeeded, its Rpcs are published,
\* and the supervisor is spawned.  The editor opened its seams on it and has
\* reflected the first status before its run loop starts.
Init ==
  /\ pc = "serve" /\ served = "none" /\ attempt = 0 /\ manual = FALSE
  /\ cell = TRUE /\ live = TRUE
  /\ status = "connected" /\ unseen = FALSE
  /\ cmds = <<>> /\ handle = TRUE
  /\ prev = "connected" /\ synced = TRUE
  /\ last = "none" /\ tries = 0

-----------------------------------------------------------------------------
(* Supervisor *)

\* send_replace on the watch channel: the earlier value is gone.
Announce(phase) == status' = phase /\ unseen' = TRUE

Finish(how) == served' = how /\ pc' = "clear"

\* serve_connection: a demux ended, so the connection is over.
ServeDropped ==
  /\ pc = "serve" /\ ~live
  /\ Finish("dropped")
  /\ UNCHANGED <<attempt, manual, cellVars, status, unseen, cmds, edVars, last,
                 tries>>

\* serve_connection: a :reconnect is ignored, a :disconnect drops the
\* connection's future with its demuxes.  The Rpcs in the cells keep the
\* transport up until clear_cells drops them.
ServeCmd ==
  /\ pc = "serve" /\ cmds # <<>>
  /\ cmds' = Tail(cmds)
  /\ IF Head(cmds) = "disconnect" THEN Finish("disconnect")
     ELSE UNCHANGED <<pc, served>>
  /\ UNCHANGED <<attempt, manual, cellVars, status, unseen, edVars, last, tries>>

ServeClosed ==
  /\ pc = "serve" /\ cmds = <<>> /\ ~handle
  /\ Finish("closed")
  /\ UNCHANGED <<attempt, manual, cellVars, status, unseen, cmds, edVars, last,
                 tries>>

\* clear_cells, first half: the four cells are emptied, and with the last Rpc
\* handles the connection goes.
ClearCells ==
  /\ pc = "clear"
  /\ cell' = FALSE /\ live' = FALSE /\ pc' = "clearInflight"
  /\ UNCHANGED <<served, attempt, manual, status, unseen, cmds, edVars, last,
                 tries>>

\* clear_cells, second half (the inflight maps), and maintain_link's match on
\* how serving ended.
ClearInflight ==
  /\ pc = "clearInflight"
  /\ \/ served = "closed" /\ pc' = "stopped" /\ UNCHANGED <<attempt, manual, tries>>
     \/ /\ served = "dropped" /\ pc' = "attempt"
        /\ attempt' = 0 /\ manual' = FALSE /\ tries' = 0
     \/ served = "disconnect" /\ pc' = "park" /\ UNCHANGED <<attempt, manual, tries>>
  /\ UNCHANGED <<served, cellVars, status, unseen, cmds, edVars, last>>

Park ==
  /\ pc = "park"
  /\ Announce("disconnected") /\ pc' = "parked"
  /\ UNCHANGED <<served, attempt, manual, cellVars, cmds, edVars, last, tries>>

\* Parked until a :reconnect; another :disconnect changes nothing.
ParkedCmd ==
  /\ pc = "parked" /\ cmds # <<>>
  /\ cmds' = Tail(cmds)
  /\ IF Head(cmds) = "reconnect"
     THEN pc' = "attempt" /\ attempt' = 0 /\ manual' = TRUE /\ tries' = 0
     ELSE UNCHANGED <<pc, attempt, manual, tries>>
  /\ UNCHANGED <<served, cellVars, status, unseen, edVars, last>>

ParkedClosed ==
  /\ pc = "parked" /\ cmds = <<>> /\ ~handle
  /\ pc' = "stopped"
  /\ UNCHANGED <<served, attempt, manual, cellVars, status, unseen, cmds, edVars,
                 last, tries>>

\* reconnect_cycle: the next of 1..=max_attempts ...
BeginAttempt ==
  /\ pc = "attempt" /\ attempt < MaxAttempts
  /\ attempt' = attempt + 1
  /\ Announce("reconnecting")
  /\ pc' = IF manual /\ attempt = 0 THEN "dial" ELSE "backoff"
  /\ UNCHANGED <<served, manual, cellVars, cmds, edVars, last, tries>>

\* ... or the budget is spent: park as given up.
GiveUp ==
  /\ pc = "attempt" /\ attempt = MaxAttempts
  /\ Finish("disconnect")
  /\ UNCHANGED <<attempt, manual, cellVars, status, unseen, cmds, edVars, last,
                 tries>>

\* wait_or_cmd: the wait elapses, or a command interrupts it.  A command that is
\* queued already is ready when the select is first polled and the sleep is not;
\* one that arrives as the sleep ends is one that arrives while dialing.
BackoffElapsed ==
  /\ pc = "backoff" /\ cmds = <<>> /\ handle
  /\ pc' = "dial"
  /\ UNCHANGED <<served, attempt, manual, cellVars, status, unseen, cmds, edVars,
                 last, tries>>

\* Mutant: a :disconnect during the wait is taken for a nudge.
BackoffCmdNudge ==
  /\ pc = "backoff" /\ cmds # <<>>
  /\ cmds' = Tail(cmds) /\ pc' = "dial"
  /\ UNCHANGED <<served, attempt, manual, tries, cellVars, status, unseen,
                 edVars, last>>

BackoffCmd ==
  /\ pc = "backoff" /\ cmds # <<>>
  /\ cmds' = Tail(cmds)
  /\ IF Head(cmds) = "reconnect"
     THEN pc' = "dial" /\ tries' = 0 /\ UNCHANGED served
     ELSE Finish("disconnect") /\ UNCHANGED tries
  /\ UNCHANGED <<attempt, manual, cellVars, status, unseen, edVars, last>>

BackoffClosed ==
  /\ pc = "backoff" /\ cmds = <<>> /\ ~handle
  /\ Finish("closed")
  /\ UNCHANGED <<attempt, manual, cellVars, status, unseen, cmds, edVars, last,
                 tries>>

\* Mutant: the status is announced before the cells are filled.
DialOkLate ==
  /\ pc = "dial"
  /\ live' = TRUE /\ synced' = FALSE
  /\ Announce("connected") /\ pc' = "serve"
  /\ UNCHANGED <<served, attempt, manual, cell, cmds, prev, handle, last, tries>>

\* make().await: a fresh connection, published before it is announced.  The
\* daemon behind it knows no buffer watch, no language server and no terminal
\* (publish_cells re-arms the streaming watches of btv.fs.watch itself).
DialOk ==
  /\ pc = "dial"
  /\ cell' = TRUE /\ live' = TRUE /\ synced' = FALSE
  /\ pc' = "announce"
  /\ UNCHANGED <<served, attempt, manual, status, unseen, cmds, prev, handle,
                 last, tries>>

\* Mutant: every failed dial starts the count again.
DialFailedResets ==
  /\ pc = "dial" /\ pc' = "attempt" /\ attempt' = 0
  /\ UNCHANGED <<served, manual, cellVars, status, unseen, cmds, edVars, last,
                 tries>>

\* tries counts to MaxAttempts only: attempts of one cycle bound it.
DialFailed ==
  /\ pc = "dial" /\ pc' = "attempt"
  /\ tries' = IF tries < MaxAttempts THEN tries + 1 ELSE tries
  /\ UNCHANGED <<served, attempt, manual, cellVars, status, unseen, cmds, edVars,
                 last>>

AnnounceConnected ==
  /\ pc = "announce"
  /\ Announce("connected") /\ pc' = "serve"
  /\ UNCHANGED <<served, attempt, manual, cellVars, cmds, edVars, last, tries>>

-----------------------------------------------------------------------------
(* The network *)

\* A stream of the connection ends: the daemon, the hop or one leg died.
ConnDrop ==
  /\ live /\ live' = FALSE
  /\ UNCHANGED <<supVars, cell, status, unseen, cmds, edVars, last, tries>>

-----------------------------------------------------------------------------
(* The editor *)

\* :reconnect and :disconnect
UserCmd(c) ==
  /\ handle /\ Len(cmds) < MaxCmds
  /\ cmds' = Append(cmds, c) /\ last' = c
  /\ UNCHANGED <<supVars, cellVars, status, unseen, edVars, tries>>

\* The session ends: the handle and its command sender drop.
DropHandle ==
  /\ handle /\ handle' = FALSE
  /\ UNCHANGED <<supVars, cellVars, status, unseen, cmds, prev, synced, last,
                 tries>>

\* Mutant: the previous status is overwritten before it is compared.
ObserveOverwritten ==
  /\ handle /\ unseen /\ unseen' = FALSE
  /\ prev' = status
  /\ synced' = IF status = "connected" /\ prev' \in {"reconnecting", "disconnected"}
               THEN cell /\ live
               ELSE synced
  /\ UNCHANGED <<supVars, cellVars, status, cmds, handle, last, tries>>

\* The run loop's status arm: borrow_and_update, then on_daemon_status, which
\* runs resync_after_reconnect only for a transition it has seen itself.  The
\* resync rides the cells as they are now: nothing is re-armed on empty ones.
Observe ==
  /\ handle /\ unseen /\ unseen' = FALSE
  /\ prev' = status
  /\ synced' = IF status = "connected" /\ prev \in {"reconnecting", "disconnected"}
               THEN cell /\ live
               ELSE synced
  /\ UNCHANGED <<supVars, cellVars, status, cmds, handle, last, tries>>

-----------------------------------------------------------------------------
Supervisor ==
  \/ ServeDropped \/ ServeCmd \/ ServeClosed \/ ClearCells \/ ClearInflight
  \/ Park \/ ParkedCmd \/ ParkedClosed \/ BeginAttempt \/ GiveUp
  \/ BackoffElapsed \/ BackoffCmd \/ BackoffClosed
  \/ DialOk \/ DialFailed \/ AnnounceConnected

Editor == (\E c \in Commands : UserCmd(c)) \/ DropHandle \/ Observe

Next == Supervisor \/ ConnDrop \/ Editor

Spec == Init /\ [][Next]_vars

(***************************************************************************)
(* Fairness.  The link thread's runtime polls the supervisor while it can  *)
(* move: a wait elapses, a dial completes one way or the other.  A command *)
(* that is queued while serving is received, and so is the end of the      *)
(* connection: tokio's select! polls its branches in random order.  The    *)
(* editor's run loop looks at a changed status.  Nothing obliges the user  *)
(* or the network to do anything.                                          *)
(***************************************************************************)
Fairness ==
  /\ WF_vars(Supervisor) /\ WF_vars(ServeCmd) /\ WF_vars(ServeDropped)
  /\ WF_vars(Observe)

FairSpec == Spec /\ Fairness

-----------------------------------------------------------------------------
(* Properties *)

\* Both dialers publish before they announce: while a connection is served and
\* called connected, the seams' cells are filled, so the resync that the
\* announcement triggers never lands on the cleared ones.
ConnectedMeansPublished == pc = "serve" => cell /\ status = "connected"

\* From the first retry to the parked state every seam fails loud: no cell
\* keeps the Rpc of the connection that is gone.
DownWhileRetrying ==
  pc \in {"attempt", "backoff", "dial", "park", "parked"} => ~cell

\* A link that is retrying settles: it connects, or it parks and says so.
ReconnectingSettles ==
  status = "reconnecting" ~> (status # "reconnecting" \/ pc = "stopped")

\* The user's last word wins, wherever in the cycle it arrives: after a final
\* :disconnect the seams end up without a connection for good.
DisconnectHonoured == <>[](last = "disconnect") => <>[]~cell

\* An outage the editor saw is followed by a resync onto the new connection,
\* unless that one is lost too.
SeenOutageResyncs ==
  (pc = "serve" /\ prev # "connected") ~> (synced \/ ~live \/ ~handle)

\* docs/edit-host-split.md: on reconnect the editor re-syncs what a fresh daemon
\* does not know.  Once the editor has seen the latest status of a link that is
\* up, its watches, servers and terminals belong to that connection.
ResyncedAfterReconnect ==
  pc = "serve" /\ live /\ ~unseen /\ handle => synced

\* docs/edit-host-split.md: :reconnect resets the retry budget.  The supervisor
\* gives up only after max_attempts dials failed since the drop or the last
\* :reconnect it took.
BudgetReset == pc = "attempt" /\ attempt = MaxAttempts => tries = MaxAttempts

=============================================================================
