----------------------------- MODULE ProcSeam -----------------------------
(***************************************************************************)
(* Processes on the remote daemon, over the link of DaemonLink: the        *)
(* edit-host's RemoteHostProc::run futures and the demux that feeds them,  *)
(* and the daemon's process leg (crates/bemtvi-server/src/daemon.rs).      *)
(*                                                                         *)
(* A run future is polled on the server thread, the supervisor and the     *)
(* demux run on the link thread: a run's look at the cell, its entry into  *)
(* the inflight map and its spawn notification are separate steps.  The    *)
(* connection is a FIFO in each direction until it drops.  The daemon      *)
(* outlives its connections: the leg of one that ended still takes the     *)
(* frames it has received, spawns included, and then reaps its children.   *)
(***************************************************************************)
EXTENDS DaemonLink

CONSTANT Spawns    \* spawn ids minted by RemoteHostProc::next_id

VARIABLES
  run,       \* per spawn: where its run future is
  inflight,  \* ids whose event sender is in the shared map
  chan,      \* per spawn: events queued for the future
  kill,      \* per spawn: kill asked for, or sent
  exits,     \* per spawn: exit reports the editor got
  home,      \* per spawn: the connection its spawn frame went to
  leg,       \* the daemon's leg of the current connection
  ended,     \* legs of ended connections that have not wound down
  up,        \* frames to the edit-host
  child,     \* per spawn: the daemon's child
  dying      \* children whose kill channel fired and that have not ended

runVars   == <<run, inflight, chan, kill, exits, home>>
wireVars  == <<leg, ended, up>>
childVars == <<child, dying>>
procVars  == <<runVars, wireVars, childVars>>
seamVars  == <<vars, procVars>>

\* serve_proc_daemon_on: the frames on their way to a leg, its children's
\* handles and its kill channels.
Frame == [k : {"spawn", "kill"}, id : Spawns]
Leg   == [frames : Seq(Frame), kids : SUBSET Spawns, kills : SUBSET Spawns]
NewLeg == [frames |-> <<>>, kids |-> {}, kills |-> {}]

SeamTypeOK ==
  /\ run \in [Spawns -> {"idle", "checked", "registered", "await", "done"}]
  /\ inflight \subseteq Spawns
  /\ chan \in [Spawns -> Seq({"spawned", "exited"})]
  /\ kill \in [Spawns -> {"no", "asked", "sent"}]
  /\ exits \in [Spawns -> 0..1]
  /\ home \in [Spawns -> {"none", "current", "lost"}]
  /\ leg \in Leg /\ ended \subseteq Leg
  /\ up \in Seq([k : {"spawned", "exited"}, id : Spawns])
  /\ child \in [Spawns -> {"none", "starting", "running", "over"}]
  /\ dying \subseteq Spawns

SeamInit ==
  /\ Init
  /\ run = [s \in Spawns |-> "idle"] /\ inflight = {}
  /\ chan = [s \in Spawns |-> <<>>] /\ kill = [s \in Spawns |-> "no"]
  /\ exits = [s \in Spawns |-> 0] /\ home = [s \in Spawns |-> "none"]
  /\ leg = NewLeg /\ ended = {} /\ up = <<>>
  /\ child = [s \in Spawns |-> "none"] /\ dying = {}

-----------------------------------------------------------------------------
(* The edit-host: RemoteHostProc::run *)

\* rpc.current().is_none(): fail loud and fast, or go on.
RunCheck(s) ==
  /\ run[s] = "idle"
  /\ IF cell
     THEN run' = [run EXCEPT ![s] = "checked"] /\ UNCHANGED exits
     ELSE run' = [run EXCEPT ![s] = "done"] /\ exits' = [exits EXCEPT ![s] = @ + 1]
  /\ UNCHANGED <<vars, inflight, chan, kill, home, wireVars, childVars>>

\* inflight.insert(id, tx), before the spawn is sent.
RunRegister(s) ==
  /\ run[s] = "checked"
  /\ run' = [run EXCEPT ![s] = "registered"]
  /\ inflight' = inflight \cup {s}
  /\ UNCHANGED <<vars, chan, kill, exits, home, wireVars, childVars>>

Send(kind, s) ==
  leg' = IF cell /\ live
         THEN [leg EXCEPT !.frames = Append(@, [k |-> kind, id |-> s])] ELSE leg

\* LinkRpc::notify: dropped on an empty cell; lost on a connection that died.
RunNotify(s) ==
  /\ run[s] = "registered"
  /\ run' = [run EXCEPT ![s] = "await"]
  /\ home' = IF cell THEN [home EXCEPT ![s] = IF live THEN "current" ELSE "lost"]
             ELSE home
  /\ Send("spawn", s)
  /\ UNCHANGED <<vars, inflight, chan, kill, exits, ended, up, childVars>>

\* The editor asks for the kill; the future relays it once.
AskKill(s) ==
  /\ run[s] # "done" /\ kill[s] = "no"
  /\ kill' = [kill EXCEPT ![s] = "asked"]
  /\ UNCHANGED <<vars, run, inflight, chan, exits, home, wireVars, childVars>>

RunKill(s) ==
  /\ run[s] = "await" /\ kill[s] = "asked"
  /\ kill' = [kill EXCEPT ![s] = "sent"]
  /\ Send("kill", s)
  /\ UNCHANGED <<vars, run, inflight, chan, exits, home, ended, up, childVars>>

\* Mutant: the entry is left in the map when the future ends.
RunEventKept(s) ==
  /\ run[s] = "await" /\ chan[s] # <<>>
  /\ chan' = [chan EXCEPT ![s] = Tail(@)]
  /\ IF Head(chan[s]) = "exited"
     THEN run' = [run EXCEPT ![s] = "done"] /\ exits' = [exits EXCEPT ![s] = @ + 1]
     ELSE UNCHANGED <<run, exits>>
  /\ UNCHANGED <<vars, inflight, kill, home, wireVars, childVars>>

\* rx.recv(): the pid and output are passed on, the exit ends the future.
RunEvent(s) ==
  /\ run[s] = "await" /\ chan[s] # <<>>
  /\ chan' = [chan EXCEPT ![s] = Tail(@)]
  /\ IF Head(chan[s]) = "exited"
     THEN /\ run' = [run EXCEPT ![s] = "done"]
          /\ exits' = [exits EXCEPT ![s] = @ + 1]
          /\ inflight' = inflight \ {s}
     ELSE UNCHANGED <<run, exits, inflight>>
  /\ UNCHANGED <<vars, kill, home, wireVars, childVars>>

\* Mutant: the synthesized exit does not end the loop.
RunClosedLoops(s) ==
  /\ run[s] = "await" /\ chan[s] = <<>> /\ s \notin inflight /\ exits[s] = 0
  /\ exits' = [exits EXCEPT ![s] = @ + 1]
  /\ UNCHANGED <<vars, run, inflight, chan, kill, home, wireVars, childVars>>

\* rx.recv() = None: the sender is gone, an exit of -1 is synthesized.
RunClosed(s) ==
  /\ run[s] = "await" /\ chan[s] = <<>> /\ s \notin inflight
  /\ run' = [run EXCEPT ![s] = "done"]
  /\ exits' = [exits EXCEPT ![s] = @ + 1]
  /\ UNCHANGED <<vars, inflight, chan, kill, home, wireVars, childVars>>

\* run_demux: a report goes to the future that registered its id.
Demux ==
  /\ pc = "serve" /\ up # <<>>
  /\ up' = Tail(up)
  /\ LET e == Head(up) IN
       chan' = IF e.id \in inflight
               THEN [chan EXCEPT ![e.id] = Append(@, e.k)] ELSE chan
  /\ UNCHANGED <<vars, run, inflight, kill, exits, home, leg, ended, childVars>>

-----------------------------------------------------------------------------
(* The daemon: serve_proc_daemon_on *)

Report(s, kind) ==
  up' = IF home[s] = "current" THEN Append(up, [k |-> kind, id |-> s]) ELSE up

Alive(k) == {s \in k : child[s] # "over"}

\* The leg l, of the current connection or of an ended one, goes on as n.
Goes(l, n) ==
  \/ l = leg /\ leg' = n /\ UNCHANGED ended
  \/ l \in ended /\ ended' = (ended \ {l}) \cup {n} /\ UNCHANGED leg

\* Mutant: a spawn that is taken after the connection ended is not held.
DaemonSpawnLoose(l) ==
  /\ l.frames # <<>> /\ Head(l.frames).k = "spawn"
  /\ LET s == Head(l.frames).id IN
       /\ child' = [child EXCEPT ![s] = "starting"]
       /\ Goes(l, [frames |-> Tail(l.frames), kills |-> Alive(l.kills) \cup {s},
                   kids |-> Alive(l.kids) \cup (IF l = leg THEN {s} ELSE {})])
  /\ UNCHANGED <<vars, runVars, up, dying>>

DaemonSpawn(l) ==
  /\ l.frames # <<>> /\ Head(l.frames).k = "spawn"
  /\ LET s == Head(l.frames).id IN
       /\ child' = [child EXCEPT ![s] = "starting"]
       /\ Goes(l, [frames |-> Tail(l.frames), kids |-> Alive(l.kids) \cup {s},
                   kills |-> Alive(l.kills) \cup {s}])
  /\ UNCHANGED <<vars, runVars, up, dying>>

\* Mutant: the kill is looked up before the spawn has registered its channel.
DaemonKillLost(l) ==
  /\ l.frames # <<>> /\ Head(l.frames).k = "kill"
  /\ Goes(l, [l EXCEPT !.frames = Tail(@)])
  /\ UNCHANGED <<vars, runVars, up, childVars>>

DaemonKill(l) ==
  /\ l.frames # <<>> /\ Head(l.frames).k = "kill"
  /\ LET s == Head(l.frames).id IN
       /\ dying' = IF s \in Alive(l.kills) THEN dying \cup {s} ELSE dying
       /\ Goes(l, [frames |-> Tail(l.frames), kids |-> Alive(l.kids),
                   kills |-> Alive(l.kills) \ {s}])
  /\ UNCHANGED <<vars, runVars, up, child>>

\* The child's task: the pid is reported, later its exit.
ChildStart(s) ==
  /\ child[s] = "starting"
  /\ child' = [child EXCEPT ![s] = "running"]
  /\ Report(s, "spawned")
  /\ UNCHANGED <<vars, runVars, leg, ended, dying>>

ChildExit(s) ==
  /\ child[s] \in {"starting", "running"}
  /\ child' = [child EXCEPT ![s] = "over"]
  /\ dying' = dying \ {s}
  /\ Report(s, "exited")
  /\ UNCHANGED <<vars, runVars, leg, ended>>

\* incoming.recv() = None: the leg of an ended connection has taken everything
\* it had received, and every child task it holds is aborted.
Reap(l) ==
  /\ l \in ended /\ l.frames = <<>>
  /\ child' = [s \in Spawns |-> IF s \in l.kids THEN "over" ELSE child[s]]
  /\ ended' = ended \ {l} /\ dying' = dying \ l.kids
  /\ UNCHANGED <<vars, runVars, leg, up>>

-----------------------------------------------------------------------------
(* The link's steps and what they do to the seam *)

\* The connection is gone.  Of the frames to the daemon some have reached it and
\* stay in its leg's queue, the rest is lost; the leg ends when it has taken them.
\* The reports that already arrived stay readable.
LinkLost ==
  /\ live /\ ~live'
  /\ home' = [s \in Spawns |-> IF home[s] = "current" THEN "lost" ELSE home[s]]
  /\ leg' = NewLeg
  /\ \E n \in 0..Len(leg.frames) :
       ended' = {l \in ended \cup {[leg EXCEPT !.frames = SubSeq(@, 1, n)]} :
                   l.frames # <<>> \/ Alive(l.kids) # {}}
  /\ \E n \in 0..Len(up) : up' = SubSeq(up, 1, n)
  /\ UNCHANGED <<run, inflight, chan, kill, exits, child, dying>>

\* A demux ended: its own if the map is cleared here, another leg's if not.
LinkDropped ==
  /\ ServeDropped
  /\ up' = <<>>
  /\ inflight' \in {inflight, {}}
  /\ UNCHANGED <<run, chan, kill, exits, home, leg, ended, childVars>>

\* Mutant: clear_cells leaves the inflight map to the demux.
LinkClearedKept ==
  /\ ClearInflight
  /\ up' = <<>>
  /\ UNCHANGED <<run, inflight, chan, kill, exits, home, leg, ended, childVars>>

\* clear_cells drops every pending sender.
LinkCleared ==
  /\ ClearInflight
  /\ inflight' = {} /\ up' = <<>>
  /\ UNCHANGED <<run, chan, kill, exits, home, leg, ended, childVars>>

LinkOther ==
  /\ ~(live /\ ~live') /\ ~ServeDropped /\ ~ClearInflight
  /\ UNCHANGED procVars

LinkSupervisor ==
  LinkDropped \/ LinkCleared \/ (Supervisor /\ (LinkLost \/ LinkOther))

LinkStep == LinkDropped \/ LinkCleared \/ (Next /\ LinkLost) \/ (Next /\ LinkOther)

RunStep(s) == RunRegister(s) \/ RunNotify(s) \/ RunKill(s) \/ RunEvent(s)
                \/ RunClosed(s)

SeamNext ==
  \/ LinkStep
  \/ Demux
  \/ \E l \in {leg} \cup ended : DaemonSpawn(l) \/ DaemonKill(l) \/ Reap(l)
  \/ \E s \in Spawns : \/ RunCheck(s) \/ RunStep(s) \/ AskKill(s)
                       \/ ChildStart(s) \/ ChildExit(s)

SeamSpec == SeamInit /\ [][SeamNext]_seamVars

(***************************************************************************)
(* Fairness: the supervisor, the run futures, the demux and the daemon's   *)
(* legs are polled; a child that was killed exits.  Other children may run *)
(* for ever, and nothing obliges a link to drop or to come back.  Each     *)
(* spawn and each kill is sent once, so only finitely many ended legs have *)
(* anything to do.                                                         *)
(***************************************************************************)
SeamFairness ==
  /\ WF_seamVars(LinkSupervisor) /\ WF_seamVars(LinkDropped)
  /\ WF_seamVars(Demux) /\ WF_seamVars(DaemonSpawn(leg) \/ DaemonKill(leg))
  /\ WF_seamVars(\E l \in ended : DaemonSpawn(l) \/ DaemonKill(l) \/ Reap(l))
  /\ \A s \in Spawns :
       /\ WF_seamVars(RunRegister(s) \/ RunNotify(s) \/ RunEvent(s) \/ RunClosed(s))
       /\ WF_seamVars(RunKill(s))
       /\ WF_seamVars(ChildStart(s) \/ (s \in dying /\ ChildExit(s)))

SeamFairSpec == SeamSpec /\ SeamFairness

-----------------------------------------------------------------------------
(* Properties *)

\* The editor's on_exit fires exactly once per spawn, whether the daemon
\* reported the exit, the connection died, or there was none.
ExitOnce == \A s \in Spawns : exits[s] = IF run[s] = "done" THEN 1 ELSE 0

\* A future that is over leaves no sender behind in the shared map.
InflightOwned == \A s \in inflight : run[s] \in {"registered", "await"}

\* A spawn whose connection died is reported: the natural end of the demux and
\* the cancelled serve both drop its sender.
LostSpawnExits ==
  \A s \in Spawns : (run[s] = "await" /\ home[s] = "lost") ~> run[s] = "done"

\* A kill that was asked for ends the run of a spawn that reached a daemon.
KillEndsRun ==
  \A s \in Spawns : (kill[s] = "asked" /\ home[s] # "none") ~> run[s] = "done"

\* A child of a connection that is gone does not stay on the daemon, neither one
\* that ran when it dropped nor one whose spawn is taken only afterwards.
ChildrenReaped ==
  \A s \in Spawns :
    (home[s] = "lost" /\ child[s] \in {"starting", "running"}) ~> child[s] = "over"

\* Every child of the daemon is held by the leg that took its spawn: the current
\* connection's while that one is up, else one that has yet to wind down and will
\* reap it, even when the spawn was taken after the connection had ended.
ChildrenHeld ==
  \A s \in Spawns : child[s] \in {"starting", "running"} =>
    IF home[s] = "current" THEN s \in leg.kids ELSE \E l \in ended : s \in l.kids

\* RemoteHostProc::run and docs/edit-host-split.md: while disconnected an
\* operation fails loud and never hangs.  A run whose spawn was never sent ends.
FailsLoud ==
  \A s \in Spawns : (run[s] = "await" /\ home[s] = "none") ~> run[s] = "done"

=============================================================================
