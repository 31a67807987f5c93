----------------------------- MODULE LinkProofs -----------------------------
(***************************************************************************)
(* What the supervisor of the daemon link keeps true of the seams' cells,  *)
(* for every retry policy and every queue of commands, and the exit report *)
(* of a remote process on top of it, for any number of spawns.             *)
(***************************************************************************)
EXTENDS ProcSeam, TLAPS

-----------------------------------------------------------------------------
(* The supervisor. *)

\* The cells are filled exactly from the publication of a connection to the
\* start of its teardown; a retry that is abandoned passes through the teardown
\* again with the cells already empty.
CellInv ==
  /\ pc \in {"serve", "announce"} => cell
  /\ pc \in {"clearInflight", "attempt", "backoff", "dial", "park", "parked",
             "stopped"} => ~cell

LinkInv == TypeOK /\ CellInv /\ ConnectedMeansPublished

\* TypeOK in two halves: the flags, and everything else.
FlagsOK ==
  /\ manual \in BOOLEAN /\ cell \in BOOLEAN /\ live \in BOOLEAN
  /\ unseen \in BOOLEAN /\ handle \in BOOLEAN /\ synced \in BOOLEAN

RestOK ==
  /\ pc \in PcStates /\ served \in {"none", "dropped", "disconnect", "closed"}
  /\ attempt \in 0..MaxAttempts /\ tries \in 0..MaxAttempts
  /\ status \in Phases /\ prev \in Phases
  /\ cmds \in Seq(Commands) /\ last \in Commands \cup {"none"}

LEMMA TypeHalves == (TypeOK <=> FlagsOK /\ RestOK) /\ (TypeOK' <=> FlagsOK' /\ RestOK')
BY Zenon DEF TypeOK, FlagsOK, RestOK

LEMMA InitLinkInv == Init => LinkInv
<1> SUFFICES ASSUME Init PROVE LinkInv
  OBVIOUS
<1>1. FlagsOK
  BY Zenon DEF Init, FlagsOK
<1>2. RestOK
  BY PolicyAssumption DEF Init, RestOK, PcStates, Phases, Commands
<1>3. CellInv /\ ConnectedMeansPublished
  BY Zenon DEF Init, CellInv, ConnectedMeansPublished
<1> QED
  BY <1>1, <1>2, <1>3, TypeHalves DEF LinkInv

\* Commands are queued at the end and taken from the front.
LEMMA CommandQueue ==
  ASSUME RestOK
  PROVE  /\ \A c \in Commands : Append(cmds, c) \in Seq(Commands)
         /\ cmds # <<>> => Head(cmds) \in Commands /\ Tail(cmds) \in Seq(Commands)
BY DEF RestOK

\* Every step leaves a flag alone or sets it.
LEMMA StepFlags ==
  ASSUME FlagsOK, [Next]_vars
  PROVE  FlagsOK'
<1> USE DEF FlagsOK, supVars, cellVars, edVars
<1>1. CASE Supervisor
  <2>1. CASE ServeDropped \/ ServeClosed \/ GiveUp \/ BackoffClosed
    BY <2>1, Zenon DEF ServeDropped, ServeClosed, GiveUp, BackoffClosed, Finish
  <2>2. CASE ServeCmd
    BY <2>2, Zenon DEF ServeCmd, Finish
  <2>3. CASE ClearCells \/ ParkedClosed \/ BackoffElapsed
    BY <2>3, Zenon DEF ClearCells, ParkedClosed, BackoffElapsed
  <2>4. CASE ClearInflight
    BY <2>4, Zenon DEF ClearInflight
  <2>5. CASE Park \/ AnnounceConnected
    BY <2>5, Zenon DEF Park, AnnounceConnected, Announce
  <2>6. CASE ParkedCmd
    BY <2>6, Zenon DEF ParkedCmd
  <2>7. CASE BeginAttempt
    BY <2>7, Zenon DEF BeginAttempt, Announce
  <2>8. CASE BackoffCmd
    BY <2>8, Zenon DEF BackoffCmd, Finish
  <2>9. CASE DialOk \/ DialFailed
    BY <2>9, Zenon DEF DialOk, DialFailed
  <2> QED
    BY <1>1, <2>1, <2>2, <2>3, <2>4, <2>5, <2>6, <2>7, <2>8, <2>9 DEF Supervisor
<1>2. CASE ConnDrop
  BY <1>2, Zenon DEF ConnDrop
<1>3. CASE Editor
  <2>1. ASSUME NEW c \in Commands, UserCmd(c) PROVE FlagsOK'
    BY <2>1, Zenon DEF UserCmd
  <2>2. CASE DropHandle
    BY <2>2, Zenon DEF DropHandle
  <2>3. CASE Observe
    <3>1. synced' \in BOOLEAN
      BY <2>3 DEF Observe
    <3> QED
      BY <2>3, <3>1, Zenon DEF Observe
  <2> QED
    BY <1>3, <2>1, <2>2, <2>3 DEF Editor
<1>4. CASE UNCHANGED vars
  BY <1>4, Zenon DEF vars
<1> QED
  BY <1>1, <1>2, <1>3, <1>4 DEF Next

\* Every step keeps the counters in range and the queue a queue of commands.
LEMMA StepRest ==
  ASSUME RestOK, [Next]_vars
  PROVE  RestOK'
<1> USE DEF RestOK, PcStates, Phases, supVars, cellVars, edVars
<1>1. CASE Supervisor
  <2>1. CASE ServeDropped \/ ServeClosed \/ GiveUp \/ BackoffClosed
    BY <2>1 DEF ServeDropped, ServeClosed, GiveUp, BackoffClosed, Finish
  <2>2. CASE ServeCmd
    BY <2>2, CommandQueue DEF ServeCmd, Finish
  <2>3. CASE ClearCells \/ ParkedClosed \/ BackoffElapsed
    BY <2>3 DEF ClearCells, ParkedClosed, BackoffElapsed
  <2>4. CASE ClearInflight
    BY <2>4, PolicyAssumption DEF ClearInflight
  <2>5. CASE Park \/ AnnounceConnected
    BY <2>5 DEF Park, AnnounceConnected, Announce
  <2>6. CASE ParkedCmd
    BY <2>6, CommandQueue, PolicyAssumption DEF ParkedCmd
  <2>7. CASE BeginAttempt
    BY <2>7, PolicyAssumption DEF BeginAttempt, Announce
  <2>8. CASE BackoffCmd
    BY <2>8, CommandQueue, PolicyAssumption DEF BackoffCmd, Finish
  <2>9. CASE DialOk
    BY <2>9 DEF DialOk
  <2>10. CASE DialFailed
    BY <2>10, PolicyAssumption DEF DialFailed
  <2> QED
    BY <1>1, <2>1, <2>2, <2>3, <2>4, <2>5, <2>6, <2>7, <2>8, <2>9, <2>10
       DEF Supervisor
<1>2. CASE ConnDrop
  BY <1>2 DEF ConnDrop
<1>3. CASE Editor
  <2>1. ASSUME NEW c \in Commands, UserCmd(c) PROVE RestOK'
    BY <2>1, CommandQueue DEF UserCmd
  <2>2. CASE DropHandle
    BY <2>2 DEF DropHandle
  <2>3. CASE Observe
    BY <2>3 DEF Observe
  <2> QED
    BY <1>3, <2>1, <2>2, <2>3 DEF Editor
<1>4. CASE UNCHANGED vars
  BY <1>4 DEF vars
<1> QED
  BY <1>1, <1>2, <1>3, <1>4 DEF Next

LEMMA StepLinkInv ==
  ASSUME LinkInv, [Next]_vars
  PROVE  LinkInv'
<1>0. TypeOK'
  BY StepFlags, StepRest, TypeHalves DEF LinkInv
<1>1. CellInv' /\ ConnectedMeansPublished'
  <2> USE DEF LinkInv, CellInv, ConnectedMeansPublished, supVars, cellVars
  <2>1. CASE Supervisor
    <3>1. CASE ServeDropped \/ ServeCmd \/ ServeClosed
      BY <3>1 DEF ServeDropped, ServeCmd, ServeClosed, Finish
    <3>2. CASE ClearCells \/ ClearInflight
      BY <3>2 DEF ClearCells, ClearInflight
    <3>3. CASE Park \/ ParkedCmd \/ ParkedClosed
      BY <3>3 DEF Park, ParkedCmd, ParkedClosed, Announce
    <3>4. CASE BeginAttempt \/ GiveUp
      BY <3>4 DEF BeginAttempt, GiveUp, Announce, Finish
    <3>5. CASE BackoffElapsed \/ BackoffCmd \/ BackoffClosed
      BY <3>5 DEF BackoffElapsed, BackoffCmd, BackoffClosed, Finish
    <3>6. CASE DialOk \/ DialFailed \/ AnnounceConnected
      BY <3>6 DEF DialOk, DialFailed, AnnounceConnected, Announce
    <3> QED
      BY <2>1, <3>1, <3>2, <3>3, <3>4, <3>5, <3>6 DEF Supervisor
  <2>2. CASE ConnDrop
    BY <2>2 DEF ConnDrop
  <2>3. CASE Editor
    BY <2>3 DEF Editor, UserCmd, DropHandle, Observe
  <2>4. CASE UNCHANGED vars
    BY <2>4 DEF vars
  <2> QED
    BY <2>1, <2>2, <2>3, <2>4 DEF Next
<1> QED
  BY <1>0, <1>1 DEF LinkInv

\* The supervisor's bookkeeping stays in range: a cycle never counts past
\* max_attempts, whatever commands interrupt it.
THEOREM LinkTypeCorrect == Spec => []TypeOK
<1>1. LinkInv => TypeOK
  BY DEF LinkInv
<1> QED
  BY InitLinkInv, StepLinkInv, <1>1, PTL DEF Spec

\* The seams never see an announced connection with empty cells, so the resync
\* it triggers rides the new connection (publish_cells before the announcement).
THEOREM AnnouncedIsPublished == Spec => []ConnectedMeansPublished
<1>1. LinkInv => ConnectedMeansPublished
  BY DEF LinkInv
<1> QED
  BY InitLinkInv, StepLinkInv, <1>1, PTL DEF Spec

\* clear_cells runs on every way out of a connection: while the link retries or is
\* parked no seam holds the Rpc of the connection that is gone.
THEOREM RetriesWithEmptyCells == Spec => []DownWhileRetrying
<1>1. LinkInv => DownWhileRetrying
  BY DEF LinkInv, CellInv, DownWhileRetrying
<1> QED
  BY InitLinkInv, StepLinkInv, <1>1, PTL DEF Spec

-----------------------------------------------------------------------------
(* The exit report of a remote process, whatever the link does under it. *)

RunTypes ==
  /\ run \in [Spawns -> {"idle", "checked", "registered", "await", "done"}]
  /\ exits \in [Spawns -> Nat]
  /\ inflight \subseteq Spawns

RunInv == RunTypes /\ ExitOnce /\ InflightOwned

LEMMA InitRunInv == SeamInit => RunInv
BY DEF SeamInit, RunInv, RunTypes, ExitOnce, InflightOwned

\* Whatever happens on the link and on the daemon, a run future is moved by its
\* own steps only, and no one enters the map for it.
LEMMA LinkKeepsRuns ==
  ASSUME RunInv, run' = run, exits' = exits, inflight' \subseteq inflight
  PROVE  RunInv'
BY DEF RunInv, RunTypes, ExitOnce, InflightOwned

\* A future that ends reports once and is not in the map any more.
LEMMA EndOfRun ==
  ASSUME RunInv, NEW s \in Spawns, run[s] # "done",
         run' = [run EXCEPT ![s] = "done"],
         exits' = [exits EXCEPT ![s] = exits[s] + 1],
         inflight' \subseteq inflight, s \notin inflight'
  PROVE  RunInv'
<1>1. run'[s] = "done" /\ \A t \in Spawns : t # s => run'[t] = run[t]
  BY DEF RunInv, RunTypes
<1>2. exits'[s] = exits[s] + 1 /\ \A t \in Spawns : t # s => exits'[t] = exits[t]
  BY DEF RunInv, RunTypes
<1>3. exits[s] = 0
  BY DEF RunInv, ExitOnce
<1>4. RunTypes'
  BY DEF RunInv, RunTypes
<1>5. ExitOnce'
  BY <1>1, <1>2, <1>3 DEF RunInv, ExitOnce
<1>6. InflightOwned'
  BY <1>1 DEF RunInv, RunTypes, InflightOwned
<1> QED
  BY <1>4, <1>5, <1>6 DEF RunInv

\* A future that goes on reports nothing.
LEMMA RunGoesOn ==
  ASSUME RunInv, NEW s \in Spawns, run[s] # "done",
         NEW to \in {"checked", "registered", "await"},
         run' = [run EXCEPT ![s] = to], exits' = exits,
         inflight' \subseteq inflight \cup {s},
         s \in inflight' => to \in {"registered", "await"}
  PROVE  RunInv'
<1>1. run'[s] = to /\ \A t \in Spawns : t # s => run'[t] = run[t]
  BY DEF RunInv, RunTypes
<1>2. RunTypes'
  BY DEF RunInv, RunTypes
<1>3. ExitOnce'
  BY <1>1 DEF RunInv, ExitOnce
<1>4. InflightOwned'
  BY <1>1 DEF RunInv, RunTypes, InflightOwned
<1> QED
  BY <1>2, <1>3, <1>4 DEF RunInv

LEMMA StepRunInv ==
  ASSUME RunInv, [SeamNext]_seamVars
  PROVE  RunInv'
<1>1. ASSUME NEW s \in Spawns, RunCheck(s) PROVE RunInv'
  <2>1. s \notin inflight
    BY <1>1 DEF RunCheck, RunInv, InflightOwned
  <2>2. CASE cell
    BY <1>1, <2>1, <2>2, RunGoesOn DEF RunCheck
  <2>3. CASE ~cell
    BY <1>1, <2>1, <2>3, EndOfRun DEF RunCheck
  <2> QED
    BY <2>2, <2>3
<1>2. ASSUME NEW s \in Spawns, RunRegister(s) PROVE RunInv'
  BY <1>2, RunGoesOn DEF RunRegister
<1>3. ASSUME NEW s \in Spawns, RunNotify(s) PROVE RunInv'
  BY <1>3, RunGoesOn DEF RunNotify
<1>4. ASSUME NEW s \in Spawns, RunEvent(s) PROVE RunInv'
  <2>1. CASE Head(chan[s]) = "exited"
    BY <1>4, <2>1, EndOfRun DEF RunEvent
  <2>2. CASE Head(chan[s]) # "exited"
    BY <1>4, <2>2, LinkKeepsRuns DEF RunEvent
  <2> QED
    BY <2>1, <2>2
<1>5. ASSUME NEW s \in Spawns, RunClosed(s) PROVE RunInv'
  BY <1>5, EndOfRun DEF RunClosed
<1>6. ASSUME NEW s \in Spawns,
             RunKill(s) \/ AskKill(s) \/ ChildStart(s) \/ ChildExit(s)
      PROVE  RunInv'
  BY <1>6, LinkKeepsRuns DEF RunKill, AskKill, ChildStart, ChildExit, runVars
<1>7. CASE LinkLost \/ LinkDropped \/ LinkCleared \/ LinkOther
  BY <1>7, LinkKeepsRuns DEF LinkLost, LinkDropped, LinkCleared, LinkOther, procVars,
                             runVars
<1>8. ASSUME NEW l, Demux \/ DaemonSpawn(l) \/ DaemonKill(l) \/ Reap(l)
      PROVE  RunInv'
  BY <1>8, LinkKeepsRuns DEF Demux, DaemonSpawn, DaemonKill, Reap, runVars
<1>9. CASE UNCHANGED seamVars
  BY <1>9, LinkKeepsRuns DEF seamVars, procVars, runVars
<1> QED
  BY <1>1, <1>2, <1>3, <1>4, <1>5, <1>6, <1>7, <1>8, <1>9
     DEF SeamNext, LinkStep, RunStep

\* RemoteHostProc::run reports the exit of its process exactly once, whether it
\* was refused at the start, ended by the daemon's report or by a lost link.
THEOREM ExitReportedOnce == SeamSpec => []ExitOnce
<1>1. RunInv => ExitOnce
  BY DEF RunInv
<1> QED
  BY InitRunInv, StepRunInv, <1>1, PTL DEF SeamSpec

\* The shared inflight map holds senders of futures that still run, only: each one
\* takes its entry out as it ends, or finds it gone.
THEOREM NoLeakedSender == SeamSpec => []InflightOwned
<1>1. RunInv => InflightOwned
  BY DEF RunInv
<1> QED
  BY InitRunInv, StepRunInv, <1>1, PTL DEF SeamSpec

-----------------------------------------------------------------------------
(* The composition implements the link: the process leg on top of it neither *)
(* holds the supervisor up nor moves it.                                     *)

\* Every step of the seam is a step of the link or leaves the link alone.
LEMMA SeamStepIsLinkStep ==
  ASSUME [SeamNext]_seamVars
  PROVE  [Next]_vars
<1>1. CASE Next
  BY <1>1
<1>2. CASE LinkDropped \/ LinkCleared
  BY <1>2 DEF LinkDropped, LinkCleared, Next, Supervisor
<1>3. ASSUME NEW l, Demux \/ DaemonSpawn(l) \/ DaemonKill(l) \/ Reap(l)
      PROVE  UNCHANGED vars
  BY <1>3 DEF Demux, DaemonSpawn, DaemonKill, Reap
<1>4. ASSUME NEW s \in Spawns, RunCheck(s) \/ RunStep(s) \/ AskKill(s)
      PROVE  UNCHANGED vars
  BY <1>4 DEF RunCheck, RunStep, RunRegister, RunNotify, RunKill, RunEvent,
              RunClosed, AskKill
<1>5. ASSUME NEW s \in Spawns, ChildStart(s) \/ ChildExit(s)
      PROVE  UNCHANGED vars
  BY <1>5 DEF ChildStart, ChildExit
<1>6. CASE UNCHANGED seamVars
  BY <1>6 DEF seamVars
<1> QED
  BY <1>1, <1>2, <1>3, <1>4, <1>5, <1>6 DEF SeamNext, LinkStep

\* With any number of run futures, demuxes and children on it, the supervisor of
\* maintain_link behaves as the link's own specification says.
THEOREM SeamImplementsLink == SeamSpec => Spec
<1>1. SeamInit => Init
  BY DEF SeamInit
<1> QED
  BY <1>1, SeamStepIsLinkStep, PTL DEF SeamSpec, Spec

-----------------------------------------------------------------------------
(* The daemon outlives its connections: who holds its children. *)

Runs(s) == child[s] \in {"starting", "running"}

\* A spawn of s is among the frames the leg l has yet to take.
Waits(l, s) == \E i \in 1..Len(l.frames) :
                 l.frames[i].k = "spawn" /\ l.frames[i].id = s

\* The leg of the connection that is up awaits spawns sent on it, an ended leg
\* spawns that count as lost; without a connection there is no current leg.
LegOwn ==
  /\ ~live => leg = NewLeg /\ \A s \in Spawns : home[s] # "current"
  /\ \A s \in Spawns : Waits(leg, s) => home[s] = "current"
  /\ \A l \in ended : \A s \in Spawns : Waits(l, s) => home[s] = "lost"

\* A spawn that was not sent has no child.
Unsent(r) == r \in {"idle", "checked", "registered"}

UnsentOwn ==
  \A s \in Spawns : /\ Unsent(run[s]) => home[s] = "none"
                    /\ home[s] = "none" => ~Runs(s)

LegTypes ==
  /\ run \in [Spawns -> {"idle", "checked", "registered", "await", "done"}]
  /\ home \in [Spawns -> {"none", "current", "lost"}]
  /\ child \in [Spawns -> {"none", "starting", "running", "over"}]
  /\ leg \in Leg /\ ended \subseteq Leg

LegInv == LegTypes /\ LegOwn /\ UnsentOwn /\ ChildrenHeld

LEMMA InitLegInv == SeamInit => LegInv
BY DEF SeamInit, Init, LegInv, LegTypes, LegOwn, UnsentOwn, Unsent, Runs, ChildrenHeld,
       Leg, NewLeg, Frame, Waits

LEMMA NewLegFacts == NewLeg \in Leg /\ \A s : ~Waits(NewLeg, s)
BY DEF NewLeg, Leg, Frame, Waits

\* The first frame of a leg, and what is left when it is taken.
LEMMA FirstFrame ==
  ASSUME NEW l \in Leg, l.frames # <<>>
  PROVE  /\ Head(l.frames) \in Frame /\ Head(l.frames).id \in Spawns
         /\ Tail(l.frames) \in Seq(Frame)
         /\ Head(l.frames).k = "spawn" => Waits(l, Head(l.frames).id)
<1>1. l.frames \in Seq(Frame)
  BY DEF Leg
<1>2. Head(l.frames) = l.frames[1] /\ 1 \in 1..Len(l.frames) /\ l.frames[1] \in Frame
  BY <1>1
<1>3. Tail(l.frames) \in Seq(Frame)
  BY <1>1
<1>4. Head(l.frames).k = "spawn" => Waits(l, Head(l.frames).id)
  BY <1>2 DEF Waits
<1> QED
  BY <1>2, <1>3, <1>4 DEF Frame

\* A leg that took a frame waits for no spawn it did not await.
LEMMA TakeFrame ==
  ASSUME NEW l \in Leg, l.frames # <<>>, NEW n, n.frames = Tail(l.frames)
  PROVE  \A s : Waits(n, s) => Waits(l, s)
<1>1. l.frames \in Seq(Frame)
  BY DEF Leg
<1>2. \A i \in 1..Len(Tail(l.frames)) :
        Tail(l.frames)[i] = l.frames[i + 1] /\ i + 1 \in 1..Len(l.frames)
  BY <1>1
<1> QED
  BY <1>2 DEF Waits

\* A frame that is sent is awaited on top of those that were.
LEMMA SendFrame ==
  ASSUME NEW l \in Leg, NEW kind \in {"spawn", "kill"}, NEW s \in Spawns,
         NEW n, n = [l EXCEPT !.frames = Append(@, [k |-> kind, id |-> s])]
  PROVE  /\ n \in Leg /\ n.kids = l.kids
         /\ \A t : Waits(n, t) => Waits(l, t) \/ (kind = "spawn" /\ t = s)
<1> DEFINE f == [k |-> kind, id |-> s]
<1>1. f \in Frame /\ l.frames \in Seq(Frame)
  BY DEF Frame, Leg
<1>2. Append(l.frames, f) \in Seq(Frame)
  BY <1>1
<1>3. n.frames = Append(l.frames, f) /\ n.kids = l.kids /\ n \in Leg
  BY <1>2 DEF Leg
<1>4. \A i \in 1..Len(n.frames) :
        \/ i \in 1..Len(l.frames) /\ n.frames[i] = l.frames[i]
        \/ n.frames[i] = f
  BY <1>1, <1>3
<1>5. \A t : Waits(n, t) => Waits(l, t) \/ (kind = "spawn" /\ t = s)
  BY <1>4 DEF Waits
<1> QED
  BY <1>3, <1>5

\* What reached the daemon before the drop is a prefix of what was sent.
LEMMA CutFrames ==
  ASSUME NEW l \in Leg, NEW m \in 0..Len(l.frames),
         NEW n, n = [l EXCEPT !.frames = SubSeq(@, 1, m)]
  PROVE  /\ n \in Leg /\ n.kids = l.kids
         /\ \A t : Waits(n, t) => Waits(l, t)
<1>1. l.frames \in Seq(Frame)
  BY DEF Leg
<1>2. /\ SubSeq(l.frames, 1, m) \in Seq(Frame)
      /\ Len(SubSeq(l.frames, 1, m)) = m
      /\ \A i \in 1..m : SubSeq(l.frames, 1, m)[i] = l.frames[i]
  BY <1>1
<1>3. n.frames = SubSeq(l.frames, 1, m) /\ n.kids = l.kids /\ n \in Leg
  BY <1>2 DEF Leg
<1>4. \A t : Waits(n, t) => Waits(l, t)
  BY <1>1, <1>2, <1>3 DEF Waits
<1> QED
  BY <1>3, <1>4

\* A step that leaves the legs and the homes alone keeps every child in its leg:
\* nothing starts out of nowhere, and the connection is not lost in it.
LEMMA LegsAlone ==
  ASSUME LegInv, UNCHANGED <<leg, ended, home>>, ~live' => ~live,
         run' \in [Spawns -> {"idle", "checked", "registered", "await", "done"}],
         \A s \in Spawns : Unsent(run'[s]) => Unsent(run[s]),
         child' \in [Spawns -> {"none", "starting", "running", "over"}],
         \A s \in Spawns : Runs(s)' => Runs(s)
  PROVE  LegInv'
<1>1. LegTypes'
  BY DEF LegInv, LegTypes
<1>2. LegOwn'
  BY DEF LegInv, LegOwn, Waits
<1>3. ChildrenHeld'
  BY DEF LegInv, ChildrenHeld, Runs
<1>4. UnsentOwn'
  BY DEF LegInv, UnsentOwn
<1> QED
  BY <1>1, <1>2, <1>3, <1>4 DEF LegInv

\* A leg that goes on holds what it held and runs, and what it starts is a spawn it
\* awaited.
LEMMA LegGoesOn ==
  ASSUME LegInv, UNCHANGED <<live, run, home>>,
         NEW l \in Leg, l.frames # <<>>, NEW n \in Leg, Goes(l, n),
         \A t : Waits(n, t) => Waits(l, t),
         \A t \in l.kids : Runs(t) => t \in n.kids,
         \/ child' = child
         \/ \E s \in n.kids : /\ s \in Spawns /\ Waits(l, s)
                              /\ child' = [child EXCEPT ![s] = "starting"]
  PROVE  LegInv'
<1>1. PICK s : /\ \A t \in Spawns : Runs(t)' => Runs(t) \/ t = s
               /\ Runs(s)' => Runs(s) \/ (s \in n.kids /\ Waits(l, s))
               /\ child' \in [Spawns -> {"none", "starting", "running", "over"}]
  BY DEF LegInv, LegTypes, Runs
<1>2. CASE l = leg /\ leg' = n /\ UNCHANGED ended
  <2>1. live
    BY <1>2 DEF LegInv, LegOwn, NewLeg
  <2>2. LegTypes' /\ LegOwn'
    BY <1>1, <1>2, <2>1 DEF LegInv, LegTypes, LegOwn
  <2>3. UnsentOwn' /\ ChildrenHeld'
    BY <1>1, <1>2 DEF LegInv, LegTypes, LegOwn, UnsentOwn, ChildrenHeld, Runs
  <2> QED
    BY <2>2, <2>3 DEF LegInv
<1>3. CASE l \in ended /\ ended' = (ended \ {l}) \cup {n} /\ UNCHANGED leg
  <2>1. LegTypes' /\ LegOwn'
    BY <1>1, <1>3 DEF LegInv, LegTypes, LegOwn
  <2>2. UnsentOwn' /\ ChildrenHeld'
    BY <1>1, <1>3 DEF LegInv, LegTypes, LegOwn, UnsentOwn, ChildrenHeld, Runs
  <2> QED
    BY <2>1, <2>2 DEF LegInv
<1> QED
  BY <1>2, <1>3 DEF Goes

LEMMA StepLegInv ==
  ASSUME LegInv, [SeamNext]_seamVars
  PROVE  LegInv'
<1>1. CASE LinkLost
  <2>1. PICK m \in 0..Len(leg.frames) :
          ended' = {l \in ended \cup {[leg EXCEPT !.frames = SubSeq(@, 1, m)]} :
                      l.frames # <<>> \/ Alive(l.kids) # {}}
    BY <1>1 DEF LinkLost
  <2> DEFINE cut == [leg EXCEPT !.frames = SubSeq(@, 1, m)]
  <2>2. cut \in Leg /\ cut.kids = leg.kids /\ \A t : Waits(cut, t) => Waits(leg, t)
    BY CutFrames DEF LegInv, LegTypes
  <2>3. ended' \subseteq ended \cup {cut} /\ (Alive(cut.kids) # {} => cut \in ended')
    BY <2>1
  <2>4. \A l \in ended : Alive(l.kids) # {} => l \in ended'
    BY <2>1
  <2> HIDE DEF cut
  <2>5. /\ leg' = NewLeg /\ child' = child
        /\ home' = [s \in Spawns |-> IF home[s] = "current" THEN "lost" ELSE home[s]]
    BY <1>1 DEF LinkLost
  <2>6. \A s \in Spawns : home'[s] # "current"
    BY <2>5
  <2>7. LegTypes'
    <3>1. ended' \subseteq Leg /\ leg' \in Leg
      BY <2>2, <2>3, <2>5, NewLegFacts DEF LegInv, LegTypes
    <3> QED
      BY <1>1, <2>5, <3>1 DEF LinkLost, LegInv, LegTypes
  <2>8. LegOwn'
    <3>1. ASSUME NEW l \in ended', NEW s \in Spawns, Waits(l, s)
          PROVE  home[s] # "none"
      BY <2>2, <2>3, <3>1 DEF LegInv, LegOwn
    <3>2. \A s \in Spawns : home[s] # "none" => home'[s] = "lost"
      BY <2>5 DEF LegInv, LegTypes
    <3> QED
      BY <2>5, <2>6, <3>1, <3>2, NewLegFacts DEF LegOwn
  <2>10. UnsentOwn'
    BY <1>1, <2>5 DEF LinkLost, LegInv, UnsentOwn, Runs
  <2>9. ASSUME NEW s \in Spawns, Runs(s)' PROVE \E l \in ended' : s \in l.kids
    <3>1. CASE home[s] = "current"
      <4>1. s \in cut.kids
        BY <2>2, <2>5, <2>9, <3>1 DEF LegInv, ChildrenHeld, Runs
      <4> QED
        BY <2>3, <2>5, <2>9, <4>1 DEF Alive, Runs
    <3>2. CASE home[s] # "current"
      <4>1. PICK l \in ended : s \in l.kids
        BY <2>5, <2>9, <3>2 DEF LegInv, ChildrenHeld, Runs
      <4> QED
        BY <2>4, <2>5, <2>9, <4>1 DEF Alive, Runs
    <3> QED
      BY <3>1, <3>2
  <2> QED
    BY <2>6, <2>7, <2>8, <2>9, <2>10 DEF LegInv, ChildrenHeld, Runs
<1>2. CASE LinkDropped \/ LinkCleared
  BY <1>2, LegsAlone DEF LinkDropped, ServeDropped, LinkCleared, ClearInflight, cellVars,
                         childVars, Runs, LegInv, LegTypes
<1>3. CASE LinkOther
  BY <1>3, LegsAlone DEF LinkOther, procVars, runVars, wireVars, childVars, Runs, LegInv,
                         LegTypes
<1>4. CASE Demux
  BY <1>4, LegsAlone DEF Demux, vars, cellVars, childVars, Runs, LegInv, LegTypes
<1>5. ASSUME NEW s \in Spawns, RunNotify(s) \/ RunKill(s)
      PROVE  LegInv'
  <2>1. UNCHANGED <<live, ended, child>>
    BY <1>5 DEF RunNotify, RunKill, vars, cellVars, childVars
  <2>2. PICK kind \in {"spawn", "kill"} :
          /\ Send(kind, s)
          /\ kind = "spawn" => RunNotify(s)
          /\ kind = "kill" => RunKill(s)
    BY <1>5 DEF RunNotify, RunKill
  <2>3. /\ run' \in [Spawns -> {"idle", "checked", "registered", "await", "done"}]
        /\ \A t \in Spawns : Unsent(run'[t]) => Unsent(run[t])
    BY <1>5 DEF RunNotify, RunKill, Unsent, LegInv, LegTypes
  <2>4. /\ leg' \in Leg /\ leg'.kids = leg.kids
        /\ ~live => leg' = leg
        /\ \A t \in Spawns : Waits(leg', t) =>
             Waits(leg, t) \/ (cell /\ live /\ kind = "spawn" /\ t = s)
    <3>1. leg \in Leg
      BY DEF LegInv, LegTypes
    <3>2. CASE cell /\ live
      BY <2>2, <3>1, <3>2, SendFrame DEF Send
    <3>3. CASE ~(cell /\ live)
      BY <2>2, <3>1, <3>3 DEF Send
    <3> QED
      BY <3>2, <3>3
  <2>5. CASE kind = "kill"
    <3>1. home' = home
      BY <2>2, <2>5 DEF RunKill
    <3> QED
      BY <2>1, <2>3, <2>4, <2>5, <3>1
         DEF LegInv, LegTypes, LegOwn, UnsentOwn, ChildrenHeld, Runs
  <2>6. CASE kind = "spawn"
    <3>1. home[s] = "none" /\ ~Runs(s) /\ run'[s] = "await"
      <4>1. run[s] = "registered" /\ run' = [run EXCEPT ![s] = "await"]
        BY <2>2, <2>6 DEF RunNotify
      <4>2. run'[s] = "await"
        BY <4>1 DEF LegInv, LegTypes
      <4>3. Unsent(run[s]) /\ UnsentOwn
        BY <4>1 DEF Unsent, LegInv
      <4> QED
        BY <4>2, <4>3 DEF UnsentOwn
    <3>2. /\ home' \in [Spawns -> {"none", "current", "lost"}]
          /\ \A t \in Spawns : t # s => home'[t] = home[t]
          /\ cell /\ live => home'[s] = "current"
          /\ ~live => home'[s] # "current"
      BY <2>2, <2>6, <3>1 DEF RunNotify, LegInv, LegTypes
    <3>3. \A l \in ended : ~Waits(l, s)
      BY <3>1 DEF LegInv, LegOwn
    <3>4. LegOwn'
      BY <2>1, <2>4, <3>1, <3>2, <3>3 DEF LegInv, LegOwn
    <3>5. UnsentOwn'
      BY <2>1, <2>3, <3>1, <3>2 DEF LegInv, UnsentOwn, Runs, Unsent
    <3>6. ChildrenHeld'
      BY <2>1, <2>4, <3>1, <3>2 DEF LegInv, ChildrenHeld, Runs
    <3> QED
      BY <2>1, <2>3, <2>4, <3>2, <3>4, <3>5, <3>6 DEF LegInv, LegTypes
  <2> QED
    BY <2>5, <2>6
<1>6. ASSUME NEW s \in Spawns,
             RunCheck(s) \/ RunRegister(s) \/ RunEvent(s) \/ RunClosed(s) \/ AskKill(s)
      PROVE  LegInv'
  <2>1. UNCHANGED <<live, leg, ended, home, child>>
    BY <1>6 DEF RunCheck, RunRegister, RunEvent, RunClosed, AskKill, vars, cellVars,
                wireVars, childVars
  <2>2. /\ run' \in [Spawns -> {"idle", "checked", "registered", "await", "done"}]
        /\ \A t \in Spawns : Unsent(run'[t]) => Unsent(run[t])
    BY <1>6 DEF RunCheck, RunRegister, RunEvent, RunClosed, AskKill, Unsent, LegInv,
                LegTypes
  <2> QED
    BY <2>1, <2>2, LegsAlone DEF Runs, LegInv, LegTypes
<1>7. ASSUME NEW s \in Spawns, ChildStart(s) \/ ChildExit(s)
      PROVE  LegInv'
  <2>1. UNCHANGED <<live, leg, ended, home, run>>
    BY <1>7 DEF ChildStart, ChildExit, vars, cellVars, runVars
  <2>2. /\ child' \in [Spawns -> {"none", "starting", "running", "over"}]
        /\ \A t \in Spawns : Runs(t)' => Runs(t)
    BY <1>7 DEF ChildStart, ChildExit, Runs, LegInv, LegTypes
  <2> QED
    BY <2>1, <2>2, LegsAlone DEF LegInv, LegTypes
<1>8. ASSUME NEW l \in {leg} \cup ended, DaemonSpawn(l) \/ DaemonKill(l)
      PROVE  LegInv'
  <2> DEFINE s == Head(l.frames).id
             spawn == Head(l.frames).k = "spawn"
  <2>1. UNCHANGED <<live, run, home>>
    BY <1>8 DEF DaemonSpawn, DaemonKill, vars, cellVars, runVars
  <2>2. l \in Leg /\ l.frames # <<>>
    BY <1>8 DEF DaemonSpawn, DaemonKill, LegInv, LegTypes
  <2>3. /\ s \in Spawns /\ Tail(l.frames) \in Seq(Frame)
        /\ spawn => Waits(l, s)
    BY <2>2, FirstFrame
  <2>4. Alive(l.kids) \subseteq l.kids /\ Alive(l.kills) \subseteq l.kills
        /\ \A t \in l.kids : Runs(t) => t \in Alive(l.kids)
    BY DEF Alive, Runs
  <2>5. CASE DaemonSpawn(l)
    <3> DEFINE n == [frames |-> Tail(l.frames), kids |-> Alive(l.kids) \cup {s},
                     kills |-> Alive(l.kills) \cup {s}]
    <3>1. Goes(l, n) /\ spawn /\ child' = [child EXCEPT ![s] = "starting"]
      BY <2>5 DEF DaemonSpawn
    <3>2. n \in Leg /\ n.frames = Tail(l.frames) /\ n.kids = Alive(l.kids) \cup {s}
      BY <2>2, <2>3, <2>4 DEF Leg
    <3> HIDE DEF n
    <3>3. \A t : Waits(n, t) => Waits(l, t)
      BY <2>2, <3>2, TakeFrame
    <3> QED
      BY <2>1, <2>2, <2>3, <2>4, <3>1, <3>2, <3>3, LegGoesOn
  <2>6. CASE DaemonKill(l)
    <3> DEFINE n == [frames |-> Tail(l.frames), kids |-> Alive(l.kids),
                     kills |-> Alive(l.kills) \ {s}]
    <3>1. Goes(l, n) /\ child' = child
      BY <2>6 DEF DaemonKill
    <3>2. n \in Leg /\ n.frames = Tail(l.frames) /\ n.kids = Alive(l.kids)
      BY <2>2, <2>3, <2>4 DEF Leg
    <3> HIDE DEF n
    <3>3. \A t : Waits(n, t) => Waits(l, t)
      BY <2>2, <3>2, TakeFrame
    <3> QED
      BY <2>1, <2>2, <2>3, <2>4, <3>1, <3>2, <3>3, LegGoesOn
  <2> QED
    BY <1>8, <2>5, <2>6
<1>9. ASSUME NEW l, Reap(l)
      PROVE  LegInv'
  <2>1. /\ UNCHANGED <<live, run, home, leg>>
        /\ ended' = ended \ {l} /\ l \in ended
        /\ child' = [s \in Spawns |-> IF s \in l.kids THEN "over" ELSE child[s]]
    BY <1>9 DEF Reap, vars, cellVars, runVars
  <2>2. LegTypes' /\ LegOwn' /\ UnsentOwn'
    BY <2>1 DEF LegInv, LegTypes, LegOwn, UnsentOwn, Runs, Waits
  <2>3. ChildrenHeld'
    BY <2>1 DEF LegInv, LegTypes, ChildrenHeld
  <2> QED
    BY <2>2, <2>3 DEF LegInv
<1>10. CASE UNCHANGED seamVars
  BY <1>10, LegsAlone DEF seamVars, vars, cellVars, procVars, runVars, wireVars,
                          childVars, Runs, LegInv, LegTypes
<1> QED
  BY <1>1, <1>2, <1>3, <1>4, <1>5, <1>6, <1>7, <1>8, <1>9, <1>10 DEF SeamNext, LinkStep, RunStep
\* The daemon never loses hold of a child: whatever drops, and however late it takes
\* a spawn, the child is in the list its leg aborts when it winds down.
THEOREM NoChildLetGo == SeamSpec => []ChildrenHeld
<1>1. LegInv => ChildrenHeld
  BY DEF LegInv
<1> QED
  BY InitLegInv, StepLegInv, <1>1, PTL DEF SeamSpec

=============================================================================
