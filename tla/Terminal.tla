----------------------------- MODULE Terminal -----------------------------
(***************************************************************************)
(* A `:terminal`, from the child's PTY to the buffer that shows it: the    *)
(* terminal actor and the thread that reads the PTY                        *)
(* (crates/bemtvi-server/src/terminal.rs), the daemon's term leg, the      *)
(* writer of its link, the edit-host's splitter and term demux             *)
(* (daemon.rs), and the run loop's terminal arm and reconnect              *)
(* (inbound.rs, lifecycle.rs).  A local session has the actor on the       *)
(* editor's own thread; a daemon session has it on the daemon's.  Both run *)
(* a current-thread runtime, so the actor's synchronous write to the PTY   *)
(* stops everything else there until it returns.                           *)
(*                                                                         *)
(* Output is counted in chunks, in the order they are printed.  The link   *)
(* is the shared single stream of a stdio daemon, and its phases are those *)
(* of DaemonLink as an editor sees them that sees every outage.            *)
(***************************************************************************)
EXTENDS Integers, Sequences

CONSTANTS
  Places,     \* where the PTY may be: a subset of {"local", "remote"}
  MaxOut,     \* bound on the chunks the child prints of its own accord
  MaxIn,      \* bound on the user's keystrokes and pastes
  PasteLen,   \* the chunks of input one of them brings
  MaxPush,    \* bound on the pushes of the daemon's other legs
  MaxDrops,   \* bound on the times the link drops
  PtyCap,     \* chunks the kernel buffers each way
  EventCap,   \* TERM_EVENT_CAP, REMOTE_TERM_EVENT_CAP
  QueueCap    \* the stream channel, the wire, TERM_LEG_IN_CAP

ASSUME TerminalAssumption ==
  /\ Places \subseteq {"local", "remote"}
  /\ MaxOut \in Nat /\ MaxIn \in Nat /\ MaxPush \in Nat /\ MaxDrops \in Nat
  /\ {PasteLen, PtyCap, EventCap, QueueCap} \subseteq Nat \ {0}

VARIABLES
  place,    \* where the PTY is
  phase,    \* the link: "up", "lost", "down", "back"
  ed,       \* the terminal buffer and its emulator
  cmds,     \* commands on their way to the actor
  writing,  \* chunks the actor's write_all has still to write
  child,    \* the child process
  pty,      \* chunks in the kernel's two buffers
  reader,   \* the PTY's reader thread
  events,   \* the actor's event channel
  wire,     \* the daemon's control and stream channels, and frames sent
  inbox,    \* the edit-host's shared inbound, group channel and events
  hist      \* history and bounds

vars == <<place, phase, ed, cmds, writing, child, pty, reader, events, wire,
          inbox, hist>>

here   == <<place, phase>>
actor  == <<cmds, writing>>
host   == <<child, pty, reader, events>>
stream == <<wire, inbox>>

Quiet == [ctl |-> <<>>, stream |-> <<>>, sent |-> <<>>]

Init ==
  /\ place \in Places /\ phase = "up"
  /\ ed = [kind |-> "none", emu |-> FALSE, shown |-> 0]
  /\ cmds = <<>> /\ writing = 0
  /\ child = [state |-> "none", held |-> FALSE, printed |-> 0, own |-> 0]
  /\ pty = [inp |-> 0, out |-> 0]
  /\ reader = "none" /\ events = <<>>
  /\ wire = Quiet /\ inbox = [shared |-> <<>>, group |-> <<>>, events |-> <<>>]
  /\ hist = [typed |-> 0, pushed |-> 0, delivered |-> 0, drops |-> 0,
             early |-> FALSE, closed |-> "no"]

Commands   == Seq({"open", "write", "kill"})
Events     == Seq({"data", "exit"})
Frames     == Seq({"data", "exit", "push"})
TermBuffer == [kind : {"none", "live", "exited", "wiped"}, emu : BOOLEAN, shown : Nat]
Process    == [state : {"none", "running", "dead"}, held : BOOLEAN,
               printed : Nat, own : Nat]
Kernel     == [inp : Nat, out : Nat]
Wire       == [ctl : Frames, stream : Frames, sent : Frames]
Inbox      == [shared : Frames, group : Frames, events : Frames]
History    == [typed : Nat, pushed : Nat, delivered : Nat, drops : Nat,
               early : BOOLEAN, closed : {"no", "exit", "resync"}]

TypeOK ==
  /\ place \in {"local", "remote"} /\ phase \in {"up", "lost", "down", "back"}
  /\ ed \in TermBuffer /\ cmds \in Commands /\ writing \in Nat
  /\ child \in Process /\ pty \in Kernel
  /\ reader \in {"none", "reading", "data", "exit", "done"} /\ events \in Events
  /\ wire \in Wire /\ inbox \in Inbox /\ hist \in History

\* The thread in write_all is the editor's, or the daemon's.
EditorRuns == place = "remote" \/ writing = 0
DaemonRuns == place = "remote" /\ writing = 0

-----------------------------------------------------------------------------
(* The editor: commands of the tick. *)

Published == place = "local" \/ phase \in {"up", "back"}
Command(c) == cmds' = IF Published THEN Append(cmds, c) ELSE cmds

\* open_terminal, dispatch_terminal_ops: the emulator first, then the PTY.
Open ==
  /\ EditorRuns /\ ed.kind = "none"
  /\ ed' = [ed EXCEPT !.kind = "live", !.emu = TRUE]
  /\ Command("open")
  /\ hist' = [hist EXCEPT !.early = phase = "back"]
  /\ UNCHANGED <<here, writing, host, stream>>

Type ==
  /\ EditorRuns /\ ed.kind = "live" /\ hist.typed < MaxIn
  /\ Command("write")
  /\ hist' = [hist EXCEPT !.typed = @ + 1]
  /\ UNCHANGED <<here, ed, writing, host, stream>>

\* :bdelete! of a buffer that is or was a terminal, and terminal_forget.
Wipe ==
  /\ EditorRuns /\ ed.kind \in {"live", "exited"}
  /\ ed' = [ed EXCEPT !.kind = "wiped", !.emu = FALSE]
  /\ Command("kill")
  /\ UNCHANGED <<here, writing, host, stream, hist>>

\* terminal_feed and the exit arm: data for a buffer without an emulator goes
\* nowhere, an exit closes a live buffer and drops the emulator.
Fed(m) ==
  /\ ed' = IF m = "data" THEN [ed EXCEPT !.shown = IF ed.emu THEN @ + 1 ELSE @]
           ELSE [ed EXCEPT !.kind = IF @ = "live" THEN "exited" ELSE @,
                           !.emu = FALSE]
  /\ hist' = [hist EXCEPT !.closed =
                IF m = "exit" /\ ed.kind = "live" THEN "exit" ELSE @]

\* Mutant: the arm is polled only while the terminal is open.
OnTermEventsIfLive ==
  /\ EditorRuns /\ ed.kind = "live"
  /\ IF place = "local"
     THEN events # <<>> /\ Fed(Head(events)) /\ events' = Tail(events)
          /\ UNCHANGED inbox
     ELSE inbox.events # <<>> /\ Fed(Head(inbox.events))
          /\ inbox' = [inbox EXCEPT !.events = Tail(@)] /\ UNCHANGED events
  /\ UNCHANGED <<here, actor, child, pty, reader, wire>>

OnTermEvents ==
  /\ EditorRuns
  /\ IF place = "local"
     THEN events # <<>> /\ Fed(Head(events)) /\ events' = Tail(events)
          /\ UNCHANGED inbox
     ELSE inbox.events # <<>> /\ Fed(Head(inbox.events))
          /\ inbox' = [inbox EXCEPT !.events = Tail(@)] /\ UNCHANGED events
  /\ UNCHANGED <<here, actor, child, pty, reader, wire>>

-----------------------------------------------------------------------------
(* The terminal actor: run_terminal_actor. *)

Take(c) == writing = 0 /\ cmds # <<>> /\ Head(cmds) = c /\ cmds' = Tail(cmds)

OpenPty ==
  /\ Take("open")
  /\ child' = [child EXCEPT !.state = "running"]
  /\ reader' = "reading"
  /\ UNCHANGED <<here, ed, writing, pty, events, stream, hist>>

\* The error is sent as a line of output and an exit.
OpenFails ==
  /\ Take("open")
  /\ child' = [child EXCEPT !.state = "dead", !.printed = 1]
  /\ pty' = [pty EXCEPT !.out = 1]
  /\ reader' = "reading"
  /\ UNCHANGED <<here, ed, writing, events, stream, hist>>

TakeWrite ==
  /\ Take("write")
  /\ writing' = IF child.state = "running" THEN PasteLen ELSE 0
  /\ UNCHANGED <<here, ed, host, stream, hist>>

\* Dropping the session kills its child.
TakeKill ==
  /\ Take("kill")
  /\ child' = [child EXCEPT !.state = IF @ = "none" THEN "none" ELSE "dead"]
  /\ UNCHANGED <<here, ed, writing, pty, reader, events, stream, hist>>

\* write_all, on the runtime's only thread.
ActorWrites ==
  /\ writing > 0
  /\ IF child.state = "running"
     THEN /\ pty.inp < PtyCap
          /\ pty' = [pty EXCEPT !.inp = @ + 1]
          /\ writing' = writing - 1
     ELSE writing' = 0 /\ UNCHANGED pty
  /\ UNCHANGED <<here, ed, cmds, child, reader, events, stream, hist>>

Actor == OpenPty \/ OpenFails \/ TakeWrite \/ TakeKill \/ ActorWrites

-----------------------------------------------------------------------------
(* The child: it may print, read, answer what it reads, and exit. *)

ChildPrints ==
  /\ child.state = "running" /\ ~child.held /\ child.own < MaxOut
  /\ child' = [child EXCEPT !.held = TRUE, !.own = @ + 1]
  /\ UNCHANGED <<here, ed, actor, pty, reader, events, stream, hist>>

ChildReads(answers) ==
  /\ child.state = "running" /\ ~child.held /\ pty.inp > 0
  /\ pty' = [pty EXCEPT !.inp = @ - 1]
  /\ child' = [child EXCEPT !.held = answers]
  /\ UNCHANGED <<here, ed, actor, reader, events, stream, hist>>

\* A write(2) of the child: it waits while the kernel's buffer is full.
ChildWrites ==
  /\ child.state = "running" /\ child.held /\ pty.out < PtyCap
  /\ child' = [child EXCEPT !.held = FALSE, !.printed = @ + 1]
  /\ pty' = [pty EXCEPT !.out = @ + 1]
  /\ UNCHANGED <<here, ed, actor, reader, events, stream, hist>>

ChildExits ==
  /\ child.state = "running" /\ ~child.held
  /\ child' = [child EXCEPT !.state = "dead"]
  /\ UNCHANGED <<here, ed, actor, pty, reader, events, stream, hist>>

-----------------------------------------------------------------------------
(* The reader thread of open_pty. *)

ReaderReads ==
  /\ reader = "reading" /\ pty.out > 0
  /\ pty' = [pty EXCEPT !.out = @ - 1]
  /\ reader' = "data"
  /\ UNCHANGED <<here, ed, actor, child, events, stream, hist>>

\* Mutant: the exit is reported when the child is reaped.
ReaderReaps ==
  /\ reader = "reading" /\ child.state = "dead"
  /\ reader' = "exit"
  /\ UNCHANGED <<here, ed, actor, child, pty, events, stream, hist>>

\* The end of the output, then the child's code.
ReaderEnds ==
  /\ reader = "reading" /\ pty.out = 0 /\ child.state = "dead"
  /\ reader' = "exit"
  /\ UNCHANGED <<here, ed, actor, child, pty, events, stream, hist>>

\* Mutant: what the channel has no room for is dropped.
ReaderTrySends ==
  /\ reader \in {"data", "exit"}
  /\ events' = IF Len(events) < EventCap THEN Append(events, reader) ELSE events
  /\ reader' = IF reader = "data" THEN "reading" ELSE "done"
  /\ UNCHANGED <<here, ed, actor, child, pty, stream, hist>>

\* blocking_send: the thread waits for room.
ReaderSends ==
  /\ reader \in {"data", "exit"} /\ Len(events) < EventCap
  /\ events' = Append(events, reader)
  /\ reader' = IF reader = "data" THEN "reading" ELSE "done"
  /\ UNCHANGED <<here, ed, actor, child, pty, stream, hist>>

Reader == ReaderReads \/ ReaderEnds \/ ReaderSends

-----------------------------------------------------------------------------
(* The link.  On the daemon: the leg's forwarder and the connection's       *)
(* writer; on the edit-host: the reader, the splitter and the term demux.   *)

\* Data waits for room in the stream channel, an exit takes the control one.
Forward ==
  /\ DaemonRuns /\ events # <<>>
  /\ events' = Tail(events)
  /\ IF Head(events) = "data"
     THEN /\ Len(wire.stream) < QueueCap
          /\ wire' = [wire EXCEPT !.stream = Append(@, "data")]
     ELSE wire' = [wire EXCEPT !.ctl = Append(@, "exit")]
  /\ UNCHANGED <<here, ed, actor, child, pty, reader, inbox, hist>>

\* Another leg pushes something: a changed file, a job's output.
PushOther ==
  /\ DaemonRuns /\ phase \in {"up", "back"} /\ hist.pushed < MaxPush
  /\ wire' = [wire EXCEPT !.ctl = Append(@, "push")]
  /\ hist' = [hist EXCEPT !.pushed = @ + 1]
  /\ UNCHANGED <<here, ed, actor, host, inbox>>

\* The writer takes control frames first.
WriterSends ==
  /\ DaemonRuns /\ Len(wire.sent) < QueueCap
  /\ \/ /\ wire.ctl # <<>>
        /\ wire' = [wire EXCEPT !.ctl = Tail(@), !.sent = Append(@, Head(wire.ctl))]
     \/ /\ wire.ctl = <<>> /\ wire.stream # <<>>
        /\ wire' = [wire EXCEPT !.stream = Tail(@),
                                !.sent = Append(@, Head(wire.stream))]
  /\ UNCHANGED <<here, ed, actor, host, inbox, hist>>

LinkReads ==
  /\ wire.sent # <<>>
  /\ wire' = [wire EXCEPT !.sent = Tail(@)]
  /\ inbox' = [inbox EXCEPT !.shared = Append(@, Head(wire.sent))]
  /\ UNCHANGED <<here, ed, actor, host, hist>>

\* split_incoming parks on a terminal frame while the group channel is full.
Split ==
  /\ inbox.shared # <<>>
  /\ \/ /\ Head(inbox.shared) # "push" /\ Len(inbox.group) < QueueCap
        /\ inbox' = [inbox EXCEPT !.shared = Tail(@),
                                  !.group = Append(@, Head(inbox.shared))]
        /\ UNCHANGED hist
     \/ /\ Head(inbox.shared) = "push"
        /\ inbox' = [inbox EXCEPT !.shared = Tail(@)]
        /\ hist' = [hist EXCEPT !.delivered = @ + 1]
  /\ UNCHANGED <<here, ed, actor, host, wire>>

TermDemux ==
  /\ inbox.group # <<>> /\ Len(inbox.events) < EventCap
  /\ inbox' = [inbox EXCEPT !.group = Tail(@),
                            !.events = Append(@, Head(inbox.group))]
  /\ UNCHANGED <<here, ed, actor, host, wire, hist>>

\* The daemon's leg ends and its sessions with it; frames that had arrived
\* may still be handed on, or go down with the connection's demuxes.
Drop(handed) ==
  /\ place = "remote" /\ phase \in {"up", "back"} /\ hist.drops < MaxDrops
  /\ phase' = IF phase = "up" THEN "lost" ELSE "down"
  /\ cmds' = <<>> /\ writing' = 0
  /\ child' = [child EXCEPT !.held = FALSE,
                            !.state = IF @ = "none" THEN "none" ELSE "dead"]
  /\ pty' = [inp |-> 0, out |-> 0]
  /\ reader' = "none" /\ events' = <<>>
  /\ wire' = Quiet
  /\ inbox' = IF handed THEN inbox
              ELSE [inbox EXCEPT !.shared = <<>>, !.group = <<>>]
  /\ hist' = [hist EXCEPT !.drops = @ + 1]
  /\ UNCHANGED <<place, ed>>

SeeOutage ==
  /\ phase = "lost" /\ phase' = "down"
  /\ UNCHANGED <<place, ed, actor, host, stream, hist>>

Reconnect ==
  /\ phase = "down" /\ phase' = "back"
  /\ UNCHANGED <<place, ed, actor, host, stream, hist>>

\* Mutant: the terminals of the old connection stay open.
ResyncWithoutTerminals ==
  /\ phase = "back" /\ phase' = "up"
  /\ UNCHANGED <<place, ed, actor, host, stream, hist>>

\* resync_after_reconnect: every live terminal buffer is closed; its emulator
\* stays until the buffer is wiped.
Resync ==
  /\ phase = "back" /\ phase' = "up"
  /\ ed' = [ed EXCEPT !.kind = IF @ = "live" THEN "exited" ELSE @]
  /\ hist' = [hist EXCEPT !.closed = IF ed.kind = "live" THEN "resync" ELSE @]
  /\ UNCHANGED <<place, actor, host, stream>>

-----------------------------------------------------------------------------
Daemon == Forward \/ WriterSends
Link   == LinkReads \/ Split \/ TermDemux
Child  == ChildPrints \/ ChildWrites \/ (\E answers \in BOOLEAN : ChildReads(answers))

Next ==
  \/ Open \/ Type \/ Wipe \/ OnTermEvents
  \/ Actor \/ Child \/ ChildExits \/ Reader
  \/ Daemon \/ PushOther \/ Link
  \/ (\E handed \in BOOLEAN : Drop(handed)) \/ SeeOutage \/ Reconnect \/ Resync

Spec == Init /\ [][Next]_vars

\* The threads, the tasks and the child's own calls go on whenever they can;
\* nobody has to type, print, exit or close anything.
Fairness ==
  /\ WF_vars(OnTermEvents) /\ WF_vars(Actor) /\ WF_vars(Reader)
  /\ WF_vars(ChildWrites) /\ WF_vars(\E answers \in BOOLEAN : ChildReads(answers))
  /\ WF_vars(Forward) /\ WF_vars(WriterSends)
  /\ WF_vars(LinkReads) /\ WF_vars(Split) /\ WF_vars(TermDemux)
  /\ WF_vars(SeeOutage) /\ WF_vars(Reconnect) /\ WF_vars(Resync)

FairSpec == Spec /\ Fairness

-----------------------------------------------------------------------------
(* Properties. *)

(* When the exit of a local child closes its buffer, the buffer shows all   *)
(* that the child printed (open_pty: one thread reads and waits).           *)
LocalOutputKept ==
  place = "local" /\ hist.closed = "exit" => ed.shown = child.printed

(* The same wherever the child runs, as open_pty has it: "`Data`-before-    *)
(* `Exit` ordering".                                                        *)
OutputKept == hist.closed = "exit" => ed.shown = child.printed

(* However the channels between fill up, all that a child has printed is    *)
(* in the end shown by its open terminal: backpressure delays output and    *)
(* loses none.                                                              *)
OutputShown == <>[](ed.kind = "live" => ed.shown = child.printed)

(* What another leg pushes gets through the splitter that a terminal's      *)
(* flood parks, also when that terminal has been closed meanwhile.          *)
PushDelivered == <>[](hist.drops = 0 => hist.delivered = hist.pushed)

(* A terminal is open in the editor exactly as long as its child runs: no   *)
(* child survives its buffer, and no buffer waits for a child that a drop,  *)
(* a failed spawn or an outage took, except for a terminal opened between   *)
(* the re-dial and the editor's resync.                                     *)
TerminalsSettle ==
  <>[]((ed.kind = "live") = (child.state = "running") \/ hist.early)

(* The same without the exception, as resync_after_reconnect has it: "a     *)
(* re-dialed daemon lost every PTY".                                        *)
NoOrphanChild == <>[](ed.kind # "live" => child.state # "running")

(* The thread that writes to a PTY gets on: "Fire-and-forget: the editor    *)
(* never awaits a reply".                                                   *)
ThreadGetsOn == []<>(writing = 0)
=============================================================================
