----------------------------- MODULE FileSync -----------------------------
(***************************************************************************)
(* One file of a daemon session and the buffer that shows it: the daemon's *)
(* file leg, which serves reads and writes and watches the file by polling *)
(* (crates/bemtvi-server/src/daemon.rs, serve_fs_daemon_on), and the       *)
(* edit-host, which fetches, reloads, saves and reconciles what the daemon *)
(* pushes (lifecycle.rs, inbound.rs, save.rs, edithost.rs; bemtvi-core's   *)
(* editor/buffers.rs, editor/ex.rs and buffer.rs).                         *)
(*                                                                         *)
(* The editor is one thread, and so are the read and write tasks it spawns *)
(* on its runtime: tasks start in the order they were spawned, after the   *)
(* notifications of the tick.  Pushes, reads and writes reach the run loop *)
(* on three channels, each in order, none in order with another.           *)
(*                                                                         *)
(* What the file holds is the number of the write that made it, 0 when     *)
(* there is no file; a stat tells two writes apart.  The link's phases are *)
(* the ones DaemonLink models, as the editor sees them when it sees every  *)
(* outage.                                                                 *)
(***************************************************************************)
EXTENDS Integers, Sequences, FiniteSets, SequencesExt

CONSTANTS
  MaxOutside,   \* bound on the changes somebody else makes to the file
  MaxWrites,    \* bound on the `:w` the user gives
  MaxEdits,     \* bound on the user's edits
  MaxDrops,     \* bound on the times the link drops
  MaxOpens,     \* bound on the buffers opened on the file
  Autoread,     \* 'autoread'
  FcsChoices    \* what a FileChangedShell handler may choose ("ask": warn)

ASSUME FileAssumption ==
  /\ MaxOutside \in Nat /\ MaxWrites \in Nat /\ MaxEdits \in Nat
  /\ MaxDrops \in Nat /\ MaxOpens \in Nat \ {0}
  /\ Autoread \in BOOLEAN
  /\ FcsChoices \subseteq {"ask", "reload", "edit"} /\ FcsChoices # {}

VARIABLES
  disk,     \* what the file holds now
  made,     \* the writes made to it so far
  wire,     \* the link's phase and what the edit-host sent on it
  inn,      \* what the daemon sent, and how much of it has surely arrived
  dmn,      \* the file leg: the call it serves and the entry in its watches
  late,     \* writes a dead daemon had received and may still perform
  tasks,    \* read and write tasks that have not sent their request
  ed,       \* the buffer
  saves,    \* saves_inflight and saves_queued
  hist      \* history: what happened, for the properties and the bounds

vars == <<disk, made, wire, inn, dmn, late, tasks, ed, saves, hist>>

-----------------------------------------------------------------------------
(* Records. *)

None     == -1   \* no entry in reload_posts; no call
SizeOnly == -2   \* a synthesized stat: a size, and no mtime
Typed    == -3   \* text the user typed and no file holds

Read(id)     == [op |-> "read", id |-> id]
Watch(known) == [op |-> "watch", known |-> known]
Unwatch      == [op |-> "unwatch"]
Idle         == [op |-> "idle"]
IsWatchOp(m) == m.op \in {"watch", "unwatch"}

Up        == wire.phase \in {"up", "back"}
Watching  == ed.open /\ ed.named   \* remote_watches holds the path

Init ==
  /\ disk \in {0, 1} /\ made = 1
  /\ wire = [phase |-> "up", out |-> <<>>]
  /\ inn = [msgs |-> <<>>, arrived |-> 0]
  /\ dmn = [call |-> Idle, step |-> "idle", got |-> 0, stat |-> 0,
            watched |-> FALSE, base |-> 0]
  /\ late = <<>>
  \* the deferred startup file, or a session started without one
  /\ \E startup \in {0, 1} :
       /\ tasks = IF startup = 1 THEN <<Read(1)>> ELSE <<>>
       /\ ed = [open |-> startup = 1, id |-> startup, named |-> FALSE, text |-> 0,
                base |-> 0, drift |-> FALSE, tick |-> 0, modified |-> FALSE,
                reload |-> None]
  /\ saves = [inflight |-> {}, queued |-> [id \in 1..MaxOpens |-> <<>>]]
  /\ hist = [own |-> {}, told |-> None, overlap |-> FALSE, blind |-> FALSE, loaded |-> FALSE,
             torn |-> FALSE, writes |-> 0, edits |-> 0, drops |-> 0]

-----------------------------------------------------------------------------
(* The file: somebody else writes, creates or deletes it, between any two   *)
(* calls the daemon makes.  torn: the last such change fell between a read  *)
(* and its stat, or a write and its restat.                                 *)

OutsideChange(v) ==
  /\ made <= MaxOutside + Cardinality(hist.own)
  /\ v \in {0, made + 1} /\ v # disk
  /\ disk' = v /\ made' = made + 1
  /\ hist' = [hist EXCEPT !.torn = dmn.step # "idle"]
  /\ UNCHANGED <<wire, inn, dmn, late, tasks, ed, saves>>

-----------------------------------------------------------------------------
(* The wire.  Pushes, answers to reads and answers to writes reach the run  *)
(* loop on a channel each: it takes the first of a kind, and then all that  *)
(* the daemon sent before that one has arrived as well.                     *)

Sent(w, m) == IF w.phase \in {"up", "back"}
              THEN [w EXCEPT !.out = Append(@, m)] ELSE w

OpenFailed(r) == [op |-> "opened", id |-> r.id, ok |-> FALSE]
SaveFailed(w) == [op |-> "wrote", save |-> w, ok |-> FALSE]

\* The error a request ends in, given the request or the answer that is lost.
Failed(m) == CASE m.op \in {"read", "opened"} -> OpenFailed(m)
               [] m.op = "write" -> SaveFailed(m)
               [] m.op = "wrote" -> SaveFailed(m.save)

First(op) == SelectInSeq(inn.msgs, LAMBDA m : m.op = op)
Took(i)   == [msgs |-> RemoveAt(inn.msgs, i),
              arrived |-> IF i > inn.arrived THEN i - 1 ELSE inn.arrived - 1]

\* A task reaches its rpc.request; without a connection it fails at once.
TaskRuns ==
  /\ tasks # <<>>
  /\ tasks' = Tail(tasks)
  /\ IF Up THEN wire' = Sent(wire, Head(tasks)) /\ UNCHANGED inn
     ELSE /\ inn' = [msgs |-> Append(inn.msgs, Failed(Head(tasks))),
                     arrived |-> Len(inn.msgs) + 1]
          /\ UNCHANGED wire
  /\ UNCHANGED <<disk, made, dmn, late, ed, saves, hist>>

\* The requests the daemon has not answered, or whose answer did not arrive:
\* the pending table fails them in an order of its own (whichever SetToSeq takes).
Failures(lost) ==
  LET all  == lost \o <<dmn.call>> \o wire.out
      owed == {i \in DOMAIN all : all[i].op \in {"read", "write", "opened", "wrote"}}
  IN [n \in 1..Cardinality(owed) |-> Failed(all[SetToSeq(owed)[n]])]

\* The link drops, the daemon and its watches with it.  What it had received
\* it may still perform; every request of the edit-host fails.
Drop(arrived, received) ==
  /\ Up /\ hist.drops < MaxDrops
  /\ wire' = [phase |-> IF wire.phase = "up" THEN "lost" ELSE "down",
              out |-> <<>>]
  /\ dmn' = [call |-> Idle, step |-> "idle", got |-> 0, stat |-> 0,
             watched |-> FALSE, base |-> 0]
  /\ late' = late \o (IF received
                      THEN SelectSeq(wire.out, LAMBDA m : m.op = "write")
                      ELSE <<>>)
  /\ LET lost  == SubSeq(inn.msgs, arrived + 1, Len(inn.msgs))
         msgs  == SubSeq(inn.msgs, 1, arrived) \o Failures(lost)
     IN inn' = [msgs |-> msgs, arrived |-> Len(msgs)]
  /\ hist' = [hist EXCEPT !.drops = @ + 1]
  /\ UNCHANGED <<disk, made, tasks, ed, saves>>

\* The supervisor reached a fresh daemon.
Reconnect ==
  /\ wire.phase = "down"
  /\ wire' = [wire EXCEPT !.phase = "back"]
  /\ UNCHANGED <<disk, made, inn, dmn, late, tasks, ed, saves, hist>>

\* The run loop's status arm: the outage, then resync_after_reconnect, which
\* forgets what was armed and arms it again with the buffer's baseline.
SeeOutage ==
  /\ wire.phase = "lost"
  /\ wire' = [wire EXCEPT !.phase = "down"]
  /\ UNCHANGED <<disk, made, inn, dmn, late, tasks, ed, saves, hist>>

\* Mutant: the watches still count as armed after a reconnect.
ResyncForgetsWatches ==
  /\ wire.phase = "back"
  /\ wire' = [wire EXCEPT !.phase = "up"]
  /\ UNCHANGED <<disk, made, inn, dmn, late, tasks, ed, saves, hist>>

\* Mutant: the watch is armed again without the buffer's baseline.
ResyncWithoutBaseline ==
  /\ wire.phase = "back"
  /\ wire' = Sent([wire EXCEPT !.phase = "up"],
                  IF Watching THEN Watch(0) ELSE Unwatch)
  /\ UNCHANGED <<disk, made, inn, dmn, late, tasks, ed, saves, hist>>

Resync ==
  /\ wire.phase = "back"
  /\ LET w == [wire EXCEPT !.phase = "up"]
     IN wire' = IF Watching THEN Sent(w, Watch(ed.base)) ELSE w
  /\ hist' = [hist EXCEPT !.blind = @ \/ (Watching /\ ed.base = 0)]
  /\ UNCHANGED <<disk, made, inn, dmn, late, tasks, ed, saves>>

-----------------------------------------------------------------------------
(* The daemon's file leg: one message or poll at a time. *)

Reply(m) == inn' = [inn EXCEPT !.msgs = Append(@, m)]
Push(v)  == Reply([op |-> "push", stat |-> v])

Next1(op) == dmn.step = "idle" /\ wire.out # <<>> /\ Head(wire.out).op = op
Popped    == [wire EXCEPT !.out = Tail(@)]
Free      == [dmn EXCEPT !.call = Idle, !.step = "idle", !.got = 0, !.stat = 0]

Opened(id, content, stat) ==
  [op |-> "opened", id |-> id, ok |-> TRUE, content |-> content, stat |-> stat]
Wrote(save, content, stat) ==
  [op |-> "wrote", save |-> save, ok |-> TRUE, content |-> content, stat |-> stat]

\* classify: the bytes are read, and the file is stat'ed afterwards.
ServeRead ==
  /\ Next1("read")
  /\ wire' = Popped
  /\ IF disk = 0 THEN Reply(Opened(Head(wire.out).id, 0, 0)) /\ UNCHANGED dmn
     ELSE /\ dmn' = [dmn EXCEPT !.call = Head(wire.out), !.step = "stat", !.got = disk]
          /\ UNCHANGED inn
  /\ UNCHANGED <<disk, made, late, tasks, ed, saves, hist>>

ReadStat ==
  /\ dmn.step = "stat"
  /\ Reply(Opened(dmn.call.id, dmn.got, disk))
  /\ dmn' = Free
  /\ UNCHANGED <<disk, made, wire, late, tasks, ed, saves, hist>>

\* serve_write: an atomic write, a stat for the answer and, for a watched
\* path, another stat that becomes the watch's baseline.
Overwrite ==
  /\ disk' = made + 1 /\ made' = made + 1
  /\ hist' = [hist EXCEPT !.own = @ \cup {made + 1}]

ServeWrite ==
  /\ Next1("write")
  /\ Overwrite
  /\ wire' = Popped
  /\ dmn' = [dmn EXCEPT !.call = Head(wire.out), !.step = "reply", !.got = disk']
  /\ UNCHANGED <<inn, late, tasks, ed, saves>>

\* The write failed: nothing was written.
ServeWriteFails ==
  /\ Next1("write")
  /\ wire' = Popped
  /\ Reply(SaveFailed(Head(wire.out)))
  /\ UNCHANGED <<disk, made, dmn, late, tasks, ed, saves, hist>>

WriteStat ==
  /\ dmn.step = "reply"
  /\ dmn' = [dmn EXCEPT !.step = "restat", !.stat = disk]
  /\ UNCHANGED <<disk, made, wire, inn, late, tasks, ed, saves, hist>>

\* Mutant: the poll reports the edit-host's own write.
WriteAnswerUnsuppressed ==
  /\ dmn.step = "restat"
  /\ Reply(Wrote(dmn.call, dmn.got, dmn.stat))
  /\ dmn' = Free
  /\ UNCHANGED <<disk, made, wire, late, tasks, ed, saves, hist>>

WriteAnswer ==
  /\ dmn.step = "restat"
  /\ Reply(Wrote(dmn.call, dmn.got, dmn.stat))
  /\ dmn' = [Free EXCEPT !.base = IF dmn.watched THEN disk ELSE @]
  /\ UNCHANGED <<disk, made, wire, late, tasks, ed, saves, hist>>

\* Mutant: the fresh daemon adopts what it finds.
ServeWatchSilently ==
  /\ Next1("watch")
  /\ wire' = Popped
  /\ dmn' = [dmn EXCEPT !.watched = TRUE, !.base = disk]
  /\ UNCHANGED <<disk, made, inn, late, tasks, ed, saves, hist>>

ServeWatch ==
  /\ Next1("watch")
  /\ wire' = Popped
  /\ IF Head(wire.out).known \notin {0, disk} THEN Push(disk) ELSE UNCHANGED inn
  /\ dmn' = [dmn EXCEPT !.watched = TRUE, !.base = disk]
  /\ hist' = [hist EXCEPT !.blind = @ \/ {disk, Head(wire.out).known} = {0}]
  /\ UNCHANGED <<disk, made, late, tasks, ed, saves>>

ServeUnwatch ==
  /\ Next1("unwatch")
  /\ wire' = Popped
  /\ dmn' = [dmn EXCEPT !.watched = FALSE, !.base = 0]
  /\ UNCHANGED <<disk, made, inn, late, tasks, ed, saves, hist>>

Poll ==
  /\ dmn.step = "idle" /\ dmn.watched /\ dmn.base # disk
  /\ dmn' = [dmn EXCEPT !.base = disk]
  /\ Push(disk)
  /\ UNCHANGED <<disk, made, wire, late, tasks, ed, saves, hist>>

\* A write the dead daemon had received.
LateWrite ==
  /\ late # <<>>
  /\ Overwrite
  /\ late' = Tail(late)
  /\ UNCHANGED <<wire, inn, dmn, tasks, ed, saves>>

-----------------------------------------------------------------------------
(* The editor: one command or one delivery is one step. *)

Edit ==
  /\ ed.open /\ hist.edits < MaxEdits
  /\ ed' = [ed EXCEPT !.text = Typed, !.modified = TRUE, !.tick = @ + 1]
  /\ hist' = [hist EXCEPT !.edits = @ + 1]
  /\ UNCHANGED <<disk, made, wire, inn, dmn, late, tasks, saves>>

\* `:w` and `:w!`: refused on a file the watch reported changed; the snapshot
\* goes to a task, or waits behind the write in flight.
ExWrite(bang) ==
  LET s == [op |-> "write", id |-> ed.id, tick |-> ed.tick,
            warned |-> IF bang \/ hist.told \in {ed.text, ed.base} THEN None
                       ELSE hist.told]   \* history
  IN /\ ed.open /\ ed.named /\ hist.writes < MaxWrites
     /\ bang \/ ~ed.drift
     /\ IF ed.id \in saves.inflight
        THEN saves' = [saves EXCEPT !.queued[ed.id] = Append(@, s)] /\ UNCHANGED tasks
        ELSE /\ saves' = [saves EXCEPT !.inflight = @ \cup {ed.id}]
             /\ tasks' = Append(tasks, s)
     /\ hist' = [hist EXCEPT !.writes = @ + 1]
     /\ UNCHANGED <<disk, made, wire, inn, dmn, late, ed>>

\* :bdelete of a clean buffer; sync_buffer_watches disarms the path.
Close ==
  /\ ed.open /\ ~ed.modified
  /\ ed' = [ed EXCEPT !.open = FALSE]
  /\ wire' = IF ed.named THEN Sent(wire, Unwatch) ELSE wire
  /\ UNCHANGED <<disk, made, inn, dmn, late, tasks, saves, hist>>

\* `:e file`: an empty buffer named for the file, its watch, and the fetch.
Open ==
  /\ ~ed.open /\ ed.id < MaxOpens
  /\ ed' = [open |-> TRUE, id |-> ed.id + 1, named |-> TRUE, text |-> 0,
            base |-> 0, drift |-> FALSE, tick |-> 0, modified |-> FALSE,
            reload |-> None]
  /\ wire' = Sent(wire, Watch(0))
  /\ tasks' = Append(tasks, Read(ed.id + 1))
  /\ hist' = [hist EXCEPT !.loaded = FALSE]
  /\ UNCHANGED <<disk, made, inn, dmn, late, saves>>

\* load_replica_bytes: the bytes replace the text and become the baseline.
Loaded(a) ==
  [ed EXCEPT !.named = TRUE, !.text = a.content, !.drift = FALSE,
             !.base = IF a.content # 0 /\ a.stat = 0 THEN SizeOnly ELSE a.stat,
             !.tick = @ + 1, !.modified = FALSE, !.reload = None]

\* apply_open: an error keeps the text, and so does a watch reload onto a
\* buffer that changed since; the startup buffer gets its name and its watch.
LandOpenIf(conflicted) ==
  /\ First("opened") > 0
  /\ inn' = Took(First("opened"))
  /\ LET a == inn.msgs[First("opened")]
         ours == ed.open /\ a.id = ed.id
         loads == ours /\ a.ok /\ ~conflicted
     IN /\ ed' = IF loads THEN Loaded(a)
                 ELSE IF ours THEN [ed EXCEPT !.reload = None] ELSE ed
        /\ wire' = IF loads /\ ~ed.named THEN Sent(wire, Watch(ed'.base)) ELSE wire
        /\ hist' = IF loads
                   THEN [hist EXCEPT !.blind = @ \/ (~ed.named /\ a.stat = 0),
                                        !.loaded = TRUE]
                   ELSE hist
  /\ UNCHANGED <<disk, made, dmn, late, tasks, saves>>

\* Mutant: a reload lands whatever the user did meanwhile.
LandOpenBlindly == LandOpenIf(FALSE)

LandOpen == LandOpenIf(ed.reload \notin {None, ed.tick})

\* finalize_save on success: the baseline is stamped, the drift forgotten,
\* and the buffer is clean if it still is the snapshot.
Saved(d) ==
  IF ~ed.open \/ d.save.id # ed.id THEN ed
  ELSE IF d.save.tick = ed.tick
  THEN [ed EXCEPT !.base = d.stat, !.drift = FALSE, !.modified = FALSE,
                  !.text = d.content]
  ELSE [ed EXCEPT !.base = d.stat, !.drift = FALSE, !.modified = TRUE]

\* apply_save_done: the buffer's next write goes out, or all of them fail.
LandSave ==
  /\ First("wrote") > 0
  /\ inn' = Took(First("wrote"))
  /\ LET d       == inn.msgs[First("wrote")]
         id      == d.save.id
         waiting == saves.queued[id]
     IN IF d.ok /\ waiting # <<>>
        THEN /\ saves' = [saves EXCEPT !.queued[id] = Tail(@)]
             /\ tasks' = Append(tasks, Head(waiting))
             /\ ed' = Saved(d)
        ELSE /\ saves' = [inflight |-> saves.inflight \ {id},
                          queued |-> [saves.queued EXCEPT ![id] = <<>>]]
             /\ ed' = IF d.ok THEN Saved(d) ELSE ed
             /\ UNCHANGED tasks
  /\ UNCHANGED <<disk, made, wire, dmn, late, hist>>

Fetching == \E m \in Range(tasks \o wire.out \o <<dmn.call>> \o inn.msgs) :
              m.op \in {"read", "opened"}

\* reconcile_remote_change: the drift is noted; an unmodified buffer whose
\* file is still there reloads under 'autoread', otherwise a handler chooses.
HandlePush(choice) ==
  /\ First("push") > 0
  /\ inn' = Took(First("push"))
  /\ LET v == inn.msgs[First("push")].stat
         silent == v # 0 /\ ~ed.modified /\ Autoread
         reload == silent \/ (choice = "reload" /\ v # 0) \/ choice = "edit"
     IN IF ~Watching THEN choice = "ask" /\ UNCHANGED <<ed, tasks, hist>>
        ELSE /\ silent => choice = "ask"
             /\ ed' = [ed EXCEPT !.drift = TRUE,
                                 !.reload = IF reload THEN ed.tick ELSE @]
             /\ tasks' = IF reload THEN Append(tasks, Read(ed.id)) ELSE tasks
             /\ hist' = [hist EXCEPT !.told = v,
                                     !.overlap = @ \/ (reload /\ Fetching)]
  /\ UNCHANGED <<disk, made, wire, dmn, late, saves>>

-----------------------------------------------------------------------------
Daemon ==
  \/ ServeRead \/ ReadStat \/ ServeWrite \/ ServeWriteFails \/ WriteStat
  \/ WriteAnswer \/ ServeWatch \/ ServeUnwatch

Next ==
  \/ \E v \in {0, made + 1} : OutsideChange(v)
  \/ TaskRuns
  \/ \E arrived \in inn.arrived..Len(inn.msgs), received \in BOOLEAN :
       Drop(arrived, received)
  \/ Reconnect \/ SeeOutage \/ Resync
  \/ Daemon \/ Poll \/ LateWrite
  \/ Edit \/ (\E bang \in BOOLEAN : ExWrite(bang)) \/ Close \/ Open
  \/ LandOpen \/ LandSave \/ (\E choice \in FcsChoices \cup {"ask"} : HandlePush(choice))

Spec == Init /\ [][Next]_vars

\* The run loop, the tasks and both ends of the wire keep running, the poll
\* is not starved by requests, and a daemon is reached again after a drop.
Fairness ==
  /\ WF_vars(TaskRuns)
  /\ WF_vars(SeeOutage) /\ WF_vars(Reconnect) /\ WF_vars(Resync)
  /\ WF_vars(Daemon) /\ WF_vars(Poll)
  /\ WF_vars(LandOpen) /\ WF_vars(LandSave)
  /\ WF_vars(\E choice \in FcsChoices \cup {"ask"} : HandlePush(choice))

FairSpec == Spec /\ Fairness

-----------------------------------------------------------------------------
(* Properties. *)

WatchOps == {i \in DOMAIN wire.out : IsWatchOp(wire.out[i])}

(* Once the editor has dealt with the last change of the link, the daemon   *)
(* watches the file exactly when the buffer is open on it, or the message   *)
(* that will make it so is on the wire and none follows that undoes it: no  *)
(* order of open, close, startup landing, drop, reconnect and resync leaves *)
(* a shown file unwatched (sync_buffer_watches, resync_after_reconnect).    *)
WatchHeld ==
  wire.phase = "up" =>
    /\ WatchOps = {} => dmn.watched = Watching
    /\ \A i \in WatchOps :
         (\A j \in WatchOps : j <= i) => (wire.out[i].op = "watch") = Watching

(* A change of the watched file by somebody else is reported to the editor  *)
(* or is already the baseline it holds, over any number of reconnects: the  *)
(* poll, the re-arming with the buffer's baseline and the self-suppression  *)
(* of its own writes lose none - but one that falls between two calls of    *)
(* one request (torn), which can become the baseline unseen.  A buffer      *)
(* without a baseline (a new file) is not told (blind).                     *)
EveryChangeTold ==
  <>[](Watching /\ disk \notin hist.own =>
         disk \in {hist.told, ed.base, ed.text} \/ hist.blind \/ hist.torn)

(* What 'autoread' is for: with nothing written and nothing typed, the      *)
(* buffer ends up holding what the file holds, or marked as drifted when    *)
(* the file is gone, however changes, reloads and outages interleave.       *)
AutoreadFollows ==
  <>[](Watching /\ hist.writes = 0 /\ hist.edits = 0 =>
         ed.text = disk \/ disk = 0 \/ hist.blind)

(* It does, unless the last change of the file fell between the daemon's    *)
(* read of it and the stat it hands out with the bytes (classify); a later  *)
(* change repairs that.                                                     *)
AutoreadConverges ==
  <>[](Watching /\ hist.writes = 0 /\ hist.edits = 0 =>
         ed.text = disk \/ disk = 0 \/ hist.blind \/ hist.torn)

\* Text typed since the last request to reload gives way to what was fetched.
Discards == ed.open /\ hist.loaded /\ ed.text = Typed /\ ed.reload # ed.tick
            /\ ed'.open /\ ed'.id = ed.id /\ ed'.text # Typed /\ saves' = saves

(* A reload that comes back after the user typed does not take the text     *)
(* with it, unless two fetches of the file were under way at one time       *)
(* (load_replica_bytes and its reload_posts marker).                        *)
LoneReloadKeepsEdits == [][Discards => hist.overlap]_vars

(* The same without the exception, as the test of the watch leg has it:     *)
(* "the late reload must not clobber the edit made while it was in flight". *)
ReloadKeepsEdits == [][~Discards]_vars

(* A `:w` without a bang does not overwrite a change the watch had reported *)
(* to the editor before the command and that was never read.                *)
ReportedChangeKept ==
  [][hist'.own # hist.own =>
       LET s == IF late' # late THEN Head(late) ELSE Head(wire.out)
       IN disk = 0 \/ disk # s.warned]_vars

(* Every push is a change made by somebody else, as reconcile_remote_change *)
(* assumes.                                                                 *)
PushIsForeign ==
  \A m \in Range(inn.msgs) : m.op = "push" => m.stat \notin hist.own

(* It is as long as the link has not dropped: whatever order the saves, the *)
(* closings and the polls take, the daemon never reports the edit-host's    *)
(* own write to it (serve_write's restat).                                  *)
OwnWriteQuiet == hist.drops = 0 => PushIsForeign
=============================================================================
