----------------------------- MODULE SaveQueue -----------------------------
(***************************************************************************)
(* The off-tick save path of a daemon session: `:w` snapshots the buffer,  *)
(* the bytes travel to the daemon while the user keeps typing, and the     *)
(* buffer is marked saved only when the daemon answers                     *)
(* (crates/bemtvi-server/src/save.rs; bemtvi-core's editor/buffers.rs,     *)
(* ex.rs and undo.rs).                                                     *)
(*                                                                         *)
(* The editor is one thread: a command or a delivered answer, and the      *)
(* run_pending convergence it ends in, is one step.  What interleaves is   *)
(* the user, the write tasks, the daemon, asynchronous BufWritePre and     *)
(* exit handlers, and the answers.                                         *)
(*                                                                         *)
(* Text is abstracted to the number of the undo state it is.  One tab of   *)
(* tiled windows stands for the layout; every buffer has its own file.     *)
(* A BufWritePre handler that changes the buffer is an Edit before the     *)
(* command.                                                                *)
(***************************************************************************)
EXTENDS Integers, Sequences, FiniteSets

CONSTANTS
  Buffers,        \* buffer ids
  Windows,        \* window ids
  MaxTick,        \* bound on a buffer's changedtick
  MaxSeq,         \* bound on the writes issued
  LinkFails,      \* TRUE if a write may fail
  AsyncHandlers,  \* TRUE if BufWritePre and exit handlers may return promises
  HandlerWrites   \* TRUE if a user's BufWritePost handler runs `:w`

ASSUME SaveAssumption ==
  /\ Buffers \subseteq Nat /\ IsFiniteSet(Buffers) /\ Buffers # {}
  /\ Windows # {} /\ IsFiniteSet(Windows)
  /\ MaxTick \in Nat /\ MaxSeq \in Nat
  /\ LinkFails \in BOOLEAN /\ HandlerWrites \in BOOLEAN
  /\ AsyncHandlers \in BOOLEAN

VARIABLES
  ed,       \* the core editor: buffers, windows, focus and the exit sequence
  io,       \* saves_inflight, saves_queued and the writes tasks are making
  nextSeq,  \* next_save_seq
  gated,    \* pending_gated_writes: waiting for a BufWritePre promise
  remote,   \* what each buffer's file holds on the daemon
  late,     \* writes answered as failed that a cut-off daemon still holds
  dones,    \* finished writes (SaveDone) on their way to the run loop
  gate,     \* quit_all_gate; no gate when nothing is waited for
  replay,   \* quit_all_replay
  acked     \* history: the seqs of the writes that completed

vars == <<ed, io, nextSeq, gated, remote, late, dones, gate, replay, acked>>

-----------------------------------------------------------------------------
(* Records. *)

Quits == {"none", "q", "q!"}   \* then_quit: None, Some(false), Some(true)
Seqs  == 1..MaxSeq
Ticks == 0..MaxTick

OpenBuffer == [open : BOOLEAN, tick : Ticks, made : Ticks, text : Ticks,
               saved : Ticks, modified : BOOLEAN]
Editor     == [buf : [Buffers -> OpenBuffer],
               shows : [Windows -> Buffers], open : SUBSET Windows,
               cur : Windows, exit : {"no", "leaving", "gone"},
               forced : BOOLEAN]
PreWrite    == [seq : Seqs, buf : Buffers, quit : Quits, win : Windows]
PendingSave == [seq : Seqs, buf : Buffers, quit : Quits, win : Windows,
                text : Ticks, tick : Ticks]
SaveDone    == [save : PendingSave, ok : BOOLEAN]
File        == [text : Ticks, tick : Ticks, late : BOOLEAN]
Queues      == [inflight : SUBSET Buffers,
                queued : [Buffers -> Seq(PendingSave)],
                wire : SUBSET PendingSave]

NoGate   == [bang |-> FALSE, waiting |-> {}, all |-> {}]
NoReplay == [on |-> FALSE, bang |-> FALSE, burst |-> FALSE, all |-> {}]

(* A file's bytes are those of a snapshot; late: a write that had already   *)
(* been answered as failed brought them.                                    *)
Holds(s, isLate) == [text |-> s.text, tick |-> s.tick, late |-> isLate]

(* The focus is on an open window, and that window shows a buffer that is   *)
(* still in the store.                                                      *)
TypeOK ==
  /\ ed \in Editor
  /\ ed.cur \in ed.open
  /\ \A w \in ed.open : ed.buf[ed.shows[w]].open
  /\ io \in Queues
  /\ nextSeq \in 1..(MaxSeq + 1)
  /\ gated \in SUBSET PreWrite
  /\ remote \in [Buffers -> File]
  /\ late \in SUBSET PendingSave
  /\ dones \in SUBSET SaveDone
  /\ gate \in [bang : BOOLEAN, waiting : SUBSET Seqs, all : SUBSET Seqs]
  /\ replay \in [on : BOOLEAN, bang : BOOLEAN, burst : BOOLEAN,
                 all : SUBSET Seqs]
  /\ acked \in SUBSET Seqs

(* Two windows on possibly different buffers, freshly read from the daemon. *)
Init ==
  /\ \E shows \in [Windows -> Buffers], w \in Windows :
       ed = [buf |-> [b \in Buffers |->
                        [open |-> TRUE, tick |-> 0, made |-> 0, text |-> 0,
                         saved |-> 0, modified |-> FALSE]],
             shows |-> shows, open |-> Windows, cur |-> w,
             exit |-> "no", forced |-> FALSE]
  /\ io = [inflight |-> {}, queued |-> [b \in Buffers |-> <<>>], wire |-> {}]
  /\ nextSeq = 1
  /\ gated = {}
  /\ remote = [b \in Buffers |-> [text |-> 0, tick |-> 0, late |-> FALSE]]
  /\ late = {}
  /\ dones = {}
  /\ gate = NoGate
  /\ replay = NoReplay
  /\ acked = {}

-----------------------------------------------------------------------------
(* The core editor. *)

Current(e)  == e.shows[e.cur]
Modified(e) == {b \in Buffers : e.buf[b].open /\ e.buf[b].modified}

(* request_exit and the exit sequence: it finishes at once, or waits for an *)
(* asynchronous exit handler.  A quit inside the sequence is drained.       *)
RequestExit(e, bang, parks) ==
  [e EXCEPT !.exit = IF @ # "no" THEN @
                     ELSE IF parks /\ AsyncHandlers THEN "leaving" ELSE "gone",
            !.forced = @ \/ bang]

(* ex_quit_all: E37 shows the buffer that would be lost. *)
ExQuitAll(e, bang, parks) ==
  LET lost == Modified(e)
  IN IF bang \/ lost = {} THEN RequestExit(e, bang, parks)
     ELSE IF Current(e) \in lost THEN e
     ELSE [e EXCEPT !.shows[e.cur] =
             CHOOSE b \in lost : \A c \in lost : b <= c]

(* ex_quit: a window that is not the last one just closes. *)
ExQuit(e, bang, parks) ==
  IF e.open \ {e.cur} # {}
  THEN [e EXCEPT !.open = @ \ {e.cur},
                 !.cur = CHOOSE w \in e.open \ {e.cur} : TRUE]
  ELSE ExQuitAll(e, bang, parks)

(* Mutant: the answer always cleans the buffer. *)
FinalizeSaveAlways(e, s) ==
  IF ~e.buf[s.buf].open THEN e
  ELSE [e EXCEPT !.buf[s.buf] =
          [@ EXCEPT !.modified = FALSE, !.saved = e.buf[s.buf].text]]

(* finalize_save: the buffer is clean only if it still is the snapshot. *)
FinalizeSave(e, s) ==
  LET b == e.buf[s.buf]
  IN IF ~b.open THEN e
     ELSE IF b.tick = s.tick
     THEN [e EXCEPT !.buf[s.buf] = [b EXCEPT !.modified = FALSE, !.saved = b.text]]
     ELSE [e EXCEPT !.buf[s.buf] = [b EXCEPT !.modified = TRUE]]

-----------------------------------------------------------------------------
(* The write queues. *)

(* commit_pre_write, off the tick: enqueue_save_of takes the snapshot. *)
Snapshot(e, pw) ==
  [seq |-> pw.seq, buf |-> pw.buf, quit |-> pw.quit, win |-> pw.win,
   text |-> e.buf[pw.buf].text, tick |-> e.buf[pw.buf].tick]

(* Mutant: a write in flight does not hold back the next. *)
EnqueueUnserialized(q, S) ==
  [q EXCEPT !.inflight = @ \cup {s.buf : s \in S}, !.wire = @ \cup S]

(* drain_pending_saves, for snapshots S of different buffers: one write per *)
(* buffer is on the wire, the others wait behind it.                        *)
Enqueue(q, S) ==
  [inflight |-> q.inflight \cup {s.buf : s \in S},
   queued   |-> [b \in Buffers |->
                   IF b \in q.inflight /\ \E s \in S : s.buf = b
                   THEN Append(q.queued[b], CHOOSE s \in S : s.buf = b)
                   ELSE q.queued[b]],
   wire     |-> q.wire \cup {s \in S : s.buf \notin q.inflight}]

(* next_queued_save and dispatch_save: the slot goes to the oldest waiter. *)
DispatchNext(q, b) ==
  IF q.queued[b] = <<>> THEN q
  ELSE [inflight |-> q.inflight \cup {b},
        queued   |-> [q.queued EXCEPT ![b] = Tail(@)],
        wire     |-> q.wire \cup {Head(q.queued[b])}]

(* advance_quit_all_gate *)
AdvanceGate(g, seq) ==
  IF g.waiting = {seq} THEN NoGate ELSE [g EXCEPT !.waiting = @ \ {seq}]

(* Mutant: the first answer of the batch replays the quit. *)
CompletesEarly(g, seq, burst) ==
  IF seq \in g.waiting
  THEN [on |-> TRUE, bang |-> g.bang, burst |-> burst, all |-> g.all]
  ELSE NoReplay

Completes(g, seq, burst) ==
  IF g.waiting = {seq}
  THEN [on |-> TRUE, bang |-> g.bang, burst |-> burst, all |-> g.all]
  ELSE NoReplay

(* Mutant: a failed write leaves the gate alone. *)
CancelGateNever(g, doomed) == g

(* cancel_quit_all_gate, for each of the seqs given up *)
CancelGate(g, doomed) == IF g.waiting \cap doomed # {} THEN NoGate ELSE g

-----------------------------------------------------------------------------
(* The user, between two convergences of the run loop. *)

Idle == ed.exit # "gone" /\ ~replay.on

(* An edit from the keyboard, Lua or a language server. *)
Edit(b) ==
  LET old == ed.buf[b]
  IN /\ Idle /\ old.open /\ old.tick < MaxTick
     /\ ed' = [ed EXCEPT !.buf[b] =
          [old EXCEPT !.tick = old.tick + 1, !.made = old.made + 1,
                      !.text = old.made + 1, !.modified = TRUE]]
     /\ UNCHANGED <<io, nextSeq, gated, remote, late, dones, gate, replay, acked>>

(* restore_snapshot: u, CTRL-R, :undo N reach any recorded state; it is     *)
(* clean exactly when it is the state saved_seq names.                      *)
Undo(v) ==
  LET b   == Current(ed)
      old == ed.buf[b]
  IN /\ Idle /\ old.tick < MaxTick
     /\ v \in 0..old.made /\ v # old.text
     /\ ed' = [ed EXCEPT !.buf[b] =
          [old EXCEPT !.tick = old.tick + 1, !.text = v,
                      !.modified = (old.saved # v)]]
     /\ UNCHANGED <<io, nextSeq, gated, remote, late, dones, gate, replay, acked>>

Focus(w) ==
  /\ Idle /\ w \in ed.open /\ w # ed.cur
  /\ ed' = [ed EXCEPT !.cur = w]
  /\ UNCHANGED <<io, nextSeq, gated, remote, late, dones, gate, replay, acked>>

(* :bdelete, while another buffer is left to show (delete_buffer). *)
DeleteBuffer(b, force) ==
  /\ Idle /\ ed.buf[b].open
  /\ force \/ ~ed.buf[b].modified
  /\ \E c \in Buffers \ {b} :
       /\ ed.buf[c].open
       /\ ed' = [ed EXCEPT !.buf[b].open = FALSE,
                           !.shows = [w \in Windows |->
                              IF ed.shows[w] = b THEN c ELSE ed.shows[w]]]
  /\ UNCHANGED <<io, nextSeq, gated, remote, late, dones, gate, replay, acked>>

(* :w and :wq.  The BufWritePre handlers settle at once, or one of them     *)
(* returned a promise and the write is parked, or the text has no encoding. *)
ExWrite(quit, fate) ==
  LET pw == [seq |-> nextSeq, buf |-> Current(ed), quit |-> quit,
             win |-> ed.cur]
  IN /\ Idle /\ nextSeq <= MaxSeq
     /\ nextSeq' = nextSeq + 1
     /\ gated' = IF fate = "park" THEN gated \cup {pw} ELSE gated
     /\ io' = Enqueue(io, IF fate = "commit" THEN {Snapshot(ed, pw)} ELSE {})
     /\ UNCHANGED <<ed, remote, late, dones, gate, replay, acked>>

(* :wall (quits is FALSE) and :wqa, with something to write.  The gate is   *)
(* set before the writes commit, so one that fails at once cancels it.      *)
ExWriteAll(quits, bang, fate) ==
  LET B == Modified(ed)
      pw(b) == [seq |-> nextSeq + Cardinality({c \in B : c < b}),
                buf |-> b, quit |-> "none", win |-> ed.cur]
      seqs == {pw(b).seq : b \in B}
  IN /\ Idle /\ B # {} /\ nextSeq + Cardinality(B) <= MaxSeq + 1
     /\ nextSeq' = nextSeq + Cardinality(B)
     /\ gated' = gated \cup {pw(b) : b \in {c \in B : fate[c] = "park"}}
     /\ io' = Enqueue(io, {Snapshot(ed, pw(b)) :
                             b \in {c \in B : fate[c] = "commit"}})
     /\ gate' = IF quits
                THEN CancelGate([bang |-> bang, waiting |-> seqs, all |-> seqs],
                       {pw(b).seq : b \in {c \in B : fate[c] = "fail"}})
                ELSE gate
     /\ UNCHANGED <<ed, remote, late, dones, replay, acked>>

(* :q, and :qa (which is :wqa with nothing to write) *)
Quit(bang, parks) ==
  /\ Idle
  /\ ed' = ExQuit(ed, bang, parks)
  /\ UNCHANGED <<io, nextSeq, gated, remote, late, dones, gate, replay, acked>>

QuitAll(bang, parks) ==
  /\ Idle
  /\ ed' = ExQuitAll(ed, bang, parks)
  /\ UNCHANGED <<io, nextSeq, gated, remote, late, dones, gate, replay, acked>>

(* An exit handler's promise settled: the sequence ends in should_quit. *)
ExitSettled ==
  /\ Idle /\ ed.exit = "leaving"
  /\ ed' = [ed EXCEPT !.exit = "gone"]
  /\ UNCHANGED <<io, nextSeq, gated, remote, late, dones, gate, replay, acked>>

-----------------------------------------------------------------------------
(* Promises, tasks, the daemon and its answers. *)

(* drain_au_gate_done: the parked write commits, unless its buffer is gone. *)
GateDone(pw, fate) ==
  /\ Idle /\ pw \in gated
  /\ gated' = gated \ {pw}
  /\ IF ~ed.buf[pw.buf].open
     THEN /\ gate' = AdvanceGate(gate, pw.seq)
          /\ replay' = Completes(gate, pw.seq, FALSE)
          /\ acked' = acked \cup {pw.seq}
          /\ UNCHANGED io
     ELSE /\ io' = Enqueue(io, IF fate = "commit" THEN {Snapshot(ed, pw)}
                               ELSE {})
          /\ gate' = IF fate = "commit" THEN gate
                     ELSE CancelGate(gate, {pw.seq})
          /\ UNCHANGED <<replay, acked>>
  /\ UNCHANGED <<ed, nextSeq, remote, late, dones>>

(* A write task, while the editor lives: the daemon wrote the bytes and     *)
(* answered, or the link took the answer with it, or a daemon that is cut   *)
(* off has yet to serve the request, or nothing is ever written.            *)
TaskEnds(s, fate, ok) ==
  /\ s \in io.wire /\ ed.exit # "gone"
  /\ ok => fate = "landed"
  /\ ok \/ LinkFails
  /\ io' = [io EXCEPT !.wire = @ \ {s}]
  /\ remote' = IF fate = "landed"
               THEN [remote EXCEPT ![s.buf] = Holds(s, FALSE)] ELSE remote
  /\ late' = IF fate = "late" THEN late \cup {s} ELSE late
  /\ dones' = dones \cup {[save |-> s, ok |-> ok]}
  /\ UNCHANGED <<ed, nextSeq, gated, gate, replay, acked>>

(* serve_fs_daemon_on drains the requests it had received when its link     *)
(* went down, at its own pace, while a new daemon serves the next writes.   *)
LateWrite(s) ==
  /\ s \in late
  /\ late' = late \ {s}
  /\ remote' = [remote EXCEPT ![s.buf] = Holds(s, TRUE)]
  /\ UNCHANGED <<ed, io, nextSeq, gated, dones, gate, replay, acked>>

(* on_save_dones takes a burst of answers before it settles. *)
Receiving == ed.exit # "gone" /\ (replay.on => replay.burst)

(* apply_save_done, Ok.  A deferred :q runs a whole convergence in the      *)
(* middle of it: a pending :qa replay, and a user's BufWritePost handler.   *)
ApplyOk(d, parks, hook) ==
  LET s    == d.save
      e1   == FinalizeSave(ed, s)
      e2   == IF s.quit = "none" THEN e1 ELSE ExQuit(e1, s.quit = "q!", parks)
      e3   == IF s.quit # "none" /\ replay.on
              THEN ExQuitAll(e2, replay.bang, parks) ELSE e2
      hw   == [seq |-> nextSeq, buf |-> Current(e2), quit |-> "none",
               win |-> e2.cur]
      q1   == [io EXCEPT !.inflight = @ \ {s.buf}]
      q2   == IF hook THEN Enqueue(q1, {Snapshot(e2, hw)}) ELSE q1
      r1   == IF s.quit = "none" THEN replay ELSE NoReplay
      r2   == Completes(gate, s.seq, TRUE)
  IN /\ Receiving /\ d \in dones /\ d.ok
     /\ hook => HandlerWrites /\ s.quit # "none" /\ nextSeq <= MaxSeq
     /\ dones' = dones \ {d}
     /\ ed' = e3
     /\ nextSeq' = IF hook THEN nextSeq + 1 ELSE nextSeq
     /\ gate' = AdvanceGate(gate, s.seq)
     /\ replay' = IF r2.on THEN r2 ELSE r1
     /\ acked' = acked \cup {s.seq}
     /\ io' = DispatchNext(q2, s.buf)
     /\ UNCHANGED <<gated, remote, late>>

(* Mutant: only the failed write's own seq cancels the :wqa. *)
ApplyErrOwnSeq(d) ==
  /\ Receiving /\ d \in dones /\ ~d.ok
  /\ dones' = dones \ {d}
  /\ io' = [io EXCEPT !.inflight = @ \ {d.save.buf},
                      !.queued[d.save.buf] = <<>>]
  /\ gate' = CancelGate(gate, {d.save.seq})
  /\ UNCHANGED <<ed, nextSeq, gated, remote, late, replay, acked>>

(* apply_save_done, Err: the buffer's queue is given up with the write, and *)
(* a :wqa that waited for any of them is off.                               *)
ApplyErr(d) ==
  LET s      == d.save
      given  == {io.queued[s.buf][i] : i \in DOMAIN io.queued[s.buf]}
      doomed == {s.seq} \cup {t.seq : t \in given}
  IN /\ Receiving /\ d \in dones /\ ~d.ok
     /\ dones' = dones \ {d}
     /\ io' = [io EXCEPT !.inflight = @ \ {s.buf}, !.queued[s.buf] = <<>>]
     /\ gate' = CancelGate(gate, doomed)
     /\ UNCHANGED <<ed, nextSeq, gated, remote, late, replay, acked>>

(* The tail of run_pending: the :qa of a completed :wqa. *)
ReplayQuitAll(parks) ==
  /\ ed.exit # "gone" /\ replay.on
  /\ ed' = ExQuitAll(ed, replay.bang, parks)
  /\ replay' = NoReplay
  /\ UNCHANGED <<io, nextSeq, gated, remote, late, dones, gate, acked>>

-----------------------------------------------------------------------------
Fates == {"commit", "fail"} \cup (IF AsyncHandlers THEN {"park"} ELSE {})

WriteFates == {"landed", "late", "lost"}

UserStep ==
  \/ \E b \in Buffers : Edit(b)
  \/ \E v \in Ticks : Undo(v)
  \/ \E w \in Windows : Focus(w)
  \/ \E b \in Buffers, force \in BOOLEAN : DeleteBuffer(b, force)
  \/ \E quit \in Quits, fate \in Fates : ExWrite(quit, fate)
  \/ \E quits, bang \in BOOLEAN, fate \in [Buffers -> Fates] :
       ExWriteAll(quits, bang, fate)
  \/ \E bang, parks \in BOOLEAN : Quit(bang, parks)
  \/ \E bang, parks \in BOOLEAN : QuitAll(bang, parks)

SystemStep ==
  \/ ExitSettled
  \/ \E pw \in gated, fate \in {"commit", "fail"} : GateDone(pw, fate)
  \/ \E s \in io.wire, fate \in WriteFates, ok \in BOOLEAN :
       TaskEnds(s, fate, ok)
  \/ \E s \in late : LateWrite(s)
  \/ \E d \in dones, parks, hook \in BOOLEAN : ApplyOk(d, parks, hook)
  \/ \E d \in dones : ApplyErr(d)
  \/ \E parks \in BOOLEAN : ReplayQuitAll(parks)

Next == UserStep \/ SystemStep

Spec == Init /\ [][Next]_vars

(* The tasks answer (Rpc resolves every request), handlers settle their     *)
(* promises, and the run loop takes its arms.                               *)
Fairness ==
  /\ \A q \in Seqs :
       /\ WF_vars(\E s \in io.wire, fate \in WriteFates, ok \in BOOLEAN :
                    s.seq = q /\ TaskEnds(s, fate, ok))
       /\ WF_vars(\E pw \in gated, fate \in {"commit", "fail"} :
                    pw.seq = q /\ GateDone(pw, fate))
       /\ WF_vars(\E d \in dones : d.save.seq = q /\
                    (ApplyErr(d) \/ \E p, h \in BOOLEAN : ApplyOk(d, p, h)))
  /\ WF_vars(\E parks \in BOOLEAN : ReplayQuitAll(parks))

FairSpec == Spec /\ Fairness

-----------------------------------------------------------------------------
(* Properties. *)

(* The writes a task, the wire or the run loop's channel holds. *)
Flying == io.wire \cup {d.save : d \in dones}

Waiting(b) == {io.queued[b][i] : i \in DOMAIN io.queued[b]}

(* A buffer has at most one write in flight, whatever was typed meanwhile:  *)
(* overlapping `:w`s cannot race each other to the file.                    *)
OneWriteInFlight ==
  \A s, t \in Flying : s.buf = t.buf => s = t

(* A queued write always stands behind a flying one, whose answer will send *)
(* it or give it up: no snapshot is left behind in the queue.               *)
NoStrandedWrite ==
  \A b \in Buffers : io.queued[b] # <<>> => \E s \in Flying : s.buf = b

(* Every seq a :wqa waits for belongs to a write that is still parked,      *)
(* queued or flying: the quit is not waiting for an answer nobody owes.     *)
GateHasOwners ==
  \A q \in gate.waiting :
    \/ \E pw \in gated : pw.seq = q
    \/ \E s \in Flying : s.seq = q
    \/ \E b \in Buffers : \E s \in Waiting(b) : s.seq = q

(* The :qa of a :wqa is replayed only when every write of its batch landed  *)
(* (or was moot, its buffer closed): with `:wqa!` no E37 stands behind it.  *)
AllAckedThenQuit == replay.on => replay.all \subseteq acked

(* A file goes back to an earlier snapshot of its buffer only by a write    *)
(* the user was already told had failed: while a write or its answer is     *)
(* under way nothing overtakes it, so overlapping `:w`s of a live link      *)
(* reach the file in order.  (That the file never goes back is not true of  *)
(* the code: the daemon of a dropped link may serve such a write after the  *)
(* next one landed over the new link.)                                      *)
SnapshotOrder ==
  [][\A b \in Buffers : remote'[b].tick < remote[b].tick =>
       \E s \in late \ late' : s.buf = b /\ s \notin Flying]_vars

(* When an answer turns a buffer clean, the file holds the buffer's text -  *)
(* an edit made during the round trip keeps it modified - or bytes that a   *)
(* write answered as failed brought there later, which the answer cannot    *)
(* know of (fs_changed tells it: FileSync).                                 *)
AckIsExact ==
  [][\A b \in Buffers :
       ed.buf[b].modified /\ ~ed'.buf[b].modified
         /\ ed'.buf[b].tick = ed.buf[b].tick
       => remote[b].text = ed'.buf[b].text \/ remote[b].late]_vars

(* A :wqa is settled: it quits, is cancelled or is replaced by another.     *)
WqaSettles ==
  \A q \in Seqs : (q \in gate.waiting) ~> (q \notin gate.waiting \/ ed.exit = "gone")

(* A buffer that reads clean, with no write of it under way, is what its    *)
(* file holds (the editor's saved_seq "matches what's on disk").            *)
CleanMatchesDisk ==
  \A b \in Buffers :
    ed.buf[b].open /\ ~ed.buf[b].modified /\ b \notin io.inflight
      => remote[b].text = ed.buf[b].text

(* The editor does not leave, unless told to with `!`, while bytes it took  *)
(* for a file are not in it.                                                *)
NoAbandonedWrite ==
  ed.exit = "gone" /\ ~ed.forced =>
    \A b \in Buffers : \A s \in Waiting(b) \cup io.wire :
      s.buf = b => s.text = remote[b].text

(* The quit of a :wq closes the window the command was given in. *)
WqClosesItsWindow ==
  [][\A d \in dones : d \notin dones' =>
       ed.open \ ed'.open \subseteq {d.save.win}]_vars

=============================================================================
