# A verification project for bemtvi

TLA+ models of the concurrent core of bemtvi (`src/crates`), model-checked with
TLC and proved about with TLAPS. bemtvi is a modal editor whose *edit-host* (the
editor core, Lua, the server tick) may run on another machine than the files it
edits: a *daemon* there serves files, processes, language servers and terminals
over a link that can drop and come back. What is hard about the program, and
what its black-box tests reach only by luck, is what happens between the two:
answers that arrive late, links that drop in the middle, commands given
meanwhile. That is what these modules are about.

## 1. Inventory

### Components in scope

| component | source | state | operations |
|---|---|---|---|
| RPC endpoint | `bemtvi-rpc/src/lib.rs` | pending map of oneshots, control and bulk queues, BufWriter, inbound queue, three tasks | `request`, `notify`, `notify_stream`, `respond`, writer, reader, cleanup |
| Frame scan | same file, `scan_frame` | walk position, counted values, stack of owed values and depth budgets | claim, open container, skip payload, suspend, resume, refuse |
| Daemon link | `bemtvi-server/src/daemon.rs`, `inbound.rs` | supervisor state, swappable cells, command queue, status watch | serve, clear, back off, dial, publish, announce, `:reconnect`, `:disconnect` |
| Process seam | `daemon.rs` (`RemoteHostProc`, `serve_proc_daemon_on`) | map of run futures, events, kill channels, children | run, kill, demux, spawn, exit, reap |
| File seam | `daemon.rs` (`serve_fs_daemon_on`), `lifecycle.rs`, `inbound.rs`, core's `editor/buffers.rs`, `buffer.rs` | the daemon's watch table with a baseline per path; the buffer's baseline, drift mark, reload markers; read and write tasks; the resync | read, write, watch, unwatch, poll, open, land, reload, save, reconcile a push, drop, re-arm |
| Terminal leg | `bemtvi-server/src/terminal.rs`, `daemon.rs` (term leg, splitter, demux), `inbound.rs` | the child and its PTY, reader thread, actor, event channels, the link's bulk queue, the terminal buffer | open, type, wipe, print, exit, forward, split, show, drop, redial |
| Document sync | `bemtvi-server/src/lsp/sync.rs`, `bemtvi-lsp/src/manager.rs` | each buffer's journal, versions and bindings; running and ensured servers; the supervisor's tasks, their queues, failures and processes | sync, didOpen / didChange / didSave / didClose, start, stop, restart, crash, respawn, give up |
| Undo tree | core's `editor/undo.rs`, `insert.rs`, `mod.rs` | arena of nodes, current node, lazily committed open group, `saved_seq`, the insert session's typing state | edit, `:g`, Insert and its keys, paste, one-shot commands, undo, redo, `:undo N`, `g-`, `g+`, `:earlier`, `:later`, write, reload, `'undolevels'` |
| Off-tick saves | `bemtvi-server/src/save.rs`, `lifecycle.rs`, core's `editor/buffers.rs`, `ex.rs`, `undo.rs` | in-flight set, per-buffer queues, parked writes, quit-all gate and replay, `changedtick`, `saved_seq` | `:w`, `:wq`, `:wall`, `:wqa`, `:q`, `:qa`, `:bdelete`, edit, undo, answers, promises |

### How they interact

An editor command ends in a *convergence* (`run_pending`) that turns queued
effects into calls on a seam. A seam holds a `LinkRpc`, a cell the link
supervisor fills on every dial and empties on every drop; through it the call
reaches an RPC endpoint, whose reader, writer and cleanup tasks run on the link
thread. Answers come back as events of the run loop (`SaveDone`, file pushes,
terminal output, server events, process reports, status changes), each of which
ends in a convergence again; a redraw then syncs the documents with their servers.
A status change to *connected* makes the editor re-arm what a fresh daemon does
not know: watches, language servers, terminals. Shared
between threads are only the cells, the inflight maps of the process and LSP
seams (mutexes), the command queue and the status watch channel.

### What is hard

* **Teardown.** Either half of a connection can end alone, while the other is
  parked; a request may register while the map is being taken; a cancelled
  future must not leave its entry behind.
* **Suspension.** The frame scan stops at any byte, inside any value.
* **Reconnects.** Commands race the backoff, the dial and the announcement; a
  status can be overwritten before the run loop looks; seams keep state of
  connections that are gone.
* **Round trips.** The buffer is edited, deleted, undone or written again while
  its bytes travel; a quit waits for several answers, any of which may fail.
* **Re-entrancy.** The handler of an answer runs a whole convergence.
* **Two truths.** The file and the buffer, the buffer and a server's copy, the
  buffer's text and its undo tree: each pair is kept equal by deltas, baselines and
  ticks, across crashes of one side.
* **Backpressure.** A terminal's flood fills six queues in a row, and the one at
  the end is drained by a thread that may itself be writing.

`PROJECT.json` lists the hazards one by one, at the line where each bites, with
the properties that would catch it.

### What else the repository holds

Not modelled: timers, promises and tasks of the event loop; the keymap matcher;
marks, jumps, change list and extmarks; the remaining legs of the daemon (Lua
file, http, git, jobs), which are plain calls over the RPC endpoint; rendering
front ends, layout and wording, vendored engines (regexp, Lua, treesitter), QUIC
and start-up code, ShaDa, the sandbox, the WebAssembly host. `PROJECT.json` gives
the reason for each. Most of the repository's lines are in these: rendering, the
Lua surface and the sequential commands of a modal editor, which hold little
state that interleaves and which its black-box tests reach.

## 2. Modules

| module | what it is |
|---|---|
| `Rpc` | one endpoint: callers, producers, writer, reader, cleanup, consumer; peer and transport as environment |
| `CallContract` | the abstract promise of `Rpc::request`, which `Rpc` implements |
| `FrameScan` | `scan_frame` with the reader loop around it, on real msgpack bytes |
| `DaemonLink` | the supervisor `maintain_link` and the editor's side of the link |
| `ProcSeam` | extends `DaemonLink`: remote processes over that link, both ends |
| `SaveQueue` | saving off the tick |
| `FileSync` | one file, its watching daemon and the buffer that shows it |
| `Terminal` | a `:terminal` from the child's PTY to its buffer, local or over the link |
| `DocSync` | buffers, language servers and the supervisor between them |
| `UndoTree` | a buffer's branching undo history and how keys cut it into steps |
| `MC*` | the instances TLC checks (`MCFrameScan` also holds a recursive reference decoder) |
| `*Proofs` | theorems and their proofs |

Definitions keep the names of the code where there is one; `PROJECT.json` "map"
gives the lines of each. Definitions commented *Mutant* are the code with one
plausible bug put in; nothing uses them, and for every property there is one
that breaks it. In a property's run each mutant takes the place of the
definition it mutates, and TLC must then find that property violated.

### Rpc

The unit of interleaving is what happens between two awaits or two releases of
the lock. `Register` is `request` up to the release of the pending map's lock,
`SendFrame` its `out.send`, `Resolve` the wake-up on the oneshot; `Cancel` is the
drop of the future, with its `PendingGuard`. The writer's `select!`, its control
loop, its bulk loop and its flush are the values of `wpc`; `hold` is the frame it is
inside `write_all` with. `cap` is the capacity of the inbound sink: 0 for
`connect`, `in_cap` for `connect_bounded`; the run takes the bounded one, which can
park the reader, and the theorems hold for both. Notifications, replies and bulk data
are one kind of frame once written, for nothing depends on which it is. An abort takes
effect at a later step. Payloads are abstracted; a frame
over a limit is one kind of frame, on both sides.

### FrameScan

The markers, length fields and payloads are the real bytes; only the limits are
small. One action per exit of the loop body. `Rewind` is the macro
`incomplete!`: it gives the value back, and the reader goes for more bytes, or
refuses the peer when the frame has outgrown `MAX_FRAME`. The walk position is
counted from the start of the frame, as in `FrameScan`.

The reference the scan is held to is in the same module and knows of no scan, stack,
budget or read: a byte string is one value when some set of positions, the starts of
the value and of all inside it, lies end to end in it, and the values announced (the
frame, and what each container declares) run out at its end and not before
(`IsValue`). Its values are that set's elements, and the containers around one are
those since whose start no fewer values were announced than then (`Around`); so the
two limits are statements about a set (`WithinLimits`). `Sendable` is what
`encode_checked` lets out (its size and `within_value_budget`), with the decoder's
depth limit added, which `encode_checked` does not look at. `MCFrameScan` holds a
second reference, a decoder that recurses through the frame as rmpv does, and TLC
evaluates (`ReferencesAgree`) that the first takes every frame the second takes and,
of up to three bytes, no other.

### DaemonLink and ProcSeam

The four cells are set and cleared together and stand as one; the transport
beneath is `live`. `synced` says that watches, language servers and terminals
belong to the connection that is up: the resync after a reconnect sets it when it
finds one. `ProcSeam` adds the run futures of the edit-host, the map they share
with the demux, and the daemon's leg with its children. Its link steps are the
steps of `DaemonLink`, conjoined with what they do to the seam: lost frames, the
demux's clearing of the map, `clear_cells`' clearing. The daemon outlives its
connections: a drop loses a suffix of the frames on their way, and the leg of the ended
connection (`ended`) goes on taking what it had received, a spawn included, before its
loop finds the queue closed and it reaps its children (`Reap`). Any number of such legs may be
winding down while the next connection is served.

### SaveQueue

The editor is one thread, so a command or a delivered answer together with the
convergence it ends in is one action. What interleaves is the user, the write
tasks, the daemon, asynchronous handlers and the answers. Text is the number of
its undo state. `ApplyOk` is `apply_save_done`: finalize, advance the gate, the
deferred quit *with the convergence inside it*, then the next queued write.
`hook` is the user's `BufWritePost` handler that writes the buffer again, in that
convergence.

A task ends with the file written or not and the answer told or lost with the link
(`TaskEnds`); and a daemon that is cut off may still hold the request and serve it
whenever it likes (`late`, `LateWrite`), for its loop drains what it had received
(`daemon.rs:2434`) while the next daemon already serves the next write. So a file *can*
go back: a write fails because the link drops, the next `:w` lands through the new
daemon, and then the old one serves the first. `SnapshotOrder` and `AckIsExact` say that
such a write, which the user was told had failed, is the only thing that moves a file
back or puts bytes between a landing and its answer; that nothing else does is what
the write queue is for. The file's watch then reports such a write as foreign (`FileSyncOwn.cfg`).

Abstractions: one tab of tiled windows; every buffer has a file of its own, and
`:w name` is left out; refusals for disk drift or a lock happen before anything
is queued and are left out; a handler that changes the buffer is an edit before
the command; the stages of the exit sequence are one wait; write tasks end with
the process.

### FileSync

What the file holds is the number of the write that made it; a stat tells two
writes apart. The editor, its read tasks and its write tasks share a thread; what
they await reaches the run loop on three channels (pushes, reads, answers to
writes), each in order and none in order with another: the three `Land`/`Handle`
actions take the first message of their kind. The daemon serves one request at a
time in its steps: a read is a read and then a stat (`classify`), a write is a write,
a stat, and the restat that refreshes the entry of a watched file. Another program may
change the file between any two of them (`OutsideChange`); `torn` records that its last
change did, which is the one case `EveryChangeTold` and `AutoreadConverges` except, and
`AutoreadFollows` does not. A `Drop` loses a suffix of what either side
sent; a write the old daemon had received may still happen afterwards
(`LateWrite`), and the requests it leaves unanswered fail in an order of their own,
for the pending table is a hash map (`Failures`). Writes that wait are queued per
buffer, as in `saves_queued`. `hist` is history for the properties and bounds.

Left out: directories, several files, `:cwd`, locks, big-file reads, and the text of
the prompts. A status that coalesces is `DaemonLink`'s subject; here the editor
sees every outage.

### Terminal

A chunk is what one `read` of the PTY thread brings. The actor and everything else on
its host share a current-thread runtime, so `writing`, the rest of its synchronous
`write_all`, blocks that host (`EditorRuns`, `DaemonRuns`). Locally that is the
editor; remotely it is the daemon, with its forwarder, its link writer and the pushes of
its other legs. The link is the shared stream of a stdio daemon: the splitter hands
frames to groups and parks on a full one. Phases of the link are `DaemonLink`'s.

Left out: resizing, the screen the emulator keeps, several terminals, and QUIC, where
each leg has its own stream and the splitter does not exist.

### DocSync

A text is the number of edits behind it; a journal is the text it starts from. A
`didChange` carries the interval it replays, and a server that is told an interval that
does not start at its text is `Garbled`. `Sync` is the whole of `sync_lsp`: draining
each journal once for all servers, opening, changing, saving, closing. The
supervisor decides nothing by what its tasks do meanwhile and forwards in order, so
its hop is part of the send. A task is a process with its queue, and goes through
`start`, `serve`, backing off and `ended`, with the drain of the queue between two
processes (`drain_queued`) as in `manager.rs`. Crashes may come at any step.

Left out: encodings, URIs, the bridging of a missing last newline, servers that take
no changes at all, requests, answers and diagnostics, and the interval after a move in
which a buffer has no URI.

### UndoTree

One key or command is one action, the resumption of Insert after a one-shot command
included. A text is the tick that made it. The arena is a function from seqs to nodes;
a node holds the seqs on its way down from the root, which gives parent, newest child
and ancestors without recursion, so the module can be proved about. A step is
committed lazily (`Commit`), from `dirty`, the tick, `snapshot_taken` and the typing
state. `fresh`, `refused` and `landed` are the history against which the grouping is
checked: an edit that begins a change must land in an empty step, one that continues it
in the same, and a break that was asked for always begins one. Two edits miss that, and
`StepPerChange` names them: the one after a break that came right after a c command's
deletion (`refused`), which `UndoOneShot.cfg` shows, and a key typed
after a `:g` ran as a one-shot command, which closed the session's group (`split`).

`Extras` names two more kinds of keys, which only `FullSpec` takes: leaving Insert by
focusing another window, and `i_CTRL-W`, `i_CTRL-U` and accepted completions. Section 4
shows what they break.

Left out: cursors, marks and selections kept in a node, time travel (`:earlier 10s`),
the listings, several buffers, snippets and workspace edits during Insert. Restores of
mapping spans are folded into `Paste`. An answer to a write whose buffer moved
on is `SaveQueue`'s subject, so `Save` here is the answer to a buffer that did not.

## 3. Runs

All runs disable the deadlock check: a connection ends for good, a session ends,
an editor exits, and the bounds on ticks, writes and pushes stop the rest.

| run | bounds | what it shows |
|---|---|---|
| `rpc` | 1 request, 1 producer, 2 unasked frames of any kind, queues and sink of 1 | no stale entry, every call returns, teardown is total, the writer never sleeps on unflushed frames; refinement of `CallContract` |
| `frame_scan` | frames up to 4 bytes, depth 5, 4 values, reads of 1 or 2 bytes, 6 buffered, 12 byte values | the suspended scan accepts only what is one value within the limits, and refuses no frame that a decoder takes |
| `daemon_link` | 3 attempts, 2 queued commands | publish before announce, a retry settles, the user's last command wins, a seen outage resyncs |
| `proc_seam` | 1 spawn, 1 attempt, 1 command | one exit report, no leaked sender, lost spawns end, kills end runs, no orphan child, also of a spawn taken after the drop |
| `save_queue` | 2 buffers, 1 window, 2 writes, 1 edit each, async handlers, failing link | one write in flight, the gate has owners, `:wqa` quits only when all landed, exact answers but for bytes of a write reported failed |
| `save_liveness` | 1 buffer, 2 windows, 2 edits or undos, 2 writes, async handlers, failing link | only a write reported failed moves the file back; every `:wqa` settles |
| `file_sync` | one each of outside change, write, edit, drop, open; autoread; every handler choice | what is shown is watched, own writes are quiet, no change goes untold but one inside a request, a lone reload keeps edits, an untouched buffer converges unless its last change fell inside a request |
| `terminal` | local and remote, 2 chunks, 1 keystroke, 1 other push, 1 drop, queues of 1 | nothing printed is lost or stuck, other legs get through, children and buffers end together |
| `terminal_paste` | local, a paste of 6 chunks, queues of 1 | **violated**: the editor's thread blocks in `write_all` for ever |
| `doc_sync` | 2 servers (one incremental, one full), 2 buffers, 3 edits, 1 crash, 2 other operations | deltas fit, versions are consecutive, a save is told after its change |
| `doc_lifetimes` | 1 server, 1 buffer, 1 edit, 2 crashes, breaker at 2, 1 stop, 2 other operations | a running server ends with the text, ensured means served, a stop takes all down |
| `undo_tree` | 5 ticks, 2 writes, counts 1 and 2, three `'undolevels'` | one step per change but in the two named cases, nothing unrecorded, clean is on disk, travel keeps the order |

Type invariants, `StackInBounds`, `NoParkedWaiter`, `DownWhileRetrying` and
`NoStrandedWrite` are proved and not run.

Why the bounds are enough. A lost wake-up, a stale entry or a double decision
needs one call, one teardown and at most one unrelated frame; what two
calls could do to each other is excluded by the proofs, which hold for any number.
Queues of one slot make *full* and *empty* reachable at every step; two pushes are one
more than the sink holds, so an answer can wait behind one. The scan's limits are
low enough that each of the four refusals happens within a frame, and the bytes
hold a marker of every class (scalars with and without payload, fixed and sized
containers, str, bin, fixed and sized ext; length fields of no, one and two bytes). Attempts beyond the third
repeat the second. Two writes of one buffer are one flying and one queued,
the fewest for which they can pass each other; that several waiters keep their
order is `SnapshotsInOrder`, proved for any number. Two buffers are the fewest for
a batch of `:wqa` to be partly answered. Two windows (a `:q` that closes one
and leaves the other) and two buffers (a batch) are in separate runs: the two
writes meet in the queue and the gate, the windows only in what `:q` does.
One outside change, one write, one edit and one drop race each other in every
order; a second of each only repeats a race with a settled file. What a second change does
to one that was torn, and a second outage, `AutoreadConverges` also passes:
`FileSyncAutoread.cfg`, without writes and edits. Two chunks are one in
hand and one behind it in a full queue; a paste of six is one more than a chunk in every
place a local chunk can be. Two servers and two buffers are what a journal drained once
for all needs to go wrong; two crashes with the breaker at two reach its trip. Five ticks
let a branch be made, pruned by `'undolevels'` and travelled over, which leaves the
gap in the seqs that `node_near_seq` has to skip. No run uses symmetry.

### Fairness

* *Rpc*: tokio polls a task that can make progress, so the tasks and a caller
  between two awaits are weakly fair; an abort takes effect; permits of a bounded
  tokio channel go out in FIFO order, so a producer whose send becomes possible again
  and again is served (strong). The peer reads, and answers what it read. No
  fairness for callers, closes, cancellations; the consumer of an *unbounded*
  queue may stop for ever, that of a bounded one drains it, as `connect_bounded`
  demands. `RequestsResolve` assumes `BulkPauses`, that the writer comes back to its
  `select!` again and again, because of what `RpcStarvation.cfg` shows.
* *DaemonLink*: the supervisor is polled, a dial completes one way or the other,
  `select!` polls its branches in random order, so a queued command or a dead
  connection is seen; the run loop looks at a changed status. Nothing obliges the
  network to fail or to recover, or the user to type.
* *ProcSeam*: the same, the futures, demux and the daemon's legs are polled, those of
  ended connections too, and a child that was killed exits. Other children may run for
  ever. Each spawn and kill is sent once, so finitely many ended legs have work.
* *SaveQueue*: every write task answers (that is `RequestsResolve`), promises
  settle, the run loop takes its arms.
* *FileSync*: both ends and the tasks run; the poll is a timer that requests do not
  starve; a dropped daemon is reached again (else nothing is promised). Nobody has to
  write or edit.
* *Terminal*: threads, tasks and the child's own reads and blocked writes go on when
  they can. The child need not print or exit of itself.
* *DocSync*: the run loop redraws and reads its events; tasks run, and a server answers
  `initialize` or fails within `INIT_GRACE`. Crashes are not owed.
* *FrameScan* and *UndoTree* are sequential: safety only.

## 4. Where code and documentation disagree

**A paste can stop the editor** (run `terminal_paste`, `ThreadGetsOn`). The actor
writes to the PTY with a synchronous `write_all` (`terminal.rs:1164`). A child that
answers what it reads waits for room in its output, the reader thread waits for room in
the event channel, and the loop that would make room is inside the `write_all`; against
`terminal.rs:1013`, "Fire-and-forget … the editor never awaits a reply".

The others are configurations beside the runs: `tlc -config X.cfg M` finds the
counterexample. All are reported by TLC as violated. Sources are under
`src/crates`: `daemon.rs`, `save.rs`, `terminal.rs`, `lifecycle.rs` and `lsp/sync.rs`
in `bemtvi-server/src`, `manager.rs` in `bemtvi-lsp/src`, the rest in
`bemtvi-core/src` and its `editor/`.

| configuration (module) | property | the code | what is said |
|---|---|---|---|
| `RpcStarvation` (`MCRpc`) | `ControlNotStarved` | the writer's bulk loop (`bemtvi-rpc/src/lib.rs:359`) never looks at the control queue, and its own writes make room for producers | `lib.rs:332`: the control channel "is always preferred over the bounded streaming channel" |
| `DaemonLinkResync` (`MCDaemonLink`) | `ResyncedAfterReconnect` | the run loop compares a status with the last one it saw; the watch channel keeps the latest only, so an outage can pass unseen | `docs/edit-host-split.md:133`: "**On reconnect** the editor re-syncs what a *fresh* daemon doesn't know about" |
| `DaemonLinkBudget` (`MCDaemonLink`) | `BudgetReset` | a `:reconnect` during a backoff skips the wait and keeps the attempt counter (`daemon.rs:903`) | `docs/edit-host-split.md:127`: it "resets the retry budget" |
| `ProcSeamDisconnected` (`MCProcSeam`) | `FailsLoud` | the sender is inserted (`daemon.rs:1300`) after the cell was checked (`:1292`); the clearing thread can come between | `docs/edit-host-split.md:121`: "fail *loud* rather than hanging" |
| `SaveUndo` (`MCSaveQueue`) | `CleanMatchesDisk` | an answer to a buffer that moved on leaves `saved_seq` (`buffers.rs:1195`); undoing to the old saved state reads clean | `editor/mod.rs:510`: "The seq that matches what's on disk" |
| `SaveReentrant` (`MCSaveQueue`) | `OneWriteInFlight` | the slot is free while the deferred `:q` converges (`save.rs:138-163`), and a `BufWritePost` handler may write there | `save.rs:20`: "Overlapping `:w`s on one buffer queue in order" |
| `SaveAbandoned` (`MCSaveQueue`) | `NoAbandonedWrite` | `:qa` looks at `modified` alone (`ex.rs:3051`); a buffer undone to its saved state is clean while another write of it flies | `buffers.rs:53-54` |
| `SaveWindow` (`MCSaveQueue`) | `WqClosesItsWindow` | the deferred `:q` runs in the window focused when the answer arrives (`save.rs:154`) | `:wq` is the `:q` of the window it was given in |
| `FileSyncEdits` (`MCFileSync`) | `ReloadKeepsEdits` | of two reloads under way the second's marker stands for both (`lifecycle.rs:131-140`), and the later bytes replace what was typed | test `daemon_watch.rs:145-166`: "the late reload must not clobber the edit made while it was in flight" |
| `FileSyncClobber` (`MCFileSync`) | `ReportedChangeKept` | what was asked for before the report and lands after it, a fetch or the answer to a write (`buffer.rs:1266`), forgets the drift; the next `:w` overwrites | test `daemon_watch.rs:119`: "`:w` must not clobber the change the daemon watch reported" |
| `FileSyncOwn` (`MCFileSync`) | `PushIsForeign` | a write the dead daemon had received reaches the file after the next daemon armed its watch, which reports it | `lifecycle.rs:2473`: "a push always means a real external change" |
| `FileSyncTorn` (`MCFileSync`) | `AutoreadFollows` | the file is read and then statted in a second call (`daemon.rs:2760`); a change between gives the old bytes the new stat, the watch is armed with it, and an untouched buffer stays on the old text. The restat after a write (`:2462`) has the same window, so `EveryChangeTold` excepts it too | `daemon.rs:2758`: "so the edit-host stamps an accurate `disk` baseline"; `docs/plans/2026-06-09-edit-host-and-browser-lua.md:425`: an "externally-changed but *unmodified* buffer is silently reloaded" |
| `TerminalExit` (`MCTerminal`) | `OutputKept` | the daemon sends data on the bulk queue and the exit on the control queue (`daemon.rs:1793`), which passes it | `terminal.rs:1199`: "`Data`-before-`Exit` ordering" |
| `TerminalOrphan` (`MCTerminal`) | `NoOrphanChild` | a terminal opened between the redial and the resync is given up by the editor while its child runs on the fresh daemon | `lifecycle.rs:1632`: "a re-dialed daemon lost every PTY" |
| constants of `DocRestart`, as the invariant (`MCDocSync`) | `NoLeftovers` | what is sent between the drain and the next process (`manager.rs:606-609`) reaches that process | the drain is there so that nothing does |
| `DocRestart` (`MCDocSync`) | `RestartReopens` | after a restart, a report of the old process's exit drops the fresh one from the editor's clients, and the buffer is not opened again | `lsp/sync.rs:565`: "Every bound buffer re-`didOpen`s under the fresh process" |
| `DocPhantom` (`MCDocSync`) | `NoPhantomClient` | an *initialized* still on its way lands after the stop and makes the server a client again (`lsp/sync.rs:472`) | a stopped server is no client |
| constants of `DocRestart`, as the invariant (`MCDocSync`) | `RunningCanBeStopped` | the report of a crash takes the server from the ensured ones; the process its task respawns is initialized and serves, and no stop finds it | `lsp/sync.rs:527`: "shut every running server with config `name` down" |
| `UndoOneShot` (`MCUndoTree`) | `OneShotIsAStep` | a step is ended only when the changedtick moved since the typing state was set (`undo.rs:966`), and a c command's deletion came before that: in `cw<C-o>x` one `u` takes both changes back; `cw<C-g>u` is the same call | `docs/features/undo.md:31-32`: "An `i_CTRL-O` command is a step of its own, even one that doesn't move the cursor"; `insert.rs:251` |
| constants of `UndoRubout` with `Extras = {"leave"}` (`MCUndoTree`) | `StepPerChange` | leaving Insert by focusing another window sets Normal with `snapshot_taken` still set (`windows.rs:3061`); the Normal commands that follow join one step | `docs/features/undo.md:36`: a Normal-mode command is a step |
| constants of `UndoTree`, as the invariant (`MCUndoTree`) | `landed # "split"` | `<C-o>:g` clears `snapshot_taken` (`ex.rs:2241`); every key typed afterwards is a step of its own | the session is one group (`mod.rs:1462`) |
| `UndoRubout` (`MCUndoTree`) | `NothingUnrecorded` | `i_CTRL-W`, `i_CTRL-U` and an accepted completion edit without opening a step (`insert.rs:1037`, `complete.rs:433`); right after a write the text belongs to no step, and `CleanIsOnDisk` fails too | `undo.rs:828`: "Edits made then would belong to no group at all, and the next undo would step back past them for good" |

Three more that no configuration shows: the daemon adopts a file's present state
silently when a watch is armed without a baseline (`daemon.rs:2502`), which
`EveryChangeTold` excepts (`blind`); an answer to a write that comes after a reload puts
the baseline back to the write's; and a write that failed with its link may be served
after the next one (`LateWrite` of `SaveQueue`), so `SnapshotOrder` and `AckIsExact`
except it.

## 5. Proofs

`tlapm` proves, for every value of the constants:

| theorem | states |
|---|---|
| `RpcProofs!TypeCorrect`, `NeverParked`, `MapClean`, `FlushBeforePark` | `TypeOK`, `NoParkedWaiter`, `NoStaleEntry`, `FlushedWhenIdle` |
| `RpcProofs!RpcImplementsContract` | `Rpc` refines `CallContract` |
| `FrameScanProofs!ScanTypeCorrect`, `NeverOutOfBounds` | `ScanTypeOK`, `StackInBounds` |
| `FrameScanProofs!AcceptedIsOneValue`, `RefusesOnlyTheUnsendable` | `AcceptedDecodes`, `RefusalJustified` |
| `FrameScanProofs!NeverWaitsForWhatIsThere` | `WaitsForMore` |
| `LinkProofs!LinkTypeCorrect`, `AnnouncedIsPublished`, `RetriesWithEmptyCells` | `TypeOK`, `ConnectedMeansPublished`, `DownWhileRetrying` |
| `LinkProofs!ExitReportedOnce`, `NoLeakedSender` | `ExitOnce`, `InflightOwned` |
| `LinkProofs!NoChildLetGo` | `ChildrenHeld` |
| `LinkProofs!SeamImplementsLink` | `ProcSeam` refines `DaemonLink` |
| `SaveQueueProofs!SaveTypeCorrect`, `GateIsOwed`, `QuitAfterAcks` | `TypeOK`, `GateHasOwners`, `AllAckedThenQuit` |
| `SaveQueueProofs!WritesSerialized`, `NothingStranded`, `SnapshotsInOrder`, `AckExact` | `OneWriteInFlight`, `NoStrandedWrite`, `SnapshotOrder`, `AckIsExact`, assuming `HandlerWrites = FALSE` |
| `FileSyncProofs!FilesTyped`, `WatchIsHeld`, `OwnWritesAreQuiet`, `LoneReloadsKeepEdits` | `TypeInv`, `WatchHeld`, `OwnWriteQuiet`, `LoneReloadKeepsEdits` |
| `TerminalProofs!TerminalTypeCorrect`, `LocalOutputShown`, `NothingIsLostOnTheWay` | `TypeOK`, `LocalOutputKept`, `NothingLost` (of the proofs) |
| `DocSyncProofs!SyncAlways`, `DeltasAlwaysFit` | `SyncInv`, `DeltasFit` |
| `UndoTreeProofs!UndoTypeCorrect`, `CleanHoldsTheFile` | `TypeOK`, `CleanIsOnDisk` of `Spec` |
| `UndoTreeProofs!NothingIsLost` | `NothingUnrecorded` of `FullSpec`, assuming `"rubout"` is not in `Extras` |
| `UndoTreeProofs!TravelGoesInOrder`, `WritesGoInOrder` | `TravelInOrder`, `WritesInOrder` |
| `UndoTreeProofs!StepsAreChanges` | `StepPerChange`, with the two exceptions it names |

The assumptions are those the modules state on their constants (capacities are
positive, `MAX_DEPTH` at least 2, buffers a finite set of numbers; in `DocSync` a
finite set that is not empty, since the editor always shows a buffer). Two groups
need one more. The four about the order of writes need that no `BufWritePost` handler
writes inside a deferred quit, as `SaveReentrant.cfg` shows; the gate's two do not. And
`NothingIsLost`, which takes in that Insert is left for another window, needs the absence
of `i_CTRL-W`, `i_CTRL-U` and accepted completions, as `UndoRubout.cfg` shows;
`CleanHoldsTheFile` is about `Spec`, which has none of these keys.

The inductive invariants.

* *Rpc*. `NoParkedWaiter` alone is not inductive: a caller between its
  registration and its send is not waiting yet. `Armed` covers both; `NoStaleEntry`
  ties every entry to an undecided call; `FreshSlot` says a call not begun has an
  empty slot, so a registration cannot find an old answer. The refinement maps the
  pending map's `Some` to *accepting* and each oneshot to its *fate*; the closing step
  is where it needs `Armed` and `NoStaleEntry`: the calls whose senders are taken with
  the map are exactly the open, undecided ones. A writer that reaches its flush holds
  no frame (`FlushInv`), so what it may sleep on is flushed.
* *FrameScan*. `budget[depth - 1]` shrinks by two with each level, so the depth is
  at most half of `MAX_DEPTH` below the root (`BudgetInv`); `HandInv` says the value in
  hand was claimed at a level that exists and, past its marker, was charged for it. Only
  then is the unchecked index of `container!` inside its arrays.
  What the scan accepts and refuses rests on `WalkInv`: there is a set of values walked
  (`Walked`: end to end, all within the limits), what each level owes sums up to what is
  announced and has not started (`Levelled`), each open level has the container that
  opened it, since whose start no fewer are announced (`Opened`), and any other value is
  over (`Closed`); so the containers around the next value are as many as there are
  levels under the innermost (`AroundOpen`), which is what the budget has charged. Every
  value taken, container opened and level popped keeps this
  (`LeafWalk`, `OpenWalk`, `PopWalk`); a suspended scan leaves it as it was, because the
  value in hand is not yet one of those walked; and more bytes do not change it
  (`GrowWalk`). With no level open it is `AcceptedDecodes`. For the refusals: a frame that
  agrees with the bytes received has the same values as far as the walk got
  (`AlikeAlong`, by the first at which they would differ), hence the same
  value at the place in question; if it keeps to the limits it leaves room
  there (`LegalFits`), and each of the refusing exits says there is none (`NoRoom`,
  `MoreToCome`). The same argument says that a suspended scan holds no whole frame.
  The theorems hold for every set `Frames`, all byte strings included.
* *DaemonLink*, *ProcSeam*. `CellInv` says at which program counters the cells are
  filled. `RunInv` ties `run`, `inflight` and `exits`; the link's steps only shrink the map.
  For `ChildrenHeld`, `LegInv` says of the daemon's legs that the frames waiting in one
  are of its own connection's spawns and that all an ended leg has to do with are spawns
  the edit-host has written off (`LegOwn`), and that a run that has not sent its spawn has neither
  frame nor child anywhere (`UnsentOwn`). So the child a late frame starts is held by the
  ended leg that took it, and a leg winds down only when it holds no running child; for the
  eventual reaping there is TLC's `ChildrenReaped`. The refinement is the
  identity: a step of a run future, of the demux or of the daemon changes none of the
  link's variables, or is one of its own steps.
* *SaveQueue*. Besides types: `Slots` (one flying write per buffer in flight, and
  a queue only behind one), `Sorted` (snapshots in wire, queue and file have
  ascending ticks, bounded by the buffer's), and `Texts` (a snapshot with the buffer's
  tick has the buffer's text, and the file holds the text of an answered write or late
  bytes). `Serialized` says these of the file as it is and of the file as each late write
  could still leave it (`Landing`), so a late write moves from one such file to another
  (`LateWriteSerial`) and a task that ends late adds one (`TaskEndsSerial`).
  `SnapshotOrder` follows from `Sorted`, `AckIsExact` from `Texts`. The gate is apart
  (`GateInv`): each seq it waits for is `Owed` by a write somewhere on its way, and each
  one it waits for no longer was acknowledged (`Settled`). The first half survives an
  answer because the answer's seq leaves the gate in the same step; the second passes from
  the gate to the replay that stands for it when the last seq leaves.
* *FileSync*. Three invariants beside the types, which hold that the file leg is in the call
  its step says and that a buffer waits with its own writes only.
  - `WatchInv`, for `WatchHeld`. The property speaks of an up link only; what it
    needs to survive an outage is that a lost link carries nothing and watches nothing,
    and that between the redial and the resync nothing on the wire arms a watch that
    nobody wants. `HeldBy` is about the last watch message of any queue, so that sending
    one and serving one are two lemmas about it.
  - `QuietInv`, for `OwnWriteQuiet`. No own write is ever the difference a poll sees:
    while the leg is idle, or reads, and the watch's baseline differs from the file, the
    file's content is foreign. The leg's restat restores that after each write. Only a
    watch with a baseline, which `ServeWatch` compares with the file, could report one:
    the landing of the startup file sends it, and nothing was written before (`Fresh`),
    since the buffer had no name until then.
  - `WayInv`, for `LoneReloadKeepsEdits`. A fetch or a write is in one place on its way,
    from its task over the wire and the leg to the inbox, or in none (`Sole`, `Gone`);
    each step moves it on or drops it, and only the editor begins one (`Kept`). Until
    two fetches overlap there is at most one of the buffer, and a loaded buffer without a
    marker in `reload_posts` has none at all: so bytes that land there were
    asked for with the present tick. `Sole` of the writes says that a save that lands
    always changes `saves`, which is how the property tells it from a reload.
* *Terminal*. `LocalInv` counts: what the child has printed is what is shown, plus
  the chunks in the event channel, in the reader's hand and in the PTY (`Accounted`);
  nothing follows an exit, which is sent only when the child is dead and the PTY dry
  (`ExitLast`), so after it all is shown (`AllShown`). `Unborn` says that before the opening command is taken
  there is nothing on the way, and that there is one such command. `NothingLost`
  counts the same of the remote terminal, over its seven queues, and of the pushes that
  share the link with it: `FlowInv` adds only what holds before the opening (`Before`),
  and every step of the forwarder, the writer, the link, the splitter and the demux is
  shown to take a frame off one queue and put it in the next (`FrameMoves`, `LegMoves`),
  from what an `Append` and a `Tail` do to the count of a queue (`CopiesAppend`,
  `CopiesTail`). After a drop it says nothing: the queues on both sides are thrown away.
* *DocSync*. `DeltasFit` speaks of what a server has taken, the editor's `last` of what
  it will have taken; between the two is a queue. `ChainFits` says that each
  note in it fits what the ones before leave, `Leads` that the last leaves what the
  editor believes (`CopyInv`). A note is then shown to fit where it is appended, not
  where it is read. That one journal serves all servers (`JournalInv`: every open
  document was last synced where its buffer's journal begins) makes the appended delta fit; a process that
  ended has neither queue nor documents (`EndedInv`), so a respawn begins the chain
  anew, and what was left queued is ignored by a server that has nothing open.
* *UndoTree*. The properties need the tree's shape: a move must land on a node of
  it. `TreeOK` says that the current state is in the tree and every node's path leads
  through nodes of the tree that are older; pruning and re-rooting preserve it
  because they take whole subtrees and cut every path at the new root. `Recorded` says that
  a live text the current node does not hold is in an open group; `SavedOK` that the
  node with `saved_seq`, while the tree has it, holds the file's text. That every
  `undo`, `redo` and travel lands on a node (`MovesLandIn`) needs the
  newest child and the nearest state to exist, that is, minima and maxima of sets of
  numbers (`MinIn`, `MaxIn`). The order of travel follows from the shape alone, the
  order of writes also from `Stamped`: no two states carry the number of one write.
  For the steps, `Session` relates the mode, `snapshot_taken`, the one-shot flag and the
  typing state between two keys: a session holds its group open unless a one-shot `:g`
  closed it, and while neither that nor a refused break has happened, a change is fresh
  exactly when nothing is pending or a step is owed. Then an edit lands well, or in one of
  the two named ways (`LandedWell`).

Model-checked only: the seventeen properties of the runs about eventual behaviour
(`RequestsResolve`, `TornDownTogether`, `ReconnectingSettles`, `DisconnectHonoured`,
`SeenOutageResyncs`, `LostSpawnExits`, `KillEndsRun`, `ChildrenReaped`, `WqaSettles`,
`EveryChangeTold`, `AutoreadConverges`, `OutputShown`, `PushDelivered`, `TerminalsSettle`,
`DocConverges`, `EnsuredServes`, `StopGoesDown`): liveness under fairness is out of the
prover's reach. Every other property a passing run checks is a theorem. That the
scan's reference is what a recursive decoder computes is evaluated by TLC on every
frame of the instance and not proved, since it is an induction over the bytes.

## 6. Not modelled, and next

* *Positions*: marks, jumps, change list and extmarks shifted by edits, as functions
  over an edit against a reference.
* *The keymap matcher* with its timeout and its typeahead, and *timers and Lua tasks* of the
  event loop: the order in which a tick takes its sources.
* *Requests to language servers*: stale answers to completion and formatting.
* *Compositions*: `FileSync`, `Terminal` and `DocSync` take the link's phases as an
  environment that sees every outage; with `DaemonLink` beneath, a coalesced status
  would leave watches, terminals and servers behind, as `DaemonLinkResync.cfg` shows
  with one flag.
* *Proofs*: an abstract file that `SaveQueue` implements (a buffer's writes as one
  register).

The share of the repository's lines the models stand for stays small: most of them
render, lay out, parse or expose the editor to Lua, keep no state that interleaves,
and would be transliterations here.
