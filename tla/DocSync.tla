------------------------------ MODULE DocSync ------------------------------
(***************************************************************************)
(* A buffer's text and the language servers that hold copies of it: the    *)
(* editor's document sync (crates/bemtvi-server/src/lsp/sync.rs), the      *)
(* supervisor and the task of each server (crates/bemtvi-lsp/src/          *)
(* manager.rs), and the processes those tasks start, lose and replace.     *)
(*                                                                         *)
(* A text is the number of edits behind it.  A journal is then the text it *)
(* starts from, and a didChange carries the interval it replays, or the    *)
(* whole text.  The supervisor forwards each command in order and decides  *)
(* nothing by what the tasks do meanwhile, so its hop is part of the send. *)
(* Servers know nothing of each other, so the event channel is kept as one *)
(* queue per server.                                                       *)
(***************************************************************************)
EXTENDS Integers, Sequences, SequencesExt

CONSTANTS
  Keys,        \* the servers the configuration names (ServerKey)
  Buffers,     \* the files the session edits, one document each
  SyncKind,    \* what each server asks for: "incremental" or "full"
  GiveUp,      \* GIVE_UP: failures in a row that stop the respawning
  MaxEdits,    \* bound on the changes of text and the writes
  MaxCrashes,  \* bound on the lifetimes of a server that fail
  MaxStops,    \* bound on stops, restarts and reconnects
  MaxOps       \* bound on starts, buffer switches, moves and deletions

ASSUME DocSyncAssumption ==
  /\ SyncKind \in [Keys -> {"incremental", "full"}]
  /\ IsFiniteSet(Buffers) /\ Buffers # {}
  /\ GiveUp \in Nat \ {0}
  /\ {MaxEdits, MaxCrashes, MaxStops, MaxOps} \subseteq Nat

VARIABLES
  ed,       \* the editor: current and listed buffers, running and ensured keys
  text,     \* each buffer's text
  jrn,      \* each buffer's journal for the language servers
  saves,    \* each buffer's save_tick
  doc,      \* what the editor keeps of each buffer and server
  servers,  \* the task the supervisor has for each key, 0 when none
  tasks,    \* the tasks of the servers, in the order they started
  events,   \* events on their way to the editor
  hist      \* history and bounds

vars == <<ed, text, jrn, saves, doc, servers, tasks, events, hist>>

manager == <<servers, tasks, events>>
content == <<text, jrn, saves>>

Closed  == -1    \* the server does not have the document open
Garbled == -2    \* the server was told what does not fit the text it holds

NoDoc   == [bound |-> FALSE, opened |-> FALSE, version |-> 0, last |-> 0, save |-> 0]
Unread(b) == [from |-> text[b], resync |-> FALSE]

Init ==
  /\ ed = [cur |-> CHOOSE b \in Buffers : TRUE, open |-> Buffers,
           runtime |-> {}, ensured |-> {}]
  /\ text = [b \in Buffers |-> 0] /\ saves = [b \in Buffers |-> 0]
  /\ jrn = [b \in Buffers |-> [from |-> 0, resync |-> FALSE]]
  /\ doc = [b \in Buffers |-> [k \in Keys |-> NoDoc]]
  /\ events = [k \in Keys |-> <<>>]
  /\ servers = [k \in Keys |-> 0] /\ tasks = <<>>
  /\ hist = [edits |-> 0, crashes |-> 0, stops |-> 0, ops |-> 0, stopped |-> {}, replaced |-> {},
             stray |-> FALSE]

Note(type, b) == [type |-> type, buf |-> b]
Bound(k)      == {b \in Buffers : doc[b][k].bound}

Live(t)   == tasks[t].phase \in {"start", "serve"}
Ended(t)  == tasks[t].phase = "ended"
Nothing   == [b \in Buffers |-> [text |-> Closed, version |-> 0]]
NewTask(k) ==
  [key |-> k, phase |-> "start", queue |-> <<>>, failures |-> 0, docs |-> Nothing]

\* The supervisor's tx for a key, and its receiver still there.
Open(k) == servers[k] # 0 /\ ~Ended(servers[k])

\* run_supervisor: what is sent to each key joins its task's queue.
Sent(M) ==
  [t \in DOMAIN tasks |->
     IF servers[tasks[t].key] = t /\ ~Ended(t)
     THEN [tasks[t] EXCEPT !.queue = @ \o M[tasks[t].key]] ELSE tasks[t]]

ToKey(k, m) == [j \in Keys |-> IF j = k THEN <<m>> ELSE <<>>]
Shutdown(k) == Sent(ToKey(k, [type |-> "shutdown"]))

\* LspCommand::Ensure, unless the key's task still has its receiver.
Ensure(k) ==
  IF Open(k) THEN UNCHANGED <<servers, tasks>>
  ELSE tasks' = Append(tasks, NewTask(k)) /\ servers' = [servers EXCEPT ![k] = Len(tasks) + 1]

\* A document the server is to be given afresh.
Unopened(d) == [d EXCEPT !.opened = FALSE, !.version = 0]
UnopenAll(ks) ==
  doc' = [b \in Buffers |-> [k \in Keys |->
            IF k \in ks THEN Unopened(doc[b][k]) ELSE doc[b][k]]]

-----------------------------------------------------------------------------
(* The user's commands. *)

Operate == hist.ops < MaxOps /\ hist' = [hist EXCEPT !.ops = @ + 1]

\* LspOp::Start: a FileType binds a buffer to a server.
Start(b, k) ==
  /\ b \in ed.open /\ hist.ops < MaxOps
  /\ hist' = [hist EXCEPT !.ops = @ + 1, !.stopped = @ \ {k}]
  /\ IF k \in ed.ensured THEN UNCHANGED <<ed, servers, tasks>>
     ELSE ed' = [ed EXCEPT !.ensured = @ \union {k}] /\ Ensure(k)
  /\ doc' = [doc EXCEPT ![b][k].bound = TRUE]
  /\ UNCHANGED <<content, events>>

Editable == hist.edits < MaxEdits /\ hist' = [hist EXCEPT !.edits = @ + 1]

\* An edit of any listed buffer; a reload replaces the whole rope.
Edit(b, whole) ==
  /\ b \in ed.open /\ Editable
  /\ text' = [text EXCEPT ![b] = @ + 1]
  /\ jrn' = [jrn EXCEPT ![b].resync = @ \/ whole]
  /\ UNCHANGED <<ed, saves, doc, manager>>

Write(b) ==
  /\ b \in ed.open /\ Editable
  /\ saves' = [saves EXCEPT ![b] = @ + 1]
  /\ UNCHANGED <<ed, text, jrn, doc, manager>>

Switch(b) ==
  /\ b \in ed.open \ {ed.cur} /\ Operate
  /\ ed' = [ed EXCEPT !.cur = b]
  /\ UNCHANGED <<content, doc, manager>>

\* The buffer is gone at once; the servers hear of it at the next redraw.
Delete(b) ==
  /\ b \in ed.open /\ ed.open # {b} /\ Operate
  /\ ed' = [ed EXCEPT !.open = @ \ {b},
                      !.cur = IF @ = b THEN CHOOSE o \in ed.open : o # b ELSE @]
  /\ UNCHANGED <<content, doc, manager>>

\* The file is opened again, under a BufferId of its own.
Reopen(b) ==
  /\ b \in Buffers \ ed.open /\ \A k \in Keys : ~doc[b][k].bound /\ Operate
  /\ ed' = [ed EXCEPT !.open = @ \union {b}, !.cur = b]
  /\ jrn' = [jrn EXCEPT ![b] = Unread(b)]
  /\ UNCHANGED <<text, saves, doc, manager>>

\* Mutant: the documents are closed, and still counted as open.
MoveKeepsDocs(b) ==
  /\ b \in ed.open /\ \E k \in Keys : doc[b][k].bound /\ Operate
  /\ tasks' = Sent([k \in Keys |-> IF doc[b][k].opened THEN <<Note("close", b)>> ELSE <<>>])
  /\ UNCHANGED <<ed, content, doc, servers, events>>

\* reopen_lsp_document: the file moved, and the document with it.
Move(b) ==
  /\ b \in ed.open /\ \E k \in Keys : doc[b][k].bound /\ Operate
  /\ doc' = [doc EXCEPT ![b] = [k \in Keys |-> [NoDoc EXCEPT !.bound = doc[b][k].bound]]]
  /\ tasks' = Sent([k \in Keys |-> IF doc[b][k].opened THEN <<Note("close", b)>> ELSE <<>>])
  /\ UNCHANGED <<ed, content, servers, events>>

-----------------------------------------------------------------------------
(* Stopping and replacing servers. *)

Intervene(k, stopped) ==
  /\ hist.stops < MaxStops
  /\ hist' = [hist EXCEPT !.stops = @ + 1, !.stopped = stopped,
                          !.replaced = @ \union {k}]

\* stop_lsp_servers: retire_lsp_server drops the documents, unless the server
\* never answered initialize.
Stop(k) ==
  /\ k \in ed.ensured /\ Intervene(k, hist.stopped \union {k})
  /\ tasks' = Shutdown(k) /\ servers' = [servers EXCEPT ![k] = 0]
  /\ ed' = [ed EXCEPT !.ensured = @ \ {k}, !.runtime = @ \ {k}]
  /\ doc' = IF k \in ed.runtime
            THEN [b \in Buffers |-> [doc[b] EXCEPT ![k] = NoDoc]] ELSE doc
  /\ UNCHANGED <<content, events>>

\* A shutdown and an ensure, which then always starts a task.
Replace(k) ==
  /\ tasks' = Append(Shutdown(k), NewTask(k))
  /\ servers' = [servers EXCEPT ![k] = Len(tasks) + 1]
  /\ ed' = [ed EXCEPT !.ensured = @ \union {k}, !.runtime = @ \ {k}]
  /\ UnopenAll({k})

\* restart_lsp_servers
Restart(k) ==
  /\ k \in ed.ensured /\ Intervene(k, hist.stopped \ {k})
  /\ Replace(k)
  /\ UNCHANGED <<content, events>>

\* resync_lsp_after_reconnect: the link took every process it carried.
Reconnect(k) ==
  /\ \A t \in DOMAIN tasks : tasks[t].key = k => tasks[t].phase # "serve"
  /\ Bound(k) # {} \/ k \in ed.runtime
  /\ Intervene(k, hist.stopped \ {k})
  /\ Replace(k)
  /\ UNCHANGED <<content, events>>

-----------------------------------------------------------------------------
(* Document sync. *)

\* did_change_content: the deltas, or the whole text.
Change(b, k, to, whole) ==
  [type |-> "change", buf |-> b, version |-> doc[b][k].version + 1, to |-> to,
   from |-> IF whole \/ SyncKind[k] = "full" THEN Closed ELSE jrn[b].from]

Opening(b) == [type |-> "open", buf |-> b, version |-> 1, to |-> text[b]]
Saving(b)  == [type |-> "save", buf |-> b, to |-> text[b]]

Wants(b, k) == doc[b][k].last # text[b]

\* What one server is sent of the current buffer, and what is then kept of it.
Notes(b, k) ==
  LET d == doc[b][k] IN
  CASE ~d.bound \/ k \notin ed.runtime -> <<>>
    [] d.bound /\ k \in ed.runtime /\ ~d.opened -> <<Opening(b)>>
    [] OTHER -> (IF Wants(b, k) THEN <<Change(b, k, text[b], jrn[b].resync)>> ELSE <<>>)
                \o (IF d.save # saves[b] THEN <<Saving(b)>> ELSE <<>>)

Synced(b, k) ==
  LET d == doc[b][k] IN
  CASE ~d.bound \/ k \notin ed.runtime -> d
    [] d.bound /\ k \in ed.runtime /\ ~d.opened ->
         [d EXCEPT !.opened = TRUE, !.version = 1, !.last = text[b], !.save = saves[b]]
    [] OTHER ->
         [d EXCEPT !.version = IF Wants(b, k) THEN @ + 1 ELSE @,
                   !.last = IF Wants(b, k) THEN text[b] ELSE @, !.save = saves[b]]

\* reap_closed_lsp_buffers: one didClose per deleted buffer the server has open.
Closes(k) ==
  LET dead == SetToSeq({b \in Buffers \ ed.open : doc[b][k].opened})
  IN  [i \in DOMAIN dead |-> Note("close", dead[i])]

\* Mutant: the journal is kept while no server wants it.
SyncKeepsJournal ==
  LET b == ed.cur IN
  /\ tasks' = Sent([k \in Keys |-> Closes(k) \o Notes(b, k)])
  /\ doc' = [o \in Buffers |-> [k \in Keys |->
               IF o \notin ed.open THEN NoDoc
               ELSE IF o = b THEN Synced(b, k) ELSE doc[o][k]]]
  /\ jrn' = IF \E k \in ed.runtime : doc[b][k].opened /\ Wants(b, k)
            THEN [jrn EXCEPT ![b] = Unread(b)] ELSE jrn
  /\ UNCHANGED <<ed, text, saves, servers, events, hist>>

\* sync_lsp: the redraw after every batch of events or input.  The journal is
\* drained once for all the servers, and also when none of them wanted it.
Sync ==
  LET b == ed.cur IN
  /\ tasks' = Sent([k \in Keys |-> Closes(k) \o Notes(b, k)])
  /\ doc' = [o \in Buffers |-> [k \in Keys |->
               IF o \notin ed.open THEN NoDoc
               ELSE IF o = b THEN Synced(b, k) ELSE doc[o][k]]]
  /\ jrn' = [jrn EXCEPT ![b] = Unread(b)]
  /\ UNCHANGED <<ed, text, saves, servers, events, hist>>

\* sync_lsp_buffer: a workspace edit of a buffer that is not the current one.
WorkspaceEdit(b) ==
  LET wants == {k \in ed.runtime : doc[b][k].opened}
      to    == text[b] + 1 IN
  /\ b \in ed.open \ {ed.cur} /\ Editable
  /\ \E k \in Keys : doc[b][k].bound
  /\ text' = [text EXCEPT ![b] = to]
  /\ jrn' = [jrn EXCEPT ![b] = [from |-> to, resync |-> FALSE]]
  /\ tasks' = Sent([k \in Keys |-> IF k \in wants
                THEN <<Change(b, k, to, jrn[b].resync)>> ELSE <<>>])
  /\ doc' = [doc EXCEPT ![b] = [k \in Keys |-> IF k \in wants
                THEN [doc[b][k] EXCEPT !.version = @ + 1, !.last = to] ELSE doc[b][k]]]
  /\ UNCHANGED <<ed, saves, servers, events>>

\* LspEvent::Initialized: a server that holds no document.
OnInitialized(k) ==
  /\ events[k] # <<>> /\ Head(events[k]) = "initialized"
  /\ ed' = [ed EXCEPT !.runtime = @ \union {k}]
  /\ UnopenAll({k})
  /\ events' = [events EXCEPT ![k] = Tail(@)]
  /\ UNCHANGED <<content, servers, tasks, hist>>

\* Mutant: the lazy-start guard outlives the server.
OnExitedStaysEnsured(k) ==
  /\ events[k] # <<>> /\ Head(events[k]) = "exited"
  /\ ed' = [ed EXCEPT !.runtime = @ \ {k}]
  /\ IF k \in ed.runtime THEN UnopenAll({k}) ELSE UNCHANGED doc
  /\ events' = [events EXCEPT ![k] = Tail(@)]
  /\ UNCHANGED <<content, servers, tasks, hist>>

\* LspEvent::ServerExited: the documents are kept for a respawn.
OnExited(k) ==
  /\ events[k] # <<>> /\ Head(events[k]) = "exited"
  /\ ed' = [ed EXCEPT !.ensured = @ \ {k}, !.runtime = @ \ {k}]
  /\ IF k \in ed.runtime THEN UnopenAll({k}) ELSE UNCHANGED doc
  /\ events' = [events EXCEPT ![k] = Tail(@)]
  /\ UNCHANGED <<content, servers, tasks, hist>>

-----------------------------------------------------------------------------
(* The tasks of the servers. *)

\* The process answered initialize.
Initialize(t) ==
  /\ tasks[t].phase = "start"
  /\ tasks' = [tasks EXCEPT ![t].phase = "serve"]
  /\ events' = [events EXCEPT ![tasks[t].key] = Append(@, "initialized")]
  /\ UNCHANGED <<ed, content, doc, servers, hist>>

\* What a process makes of a notification.  Deltas must start from the text it
\* holds, and a didSave says that this text is in the file.
Take(d, m) ==
  CASE m.type = "open"  -> [text |-> m.to, version |-> m.version]
    [] m.type = "close" -> [text |-> Closed, version |-> 0]
    [] m.type = "change" /\ d.text # Closed ->
         [version |-> m.version,
          text |-> IF m.from \in {Closed, d.text} /\ m.version = d.version + 1
                   THEN m.to ELSE Garbled]
    [] m.type = "save" /\ d.text \notin {Closed, m.to} -> [d EXCEPT !.text = Garbled]
    [] OTHER -> d

\* A notification the protocol forbids for the state the document is in.
Stray(d, m) == (m.type = "open") = (d.text # Closed)

\* The serve loop passes a notification on.
Deliver(t) ==
  LET m == Head(tasks[t].queue)
      d == tasks[t].docs[m.buf] IN
  /\ tasks[t].phase = "serve" /\ tasks[t].queue # <<>> /\ m.type # "shutdown"
  /\ tasks' = [tasks EXCEPT ![t].queue = Tail(@), ![t].docs[m.buf] = Take(d, m)]
  /\ hist' = [hist EXCEPT !.stray = @ \/ Stray(d, m)]
  /\ UNCHANGED <<ed, content, doc, servers, events>>

EndTask(t) ==
  [tasks EXCEPT ![t] = [NewTask(@.key) EXCEPT !.phase = "ended"]]

\* The serve loop is told to stop; no event says so.
ShutDown(t) ==
  /\ tasks[t].phase = "serve" /\ tasks[t].queue # <<>>
  /\ Head(tasks[t].queue).type = "shutdown"
  /\ tasks' = EndTask(t)
  /\ UNCHANGED <<ed, content, doc, servers, events, hist>>

\* Mutant: the failed lifetime forgets to look whether it was to stop.
FailIgnoringClosed(t) ==
  /\ Live(t) /\ hist.crashes < MaxCrashes
  /\ hist' = [hist EXCEPT !.crashes = @ + 1]
  /\ events' = [events EXCEPT ![tasks[t].key] = Append(@, "exited")]
  /\ \E n \in 1..(tasks[t].failures + 1) :
       tasks' = IF n >= GiveUp THEN EndTask(t)
                ELSE [tasks EXCEPT ![t].phase = "backoff", ![t].queue = <<>>,
                                   ![t].docs = Nothing, ![t].failures = n]
  /\ UNCHANGED <<ed, content, doc, servers>>

\* A lifetime fails: the queue is drained, the exit reported, and the breaker
\* decides.  Failures older than its window are forgotten.
Fail(t) ==
  LET k == tasks[t].key IN
  /\ Live(t) /\ hist.crashes < MaxCrashes
  /\ hist' = [hist EXCEPT !.crashes = @ + 1]
  /\ events' = [events EXCEPT ![k] = Append(@, "exited")]
  /\ \E n \in 1..(tasks[t].failures + 1) :
       tasks' = IF servers[k] # t \/ n >= GiveUp THEN EndTask(t)
                ELSE [tasks EXCEPT ![t].phase = "backoff", ![t].queue = <<>>,
                                   ![t].docs = Nothing, ![t].failures = n]
  /\ UNCHANGED <<ed, content, doc, servers>>

\* The backoff ends: another lifetime, whatever is in the queue.
Respawn(t) ==
  /\ tasks[t].phase = "backoff"
  /\ tasks' = [tasks EXCEPT ![t].phase = "start"]
  /\ UNCHANGED <<ed, content, doc, servers, events, hist>>

-----------------------------------------------------------------------------

Editor ==
  \/ \E b \in Buffers, k \in Keys : Start(b, k)
  \/ \E b \in Buffers, whole \in BOOLEAN : Edit(b, whole)
  \/ \E b \in Buffers : Write(b) \/ Switch(b) \/ Delete(b) \/ Reopen(b) \/ Move(b)
                        \/ WorkspaceEdit(b)
  \/ \E k \in Keys : Stop(k) \/ Restart(k) \/ Reconnect(k)
  \/ Sync

Handle(k) == OnInitialized(k) \/ OnExited(k)
Proceed(t) == Initialize(t) \/ Deliver(t) \/ ShutDown(t) \/ Respawn(t)

Next ==
  \/ Editor
  \/ \E k \in Keys : Handle(k)
  \/ \E t \in DOMAIN tasks : Proceed(t) \/ Fail(t)

Spec == Init /\ [][Next]_vars

\* The run loop redraws after each batch and reads its events; the tokio tasks
\* run; a server answers initialize or fails (INIT_GRACE).
Fairness ==
  /\ WF_vars(Sync)
  /\ \A k \in Keys : WF_vars(Handle(k))
  /\ \A t \in 1..(MaxOps + MaxStops) : WF_vars(t \in DOMAIN tasks /\ Proceed(t))

FairSpec == Spec /\ Fairness

-----------------------------------------------------------------------------
(* Properties. *)

\* What a server is sent fits the text it holds, however its crashes, the
\* other servers' needs and the redraws interleave: the journal is drained once
\* for all of them and never replayed over a text that holds it already, the
\* versions of a document are consecutive, and a write is announced after the
\* change it wrote.
DeltasFit ==
  \A t \in DOMAIN tasks, b \in Buffers : tasks[t].docs[b].text # Garbled

Serves(k)  == servers[k] # 0 /\ tasks[servers[k]].phase = "serve"
Holds(b, k) == tasks[servers[k]].docs[b].text = text[b]
Attended(b, k) ==
  b = ed.cur /\ doc[b][k].bound /\ Serves(k)

\* A server that runs ends up with the text of the buffer bound to it: after
\* any crash and respawn, and after a restart if the editor still counts it
\* among its clients.
DocConverges ==
  \A b \in Buffers, k \in Keys :
    <>[](Attended(b, k) /\ (k \in ed.runtime \/ k \notin hist.replaced) => Holds(b, k))

\* A server the editor believes started is, in the end: one the breaker gave up
\* on, or whose exit was reported, is startable again.
EnsuredServes == \A k \in Keys : <>[](k \in ed.ensured => Serves(k))

\* A stop takes every process of the server down, the one a doomed task may
\* respawn on its way included.
StopGoesDown ==
  \A k \in Keys : k \in hist.stopped
    ~> (k \notin hist.stopped \/ \A t \in DOMAIN tasks : tasks[t].key = k => Ended(t))

\* What the comments promise and the code does not keep.

\* drain_queued: nothing meant for one process reaches the next.
NoLeftovers == ~hist.stray

\* restart_lsp_servers: every bound buffer is opened under the fresh process.
RestartReopens ==
  \A b \in Buffers, k \in Keys : <>[](Attended(b, k) => Holds(b, k))

\* retire_lsp_server: a stopped server is no client any more.
NoPhantomClient ==
  \A k \in Keys : k \in ed.runtime /\ events[k] = <<>> => servers[k] # 0

\* stop_lsp_servers finds every running server.
RunningCanBeStopped ==
  \A k \in Keys : k \in ed.runtime /\ Serves(k) /\ events[k] = <<>>
    => k \in ed.ensured
=============================================================================
