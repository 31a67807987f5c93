------------------------------- MODULE Rpc -------------------------------
(***************************************************************************)
(* One endpoint of a msgpack-RPC connection (crates/bemtvi-rpc/src/lib.rs). *)
(*                                                                         *)
(* Four actors of one connection run concurrently: the callers of          *)
(* Rpc::request / notify / notify_stream, the writer task that drains the  *)
(* two outbound channels, the reader task that dispatches inbound frames,  *)
(* and the cleanup task that couples the two halves and fails every call   *)
(* in flight once one of them ends.  The peer and the transport are the    *)
(* environment.                                                            *)
(*                                                                         *)
(* Frames are records of a kind and, for requests and responses, the       *)
(* message id; payloads are abstracted.  Every request of Reqs is one call *)
(* of Rpc::request, named by the id that next_id.fetch_add gave it.        *)
(***************************************************************************)
EXTENDS Integers, Sequences, FiniteSets

CONSTANTS
  Reqs,        \* the requests callers may issue (their message ids)
  Producers,   \* tasks that call notify_stream
  NoId,        \* the id of a frame that answers and asks nothing
  StreamCap,   \* STREAM_CAP, capacity of the bulk channel
  BufCap,      \* frames the BufWriter holds before it writes through
  WireCap,     \* frames the transport holds in each direction
  InCaps,      \* in_cap of connect_bounded; 0 stands for connect (unbounded)
  MaxOut,      \* bound on the control frames queued by notify and respond
  MaxPush,     \* bound on the frames the peer sends besides its answers
  Unasked      \* their kinds

ASSUME ReqsAssumption == NoId \notin Reqs /\ NoId \notin Producers
ASSUME CapAssumption ==
  /\ StreamCap \in Nat \ {0} /\ BufCap \in Nat \ {0} /\ WireCap \in Nat \ {0}
  /\ InCaps \subseteq Nat /\ MaxOut \in Nat /\ MaxPush \in Nat

VARIABLES
  open,      \* TRUE while the pending map is Some(..)
  pending,   \* ids whose oneshot sender sits in the map
  call,      \* per request: where its caller is
  slot,      \* per request: what its oneshot channel holds
  out,       \* unbounded control channel
  stream,    \* bounded bulk channel
  prod,      \* per producer: idle, or awaiting room in the bulk channel
  wpc,       \* writer task: where it is
  hold,      \* frame the writer is inside write_all with
  wbuf,      \* frames in the BufWriter
  wire,      \* bytes on the way to the peer
  inwire,    \* frames on the way from the peer
  reader,       \* reader task: reading or ended
  inq,       \* decoded frames awaiting the consumer
  consumer,  \* TRUE while the consumer keeps its receiver
  cap,       \* capacity of that queue; 0 when it has none
  handles,   \* TRUE while some Rpc handle is alive
  abort,     \* tasks the cleanup task has aborted
  cleanup,   \* cleanup task: waiting, draining, done
  peer,      \* TRUE while the peer keeps its end open
  todo,      \* requests the peer has received and not answered
  pushes     \* frames the peer sent besides its answers

callVars   == <<call, slot>>
mapVars    == <<open, pending>>
queueVars  == <<out, stream, prod>>
writerVars == <<wpc, hold, wbuf>>
readVars   == <<reader, inq, consumer, cap>>
tearVars   == <<abort, cleanup>>
peerVars   == <<peer, todo, pushes>>
vars == <<callVars, mapVars, queueVars, writerVars, wire, inwire, readVars,
          handles, tearVars, peerVars>>

NoFrame   == [k |-> "none", id |-> NoId]
\* A notification, a reply to a peer's request or bulk data of notify_stream:
\* nothing here depends on which, the queue it waits in apart.
Note      == [k |-> "note", id |-> NoId]
ReqFrame(r) == [k |-> "req", id |-> r]

OutFrames == {Note} \cup {ReqFrame(r) : r \in Reqs}

\* Inbound: answers, pushes (requests and notifications of the peer), frames
\* that are well-formed msgpack but no RPC message, and frames over a limit.
Push   == [k |-> "push", id |-> NoId]
Junk   == [k |-> "junk", id |-> NoId]
TooBig == [k |-> "toobig", id |-> NoId]
Ok(r)  == [k |-> "ok", id |-> r]
Err(r) == [k |-> "err", id |-> r]
InFrames == {Push, Junk, TooBig}
              \cup {Ok(r) : r \in Reqs} \cup {Err(r) : r \in Reqs}

Finished == {"ok", "rpcError", "closed", "tooLarge", "cancelled"}
CallStates == {"idle", "registered", "waiting"} \cup Finished
SlotStates == {"empty", "ok", "err", "refused", "dropped"}

TypeOK ==
  /\ open \in BOOLEAN
  /\ pending \subseteq Reqs
  /\ call \in [Reqs -> CallStates]
  /\ slot \in [Reqs -> SlotStates]
  /\ out \in Seq(OutFrames)
  /\ stream \in Seq({Note})
  /\ prod \in [Producers -> {"idle", "sending"}]
  /\ wpc \in {"recv", "ctl", "bulk", "flush", "ended"}
  /\ hold \in OutFrames \cup {NoFrame}
  /\ wbuf \in Seq(OutFrames)
  /\ wire \in Seq(OutFrames)
  /\ inwire \in Seq(InFrames)
  /\ reader \in {"reading", "ended"}
  /\ inq \in Seq({Push})
  /\ consumer \in BOOLEAN
  /\ cap \in InCaps
  /\ handles \in BOOLEAN
  /\ abort \subseteq {"writer", "reader"}
  /\ cleanup \in {"waiting", "draining", "done"}
  /\ peer \in BOOLEAN
  /\ todo \subseteq Reqs
  /\ pushes \in 0..MaxPush

\* connect / connect_bounded: channels, an empty pending map, three tasks.
Init ==
  /\ open = TRUE /\ pending = {}
  /\ call = [r \in Reqs |-> "idle"] /\ slot = [r \in Reqs |-> "empty"]
  /\ out = <<>> /\ stream = <<>> /\ prod = [p \in Producers |-> "idle"]
  /\ wpc = "recv" /\ hold = NoFrame /\ wbuf = <<>>
  /\ wire = <<>> /\ inwire = <<>>
  /\ reader = "reading" /\ inq = <<>> /\ consumer = TRUE
  /\ cap \in InCaps
  /\ handles = TRUE /\ abort = {} /\ cleanup = "waiting"
  /\ peer = TRUE /\ todo = {} /\ pushes = 0

-----------------------------------------------------------------------------
(* Callers *)

\* Rpc::request up to the release of the lock: the sender enters the map while
\* it is Some, and the call is refused once it is None.
Register(r) ==
  /\ handles /\ call[r] = "idle"
  /\ IF open
     THEN /\ pending' = pending \cup {r}
          /\ call' = [call EXCEPT ![r] = "registered"]
     ELSE /\ call' = [call EXCEPT ![r] = "closed"]
          /\ UNCHANGED pending
  /\ UNCHANGED <<open, slot, queueVars, writerVars, wire, inwire, readVars,
                 handles, tearVars, peerVars>>

\* The frame is over a limit: Err, and PendingGuard takes the entry back.
RefuseLarge(r) ==
  /\ call[r] = "registered"
  /\ pending' = pending \ {r}
  /\ call' = [call EXCEPT ![r] = "tooLarge"]
  /\ UNCHANGED <<open, slot, queueVars, writerVars, wire, inwire, readVars,
                 handles, tearVars, peerVars>>

\* out.send: fails once the writer task has dropped its receiver.
SendFrame(r) ==
  /\ call[r] = "registered"
  /\ IF wpc # "ended"
     THEN /\ out' = Append(out, ReqFrame(r))
          /\ call' = [call EXCEPT ![r] = "waiting"]
          /\ UNCHANGED pending
     ELSE /\ call' = [call EXCEPT ![r] = "closed"]
          /\ pending' = pending \ {r}
          /\ UNCHANGED out
  /\ UNCHANGED <<open, slot, stream, prod, writerVars, wire, inwire, readVars,
                 handles, tearVars, peerVars>>

Outcome(s) == CASE s = "ok" -> "ok"
                [] s \in {"err", "refused"} -> "rpcError"
                [] s = "dropped" -> "closed"

\* rx.await completes: with the answer, with the reason of refuse_peer, or with
\* an error because the sender was dropped.
Resolve(r) ==
  /\ call[r] = "waiting" /\ slot[r] # "empty"
  /\ call' = [call EXCEPT ![r] = Outcome(slot[r])]
  /\ UNCHANGED <<slot, mapVars, queueVars, writerVars, wire, inwire, readVars,
                 handles, tearVars, peerVars>>

\* Mutant: no PendingGuard.
CancelNoGuard(r) ==
  /\ call[r] = "waiting"
  /\ call' = [call EXCEPT ![r] = "cancelled"]
  /\ UNCHANGED <<mapVars, slot, queueVars, writerVars, wire, inwire, readVars,
                 handles, tearVars, peerVars>>

\* The caller drops the future at its await (a caller-side timeout); the guard
\* removes the entry unless dispatch or teardown already did.
Cancel(r) ==
  /\ call[r] = "waiting"
  /\ call' = [call EXCEPT ![r] = "cancelled"]
  /\ pending' = pending \ {r}
  /\ UNCHANGED <<open, slot, queueVars, writerVars, wire, inwire, readVars,
                 handles, tearVars, peerVars>>

\* notify: queues without bound (MaxOut bounds the model) and never waits; the
\* frame is dropped when the writer is gone or when it is over a limit.
Notify ==
  /\ handles /\ Len(out) < MaxOut /\ wpc # "ended"
  /\ out' = Append(out, Note)
  /\ UNCHANGED <<callVars, mapVars, stream, prod, writerVars, wire, inwire,
                 readVars, handles, tearVars, peerVars>>

\* notify_stream: the producer hands its chunk over once the channel has room.
StreamBegin(p) ==
  /\ handles /\ prod[p] = "idle" /\ wpc # "ended"
  /\ prod' = [prod EXCEPT ![p] = "sending"]
  /\ UNCHANGED <<callVars, mapVars, out, stream, writerVars, wire, inwire,
                 readVars, handles, tearVars, peerVars>>

StreamSend(p) ==
  /\ prod[p] = "sending"
  /\ IF wpc # "ended"
     THEN Len(stream) < StreamCap /\ stream' = Append(stream, Note)
     ELSE UNCHANGED stream
  /\ prod' = [prod EXCEPT ![p] = "idle"]
  /\ UNCHANGED <<callVars, mapVars, out, writerVars, wire, inwire, readVars,
                 handles, tearVars, peerVars>>

\* The last Rpc handle goes: no call and no producer still borrows one.
DropHandles ==
  /\ handles
  /\ \A r \in Reqs : call[r] \notin {"registered", "waiting"}
  /\ \A p \in Producers : prod[p] = "idle"
  /\ handles' = FALSE
  /\ UNCHANGED <<callVars, mapVars, queueVars, writerVars, wire, inwire,
                 readVars, tearVars, peerVars>>

-----------------------------------------------------------------------------
(* Writer task *)

\* The receivers and the BufWriter drop with the task, and what they held.
EndWriter ==
  /\ wpc' = "ended" /\ hold' = NoFrame /\ wbuf' = <<>>
  /\ out' = <<>> /\ stream' = <<>>

\* select! biased: control first, then bulk, and the end once both are closed.
WriterRecv ==
  /\ wpc = "recv"
  /\ \/ /\ out # <<>>
        /\ hold' = Head(out) /\ out' = Tail(out) /\ wpc' = "ctl"
        /\ UNCHANGED <<stream, wbuf>>
     \/ /\ out = <<>> /\ stream # <<>>
        /\ hold' = Head(stream) /\ stream' = Tail(stream) /\ wpc' = "ctl"
        /\ UNCHANGED <<out, wbuf>>
     \/ /\ out = <<>> /\ stream = <<>> /\ ~handles
        /\ EndWriter
  /\ UNCHANGED <<callVars, mapVars, prod, wire, inwire, readVars, handles,
                 tearVars, peerVars>>

\* write_all into the BufWriter, which writes through when it is full.
WriterWrite ==
  /\ wpc # "ended" /\ hold # NoFrame
  /\ \/ /\ Len(wbuf) < BufCap
        /\ wbuf' = Append(wbuf, hold) /\ hold' = NoFrame
        /\ UNCHANGED wire
     \/ /\ Len(wbuf) = BufCap /\ Len(wire) < WireCap
        /\ wire' = Append(wire, Head(wbuf)) /\ wbuf' = Tail(wbuf)
        /\ UNCHANGED hold
  /\ UNCHANGED <<callVars, mapVars, queueVars, wpc, inwire, readVars, handles,
                 tearVars, peerVars>>

\* while let Ok(more) = out_rx.try_recv()
WriterCtl ==
  /\ wpc = "ctl" /\ hold = NoFrame
  /\ IF out # <<>>
     THEN hold' = Head(out) /\ out' = Tail(out) /\ UNCHANGED wpc
     ELSE wpc' = "bulk" /\ UNCHANGED <<hold, out>>
  /\ UNCHANGED <<callVars, mapVars, stream, prod, wbuf, wire, inwire, readVars,
                 handles, tearVars, peerVars>>

\* Mutant: parks for more input without the flush.
WriterBulkNoFlush ==
  /\ wpc = "bulk" /\ hold = NoFrame
  /\ IF stream # <<>>
     THEN hold' = Head(stream) /\ stream' = Tail(stream) /\ UNCHANGED wpc
     ELSE wpc' = "recv" /\ UNCHANGED <<hold, stream>>
  /\ UNCHANGED <<callVars, mapVars, out, prod, wbuf, wire, inwire, readVars,
                 handles, tearVars, peerVars>>

\* while !write_err { match stream_rx.try_recv() .. }: out is not looked at
\* again before the bulk channel has been seen empty.
WriterBulk ==
  /\ wpc = "bulk" /\ hold = NoFrame
  /\ IF stream # <<>>
     THEN hold' = Head(stream) /\ stream' = Tail(stream) /\ UNCHANGED wpc
     ELSE wpc' = "flush" /\ UNCHANGED <<hold, stream>>
  /\ UNCHANGED <<callVars, mapVars, out, prod, wbuf, wire, inwire, readVars,
                 handles, tearVars, peerVars>>

\* flush: frame by frame as the transport takes them, then back to the select.
WriterFlush ==
  /\ wpc = "flush"
  /\ IF wbuf # <<>>
     THEN /\ Len(wire) < WireCap
          /\ wire' = Append(wire, Head(wbuf)) /\ wbuf' = Tail(wbuf)
          /\ UNCHANGED wpc
     ELSE wpc' = "recv" /\ UNCHANGED <<wbuf, wire>>
  /\ UNCHANGED <<callVars, mapVars, queueVars, hold, inwire, readVars, handles,
                 tearVars, peerVars>>

\* write_all or flush fails once the peer is gone.
WriterError ==
  /\ ~peer /\ (wpc = "flush" \/ (wpc # "ended" /\ hold # NoFrame))
  /\ EndWriter
  /\ UNCHANGED <<callVars, mapVars, prod, wire, inwire, readVars, handles,
                 tearVars, peerVars>>

\* JoinHandle::abort takes effect at some later poll.
WriterAborted ==
  /\ "writer" \in abort /\ wpc # "ended"
  /\ EndWriter
  /\ UNCHANGED <<callVars, mapVars, prod, wire, inwire, readVars, handles,
                 tearVars, peerVars>>

-----------------------------------------------------------------------------
(* Reader task *)

InRoom == cap = 0 \/ Len(inq) < cap

\* dispatch of an answer: the entry leaves the map and its oneshot is resolved;
\* an id the map does not hold is ignored.
ReadAnswer ==
  /\ reader = "reading" /\ inwire # <<>> /\ Head(inwire).k \in {"ok", "err"}
  /\ LET r == Head(inwire).id IN
       IF r \in pending
       THEN /\ pending' = pending \ {r}
            /\ slot' = [slot EXCEPT ![r] = Head(inwire).k]
       ELSE UNCHANGED <<pending, slot>>
  /\ inwire' = Tail(inwire)
  /\ UNCHANGED <<call, open, queueVars, writerVars, wire, readVars, handles,
                 tearVars, peerVars>>

\* dispatch of a request or a notification: pushed to the consumer, waiting for
\* room when the sink is bounded; the task ends when the consumer is gone.
ReadPush ==
  /\ reader = "reading" /\ inwire # <<>> /\ Head(inwire) = Push
  /\ IF consumer
     THEN InRoom /\ inq' = Append(inq, Push) /\ UNCHANGED reader
     ELSE reader' = "ended" /\ UNCHANGED inq
  /\ inwire' = Tail(inwire)
  /\ UNCHANGED <<callVars, mapVars, queueVars, writerVars, wire, consumer,
                 cap, handles, tearVars, peerVars>>

\* A value that is no RPC message is ignored.
ReadJunk ==
  /\ reader = "reading" /\ inwire # <<>> /\ Head(inwire) = Junk
  /\ inwire' = Tail(inwire)
  /\ UNCHANGED <<callVars, mapVars, queueVars, writerVars, wire, readVars,
                 handles, tearVars, peerVars>>

\* refuse_peer: the map is taken and every call in it fails with the reason.
ReadTooBig ==
  /\ reader = "reading" /\ inwire # <<>> /\ Head(inwire) = TooBig
  /\ slot' = [r \in Reqs |-> IF r \in pending THEN "refused" ELSE slot[r]]
  /\ open' = FALSE /\ pending' = {}
  /\ reader' = "ended"
  /\ inwire' = Tail(inwire)
  /\ UNCHANGED <<call, queueVars, writerVars, wire, inq, consumer, cap,
                 handles, tearVars, peerVars>>

ReadEof ==
  /\ reader = "reading" /\ inwire = <<>> /\ ~peer
  /\ reader' = "ended"
  /\ UNCHANGED <<callVars, mapVars, queueVars, writerVars, wire, inwire, inq,
                 consumer, cap, handles, tearVars, peerVars>>

ReaderAborted ==
  /\ "reader" \in abort /\ reader # "ended"
  /\ reader' = "ended"
  /\ UNCHANGED <<callVars, mapVars, queueVars, writerVars, wire, inwire, inq,
                 consumer, cap, handles, tearVars, peerVars>>

-----------------------------------------------------------------------------
(* Cleanup task *)

\* Mutant: the survivor is left running.
CleanupNoAbort ==
  /\ cleanup = "waiting" /\ (wpc = "ended" \/ reader = "ended")
  /\ cleanup' = "draining"
  /\ UNCHANGED <<callVars, mapVars, queueVars, writerVars, wire, inwire,
                 readVars, handles, abort, peerVars>>

\* select! over the two join handles: abort the survivor.
CleanupAbort ==
  /\ cleanup = "waiting"
  /\ \/ wpc = "ended" /\ abort' = abort \cup {"reader"}
     \/ reader = "ended" /\ abort' = abort \cup {"writer"}
  /\ cleanup' = "draining"
  /\ UNCHANGED <<callVars, mapVars, queueVars, writerVars, wire, inwire,
                 readVars, handles, peerVars>>

\* Mutant: the map is not taken.
CleanupNoTake ==
  /\ cleanup = "draining" /\ cleanup' = "done"
  /\ UNCHANGED <<callVars, mapVars, queueVars, writerVars, wire, inwire,
                 readVars, handles, abort, peerVars>>

\* Mutant: the map is emptied but stays Some, so later calls enter it.
CleanupDrain ==
  /\ cleanup = "draining"
  /\ slot' = [r \in Reqs |-> IF r \in pending THEN "dropped" ELSE slot[r]]
  /\ pending' = {}
  /\ cleanup' = "done"
  /\ UNCHANGED <<call, open, queueVars, writerVars, wire, inwire, readVars,
                 handles, abort, peerVars>>

\* cleanup.lock().unwrap().take(): every sender left in the map drops.
CleanupTake ==
  /\ cleanup = "draining"
  /\ slot' = [r \in Reqs |-> IF r \in pending THEN "dropped" ELSE slot[r]]
  /\ open' = FALSE /\ pending' = {}
  /\ cleanup' = "done"
  /\ UNCHANGED <<call, queueVars, writerVars, wire, inwire, readVars, handles,
                 abort, peerVars>>

-----------------------------------------------------------------------------
(* Consumer of the inbound queue: the server or client loop. *)

\* It takes a push; a peer's request it answers through Rpc::respond (a small
\* error reply when the result is over a limit).
ConsumerTake ==
  /\ consumer /\ inq # <<>>
  /\ inq' = Tail(inq)
  /\ \/ UNCHANGED out
     \/ handles /\ wpc # "ended" /\ Len(out) < MaxOut /\ out' = Append(out, Note)
  /\ UNCHANGED <<callVars, mapVars, stream, prod, writerVars, wire, inwire,
                 reader, consumer, cap, handles, tearVars, peerVars>>

ConsumerDrop ==
  /\ consumer
  /\ consumer' = FALSE /\ inq' = <<>>
  /\ UNCHANGED <<callVars, mapVars, queueVars, writerVars, wire, inwire, reader,
                 cap, handles, tearVars, peerVars>>

-----------------------------------------------------------------------------
(* The peer and the transport (environment) *)

PeerRead ==
  /\ peer /\ wire # <<>>
  /\ wire' = Tail(wire)
  /\ todo' = IF Head(wire).k = "req" THEN todo \cup {Head(wire).id} ELSE todo
  /\ UNCHANGED <<callVars, mapVars, queueVars, writerVars, inwire, readVars,
                 handles, tearVars, peer, pushes>>

PeerAnswer(r) ==
  /\ peer /\ r \in todo /\ Len(inwire) < WireCap
  /\ todo' = todo \ {r}
  /\ inwire' \in {Append(inwire, Ok(r)), Append(inwire, Err(r))}
  /\ UNCHANGED <<callVars, mapVars, queueVars, writerVars, wire, readVars,
                 handles, tearVars, peer, pushes>>

\* Pushes, values that are no message, frames over a limit, answers nobody
\* asked for.
PeerPush ==
  /\ peer /\ pushes < MaxPush /\ Len(inwire) < WireCap
  /\ pushes' = pushes + 1
  /\ \E f \in InFrames : f.k \in Unasked /\ inwire' = Append(inwire, f)
  /\ UNCHANGED <<callVars, mapVars, queueVars, writerVars, wire, readVars,
                 handles, tearVars, peer, todo>>

PeerClose ==
  /\ peer /\ peer' = FALSE
  /\ UNCHANGED <<callVars, mapVars, queueVars, writerVars, wire, inwire,
                 readVars, handles, tearVars, todo, pushes>>

-----------------------------------------------------------------------------
Writer  == WriterRecv \/ WriterWrite \/ WriterCtl \/ WriterBulk \/ WriterFlush
             \/ WriterError \/ WriterAborted
Reader  == ReadAnswer \/ ReadPush \/ ReadJunk \/ ReadTooBig \/ ReadEof
             \/ ReaderAborted
Cleanup == CleanupAbort \/ CleanupTake
Caller(r) == Register(r) \/ RefuseLarge(r) \/ SendFrame(r) \/ Resolve(r)
               \/ Cancel(r)
Producer(p) == StreamBegin(p) \/ StreamSend(p)
Peer == PeerRead \/ (\E r \in Reqs : PeerAnswer(r)) \/ PeerPush \/ PeerClose

Next ==
  \/ \E r \in Reqs : Caller(r)
  \/ \E p \in Producers : Producer(p)
  \/ Notify \/ DropHandles
  \/ Writer \/ Reader \/ Cleanup
  \/ ConsumerTake \/ ConsumerDrop
  \/ Peer

Spec == Init /\ [][Next]_vars

(***************************************************************************)
(* Fairness.  tokio polls every task that can make progress, so the writer,*)
(* the reader, the cleanup task and a caller between two awaits are weakly *)
(* fair, and an abort takes effect at a later poll.  A bounded tokio       *)
(* channel hands its permits out in FIFO order, so a producer whose send   *)
(* becomes possible again and again is served (strong fairness).  The peer *)
(* reads what it is sent and answers what it read.                         *)
(* Nothing obliges a caller to call, a consumer to consume or a connection *)
(* to end.                                                                 *)
(***************************************************************************)
Fairness ==
  /\ WF_vars(Writer) /\ WF_vars(Reader) /\ WF_vars(Cleanup)
  /\ WF_vars(WriterAborted) /\ WF_vars(ReaderAborted)
  /\ \A r \in Reqs : WF_vars(SendFrame(r) \/ RefuseLarge(r)) /\ WF_vars(Resolve(r))
  /\ \A p \in Producers : SF_vars(StreamSend(p))
  /\ WF_vars(PeerRead) /\ \A r \in Reqs : WF_vars(PeerAnswer(r))

\* A bounded endpoint is for a consumer that drains it (connect_bounded's
\* contract); the consumer of an unbounded one may stop at any time.
FairSpec == Spec /\ Fairness /\ WF_vars(cap > 0 /\ ConsumerTake)

-----------------------------------------------------------------------------
(* Properties *)

\* A caller parked on its oneshot can still be woken: its sender is in the map,
\* and the map has not been taken.  This is the interleaving Rpc::request and
\* the cleanup task must exclude (a sender inserted after the drain).
NoParkedWaiter ==
  \A r \in Reqs : call[r] = "waiting" /\ slot[r] = "empty"
                     => open /\ r \in pending

\* The map holds no entry of a call that is over, however the call ended:
\* answered, cancelled, refused as too large, or failed on a dead writer.
NoStaleEntry ==
  \A r \in pending : /\ open
                      /\ call[r] \in {"registered", "waiting"}
                      /\ slot[r] = "empty"

\* Every loop of the writer flushes before it parks: no frame sits in the
\* BufWriter while the writer waits for more input.
FlushedWhenIdle == wpc = "recv" => wbuf = <<>> /\ hold = NoFrame

\* The endpoint implements the contract of Rpc::request: the pending map, the
\* oneshots and the three tasks never let a call end twice, in a way that was
\* not decided for it, or outside the one step that closes the connection.
CallPhase == [r \in Reqs |-> IF call[r] \in {"registered", "waiting"} THEN "open"
                             ELSE call[r]]

Contract == INSTANCE CallContract
              WITH Calls <- Reqs, accepting <- open, fate <- slot, phase <- CallPhase

ImplementsContract == Contract!Spec

\* When either half ends, the other ends too and the map is taken, so every
\* call still in flight is failed: an end is for ever, and never lasts as the
\* end of one half alone.
TornDownTogether ==
  []<>(wpc = "ended" \/ reader = "ended"
         => wpc = "ended" /\ reader = "ended" /\ ~open)

\* The writer gets back to its select again and again.
BulkPauses == []<>(wpc \in {"recv", "ended"})

\* No call is in flight for ever: the unbounded sink never parks the reader before
\* an answer, even if the consumer never drains its queue, and the bounded one
\* as long as it does.  The premise excludes a bulk channel that never runs
\* empty (ControlNotStarved).
RequestsResolve ==
  BulkPauses =>
    \A r \in Reqs : []<>(call[r] \notin {"registered", "waiting"})

\* writer_task says the control channel is always preferred over the bulk one:
\* a control frame that is queued leaves the queue.
ControlNotStarved ==
  \A r \in Reqs :
    (\E i \in DOMAIN out : out[i] = ReqFrame(r))
      ~> ~(\E i \in DOMAIN out : out[i] = ReqFrame(r))

=============================================================================
