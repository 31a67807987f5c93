----------------------------- MODULE RpcProofs -----------------------------
(***************************************************************************)
(* Type correctness of Rpc, the two invariants that tie a caller, its      *)
(* oneshot and the pending map together, and that Rpc implements           *)
(* CallContract, for any number of requests and producers and any          *)
(* capacities.                                                             *)
(***************************************************************************)
EXTENDS Rpc, TLAPS

\* What the strengthening adds to NoParkedWaiter: a call between its
\* registration and its send is armed already, ...
Armed ==
  \A r \in Reqs : call[r] \in {"registered", "waiting"} /\ slot[r] = "empty"
                     => open /\ r \in pending

\* ... and the oneshot of a call that has not begun is empty.
FreshSlot == \A r \in Reqs : call[r] = "idle" => slot[r] = "empty"

CallInv == Armed /\ NoStaleEntry /\ FreshSlot

IInv == TypeOK /\ CallInv

\* The frames an endpoint queues and the ones it receives have their types; an
\* inbound answer names a request.
LEMMA FrameTypes ==
  /\ Note \in OutFrames
  /\ \A r \in Reqs : ReqFrame(r) \in OutFrames
  /\ Push \in InFrames
  /\ \A r \in Reqs : Ok(r) \in InFrames /\ Err(r) \in InFrames
  /\ \A f \in InFrames : f.k \in {"ok", "err"} => f.id \in Reqs
  /\ \A f \in OutFrames : f.k = "req" => f.id \in Reqs
<1>1. /\ Note \in OutFrames
      /\ \A r \in Reqs : ReqFrame(r) \in OutFrames
  BY DEF OutFrames
<1>2. /\ Push \in InFrames
      /\ \A r \in Reqs : Ok(r) \in InFrames /\ Err(r) \in InFrames
  BY DEF InFrames
<1>3. ASSUME NEW f \in InFrames, f.k \in {"ok", "err"} PROVE f.id \in Reqs
  <2>1. f \notin {Push, Junk, TooBig}
    BY <1>3 DEF Push, Junk, TooBig
  <2>2. PICK r \in Reqs : f = Ok(r) \/ f = Err(r)
    BY <1>3, <2>1 DEF InFrames
  <2> QED BY <2>2 DEF Ok, Err
<1>4. ASSUME NEW f \in OutFrames, f.k = "req" PROVE f.id \in Reqs
  <2>1. f # Note
    BY <1>4 DEF Note
  <2>2. PICK r \in Reqs : f = ReqFrame(r)
    BY <1>4, <2>1 DEF OutFrames
  <2> QED BY <2>2 DEF ReqFrame
<1> QED BY <1>1, <1>2, <1>3, <1>4

\* What queueing and dequeueing do to the type of a channel.
LEMMA ChannelTypes ==
  ASSUME NEW S, NEW q \in Seq(S)
  PROVE  /\ \A e \in S : Append(q, e) \in Seq(S)
         /\ q # <<>> => Head(q) \in S /\ Tail(q) \in Seq(S)
         /\ <<>> \in Seq(S)
OBVIOUS

\* A call ends in one of the finished states, whatever its oneshot held.
LEMMA OutcomeFinished ==
  ASSUME NEW s \in SlotStates, s # "empty"
  PROVE  Outcome(s) \in Finished
BY DEF Outcome, SlotStates, Finished

\* Every action keeps the types, for every value of the constants.
LEMMA TypeStep == TypeOK /\ [Next]_vars => TypeOK'
<1> SUFFICES ASSUME TypeOK, [Next]_vars PROVE TypeOK'
  OBVIOUS
<1> USE FrameTypes, CapAssumption
<1>a. /\ \A e \in OutFrames : Append(out, e) \in Seq(OutFrames)
      /\ out # <<>> => Head(out) \in OutFrames /\ Tail(out) \in Seq(OutFrames)
      /\ <<>> \in Seq(OutFrames)
  BY ChannelTypes DEF TypeOK
<1>b. /\ \A e \in {Note} : Append(stream, e) \in Seq({Note})
      /\ stream # <<>> => Head(stream) \in {Note} /\ Tail(stream) \in Seq({Note})
      /\ <<>> \in Seq({Note})
  BY ChannelTypes DEF TypeOK
<1>c. /\ \A e \in OutFrames : Append(wbuf, e) \in Seq(OutFrames)
      /\ wbuf # <<>> => Head(wbuf) \in OutFrames /\ Tail(wbuf) \in Seq(OutFrames)
      /\ <<>> \in Seq(OutFrames)
  BY ChannelTypes DEF TypeOK
<1>d. /\ \A e \in OutFrames : Append(wire, e) \in Seq(OutFrames)
      /\ wire # <<>> => Head(wire) \in OutFrames /\ Tail(wire) \in Seq(OutFrames)
  BY ChannelTypes DEF TypeOK
<1>e. /\ \A e \in InFrames : Append(inwire, e) \in Seq(InFrames)
      /\ inwire # <<>> => Head(inwire) \in InFrames /\ Tail(inwire) \in Seq(InFrames)
  BY ChannelTypes DEF TypeOK
<1>f. /\ Append(inq, Push) \in Seq({Push}) /\ <<>> \in Seq({Push})
      /\ inq # <<>> => Tail(inq) \in Seq({Push})
  BY ChannelTypes DEF TypeOK
<1>1. ASSUME NEW r \in Reqs, Caller(r) PROVE TypeOK'
  <2>1. CASE Register(r)
    BY <2>1 DEF Register, TypeOK, CallStates, Finished, queueVars, writerVars,
                readVars, tearVars, peerVars
  <2>2. CASE RefuseLarge(r)
    BY <2>2 DEF RefuseLarge, TypeOK, CallStates, Finished, queueVars, writerVars,
                readVars, tearVars, peerVars
  <2>3. CASE SendFrame(r)
    <3>1. call' \in [Reqs -> CallStates] /\ pending' \subseteq Reqs
      BY <2>3 DEF SendFrame, TypeOK, CallStates, Finished
    <3>2. out' \in Seq(OutFrames)
      <4>1. ReqFrame(r) \in OutFrames
        OBVIOUS
      <4> HIDE FrameTypes, CapAssumption
      <4> QED BY <2>3, <1>a, <4>1 DEF SendFrame, TypeOK
    <3> HIDE FrameTypes, CapAssumption
    <3> QED
      BY <2>3, <3>1, <3>2 DEF SendFrame, TypeOK, writerVars, readVars, tearVars,
                              peerVars
  <2>4. CASE Resolve(r)
    <3>1. Outcome(slot[r]) \in CallStates
      BY <2>4, OutcomeFinished DEF Resolve, TypeOK, CallStates
    <3> QED
      BY <2>4, <3>1 DEF Resolve, TypeOK, mapVars, queueVars, writerVars,
                        readVars, tearVars, peerVars
  <2>5. CASE Cancel(r)
    BY <2>5 DEF Cancel, TypeOK, CallStates, Finished, queueVars, writerVars,
                readVars, tearVars, peerVars
  <2> QED BY <1>1, <2>1, <2>2, <2>3, <2>4, <2>5 DEF Caller
<1>2. ASSUME NEW p \in Producers, Producer(p) PROVE TypeOK'
  <2>1. CASE StreamBegin(p)
    BY <2>1 DEF StreamBegin, TypeOK, callVars, mapVars, writerVars, readVars,
                tearVars, peerVars
  <2>2. CASE StreamSend(p)
    BY <2>2, <1>b DEF StreamSend, TypeOK, callVars, mapVars, writerVars, readVars,
                tearVars, peerVars
  <2> QED BY <1>2, <2>1, <2>2 DEF Producer
<1>3. CASE Notify
  BY <1>3, <1>a DEF Notify, TypeOK, callVars, mapVars, writerVars, readVars,
              tearVars, peerVars
<1>4. CASE DropHandles
  BY <1>4 DEF DropHandles, TypeOK, callVars, mapVars, queueVars, writerVars,
              readVars, tearVars, peerVars
<1>5. CASE Writer
  <2>1. CASE WriterRecv
    BY <2>1, <1>a, <1>b, <1>c DEF WriterRecv, EndWriter, TypeOK, callVars, mapVars, readVars,
                tearVars, peerVars
  <2>2. CASE WriterWrite
    BY <2>2, <1>c, <1>d DEF WriterWrite, TypeOK, callVars, mapVars, queueVars, readVars,
                tearVars, peerVars
  <2>3. CASE WriterCtl
    BY <2>3, <1>a DEF WriterCtl, TypeOK, callVars, mapVars, readVars, tearVars,
                peerVars
  <2>4. CASE WriterBulk
    BY <2>4, <1>b DEF WriterBulk, TypeOK, callVars, mapVars, readVars, tearVars,
                peerVars
  <2>5. CASE WriterFlush
    BY <2>5, <1>c, <1>d DEF WriterFlush, TypeOK, callVars, mapVars, queueVars, readVars,
                tearVars, peerVars
  <2>6. CASE WriterError
    BY <2>6, <1>a, <1>b, <1>c DEF WriterError, EndWriter, TypeOK, callVars, mapVars, readVars,
                tearVars, peerVars
  <2>7. CASE WriterAborted
    BY <2>7, <1>a, <1>b, <1>c DEF WriterAborted, EndWriter, TypeOK, callVars, mapVars, readVars,
                tearVars, peerVars
  <2> QED BY <1>5, <2>1, <2>2, <2>3, <2>4, <2>5, <2>6, <2>7 DEF Writer
<1>6. CASE Reader
  <2>1. CASE ReadAnswer
    BY <2>1, <1>e DEF ReadAnswer, TypeOK, SlotStates, queueVars, writerVars, readVars,
                tearVars, peerVars
  <2>2. CASE ReadPush
    BY <2>2, <1>e, <1>f DEF ReadPush, TypeOK, callVars, mapVars, queueVars, writerVars,
                tearVars, peerVars
  <2>3. CASE ReadJunk
    BY <2>3, <1>e DEF ReadJunk, TypeOK, callVars, mapVars, queueVars, writerVars,
                readVars, tearVars, peerVars
  <2>4. CASE ReadTooBig
    BY <2>4, <1>e DEF ReadTooBig, TypeOK, SlotStates, queueVars, writerVars, tearVars,
                peerVars
  <2>5. CASE ReadEof
    BY <2>5 DEF ReadEof, TypeOK, callVars, mapVars, queueVars, writerVars,
                tearVars, peerVars
  <2>6. CASE ReaderAborted
    BY <2>6 DEF ReaderAborted, TypeOK, callVars, mapVars, queueVars, writerVars,
                tearVars, peerVars
  <2> QED BY <1>6, <2>1, <2>2, <2>3, <2>4, <2>5, <2>6 DEF Reader
<1>7. CASE Cleanup
  <2>1. CASE CleanupAbort
    BY <2>1 DEF CleanupAbort, TypeOK, callVars, mapVars, queueVars, writerVars,
                readVars, peerVars
  <2>2. CASE CleanupTake
    BY <2>2 DEF CleanupTake, TypeOK, SlotStates, queueVars, writerVars, readVars,
                peerVars
  <2> QED BY <1>7, <2>1, <2>2 DEF Cleanup
<1>8. CASE ConsumerTake
  BY <1>8, <1>a, <1>f DEF ConsumerTake, TypeOK, callVars, mapVars, writerVars, tearVars,
              peerVars
<1>9. CASE ConsumerDrop
  BY <1>9, <1>f DEF ConsumerDrop, TypeOK, callVars, mapVars, queueVars, writerVars,
              tearVars, peerVars
<1>10. CASE Peer
  <2>1. CASE PeerRead
    BY <2>1, <1>d DEF PeerRead, TypeOK, callVars, mapVars, queueVars, writerVars,
                readVars, tearVars
  <2>2. ASSUME NEW r \in Reqs, PeerAnswer(r) PROVE TypeOK'
    BY <2>2, <1>e, ZenonT(40) DEF PeerAnswer, TypeOK, callVars, mapVars, queueVars, writerVars,
                readVars, tearVars
  <2>3. CASE PeerPush
    BY <2>3, <1>e DEF PeerPush, TypeOK, callVars, mapVars, queueVars, writerVars,
                readVars, tearVars
  <2>4. CASE PeerClose
    BY <2>4 DEF PeerClose, TypeOK, callVars, mapVars, queueVars, writerVars,
                readVars, tearVars
  <2> QED BY <1>10, <2>1, <2>2, <2>3, <2>4 DEF Peer
<1>11. CASE UNCHANGED vars
  BY <1>11 DEF TypeOK, vars, callVars, mapVars, queueVars, writerVars, readVars,
               tearVars, peerVars
<1> QED
  BY <1>1, <1>2, <1>3, <1>4, <1>5, <1>6, <1>7, <1>8, <1>9, <1>10, <1>11 DEF Next

\* The variables of an endpoint always have their types.
THEOREM TypeCorrect == Spec => []TypeOK
<1>1. Init => TypeOK
  BY CapAssumption DEF Init, TypeOK, CallStates, SlotStates
<1> QED BY <1>1, TypeStep, PTL DEF Spec

\* The step that matters: registration, the three ways a sender leaves the map
\* (answer, guard, take) and the resolution of a oneshot keep the three in step.
LEMMA CallStep == TypeOK /\ CallInv /\ [Next]_vars => CallInv'
<1> SUFFICES ASSUME TypeOK, CallInv, [Next]_vars PROVE CallInv'
  OBVIOUS
<1> USE DEF CallInv, Armed, NoStaleEntry, FreshSlot
<1> DEFINE Same == UNCHANGED <<callVars, mapVars>>
<1>0. ASSUME Same PROVE CallInv'
  BY <1>0 DEF callVars, mapVars
<1>1. ASSUME NEW r \in Reqs, Caller(r) PROVE CallInv'
  <2>1. CASE Register(r)
    BY <2>1 DEF Register, TypeOK
  <2>2. CASE RefuseLarge(r)
    BY <2>2 DEF RefuseLarge, TypeOK
  <2>3. CASE SendFrame(r)
    BY <2>3 DEF SendFrame, TypeOK
  <2>4. CASE Resolve(r)
    <3>1. Outcome(slot[r]) \notin {"idle", "registered", "waiting"}
      BY <2>4, OutcomeFinished DEF Resolve, TypeOK, Finished
    <3>2. r \notin pending
      BY <2>4 DEF Resolve, TypeOK
    <3> QED
      BY <2>4, <3>1, <3>2 DEF Resolve, TypeOK, mapVars
  <2>5. CASE Cancel(r)
    BY <2>5 DEF Cancel, TypeOK
  <2> QED BY <1>1, <2>1, <2>2, <2>3, <2>4, <2>5 DEF Caller
<1>2. ASSUME NEW p \in Producers, Producer(p) PROVE CallInv'
  BY <1>0, <1>2 DEF Producer, StreamBegin, StreamSend
<1>3. CASE Notify \/ DropHandles \/ ConsumerTake \/ ConsumerDrop
  BY <1>0, <1>3 DEF Notify, DropHandles, ConsumerTake, ConsumerDrop
<1>4. CASE Writer
  BY <1>0, <1>4 DEF Writer, WriterRecv, WriterWrite, WriterCtl, WriterBulk,
                    WriterFlush, WriterError, WriterAborted
<1>5. CASE Reader
  <2>1. CASE ReadAnswer
    <3> DEFINE a == Head(inwire).id
               kind == Head(inwire).k
    <3>1. CASE a \notin pending
      BY <1>0, <2>1, <3>1 DEF ReadAnswer, callVars, mapVars
    <3>2. CASE a \in pending
      <4>1. /\ kind \in {"ok", "err"}
            /\ call' = call /\ open' = open
            /\ pending' = pending \ {a}
            /\ slot' = [slot EXCEPT ![a] = kind]
        BY <2>1, <3>2 DEF ReadAnswer
      <4> HIDE DEF kind
      <4>2. kind # "empty"
        BY <4>1
      <4>3. a \in Reqs /\ call[a] # "idle"
        BY <3>2 DEF TypeOK
      <4> HIDE DEF a
      <4>4. slot'[a] # "empty" /\ \A x \in Reqs : x # a => slot'[x] = slot[x]
        BY <4>1, <4>2, <4>3 DEF TypeOK
      <4> QED BY <4>1, <4>3, <4>4 DEF TypeOK
    <3> QED BY <3>1, <3>2
  <2>2. CASE ReadTooBig
    BY <2>2 DEF ReadTooBig, TypeOK
  <2>3. CASE ReadPush \/ ReadJunk \/ ReadEof \/ ReaderAborted
    BY <1>0, <2>3 DEF ReadPush, ReadJunk, ReadEof, ReaderAborted
  <2> QED BY <1>5, <2>1, <2>2, <2>3 DEF Reader
<1>6. CASE Cleanup
  <2>1. CASE CleanupAbort
    BY <1>0, <2>1 DEF CleanupAbort
  <2>2. CASE CleanupTake
    BY <2>2 DEF CleanupTake, TypeOK
  <2> QED BY <1>6, <2>1, <2>2 DEF Cleanup
<1>7. CASE Peer
  BY <1>0, <1>7 DEF Peer, PeerRead, PeerAnswer, PeerPush, PeerClose
<1>8. CASE UNCHANGED vars
  BY <1>0, <1>8 DEF vars
<1> QED
  BY <1>1, <1>2, <1>3, <1>4, <1>5, <1>6, <1>7, <1>8 DEF Next

\* No interleaving of callers, reader, writer and cleanup leaves a caller parked
\* on a oneshot nobody can resolve (Rpc::request against connect's cleanup).
THEOREM NeverParked == Spec => []NoParkedWaiter
<1>1. Init => IInv
  BY CapAssumption DEF Init, IInv, TypeOK, CallStates, SlotStates, CallInv, Armed,
                       NoStaleEntry, FreshSlot
<1>2. IInv /\ [Next]_vars => IInv'
  BY TypeStep, CallStep DEF IInv
<1>3. IInv => NoParkedWaiter
  BY DEF IInv, CallInv, Armed, NoParkedWaiter
<1> QED BY <1>1, <1>2, <1>3, PTL DEF Spec

\* The pending map never keeps an entry of a call that is over (PendingGuard,
\* dispatch and the two takes of the map).
THEOREM MapClean == Spec => []NoStaleEntry
<1>1. Init => IInv
  BY CapAssumption DEF Init, IInv, TypeOK, CallStates, SlotStates, CallInv, Armed,
                       NoStaleEntry, FreshSlot
<1>2. IInv /\ [Next]_vars => IInv'
  BY TypeStep, CallStep DEF IInv
<1>3. IInv => NoStaleEntry
  BY DEF IInv, CallInv
<1> QED BY <1>1, <1>2, <1>3, PTL DEF Spec

\* The writer reaches its flush with nothing in hand, so it comes back to the
\* select with nothing in hand either.
FlushInv == FlushedWhenIdle /\ (wpc = "flush" => hold = NoFrame)

\* No frame waits in the BufWriter, nor in the writer's hand, while the writer
\* waits for more input: every loop of writer_task ends in its flush.
THEOREM FlushBeforePark == Spec => []FlushedWhenIdle
<1>1. Init => FlushInv
  BY DEF Init, FlushInv, FlushedWhenIdle
<1>2. FlushInv /\ [Next]_vars => FlushInv'
  <2> SUFFICES ASSUME FlushInv, [Next]_vars PROVE FlushInv'
    OBVIOUS
  <2>0. ASSUME UNCHANGED writerVars PROVE FlushInv'
    BY <2>0 DEF FlushInv, FlushedWhenIdle, writerVars
  <2>1. CASE WriterRecv \/ WriterError \/ WriterAborted
    BY <2>1 DEF WriterRecv, WriterError, WriterAborted, EndWriter, FlushInv,
                FlushedWhenIdle
  <2>2. CASE WriterWrite
    BY <2>2 DEF WriterWrite, FlushInv, FlushedWhenIdle
  <2>3. CASE WriterCtl \/ WriterBulk
    BY <2>3 DEF WriterCtl, WriterBulk, FlushInv, FlushedWhenIdle
  <2>4. CASE WriterFlush
    BY <2>4 DEF WriterFlush, FlushInv, FlushedWhenIdle
  <2>5. CASE \E r \in Reqs : Caller(r)
    BY <2>0, <2>5 DEF Caller, Register, RefuseLarge, SendFrame, Resolve, Cancel
  <2>6. CASE \E p \in Producers : Producer(p)
    BY <2>0, <2>6 DEF Producer, StreamBegin, StreamSend
  <2>7. CASE Notify \/ DropHandles \/ ConsumerTake \/ ConsumerDrop
    BY <2>0, <2>7 DEF Notify, DropHandles, ConsumerTake, ConsumerDrop
  <2>8. CASE Reader
    BY <2>0, <2>8 DEF Reader, ReadAnswer, ReadPush, ReadJunk, ReadTooBig, ReadEof,
                      ReaderAborted
  <2>9. CASE Cleanup
    BY <2>0, <2>9 DEF Cleanup, CleanupAbort, CleanupTake
  <2>10. CASE Peer
    BY <2>0, <2>10 DEF Peer, PeerRead, PeerAnswer, PeerPush, PeerClose
  <2>11. CASE UNCHANGED vars
    BY <2>0, <2>11 DEF vars
  <2> QED
    BY <2>1, <2>2, <2>3, <2>4, <2>5, <2>6, <2>7, <2>8, <2>9, <2>10, <2>11
    DEF Next, Writer
<1> QED
  BY <1>1, <1>2, PTL DEF Spec, FlushInv

-----------------------------------------------------------------------------
\* A step that touches one call moves the phase of that call only.
LEMMA PhaseMoves ==
  ASSUME TypeOK, NEW r \in Reqs, NEW s, s \notin {"registered", "waiting"},
         call' = [call EXCEPT ![r] = s]
  PROVE  CallPhase' = [CallPhase EXCEPT ![r] = s]
BY DEF TypeOK, CallPhase

\* The two takes of the map decide exactly the calls that are open and undecided.
LEMMA TakeDecidesOpen ==
  ASSUME IInv, NEW r \in Reqs, open
  PROVE  r \in pending <=> CallPhase[r] = "open" /\ slot[r] = "empty"
<1>1. CallPhase[r] = "open" <=> call[r] \in {"registered", "waiting"}
  BY DEF IInv, TypeOK, CallStates, Finished, CallPhase
<1> QED
  BY <1>1 DEF IInv, CallInv, Armed, NoStaleEntry

\* One entry taken out and its oneshot resolved is one decision of the contract.
LEMMA AnswerDecides ==
  ASSUME IInv, ReadAnswer
  PROVE  [Contract!Next]_(Contract!contractVars)
<1> DEFINE a == Head(inwire).id
           kind == Head(inwire).k
<1>1. call' = call /\ open' = open /\ CallPhase' = CallPhase
  BY DEF ReadAnswer, CallPhase
<1>2. CASE a \notin pending
  BY <1>1, <1>2 DEF ReadAnswer, Contract!contractVars
<1>3. CASE a \in pending
  <2>1. kind \in {"ok", "err"} /\ slot' = [slot EXCEPT ![a] = kind]
    BY <1>3 DEF ReadAnswer
  <2>2. a \in Reqs /\ open
    BY <1>3 DEF IInv, TypeOK, CallInv, NoStaleEntry
  <2> HIDE DEF a, kind
  <2>3. CallPhase[a] = "open" /\ slot[a] = "empty"
    BY <1>3, <2>2, TakeDecidesOpen
  <2>4. Contract!Decide(a, kind)
    BY <1>1, <2>1, <2>2, <2>3 DEF Contract!Decide
  <2> QED
    BY <2>1, <2>2, <2>4 DEF Contract!Next, Contract!Answers
<1> QED
  BY <1>2, <1>3

\* Taking the map away closes the contract; a second take finds nothing.
LEMMA TakeCloses ==
  ASSUME IInv, NEW f \in {"refused", "dropped"},
         slot' = [r \in Reqs |-> IF r \in pending THEN f ELSE slot[r]],
         open' = FALSE, call' = call
  PROVE  [Contract!Next]_(Contract!contractVars)
<1>1. CallPhase' = CallPhase
  BY DEF CallPhase
<1>2. CASE open
  <2>1. slot' = [r \in Reqs |-> IF CallPhase[r] = "open" /\ slot[r] = "empty"
                                THEN f ELSE slot[r]]
    BY <1>2, TakeDecidesOpen
  <2>2. Contract!Close(f)
    BY <1>1, <1>2, <2>1 DEF Contract!Close
  <2> QED
    BY <2>2 DEF Contract!Next, Contract!Closes
<1>3. CASE ~open
  <2>1. pending = {}
    BY <1>3 DEF IInv, TypeOK, CallInv, NoStaleEntry
  <2>2. slot' = slot
    BY <2>1 DEF IInv, TypeOK
  <2>3. open' = open
    BY <1>3 DEF IInv, TypeOK
  <2> QED
    BY <1>1, <2>2, <2>3 DEF Contract!contractVars
<1> QED
  BY <1>2, <1>3

\* What a caller does is a step of the contract, or none.
LEMMA CallerContract ==
  ASSUME IInv, NEW r \in Reqs, Caller(r)
  PROVE  [Contract!Next]_(Contract!contractVars)
<1>0. TypeOK /\ slot' = slot /\ open' = open
  BY DEF IInv, Caller, Register, RefuseLarge, SendFrame, Resolve, Cancel, mapVars
<1>p. call[r] \in {"registered", "waiting"} => CallPhase[r] = "open"
  BY DEF CallPhase
<1>w. ASSUME CallPhase[r] = "open", NEW s \in {"cancelled", "tooLarge", "closed"},
             call' = [call EXCEPT ![r] = s]
      PROVE  Contract!Next
  <2>1. CallPhase' = [CallPhase EXCEPT ![r] = s]
    BY <1>0, <1>w, PhaseMoves
  <2>2. Contract!Withdraw(r)
    BY <1>0, <1>w, <2>1 DEF Contract!Withdraw, Contract!Withdrawn
  <2> QED
    BY <2>2 DEF Contract!Next
<1>1. CASE Register(r)
  <2>1. CASE open
    <3>1. CallPhase' = [CallPhase EXCEPT ![r] = "open"] /\ CallPhase[r] = "idle"
      BY <1>0, <1>1, <2>1 DEF Register, CallPhase, TypeOK
    <3>2. Contract!Issue(r)
      BY <1>0, <2>1, <3>1 DEF Contract!Issue
    <3> QED
      BY <3>2 DEF Contract!Next
  <2>2. CASE ~open
    <3>1. call' = [call EXCEPT ![r] = "closed"] /\ CallPhase[r] = "idle"
      BY <1>0, <1>1, <2>2 DEF Register, CallPhase
    <3>2. CallPhase' = [CallPhase EXCEPT ![r] = "closed"]
      BY <1>0, <3>1, PhaseMoves
    <3>3. Contract!TurnAway(r)
      BY <1>0, <2>2, <3>1, <3>2 DEF Contract!TurnAway
    <3> QED
      BY <3>3 DEF Contract!Next
  <2> QED
    BY <2>1, <2>2
<1>2. CASE RefuseLarge(r)
  BY <1>2, <1>p, <1>w DEF RefuseLarge
<1>3. CASE SendFrame(r)
  <2>1. CASE wpc # "ended"
    <3>1. CallPhase' = CallPhase
      BY <1>0, <1>3, <2>1 DEF SendFrame, CallPhase, TypeOK
    <3> QED
      BY <1>0, <3>1 DEF Contract!contractVars
  <2>2. CASE wpc = "ended"
    BY <1>3, <2>2, <1>p, <1>w DEF SendFrame
  <2> QED
    BY <2>1, <2>2
<1>4. CASE Resolve(r)
  <2>1. Outcome(slot[r]) \in Finished /\ CallPhase[r] = "open"
    BY <1>0, <1>4, <1>p, OutcomeFinished DEF Resolve, TypeOK
  <2>2. CallPhase' = [CallPhase EXCEPT ![r] = Outcome(slot[r])]
    BY <1>0, <1>4, <2>1, PhaseMoves DEF Resolve, Finished
  <2>3. Contract!Told(slot[r]) = Outcome(slot[r])
    BY DEF Contract!Told, Outcome
  <2>4. Contract!Return(r)
    BY <1>0, <1>4, <2>1, <2>2, <2>3 DEF Contract!Return, Resolve
  <2> QED
    BY <2>4 DEF Contract!Next
<1>5. CASE Cancel(r)
  BY <1>5, <1>p, <1>w DEF Cancel
<1> QED
  BY <1>1, <1>2, <1>3, <1>4, <1>5 DEF Caller

\* The three tasks, the callers and the peer together keep the contract of
\* Rpc::request: in particular a connection closes in one step for every call,
\* those in flight and those still to come.
THEOREM RpcImplementsContract == Spec => ImplementsContract
<1>1. Init => IInv
  BY CapAssumption DEF Init, IInv, TypeOK, CallStates, SlotStates, CallInv, Armed,
                       NoStaleEntry, FreshSlot
<1>2. IInv /\ [Next]_vars => IInv'
  BY TypeStep, CallStep DEF IInv
<1>3. Init => Contract!Init
  BY DEF Init, Contract!Init, CallPhase
<1>4. ASSUME IInv, [Next]_vars
      PROVE  [Contract!Next]_(Contract!contractVars)
  <2>0. ASSUME UNCHANGED <<call, slot, open>>
        PROVE  [Contract!Next]_(Contract!contractVars)
    BY <2>0 DEF Contract!contractVars, CallPhase
  <2>1. ASSUME NEW r \in Reqs, Caller(r)
        PROVE  [Contract!Next]_(Contract!contractVars)
    BY <1>4, <2>1, CallerContract
  <2>2. ASSUME NEW p \in Producers, Producer(p)
        PROVE  [Contract!Next]_(Contract!contractVars)
    BY <2>0, <2>2 DEF Producer, StreamBegin, StreamSend, callVars, mapVars
  <2>3. CASE Notify \/ DropHandles \/ ConsumerTake \/ ConsumerDrop
    BY <2>0, <2>3 DEF Notify, DropHandles, ConsumerTake, ConsumerDrop, callVars,
                      mapVars
  <2>4. CASE Writer
    BY <2>0, <2>4 DEF Writer, WriterRecv, WriterWrite, WriterCtl, WriterBulk,
                      WriterFlush, WriterError, WriterAborted, callVars, mapVars
  <2>5. CASE Reader
    <3>1. CASE ReadAnswer
      BY <1>4, <3>1, AnswerDecides
    <3>2. CASE ReadTooBig
      BY <1>4, <3>2, TakeCloses DEF ReadTooBig
    <3>3. CASE ReadPush \/ ReadJunk \/ ReadEof \/ ReaderAborted
      BY <2>0, <3>3 DEF ReadPush, ReadJunk, ReadEof, ReaderAborted, callVars, mapVars
    <3> QED
      BY <2>5, <3>1, <3>2, <3>3 DEF Reader
  <2>6. CASE Cleanup
    <3>1. CASE CleanupAbort
      BY <2>0, <3>1 DEF CleanupAbort, callVars, mapVars
    <3>2. CASE CleanupTake
      BY <1>4, <3>2, TakeCloses DEF CleanupTake
    <3> QED
      BY <2>6, <3>1, <3>2 DEF Cleanup
  <2>7. CASE Peer
    BY <2>0, <2>7 DEF Peer, PeerRead, PeerAnswer, PeerPush, PeerClose, callVars,
                      mapVars
  <2>8. CASE UNCHANGED vars
    BY <2>0, <2>8 DEF vars, callVars, mapVars
  <2> QED
    BY <1>4, <2>1, <2>2, <2>3, <2>4, <2>5, <2>6, <2>7, <2>8 DEF Next
<1> QED
  BY <1>1, <1>2, <1>3, <1>4, PTL DEF Spec, ImplementsContract, Contract!Spec

=============================================================================
