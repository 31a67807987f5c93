-------------------------- MODULE SaveQueueProofs --------------------------
(***************************************************************************)
(* Type correctness of SaveQueue and its :wqa gate, and, when no           *)
(* BufWritePost handler writes in the middle of an answer, the             *)
(* serialization of a buffer's writes, the order of its snapshots on disk  *)
(* and the exactness of an answer, for any number of buffers, windows,     *)
(* edits and writes.                                                       *)
(***************************************************************************)
EXTENDS SaveQueue, FiniteSetTheorems, WellFoundedInduction, TLAPS

\* An editor state that is typed and whose windows show stored buffers; no
\* more states were recorded than edits made.
GoodEd(e) ==
  /\ e \in Editor
  /\ e.cur \in e.open
  /\ \A w \in e.open : e.buf[e.shows[w]].open
  /\ \A b \in Buffers : e.buf[b].made <= e.buf[b].tick

TypeInv == TypeOK /\ \A b \in Buffers : ed.buf[b].made <= ed.buf[b].tick

\* A set of buffer ids has a lowest one.
LEMMA LowestExists ==
  ASSUME NEW S, S \subseteq Nat, S # {}
  PROVE  \E b \in S : \A c \in S : b <= c
<1>1. PICK b \in S : \A c \in S : ~(<<c, b>> \in OpToRel(<, Nat))
  BY NatLessThanWellFounded, WFMin
<1>2. \A c \in S : ~(c < b)
  BY <1>1 DEF OpToRel
<1> QED BY <1>2

\* A quit leaves the editor well formed and its buffers alone.
LEMMA QuitAllGood ==
  ASSUME NEW e, GoodEd(e), NEW bang \in BOOLEAN, NEW parks \in BOOLEAN
  PROVE  /\ GoodEd(ExQuitAll(e, bang, parks))
         /\ ExQuitAll(e, bang, parks).buf = e.buf
<1> DEFINE lost == Modified(e)
<1>1. CASE bang \/ lost = {}
  <2>1. ExQuitAll(e, bang, parks) = RequestExit(e, bang, parks)
    BY <1>1 DEF ExQuitAll
  <2> QED BY <2>1 DEF RequestExit, GoodEd, Editor
<1>2. CASE ~(bang \/ lost = {}) /\ Current(e) \in lost
  BY <1>2 DEF ExQuitAll
<1>3. CASE ~(bang \/ lost = {}) /\ Current(e) \notin lost
  <2> DEFINE low == CHOOSE b \in lost : \A c \in lost : b <= c
  <2>1. lost \subseteq Nat /\ lost # {}
    BY <1>3, SaveAssumption DEF Modified
  <2>2. \E b \in lost : \A c \in lost : b <= c
    BY <2>1, LowestExists
  <2>3. low \in lost
    BY <2>2
  <2>4. low \in Buffers /\ e.buf[low].open
    BY <2>3 DEF Modified
  <2>5. ExQuitAll(e, bang, parks) = [e EXCEPT !.shows[e.cur] = low]
    BY <1>3 DEF ExQuitAll
  <2> HIDE DEF low
  <2> QED BY <2>4, <2>5 DEF GoodEd, Editor
<1> QED BY <1>1, <1>2, <1>3

LEMMA QuitGood ==
  ASSUME NEW e, GoodEd(e), NEW bang \in BOOLEAN, NEW parks \in BOOLEAN
  PROVE  /\ GoodEd(ExQuit(e, bang, parks))
         /\ ExQuit(e, bang, parks).buf = e.buf
<1>1. CASE e.open \ {e.cur} # {}
  <2> DEFINE nxt == CHOOSE w \in e.open \ {e.cur} : TRUE
  <2>1. nxt \in e.open \ {e.cur}
    BY <1>1
  <2>2. ExQuit(e, bang, parks) = [e EXCEPT !.open = @ \ {e.cur}, !.cur = nxt]
    BY <1>1 DEF ExQuit
  <2> HIDE DEF nxt
  <2> QED BY <2>1, <2>2 DEF GoodEd, Editor
<1>2. CASE e.open \ {e.cur} = {}
  BY <1>2, QuitAllGood DEF ExQuit
<1> QED BY <1>1, <1>2

\* What an answer does to the buffer it is for, and to no other.
LEMMA FinalizeGood ==
  ASSUME NEW e, GoodEd(e), NEW s \in PendingSave
  PROVE  /\ GoodEd(FinalizeSave(e, s))
         /\ \A b \in Buffers :
              /\ FinalizeSave(e, s).buf[b].tick = e.buf[b].tick
              /\ FinalizeSave(e, s).buf[b].text = e.buf[b].text
              /\ \/ FinalizeSave(e, s).buf[b].modified = e.buf[b].modified
                 \/ FinalizeSave(e, s).buf[b].modified
                 \/ b = s.buf /\ e.buf[b].tick = s.tick
<1>1. CASE ~e.buf[s.buf].open
  BY <1>1 DEF FinalizeSave
<1>2. CASE e.buf[s.buf].open
  <2> DEFINE old == e.buf[s.buf]
             new == IF old.tick = s.tick
                    THEN [old EXCEPT !.modified = FALSE, !.saved = old.text]
                    ELSE [old EXCEPT !.modified = TRUE]
             f   == FinalizeSave(e, s)
  <2>1. s.buf \in Buffers /\ old \in OpenBuffer
    BY DEF GoodEd, Editor, PendingSave
  <2>2. /\ new \in OpenBuffer
        /\ new.tick = old.tick /\ new.text = old.text
        /\ new.open = old.open /\ new.made = old.made
    BY <2>1 DEF OpenBuffer
  <2>3. old.tick # s.tick => new.modified = TRUE
    BY <2>1 DEF OpenBuffer
  <2>4. f = [e EXCEPT !.buf[s.buf] = new]
    BY <1>2 DEF FinalizeSave
  <2> HIDE DEF new, f
  <2>5. /\ f \in Editor
        /\ f.cur = e.cur /\ f.open = e.open /\ f.shows = e.shows
        /\ f.buf = [e.buf EXCEPT ![s.buf] = new]
    BY <2>1, <2>2, <2>4 DEF GoodEd, Editor
  <2>6. e.buf \in [Buffers -> OpenBuffer]
    BY DEF GoodEd, Editor
  <2>7. \A b \in Buffers : b # s.buf => f.buf[b] = e.buf[b]
    BY <2>1, <2>5, <2>6
  <2>8. f.buf[s.buf] = new
    BY <2>1, <2>5, <2>6
  <2>9. \A b \in Buffers : /\ f.buf[b].tick = e.buf[b].tick
                           /\ f.buf[b].text = e.buf[b].text
                           /\ f.buf[b].open = e.buf[b].open
                           /\ f.buf[b].made = e.buf[b].made
    BY <2>2, <2>7, <2>8
  <2>10. GoodEd(f)
    <3>1. \A w \in f.open : f.shows[w] \in Buffers
      BY <2>5 DEF Editor
    <3> QED BY <2>5, <2>9, <3>1 DEF GoodEd
  <2>11. ASSUME NEW b \in Buffers
         PROVE  \/ f.buf[b].modified = e.buf[b].modified
                \/ f.buf[b].modified
                \/ b = s.buf /\ e.buf[b].tick = s.tick
    BY <2>3, <2>7, <2>8, Zenon
  <2> QED BY <2>9, <2>10, <2>11 DEF f
<1> QED BY <1>1, <1>2

\* A snapshot of a well-formed editor is one, with the buffer's text and tick.
LEMMA SnapshotType ==
  ASSUME NEW e, GoodEd(e), NEW pw \in PreWrite
  PROVE  /\ Snapshot(e, pw) \in PendingSave
         /\ Snapshot(e, pw).buf = pw.buf
         /\ Snapshot(e, pw).text = e.buf[pw.buf].text
         /\ Snapshot(e, pw).tick = e.buf[pw.buf].tick
  BY DEF Snapshot, GoodEd, Editor, OpenBuffer, PreWrite, PendingSave

LEMMA EnqueueType ==
  ASSUME NEW q \in Queues, NEW S \in SUBSET PendingSave
  PROVE  Enqueue(q, S) \in Queues
<1>1. \A b \in Buffers : (\E s \in S : s.buf = b) =>
          (CHOOSE s \in S : s.buf = b) \in PendingSave
  OBVIOUS
<1>2. Enqueue(q, S).queued \in [Buffers -> Seq(PendingSave)]
  BY <1>1 DEF Enqueue, Queues
<1>3. \A s \in S : s.buf \in Buffers
  BY DEF PendingSave
<1> QED BY <1>2, <1>3 DEF Enqueue, Queues

LEMMA DispatchType ==
  ASSUME NEW q \in Queues, NEW b \in Buffers
  PROVE  DispatchNext(q, b) \in Queues
<1>1. q.queued[b] # <<>> => /\ Head(q.queued[b]) \in PendingSave
                            /\ Tail(q.queued[b]) \in Seq(PendingSave)
  BY DEF Queues
<1> QED BY <1>1 DEF DispatchNext, Queues

\* The gate and the replay keep their types.
LEMMA GateTypes ==
  ASSUME NEW g \in [bang : BOOLEAN, waiting : SUBSET Seqs, all : SUBSET Seqs],
         NEW q, NEW burst \in BOOLEAN, NEW D
  PROVE  /\ AdvanceGate(g, q) \in
              [bang : BOOLEAN, waiting : SUBSET Seqs, all : SUBSET Seqs]
         /\ CancelGate(g, D) \in
              [bang : BOOLEAN, waiting : SUBSET Seqs, all : SUBSET Seqs]
         /\ Completes(g, q, burst) \in
              [on : BOOLEAN, bang : BOOLEAN, burst : BOOLEAN, all : SUBSET Seqs]
  BY DEF AdvanceGate, CancelGate, Completes, NoGate, NoReplay

\* The parts of the type invariant that a step treats apart.
Files == [Buffers -> File]
Gates == [bang : BOOLEAN, waiting : SUBSET Seqs, all : SUBSET Seqs]
Replays == [on : BOOLEAN, bang : BOOLEAN, burst : BOOLEAN, all : SUBSET Seqs]

RestOK ==
  /\ nextSeq \in 1..(MaxSeq + 1)
  /\ gated \in SUBSET PreWrite
  /\ remote \in Files
  /\ late \in SUBSET PendingSave
  /\ dones \in SUBSET SaveDone
  /\ gate \in Gates
  /\ replay \in Replays
  /\ acked \in SUBSET Seqs

LEMMA TypeParts == TypeInv <=> GoodEd(ed) /\ io \in Queues /\ RestOK
  BY DEF TypeInv, TypeOK, GoodEd, RestOK, Files, Gates, Replays

LEMMA TypeInit == Init => TypeInv
<1> SUFFICES ASSUME Init PROVE GoodEd(ed) /\ io \in Queues /\ RestOK
  BY TypeParts
<1>1. 0 \in Ticks
  BY SaveAssumption DEF Ticks
<1>2. GoodEd(ed)
  BY <1>1 DEF Init, GoodEd, Editor, OpenBuffer
<1>3. io \in Queues
  <2>1. <<>> \in Seq(PendingSave)
    OBVIOUS
  <2> QED BY <2>1 DEF Init, Queues
<1>4. RestOK
  BY <1>1, SaveAssumption
     DEF Init, RestOK, Files, File, Gates, Replays, NoGate, NoReplay
<1> QED BY <1>2, <1>3, <1>4

\* What the steps of the user that only touch the editor leave well formed.
LEMMA EditorSteps ==
  ASSUME GoodEd(ed),
         \/ \E b \in Buffers : Edit(b)
         \/ \E v \in Ticks : Undo(v)
         \/ \E w \in Windows : Focus(w)
         \/ \E b \in Buffers, force \in BOOLEAN : DeleteBuffer(b, force)
         \/ \E bang, parks \in BOOLEAN : Quit(bang, parks)
         \/ \E bang, parks \in BOOLEAN : QuitAll(bang, parks)
         \/ ExitSettled
  PROVE  GoodEd(ed)'
<1>1. ASSUME NEW b \in Buffers, Edit(b) PROVE GoodEd(ed')
  <2> DEFINE old == ed.buf[b]
             new == [old EXCEPT !.tick = old.tick + 1, !.made = old.made + 1,
                                !.text = old.made + 1, !.modified = TRUE]
  <2>1. old \in OpenBuffer /\ old.made <= old.tick /\ old.tick < MaxTick
    BY <1>1 DEF Edit, GoodEd, Editor
  <2>a. /\ old.tick \in Ticks /\ old.made \in Ticks /\ old.text \in Ticks
        /\ old.saved \in Ticks /\ old.open \in BOOLEAN
    BY <2>1 DEF OpenBuffer
  <2>b. /\ old.tick + 1 \in Ticks /\ old.made + 1 \in Ticks
        /\ old.made + 1 <= old.tick + 1
    BY <2>1, <2>a, SaveAssumption DEF Ticks
  <2>c. new \in OpenBuffer
    BY <2>1, <2>b DEF OpenBuffer
  <2>d. new.made = old.made + 1 /\ new.tick = old.tick + 1
        /\ new.open = old.open
    BY <2>1 DEF OpenBuffer
  <2>2. new \in OpenBuffer /\ new.made <= new.tick /\ new.open = old.open
    BY <2>b, <2>c, <2>d
  <2>3. ed' = [ed EXCEPT !.buf[b] = new]
    BY <1>1 DEF Edit
  <2> HIDE DEF new
  <2> QED BY <2>2, <2>3 DEF GoodEd, Editor
<1>2. ASSUME NEW v \in Ticks, Undo(v) PROVE GoodEd(ed')
  <2> DEFINE b == Current(ed)
             old == ed.buf[b]
             new == [old EXCEPT !.tick = old.tick + 1, !.text = v,
                                !.modified = (old.saved # v)]
  <2>1. b \in Buffers /\ old \in OpenBuffer
        /\ old.made <= old.tick /\ old.tick < MaxTick
    BY <1>2 DEF Undo, GoodEd, Editor, Current
  <2>a. old.tick \in Ticks /\ old.made \in Ticks
    BY <2>1 DEF OpenBuffer
  <2>b. old.tick + 1 \in Ticks /\ old.made <= old.tick + 1
    BY <2>1, <2>a, SaveAssumption DEF Ticks
  <2>c. new \in OpenBuffer
    BY <2>1, <2>b DEF OpenBuffer
  <2>d. new.made = old.made /\ new.tick = old.tick + 1
        /\ new.open = old.open
    BY <2>1 DEF OpenBuffer
  <2>2. new \in OpenBuffer /\ new.made <= new.tick /\ new.open = old.open
    BY <2>b, <2>c, <2>d
  <2>3. ed' = [ed EXCEPT !.buf[b] = new]
    BY <1>2 DEF Undo
  <2> HIDE DEF new, b
  <2> QED BY <2>1, <2>2, <2>3 DEF GoodEd, Editor
<1>3. ASSUME NEW w \in Windows, Focus(w) PROVE GoodEd(ed')
  BY <1>3 DEF Focus, GoodEd, Editor
<1>4. ASSUME NEW b \in Buffers, NEW force \in BOOLEAN, DeleteBuffer(b, force)
      PROVE  GoodEd(ed')
  <2>1. PICK c \in Buffers \ {b} :
          /\ ed.buf[c].open
          /\ ed' = [ed EXCEPT !.buf[b].open = FALSE,
                              !.shows = [w \in Windows |->
                                 IF ed.shows[w] = b THEN c ELSE ed.shows[w]]]
    BY <1>4 DEF DeleteBuffer
  <2> DEFINE new == [ed.buf[b] EXCEPT !.open = FALSE]
             sh  == [w \in Windows |->
                       IF ed.shows[w] = b THEN c ELSE ed.shows[w]]
  <2>2. ed.buf \in [Buffers -> OpenBuffer] /\ ed.shows \in [Windows -> Buffers]
    BY DEF GoodEd, Editor
  <2>3. new \in OpenBuffer /\ new.made = ed.buf[b].made
        /\ new.tick = ed.buf[b].tick
    BY <2>2 DEF OpenBuffer
  <2>4. sh \in [Windows -> Buffers]
        /\ \A w \in Windows : sh[w] # b
             /\ (sh[w] = ed.shows[w] \/ sh[w] = c)
    BY <2>2
  <2>5. ed' = [ed EXCEPT !.buf[b] = new, !.shows = sh]
    BY <2>1
  <2> HIDE DEF new, sh
  <2>6. /\ ed' \in Editor
        /\ ed'.cur = ed.cur /\ ed'.open = ed.open /\ ed'.shows = sh
        /\ ed'.buf = [ed.buf EXCEPT ![b] = new]
    BY <2>2, <2>3, <2>4, <2>5 DEF GoodEd, Editor
  <2>7. \A d \in Buffers : d # b => ed'.buf[d] = ed.buf[d]
    BY <2>2, <2>6
  <2>8. \A w \in ed'.open : ed'.buf[ed'.shows[w]].open
    BY <2>1, <2>4, <2>6, <2>7, ZenonT(40) DEF GoodEd, Editor
  <2>9. \A d \in Buffers : ed'.buf[d].made <= ed'.buf[d].tick
    BY <2>2, <2>3, <2>6, <2>7 DEF GoodEd
  <2> QED BY <2>6, <2>8, <2>9 DEF GoodEd
<1>5. ASSUME NEW bang \in BOOLEAN, NEW parks \in BOOLEAN,
             Quit(bang, parks) \/ QuitAll(bang, parks)
      PROVE  GoodEd(ed')
  BY <1>5, QuitGood, QuitAllGood DEF Quit, QuitAll
<1>6. CASE ExitSettled
  BY <1>6 DEF ExitSettled, GoodEd, Editor
<1>7. GoodEd(ed')
  BY <1>1, <1>2, <1>3, <1>4, <1>5, <1>6
<1> QED BY <1>7 DEF GoodEd

\* :w keeps the types: the seq is in range and the snapshot is a save.
LEMMA ExWriteType ==
  ASSUME TypeInv, NEW quit \in Quits, NEW fate \in {"commit", "fail", "park"},
         ExWrite(quit, fate)
  PROVE  TypeInv'
<1> DEFINE pw == [seq |-> nextSeq, buf |-> Current(ed), quit |-> quit,
                  win |-> ed.cur]
           S  == IF fate = "commit" THEN {Snapshot(ed, pw)} ELSE {}
<1>1. GoodEd(ed) /\ io \in Queues /\ RestOK
  BY TypeParts
<1>2. pw \in PreWrite /\ nextSeq + 1 \in 1..(MaxSeq + 1)
  <2>1. Current(ed) \in Buffers /\ ed.cur \in Windows
    BY <1>1 DEF GoodEd, Editor, Current
  <2>2. nextSeq \in Seqs /\ nextSeq + 1 \in 1..(MaxSeq + 1)
    BY <1>1, SaveAssumption DEF ExWrite, RestOK, Seqs
  <2> QED BY <2>1, <2>2 DEF PreWrite
<1>3. S \in SUBSET PendingSave
  BY <1>1, <1>2, SnapshotType
<1>4. /\ nextSeq' = nextSeq + 1
      /\ gated' = IF fate = "park" THEN gated \cup {pw} ELSE gated
      /\ io' = Enqueue(io, S)
      /\ UNCHANGED <<ed, remote, late, dones, gate, replay, acked>>
  BY DEF ExWrite
<1> HIDE DEF pw, S
<1>5. io' \in Queues
  BY <1>1, <1>3, <1>4, EnqueueType
<1>6. GoodEd(ed')
  BY <1>1, <1>4
<1>7. RestOK'
  BY <1>1, <1>2, <1>4 DEF RestOK
<1>8. GoodEd(ed)'
  BY <1>6 DEF GoodEd
<1>9. TypeInv' <=> (GoodEd(ed) /\ io \in Queues /\ RestOK)'
  BY TypeParts, PTL
<1> QED BY <1>5, <1>7, <1>8, <1>9

\* The seqs of a batch are new, in range and one per buffer.
LEMMA BatchSeqs ==
  ASSUME NEW B \in SUBSET Buffers, nextSeq \in 1..(MaxSeq + 1),
         nextSeq + Cardinality(B) <= MaxSeq + 1
  PROVE  /\ Cardinality(B) \in Nat
         /\ \A b \in B : nextSeq + Cardinality({c \in B : c < b}) \in Seqs
<1>1. IsFiniteSet(B) /\ Cardinality(B) \in Nat
  BY SaveAssumption, FS_Subset, FS_CardinalityType
<1>2. ASSUME NEW b \in B
      PROVE  nextSeq + Cardinality({c \in B : c < b}) \in Seqs
  <2> DEFINE L == {c \in B : c < b}
  <2>1. L \in SUBSET B /\ b \notin L
    BY SaveAssumption
  <2>2. /\ Cardinality(L) \in Nat /\ Cardinality(L) <= Cardinality(B)
        /\ Cardinality(L) = Cardinality(B) => L = B
    BY <1>1, <2>1, FS_Subset, FS_CardinalityType
  <2>3. Cardinality(L) < Cardinality(B)
    BY <1>1, <2>1, <2>2
  <2> QED BY <1>1, <2>2, <2>3, SaveAssumption DEF Seqs
<1> QED BY <1>1, <1>2

LEMMA ExWriteAllType ==
  ASSUME TypeInv, NEW quits \in BOOLEAN, NEW bang \in BOOLEAN, NEW fate,
         ExWriteAll(quits, bang, fate)
  PROVE  TypeInv'
<1> DEFINE B     == Modified(ed)
           pw(b) == [seq |-> nextSeq + Cardinality({c \in B : c < b}),
                     buf |-> b, quit |-> "none", win |-> ed.cur]
           seqs  == {pw(b).seq : b \in B}
           S     == {Snapshot(ed, pw(b)) :
                       b \in {c \in B : fate[c] = "commit"}}
           P     == {pw(b) : b \in {c \in B : fate[c] = "park"}}
           D     == {pw(b).seq : b \in {c \in B : fate[c] = "fail"}}
           g     == [bang |-> bang, waiting |-> seqs, all |-> seqs]
<1>1. GoodEd(ed) /\ io \in Queues /\ RestOK
  BY TypeParts
<1>2. B \in SUBSET Buffers /\ nextSeq + Cardinality(B) <= MaxSeq + 1
      /\ nextSeq \in 1..(MaxSeq + 1)
  BY <1>1 DEF ExWriteAll, Modified, RestOK
<1> HIDE DEF B
<1>3. /\ Cardinality(B) \in Nat
      /\ \A b \in B : nextSeq + Cardinality({c \in B : c < b}) \in Seqs
  BY <1>2, BatchSeqs
<1>4. \A b \in B : pw(b) \in PreWrite /\ pw(b).seq \in Seqs
  BY <1>1, <1>2, <1>3 DEF PreWrite, Quits, GoodEd, Editor
<1>5. /\ nextSeq' = nextSeq + Cardinality(B)
      /\ gated' = gated \cup P
      /\ io' = Enqueue(io, S)
      /\ gate' = IF quits THEN CancelGate(g, D) ELSE gate
      /\ UNCHANGED <<ed, remote, late, dones, replay, acked>>
  BY DEF ExWriteAll, B
<1> HIDE DEF pw
<1>6. S \in SUBSET PendingSave /\ P \in SUBSET PreWrite /\ seqs \in SUBSET Seqs
  BY <1>1, <1>4, SnapshotType
<1>7. g \in Gates
  BY <1>6 DEF Gates
<1> HIDE DEF S, P, D, seqs, g
<1>8. io' \in Queues
  BY <1>1, <1>5, <1>6, EnqueueType
<1>9. gate' \in Gates
  BY <1>1, <1>5, <1>7, GateTypes DEF Gates, RestOK
<1>10. nextSeq' \in 1..(MaxSeq + 1)
  BY <1>2, <1>3, <1>5, SaveAssumption
<1>11. RestOK'
  BY <1>1, <1>5, <1>6, <1>9, <1>10 DEF RestOK
<1>12. GoodEd(ed)'
  BY <1>1, <1>5 DEF GoodEd
<1>13. TypeInv' <=> (GoodEd(ed) /\ io \in Queues /\ RestOK)'
  BY TypeParts, PTL
<1> QED BY <1>8, <1>11, <1>12, <1>13

\* A parked write that commits, fails or is moot keeps the types.
LEMMA GateDoneType ==
  ASSUME TypeInv, NEW pw \in gated, NEW fate \in {"commit", "fail"},
         GateDone(pw, fate)
  PROVE  GoodEd(ed') /\ io' \in Queues /\ RestOK'
<1> DEFINE S == IF fate = "commit" THEN {Snapshot(ed, pw)} ELSE {}
<1>1. GoodEd(ed) /\ io \in Queues /\ RestOK
  BY TypeParts
<1>2. pw \in PreWrite /\ pw.seq \in Seqs
  BY <1>1 DEF RestOK, PreWrite
<1>3. S \in SUBSET PendingSave
  BY <1>1, <1>2, SnapshotType
<1>4. io' = io \/ io' = Enqueue(io, S)
  BY DEF GateDone
<1> HIDE DEF S
<1>5. io' \in Queues
  BY <1>1, <1>3, <1>4, EnqueueType
<1>6. /\ gate' = gate \/ gate' = AdvanceGate(gate, pw.seq)
         \/ gate' = CancelGate(gate, {pw.seq})
      /\ replay' = replay \/ replay' = Completes(gate, pw.seq, FALSE)
      /\ acked' = acked \/ acked' = acked \cup {pw.seq}
      /\ gated' = gated \ {pw}
      /\ UNCHANGED <<ed, nextSeq, remote, late, dones>>
  BY DEF GateDone
<1>7. gate \in Gates
  BY <1>1 DEF RestOK
<1>8. gate' \in Gates
  BY <1>6, <1>7, GateTypes DEF Gates
<1>9. replay' \in Replays
  <2>1. FALSE \in BOOLEAN
    OBVIOUS
  <2>2. Completes(gate, pw.seq, FALSE) \in Replays
    BY <1>7, <2>1, GateTypes DEF Gates, Replays
  <2> QED BY <1>1, <1>6, <2>2 DEF RestOK
<1>10. RestOK'
  BY <1>1, <1>2, <1>6, <1>8, <1>9 DEF RestOK
<1> QED BY <1>1, <1>5, <1>6, <1>10

LEMMA TaskEndsType ==
  ASSUME TypeInv, NEW s \in io.wire, NEW fate \in WriteFates, NEW ok \in BOOLEAN,
         TaskEnds(s, fate, ok)
  PROVE  GoodEd(ed') /\ io' \in Queues /\ RestOK'
<1>1. GoodEd(ed) /\ io \in Queues /\ RestOK
  BY TypeParts
<1>2. s \in PendingSave /\ s.buf \in Buffers
      /\ s.text \in Ticks /\ s.tick \in Ticks
  BY <1>1 DEF Queues, PendingSave
<1>3. io' \in Queues
  BY <1>1 DEF TaskEnds, Queues
<1>4. remote' \in Files /\ late' \in SUBSET PendingSave
  <2>1. Holds(s, FALSE) \in File
    BY <1>2 DEF Holds, File
  <2> QED BY <1>1, <1>2, <2>1 DEF TaskEnds, RestOK, Files
<1>5. dones' \in SUBSET SaveDone
  BY <1>1, <1>2 DEF TaskEnds, RestOK, SaveDone
<1> QED BY <1>1, <1>3, <1>4, <1>5 DEF TaskEnds, RestOK

LEMMA LateWriteType ==
  ASSUME TypeInv, NEW s \in late, LateWrite(s)
  PROVE  GoodEd(ed') /\ io' \in Queues /\ RestOK'
<1>1. GoodEd(ed) /\ io \in Queues /\ RestOK
  BY TypeParts
<1>2. Holds(s, TRUE) \in File
  BY <1>1 DEF RestOK, PendingSave, Holds, File
<1>3. remote' \in Files
  BY <1>1, <1>2 DEF LateWrite, RestOK, Files
<1> QED BY <1>1, <1>3 DEF LateWrite, RestOK

LEMMA ApplyOkType ==
  ASSUME TypeInv, NEW d \in dones, NEW parks \in BOOLEAN, NEW hook \in BOOLEAN,
         ApplyOk(d, parks, hook)
  PROVE  GoodEd(ed') /\ io' \in Queues /\ RestOK'
<1> DEFINE s  == d.save
           e1 == FinalizeSave(ed, s)
           e2 == IF s.quit = "none" THEN e1 ELSE ExQuit(e1, s.quit = "q!", parks)
           e3 == IF s.quit # "none" /\ replay.on
                 THEN ExQuitAll(e2, replay.bang, parks) ELSE e2
           hw == [seq |-> nextSeq, buf |-> Current(e2), quit |-> "none",
                  win |-> e2.cur]
           q1 == [io EXCEPT !.inflight = @ \ {s.buf}]
           q2 == IF hook THEN Enqueue(q1, {Snapshot(e2, hw)}) ELSE q1
           r1 == IF s.quit = "none" THEN replay ELSE NoReplay
           r2 == Completes(gate, s.seq, TRUE)
<1>1. GoodEd(ed) /\ io \in Queues /\ RestOK
  BY TypeParts
<1>2. s \in PendingSave /\ s.buf \in Buffers /\ s.seq \in Seqs
  BY <1>1 DEF RestOK, SaveDone, PendingSave
<1>3. /\ hook => nextSeq <= MaxSeq
      /\ dones' = dones \ {d}
      /\ ed' = e3
      /\ nextSeq' = IF hook THEN nextSeq + 1 ELSE nextSeq
      /\ gate' = AdvanceGate(gate, s.seq)
      /\ replay' = IF r2.on THEN r2 ELSE r1
      /\ acked' = acked \cup {s.seq}
      /\ io' = DispatchNext(q2, s.buf)
      /\ UNCHANGED <<gated, remote, late>>
  BY DEF ApplyOk
<1>4. replay.bang \in BOOLEAN /\ (s.quit = "q!") \in BOOLEAN
  BY <1>1 DEF RestOK, Replays
<1> HIDE DEF s
<1>5. GoodEd(e1)
  BY <1>1, <1>2, FinalizeGood
<1> HIDE DEF e1
<1>6. GoodEd(e2)
  BY <1>4, <1>5, QuitGood
<1> HIDE DEF e2
<1>7. GoodEd(e3)
  BY <1>4, <1>6, QuitAllGood
<1> HIDE DEF e3
<1>8. q1 \in Queues
  BY <1>1 DEF Queues
<1> HIDE DEF q1
<1>9. q2 \in Queues
  <2>1. CASE hook
    <3>1. hw \in PreWrite
      BY <1>1, <1>3, <1>6, <2>1, SaveAssumption
         DEF PreWrite, GoodEd, Editor, Current, Quits, Seqs, RestOK
    <3> HIDE DEF hw
    <3>2. {Snapshot(e2, hw)} \in SUBSET PendingSave
      BY <1>6, <3>1, SnapshotType
    <3> QED BY <1>8, <2>1, <3>2, EnqueueType
  <2>2. CASE ~hook
    BY <1>8, <2>2
  <2> QED BY <2>1, <2>2
<1> HIDE DEF q2
<1>10. io' \in Queues
  BY <1>2, <1>3, <1>9, DispatchType
<1>11. gate \in Gates /\ replay \in Replays
  BY <1>1 DEF RestOK
<1>12. gate' \in Gates
  BY <1>3, <1>11, GateTypes DEF Gates
<1>13. replay' \in Replays
  <2>1. r2 \in Replays
    BY <1>11, GateTypes DEF Gates, Replays
  <2>2. r1 \in Replays
    BY <1>11 DEF Replays, NoReplay
  <2> QED BY <1>3, <2>1, <2>2
<1>14. nextSeq' \in 1..(MaxSeq + 1)
  BY <1>1, <1>3, SaveAssumption DEF RestOK
<1>15. RestOK'
  BY <1>1, <1>2, <1>3, <1>12, <1>13, <1>14 DEF RestOK
<1> QED BY <1>3, <1>7, <1>10, <1>15

LEMMA ApplyErrType ==
  ASSUME TypeInv, NEW d \in dones, ApplyErr(d)
  PROVE  GoodEd(ed') /\ io' \in Queues /\ RestOK'
<1>1. GoodEd(ed) /\ io \in Queues /\ RestOK
  BY TypeParts
<1>2. d.save.buf \in Buffers
  BY <1>1 DEF RestOK, SaveDone, PendingSave
<1>3. io' = [io EXCEPT !.inflight = @ \ {d.save.buf},
                       !.queued[d.save.buf] = <<>>]
  BY DEF ApplyErr
<1>4. io' \in Queues
  <2>1. <<>> \in Seq(PendingSave)
    OBVIOUS
  <2> QED BY <1>1, <1>2, <1>3, <2>1 DEF Queues
<1>5. \E D : gate' = CancelGate(gate, D)
  BY DEF ApplyErr
<1>6. gate' \in Gates
  BY <1>1, <1>5, GateTypes DEF RestOK, Gates
<1>7. dones' \subseteq dones /\ UNCHANGED <<ed, nextSeq, gated, remote, late, replay, acked>>
  BY DEF ApplyErr
<1> QED BY <1>1, <1>4, <1>6, <1>7 DEF RestOK

\* Every step keeps the types.
LEMMA TypeStep == TypeInv /\ [Next]_vars => TypeInv'
<1> SUFFICES ASSUME TypeInv, [Next]_vars PROVE TypeInv'
  OBVIOUS
<1>1. GoodEd(ed) /\ io \in Queues /\ RestOK
  BY TypeParts
<1>2. SUFFICES GoodEd(ed') /\ io' \in Queues /\ RestOK'
  <2>1. TypeInv' <=> (GoodEd(ed) /\ io \in Queues /\ RestOK)'
    BY TypeParts, PTL
  <2>2. GoodEd(ed)' <=> GoodEd(ed')
    BY DEF GoodEd
  <2> QED BY <2>1, <2>2
<1>3. CASE \/ \E b \in Buffers : Edit(b)
           \/ \E v \in Ticks : Undo(v)
           \/ \E w \in Windows : Focus(w)
           \/ \E b \in Buffers, force \in BOOLEAN : DeleteBuffer(b, force)
           \/ \E bang, parks \in BOOLEAN : Quit(bang, parks)
           \/ \E bang, parks \in BOOLEAN : QuitAll(bang, parks)
           \/ ExitSettled
  <2>1. GoodEd(ed)'
    BY <1>1, <1>3, EditorSteps
  <2>2. UNCHANGED <<io, nextSeq, gated, remote, late, dones, gate, replay, acked>>
    BY <1>3 DEF Edit, Undo, Focus, DeleteBuffer, Quit, QuitAll, ExitSettled
  <2> QED BY <1>1, <2>1, <2>2 DEF GoodEd, RestOK
<1>4. ASSUME NEW quit \in Quits, NEW fate \in Fates, ExWrite(quit, fate)
      PROVE  GoodEd(ed') /\ io' \in Queues /\ RestOK'
  <2>1. fate \in {"commit", "fail", "park"}
    BY DEF Fates
  <2>2. TypeInv'
    BY <1>4, <2>1, ExWriteType
  <2>3. TypeInv' <=> (GoodEd(ed) /\ io \in Queues /\ RestOK)'
    BY TypeParts, PTL
  <2> QED BY <2>2, <2>3 DEF GoodEd
<1>5. ASSUME NEW quits \in BOOLEAN, NEW bang \in BOOLEAN,
             NEW fate \in [Buffers -> Fates], ExWriteAll(quits, bang, fate)
      PROVE  GoodEd(ed') /\ io' \in Queues /\ RestOK'
  <2>1. TypeInv'
    BY <1>5, ExWriteAllType
  <2>2. TypeInv' <=> (GoodEd(ed) /\ io \in Queues /\ RestOK)'
    BY TypeParts, PTL
  <2> QED BY <2>1, <2>2 DEF GoodEd
<1>6. ASSUME NEW parks \in BOOLEAN, ReplayQuitAll(parks)
      PROVE  GoodEd(ed') /\ io' \in Queues /\ RestOK'
  <2>1. replay.bang \in BOOLEAN
    BY <1>1 DEF RestOK, Replays
  <2>2. GoodEd(ed')
    BY <1>1, <1>6, <2>1, QuitAllGood DEF ReplayQuitAll
  <2>3. replay' \in Replays
    BY <1>6 DEF ReplayQuitAll, NoReplay, Replays
  <2> QED BY <1>1, <1>6, <2>2, <2>3 DEF ReplayQuitAll, RestOK
<1>7. CASE UNCHANGED vars
  BY <1>1, <1>7 DEF vars, RestOK
<1> QED
  BY <1>3, <1>4, <1>5, <1>6, <1>7, GateDoneType, TaskEndsType,
     LateWriteType, ApplyOkType,
     ApplyErrType DEF Next, UserStep, SystemStep

(***************************************************************************)
(* In every reachable state the editor's focus is on an open window, its   *)
(* windows show buffers that are in the store, and the queues hold saves:  *)
(* deletions, quits and answers in any order never strand the focus or a   *)
(* window (ex_quit, delete_buffer).                                        *)
(***************************************************************************)
THEOREM SaveTypeCorrect == Spec => []TypeOK
<1>1. Spec => []TypeInv
  BY TypeInit, TypeStep, PTL DEF Spec
<1> QED BY <1>1, PTL DEF TypeInv

-----------------------------------------------------------------------------
(***************************************************************************)
(* Serialization and exactness.  The invariant is stated of the queues q,  *)
(* the answers D, an editor e and the files r, so that what each piece of  *)
(* a handler does to it is a lemma of its own.                             *)
(***************************************************************************)

\* A buffer is in flight exactly while one write of it is on the wire or one
\* answer is on its way; only then does anything wait behind it.
Slots(q, D) ==
  /\ \A s, t \in q.wire : s.buf = t.buf => s = t
  /\ \A d, c \in D : d.save.buf = c.save.buf => d = c
  /\ \A s \in q.wire, d \in D : s.buf # d.save.buf
  /\ \A s \in q.wire : s.buf \in q.inflight
  /\ \A d \in D : d.save.buf \in q.inflight
  /\ \A b \in q.inflight : \/ \E s \in q.wire : s.buf = b
                           \/ \E d \in D : d.save.buf = b
  /\ \A b \in Buffers : b \notin q.inflight => q.queued[b] = <<>>
  /\ \A b \in Buffers : \A i \in DOMAIN q.queued[b] : q.queued[b][i].buf = b

\* File, wire, queue and buffer hold snapshots in the order they were taken.
Sorted(q, e, r) ==
  \A b \in Buffers :
    /\ r[b].tick <= e.buf[b].tick
    /\ \A s \in q.wire : s.buf = b => /\ r[b].tick <= s.tick
                                      /\ s.tick <= e.buf[b].tick
    /\ \A i \in DOMAIN q.queued[b] :
         /\ r[b].tick <= q.queued[b][i].tick
         /\ q.queued[b][i].tick <= e.buf[b].tick
         /\ \A s \in q.wire : s.buf = b => s.tick <= q.queued[b][i].tick
         /\ \A j \in DOMAIN q.queued[b] :
              i < j => q.queued[b][i].tick <= q.queued[b][j].tick

\* While a buffer's tick is that of a snapshot, its text is the snapshot's.
Matches(s, e) == s.tick = e.buf[s.buf].tick => s.text = e.buf[s.buf].text

Texts(q, D, e, r) ==
  /\ \A s \in q.wire : Matches(s, e)
  /\ \A b \in Buffers : \A i \in DOMAIN q.queued[b] : Matches(q.queued[b][i], e)
  /\ \A d \in D : /\ Matches(d.save, e)
                  /\ d.save.tick <= e.buf[d.save.buf].tick
                  /\ r[d.save.buf].tick <= d.save.tick
                  /\ d.ok /\ ~r[d.save.buf].late =>
                       r[d.save.buf].text = d.save.text

SaveInv(q, D, e, r) == Slots(q, D) /\ Sorted(q, e, r) /\ Texts(q, D, e, r)

\* An editor step never takes a tick back, and changes the text with the tick.
Moves(e, f) ==
  \A b \in Buffers :
    \/ f.buf[b].tick > e.buf[b].tick
    \/ f.buf[b].tick = e.buf[b].tick /\ f.buf[b].text = e.buf[b].text

LEMMA EditorMoves ==
  ASSUME NEW q \in Queues, NEW D \in SUBSET SaveDone, NEW e, NEW f,
         GoodEd(e), GoodEd(f), NEW r \in Files,
         SaveInv(q, D, e, r), Moves(e, f)
  PROVE  SaveInv(q, D, f, r)
<1>1. \A b \in Buffers : /\ e.buf[b].tick \in Int /\ f.buf[b].tick \in Int
                         /\ e.buf[b].tick <= f.buf[b].tick
                         /\ r[b].tick \in Int
  BY SaveAssumption DEF GoodEd, Editor, OpenBuffer, Ticks, Moves, Files, File
<1>2. \A s \in PendingSave : s.tick \in Int /\ s.buf \in Buffers
  BY SaveAssumption DEF PendingSave, Ticks
<1>3. \A b \in Buffers : \A i \in DOMAIN q.queued[b] :
        q.queued[b][i] \in PendingSave
  BY DEF Queues
<1>4. \A s \in PendingSave :
        s.tick <= e.buf[s.buf].tick /\ Matches(s, e) => Matches(s, f)
  BY <1>1, <1>2 DEF Matches, Moves
<1>5. Sorted(q, f, r)
  <2> SUFFICES ASSUME NEW b \in Buffers
               PROVE  /\ r[b].tick <= f.buf[b].tick
                      /\ \A s \in q.wire : s.buf = b => s.tick <= f.buf[b].tick
                      /\ \A i \in DOMAIN q.queued[b] :
                           q.queued[b][i].tick <= f.buf[b].tick
    BY DEF SaveInv, Sorted
  <2>1. r[b].tick <= f.buf[b].tick
    BY <1>1 DEF SaveInv, Sorted
  <2>2. ASSUME NEW s \in q.wire, s.buf = b PROVE s.tick <= f.buf[b].tick
    <3>1. s.tick <= e.buf[b].tick /\ s.tick \in Int
      BY <1>2, <2>2 DEF SaveInv, Sorted, Queues
    <3> QED BY <1>1, <3>1
  <2>3. ASSUME NEW i \in DOMAIN q.queued[b]
        PROVE  q.queued[b][i].tick <= f.buf[b].tick
    <3>1. q.queued[b][i].tick <= e.buf[b].tick /\ q.queued[b][i].tick \in Int
      BY <1>2, <1>3 DEF SaveInv, Sorted
    <3> QED BY <1>1, <3>1
  <2> QED BY <2>1, <2>2, <2>3
<1>6. Texts(q, D, f, r)
  <2>1. \A s \in q.wire : Matches(s, f)
    BY <1>2, <1>4 DEF SaveInv, Texts, Sorted, Queues
  <2>2. ASSUME NEW b \in Buffers, NEW i \in DOMAIN q.queued[b]
        PROVE  Matches(q.queued[b][i], f)
    BY <1>3, <1>4 DEF SaveInv, Texts, Sorted, Slots
  <2>3. ASSUME NEW d \in D
        PROVE  Matches(d.save, f) /\ d.save.tick <= f.buf[d.save.buf].tick
    <3>1. d.save \in PendingSave
      BY DEF SaveDone
    <3>2. d.save.tick <= e.buf[d.save.buf].tick /\ Matches(d.save, e)
      BY DEF SaveInv, Texts
    <3> QED BY <1>1, <1>2, <1>4, <3>1, <3>2
  <2> QED BY <2>1, <2>2, <2>3 DEF SaveInv, Texts
<1> QED BY <1>5, <1>6 DEF SaveInv

\* New snapshots, of different buffers, go behind what their buffers have.
LEMMA EnqueueInv ==
  ASSUME NEW q \in Queues, NEW D \in SUBSET SaveDone, NEW e, GoodEd(e),
         NEW r \in Files, SaveInv(q, D, e, r),
         NEW S \in SUBSET PendingSave,
         \A s, t \in S : s.buf = t.buf => s = t,
         \A s \in S : s.tick = e.buf[s.buf].tick /\ s.text = e.buf[s.buf].text
  PROVE  SaveInv(Enqueue(q, S), D, e, r)
<1> DEFINE n == Enqueue(q, S)
           one(b) == CHOOSE s \in S : s.buf = b
<1>1. /\ n.inflight = q.inflight \cup {s.buf : s \in S}
      /\ n.wire = q.wire \cup {s \in S : s.buf \notin q.inflight}
      /\ \A b \in Buffers :
           n.queued[b] = IF b \in q.inflight /\ \E s \in S : s.buf = b
                         THEN Append(q.queued[b], one(b)) ELSE q.queued[b]
  BY DEF Enqueue
<1> HIDE DEF n
<1>2. \A b \in Buffers : (\E s \in S : s.buf = b) => one(b) \in S /\ one(b).buf = b
  OBVIOUS
<1> HIDE DEF one
<1>3. \A b \in Buffers : q.queued[b] \in Seq(PendingSave)
  BY DEF Queues
<1>4. ASSUME NEW b \in Buffers
      PROVE  \/ n.queued[b] = q.queued[b]
             \/ /\ b \in q.inflight
                /\ one(b) \in S /\ one(b).buf = b
                /\ DOMAIN n.queued[b] = 1..(Len(q.queued[b]) + 1)
                /\ DOMAIN q.queued[b] = 1..Len(q.queued[b])
                /\ Len(q.queued[b]) \in Nat
                /\ \A i \in DOMAIN q.queued[b] : n.queued[b][i] = q.queued[b][i]
                /\ n.queued[b][Len(q.queued[b]) + 1] = one(b)
  <2>1. CASE b \in q.inflight /\ \E s \in S : s.buf = b
    <3>1. n.queued[b] = Append(q.queued[b], one(b)) /\ one(b) \in S /\ one(b).buf = b
      BY <1>1, <1>2, <2>1
    <3>2. one(b) \in PendingSave
      BY <3>1
    <3> QED BY <1>3, <2>1, <3>1, <3>2
  <2>2. CASE ~(b \in q.inflight /\ \E s \in S : s.buf = b)
    BY <1>1, <2>2
  <2> QED BY <2>1, <2>2
<1>5. /\ q.wire \subseteq PendingSave
      /\ \A s \in PendingSave : s.buf \in Buffers /\ s.tick \in Int
      /\ \A b \in Buffers : e.buf[b].tick \in Int /\ r[b].tick \in Int
  BY SaveAssumption DEF Queues, PendingSave, Ticks, GoodEd, Editor, OpenBuffer,
            Files, File
<1>6. Slots(n, D)
  <2>1. Slots(q, D)
    BY DEF SaveInv
  <2>2. \A s, t \in n.wire : s.buf = t.buf => s = t
    BY <1>1, <2>1 DEF Slots
  <2>3. \A s \in n.wire, d \in D : s.buf # d.save.buf
    BY <1>1, <2>1 DEF Slots
  <2>4. \A s \in n.wire : s.buf \in n.inflight
    BY <1>1, <2>1 DEF Slots
  <2>5. \A d \in D : d.save.buf \in n.inflight
    BY <1>1, <2>1 DEF Slots
  <2>6. \A b \in n.inflight : \/ \E s \in n.wire : s.buf = b
                              \/ \E d \in D : d.save.buf = b
    BY <1>1, <2>1 DEF Slots
  <2>7. \A b \in Buffers : b \notin n.inflight => n.queued[b] = <<>>
    BY <1>1, <2>1 DEF Slots
  <2>8. ASSUME NEW b \in Buffers, NEW i \in DOMAIN n.queued[b]
        PROVE  n.queued[b][i].buf = b
    BY <1>4, <2>1 DEF Slots
  <2> QED BY <2>1, <2>2, <2>3, <2>4, <2>5, <2>6, <2>7, <2>8 DEF Slots
<1>7. Sorted(n, e, r)
  <2> SUFFICES ASSUME NEW b \in Buffers
      PROVE
        /\ r[b].tick <= e.buf[b].tick
        /\ \A s \in n.wire : s.buf = b => /\ r[b].tick <= s.tick
                                          /\ s.tick <= e.buf[b].tick
        /\ \A i \in DOMAIN n.queued[b] :
             /\ r[b].tick <= n.queued[b][i].tick
             /\ n.queued[b][i].tick <= e.buf[b].tick
             /\ \A s \in n.wire : s.buf = b => s.tick <= n.queued[b][i].tick
             /\ \A j \in DOMAIN n.queued[b] :
                  i < j => n.queued[b][i].tick <= n.queued[b][j].tick
    BY DEF Sorted
  <2>1. Sorted(q, e, r) /\ Slots(q, D)
    BY DEF SaveInv
  <2>2. r[b].tick <= e.buf[b].tick
    BY <2>1 DEF Sorted
  <2>3. ASSUME NEW s \in n.wire, s.buf = b
        PROVE  r[b].tick <= s.tick /\ s.tick <= e.buf[b].tick
    BY <1>1, <1>5, <2>1, <2>2, <2>3 DEF Sorted
  <2>4. ASSUME NEW i \in DOMAIN n.queued[b]
        PROVE  /\ r[b].tick <= n.queued[b][i].tick
               /\ n.queued[b][i].tick <= e.buf[b].tick
    <3>1. CASE i \in DOMAIN q.queued[b] /\ n.queued[b][i] = q.queued[b][i]
      BY <2>1, <3>1 DEF Sorted
    <3>2. CASE one(b) \in S /\ one(b).buf = b /\ n.queued[b][i] = one(b)
      <4>1. n.queued[b][i].tick = e.buf[b].tick
        BY <3>2
      <4> QED BY <1>5, <2>2, <4>1
    <3> QED BY <1>4, <3>1, <3>2
  <2>5. n.queued[b] # <<>> => \A s \in n.wire : s.buf = b => s \in q.wire
    <3>1. n.queued[b] # <<>> => b \in q.inflight
      BY <1>4, <2>1 DEF Slots
    <3> QED BY <1>1, <3>1
  <2>6. ASSUME NEW i \in DOMAIN n.queued[b], NEW s \in n.wire, s.buf = b
        PROVE  s.tick <= n.queued[b][i].tick
    <3>1. n.queued[b] # <<>>
      BY <2>6
    <3>2. s \in q.wire /\ s.tick <= e.buf[b].tick
      BY <2>3, <2>5, <2>6, <3>1
    <3>3. CASE i \in DOMAIN q.queued[b] /\ n.queued[b][i] = q.queued[b][i]
      BY <2>1, <2>6, <3>2, <3>3 DEF Sorted
    <3>4. CASE one(b) \in S /\ one(b).buf = b /\ n.queued[b][i] = one(b)
      <4>1. n.queued[b][i].tick = e.buf[b].tick
        BY <3>4
      <4> QED BY <3>2, <4>1
    <3> QED BY <1>4, <3>3, <3>4
  <2>7. ASSUME NEW i \in DOMAIN n.queued[b], NEW j \in DOMAIN n.queued[b], i < j
        PROVE  n.queued[b][i].tick <= n.queued[b][j].tick
    <3>1. CASE n.queued[b] = q.queued[b]
      BY <2>1, <2>7, <3>1 DEF Sorted
    <3>2. CASE n.queued[b] # q.queued[b]
      <4>1. i \in DOMAIN q.queued[b]
            /\ (j \in DOMAIN q.queued[b] \/ n.queued[b][j] = one(b))
        BY <1>4, <2>7, <3>2
      <4>2. CASE j \in DOMAIN q.queued[b]
        BY <1>4, <2>1, <2>7, <3>2, <4>1, <4>2 DEF Sorted
      <4>3. CASE n.queued[b][j] = one(b)
        <5>1. n.queued[b][j].tick = e.buf[b].tick
          BY <1>4, <3>2, <4>3
        <5> QED BY <2>4, <5>1
      <4> QED BY <4>1, <4>2, <4>3
    <3> QED BY <3>1, <3>2
  <2> QED BY <2>2, <2>3, <2>4, <2>6, <2>7
<1>8. Texts(n, D, e, r)
  <2>1. Texts(q, D, e, r) /\ \A s \in S : Matches(s, e)
    BY DEF SaveInv, Matches
  <2>2. \A s \in n.wire : Matches(s, e)
    BY <1>1, <2>1 DEF Texts
  <2>3. ASSUME NEW b \in Buffers, NEW i \in DOMAIN n.queued[b]
        PROVE  Matches(n.queued[b][i], e)
    BY <1>4, <2>1 DEF Texts
  <2> QED BY <2>1, <2>2, <2>3 DEF Texts
<1> QED BY <1>6, <1>7, <1>8 DEF SaveInv, n

\* A write that ends leaves the wire and becomes an answer.  Its file f is
\* what it was, or holds the write, or what a late write brought.
LEMMA TaskInv ==
  ASSUME NEW q \in Queues, NEW D \in SUBSET SaveDone, NEW e, GoodEd(e),
         NEW r \in Files, SaveInv(q, D, e, r),
         NEW s \in q.wire, NEW ok \in BOOLEAN, NEW f \in Files,
         \A b \in Buffers : b # s.buf => f[b] = r[b],
         f[s.buf].tick = r[s.buf].tick \/ f[s.buf].tick = s.tick,
         ok /\ ~f[s.buf].late => f[s.buf].text = s.text
  PROVE  SaveInv([q EXCEPT !.wire = @ \ {s}],
                 D \cup {[save |-> s, ok |-> ok]}, e, f)
<1> DEFINE n == [q EXCEPT !.wire = @ \ {s}]
           d == [save |-> s, ok |-> ok]
           E == D \cup {d}
<1>1. /\ n.wire = q.wire \ {s} /\ n.queued = q.queued
      /\ n.inflight = q.inflight
  BY DEF Queues
<1>2. d.save = s /\ d.ok = ok
  OBVIOUS
<1>3. s \in PendingSave /\ s.buf \in Buffers /\ s.tick \in Int
  BY SaveAssumption DEF Queues, PendingSave, Ticks
<1>5. Slots(q, D) /\ Sorted(q, e, r) /\ Texts(q, D, e, r)
  BY DEF SaveInv
<1> HIDE DEF n, d
<1>6. Slots(n, E)
  BY <1>1, <1>2, <1>5 DEF Slots
<1>8. Sorted(n, e, f)
  <2> SUFFICES ASSUME NEW b \in Buffers
      PROVE
        /\ f[b].tick <= e.buf[b].tick
        /\ \A t \in n.wire : t.buf = b => /\ f[b].tick <= t.tick
                                          /\ t.tick <= e.buf[b].tick
        /\ \A i \in DOMAIN n.queued[b] :
             /\ f[b].tick <= n.queued[b][i].tick
             /\ n.queued[b][i].tick <= e.buf[b].tick
             /\ \A t \in n.wire : t.buf = b => t.tick <= n.queued[b][i].tick
             /\ \A j \in DOMAIN n.queued[b] :
                  i < j => n.queued[b][i].tick <= n.queued[b][j].tick
    BY DEF Sorted
  <2>1. CASE b # s.buf
    BY <1>1, <1>5, <2>1 DEF Sorted
  <2>2. CASE b = s.buf
    <3>1. \A t \in n.wire : t.buf # b
      BY <1>1, <1>5, <2>2 DEF Slots
    <3> QED BY <1>1, <1>5, <2>2, <3>1 DEF Sorted
  <2> QED BY <2>1, <2>2
<1>9. Texts(n, E, e, f)
  <2>1. \A t \in D : t.save.buf # s.buf /\ t.save.buf \in Buffers
    BY <1>5 DEF Slots, SaveDone, PendingSave
  <2>2. \A t \in D : /\ f[t.save.buf].tick <= t.save.tick
                     /\ t.ok /\ ~f[t.save.buf].late =>
                          f[t.save.buf].text = t.save.text
    BY <1>5, <2>1 DEF Texts
  <2>3. Matches(s, e) /\ s.tick <= e.buf[s.buf].tick
    BY <1>3, <1>5 DEF Texts, Sorted
  <2>4. f[s.buf].tick <= s.tick
    BY <1>3, <1>5 DEF Sorted
  <2> QED BY <1>1, <1>2, <1>5, <2>2, <2>3, <2>4 DEF Texts
<1> QED BY <1>6, <1>8, <1>9 DEF SaveInv, n, d

\* An answer that is applied hands the slot to the oldest waiter.
LEMMA DispatchInv ==
  ASSUME NEW q \in Queues, NEW D \in SUBSET SaveDone, NEW e, GoodEd(e),
         NEW r \in Files, SaveInv(q, D, e, r), NEW d \in D
  PROVE  SaveInv(DispatchNext([q EXCEPT !.inflight = @ \ {d.save.buf}],
                              d.save.buf),
                 D \ {d}, e, r)
<1> DEFINE b == d.save.buf
           p == [q EXCEPT !.inflight = @ \ {b}]
           n == DispatchNext(p, b)
<1>1. b \in Buffers
  BY DEF SaveDone, PendingSave
<1>2. /\ p.wire = q.wire /\ p.queued = q.queued
      /\ p.inflight = q.inflight \ {b}
  BY DEF Queues
<1>3. Slots(q, D) /\ Sorted(q, e, r) /\ Texts(q, D, e, r)
  BY DEF SaveInv
<1>4. /\ \A t \in q.wire : t.buf # b
      /\ \A c \in D \ {d} : c.save.buf # b
  BY <1>3 DEF Slots
<1> HIDE DEF p
<1>5. CASE q.queued[b] = <<>>
  <2>1. n = p
    BY <1>2, <1>5 DEF DispatchNext
  <2>2. Slots(n, D \ {d})
    BY <1>2, <1>3, <1>4, <1>5, <2>1 DEF Slots
  <2> QED BY <1>2, <1>3, <2>1, <2>2 DEF SaveInv, Sorted, Texts, p
<1>6. CASE q.queued[b] # <<>>
  <2> DEFINE h == Head(q.queued[b])
             t == Tail(q.queued[b])
  <2>1. /\ q.queued[b] \in Seq(PendingSave)
        /\ q.queued \in [Buffers -> Seq(PendingSave)]
    BY <1>1 DEF Queues
  <2>2. /\ h = q.queued[b][1] /\ 1 \in DOMAIN q.queued[b]
        /\ \A i \in DOMAIN t : /\ i \in Int /\ i + 1 \in DOMAIN q.queued[b]
                               /\ 1 < i + 1
                               /\ t[i] = q.queued[b][i + 1]
    BY <1>6, <2>1
  <2>3. /\ n.inflight = (q.inflight \ {b}) \cup {b}
        /\ n.queued = [q.queued EXCEPT ![b] = t]
        /\ n.wire = q.wire \cup {h}
    BY <1>2, <1>6 DEF DispatchNext
  <2>4. n.queued[b] = t /\ \A c \in Buffers : c # b => n.queued[c] = q.queued[c]
    BY <1>1, <2>1, <2>3
  <2>5. h.buf = b
    BY <1>1, <1>3, <2>2 DEF Slots
  <2>6. b \in q.inflight
    BY <1>3 DEF Slots
  <2>7. t \in Seq(PendingSave) /\ h \in PendingSave
    BY <1>6, <2>1
  <2> HIDE DEF n, h, t, b
  <2>8. Slots(n, D \ {d})
    <3>1. \A s, u \in n.wire : s.buf = u.buf => s = u
      BY <1>3, <1>4, <2>3, <2>5 DEF Slots
    <3>2. \A c, u \in D \ {d} : c.save.buf = u.save.buf => c = u
      BY <1>3 DEF Slots
    <3>3. \A s \in n.wire, c \in D \ {d} : s.buf # c.save.buf
      BY <1>3, <1>4, <2>3, <2>5 DEF Slots
    <3>4. /\ \A s \in n.wire : s.buf \in n.inflight
          /\ \A c \in D \ {d} : c.save.buf \in n.inflight
      BY <1>3, <1>4, <2>3, <2>5 DEF Slots
    <3>5. \A c \in n.inflight : \/ \E s \in n.wire : s.buf = c
                                \/ \E u \in D \ {d} : u.save.buf = c
      BY <1>3, <1>4, <2>3, <2>5 DEF Slots, b
    <3>6. \A c \in Buffers : c \notin n.inflight => n.queued[c] = <<>>
      BY <1>3, <2>3, <2>4 DEF Slots
    <3>7. \A c \in Buffers : \A i \in DOMAIN n.queued[c] : n.queued[c][i].buf = c
      BY <1>1, <1>3, <2>2, <2>4 DEF Slots
    <3> QED BY <3>1, <3>2, <3>3, <3>4, <3>5, <3>6, <3>7 DEF Slots
  <2>9. Sorted(n, e, r)
    <3> SUFFICES ASSUME NEW c \in Buffers
        PROVE
          /\ r[c].tick <= e.buf[c].tick
          /\ \A s \in n.wire : s.buf = c => /\ r[c].tick <= s.tick
                                            /\ s.tick <= e.buf[c].tick
          /\ \A i \in DOMAIN n.queued[c] :
               /\ r[c].tick <= n.queued[c][i].tick
               /\ n.queued[c][i].tick <= e.buf[c].tick
               /\ \A s \in n.wire : s.buf = c => s.tick <= n.queued[c][i].tick
               /\ \A j \in DOMAIN n.queued[c] :
                    i < j => n.queued[c][i].tick <= n.queued[c][j].tick
      BY DEF Sorted
    <3>1. CASE c # b
      <4>1. \A s \in n.wire : s.buf = c => s \in q.wire
        BY <2>3, <2>5, <3>1
      <4> QED BY <1>3, <2>4, <3>1, <4>1 DEF Sorted
    <3>2. CASE c = b
      <4>1. \A s \in n.wire : s.buf = c => s = h
        BY <1>4, <2>3, <3>2
      <4>2. /\ r[b].tick <= h.tick /\ h.tick <= e.buf[b].tick
            /\ \A i \in DOMAIN t : h.tick <= t[i].tick
        BY <1>1, <1>3, <2>2 DEF Sorted
      <4>3. \A i \in DOMAIN t : /\ r[b].tick <= t[i].tick
                                /\ t[i].tick <= e.buf[b].tick
        BY <1>1, <1>3, <2>2 DEF Sorted
      <4>4. ASSUME NEW i \in DOMAIN t, NEW j \in DOMAIN t, i < j
            PROVE  t[i].tick <= t[j].tick
        <5>1. i + 1 < j + 1
          BY <2>2, <4>4
        <5> QED BY <1>1, <1>3, <2>2, <5>1 DEF Sorted
      <4>5. r[b].tick <= e.buf[b].tick
        BY <1>1, <1>3 DEF Sorted
      <4> QED BY <2>4, <3>2, <4>1, <4>2, <4>3, <4>4, <4>5
    <3> QED BY <3>1, <3>2
  <2>10. Texts(n, D \ {d}, e, r)
    <3>1. Matches(h, e) /\ \A i \in DOMAIN t : Matches(t[i], e)
      BY <1>1, <1>3, <2>2 DEF Texts
    <3>2. ASSUME NEW c \in Buffers, NEW i \in DOMAIN n.queued[c]
          PROVE  Matches(n.queued[c][i], e)
      BY <1>3, <2>4, <3>1 DEF Texts
    <3> QED BY <1>3, <2>3, <3>1, <3>2 DEF Texts
  <2> QED BY <2>8, <2>9, <2>10 DEF SaveInv, n, b, p
<1> QED BY <1>5, <1>6

\* A failed write gives its buffer's queue up with it.
LEMMA DropInv ==
  ASSUME NEW q \in Queues, NEW D \in SUBSET SaveDone, NEW e, GoodEd(e),
         NEW r \in Files, SaveInv(q, D, e, r), NEW d \in D
  PROVE  SaveInv([q EXCEPT !.inflight = @ \ {d.save.buf},
                           !.queued[d.save.buf] = <<>>],
                 D \ {d}, e, r)
<1> DEFINE b == d.save.buf
           n == [q EXCEPT !.inflight = @ \ {b}, !.queued[b] = <<>>]
<1>1. b \in Buffers
  BY DEF SaveDone, PendingSave
<1>2. /\ n.wire = q.wire /\ n.inflight = q.inflight \ {b}
      /\ n.queued = [q.queued EXCEPT ![b] = <<>>]
  BY DEF Queues
<1>3. n.queued[b] = <<>> /\ \A c \in Buffers : c # b => n.queued[c] = q.queued[c]
  BY <1>1, <1>2 DEF Queues
<1>4. Slots(q, D) /\ Sorted(q, e, r) /\ Texts(q, D, e, r)
  BY DEF SaveInv
<1>5. /\ \A t \in q.wire : t.buf # b
      /\ \A c \in D \ {d} : c.save.buf # b
  BY <1>4 DEF Slots
<1>6. DOMAIN <<>> = {}
  OBVIOUS
<1> HIDE DEF n
<1>7. Slots(n, D \ {d})
  BY <1>2, <1>3, <1>4, <1>5, <1>6 DEF Slots
<1>8. Sorted(n, e, r)
  BY <1>2, <1>3, <1>4, <1>6 DEF Sorted
<1>9. Texts(n, D \ {d}, e, r)
  BY <1>2, <1>3, <1>4, <1>6 DEF Texts
<1> QED BY <1>7, <1>8, <1>9 DEF SaveInv, n

\* A step of the user or of an exit handler takes no tick back, and changes
\* neither a text nor a modified flag without one.
Quiet(e, f) ==
  \A b \in Buffers :
    \/ f.buf[b].tick > e.buf[b].tick
    \/ /\ f.buf[b].tick = e.buf[b].tick
       /\ f.buf[b].text = e.buf[b].text
       /\ f.buf[b].modified = e.buf[b].modified

LEMMA EditorStepsQuiet ==
  ASSUME GoodEd(ed),
         \/ \E b \in Buffers : Edit(b)
         \/ \E v \in Ticks : Undo(v)
         \/ \E w \in Windows : Focus(w)
         \/ \E b \in Buffers, force \in BOOLEAN : DeleteBuffer(b, force)
         \/ \E bang, parks \in BOOLEAN : Quit(bang, parks)
         \/ \E bang, parks \in BOOLEAN : QuitAll(bang, parks)
         \/ ExitSettled
  PROVE  Quiet(ed, ed')
<1>1. /\ ed.buf \in [Buffers -> OpenBuffer]
      /\ \A b \in Buffers : ed.buf[b].tick \in Int
  BY SaveAssumption DEF GoodEd, Editor, OpenBuffer, Ticks
<1>2. ed'.buf = ed.buf => Quiet(ed, ed')
  BY DEF Quiet
<1>3. ASSUME NEW b \in Buffers, NEW new,
             ed'.buf = [ed.buf EXCEPT ![b] = new],
             \/ new.tick > ed.buf[b].tick
             \/ new.tick = ed.buf[b].tick /\ new.text = ed.buf[b].text
                /\ new.modified = ed.buf[b].modified
      PROVE  Quiet(ed, ed')
  BY <1>1, <1>3 DEF Quiet
<1>4. ASSUME NEW b \in Buffers, Edit(b) PROVE Quiet(ed, ed')
  <2> DEFINE old == ed.buf[b]
             new == [old EXCEPT !.tick = old.tick + 1, !.made = old.made + 1,
                                !.text = old.made + 1, !.modified = TRUE]
  <2>1. new.tick > old.tick
    BY <1>1 DEF OpenBuffer
  <2>2. ed' = [ed EXCEPT !.buf[b] = new]
    BY <1>4 DEF Edit
  <2> HIDE DEF new
  <2> QED BY <1>3, <2>1, <2>2 DEF GoodEd, Editor
<1>5. ASSUME NEW v \in Ticks, Undo(v) PROVE Quiet(ed, ed')
  <2> DEFINE b   == Current(ed)
             old == ed.buf[b]
             new == [old EXCEPT !.tick = old.tick + 1, !.text = v,
                                !.modified = (old.saved # v)]
  <2>1. b \in Buffers
    BY DEF GoodEd, Editor, Current
  <2>2. new.tick > old.tick
    BY <1>1, <2>1 DEF OpenBuffer
  <2>3. ed' = [ed EXCEPT !.buf[b] = new]
    BY <1>5 DEF Undo
  <2> HIDE DEF new, b
  <2> QED BY <1>3, <2>1, <2>2, <2>3 DEF GoodEd, Editor
<1>6. ASSUME NEW w \in Windows, Focus(w) PROVE Quiet(ed, ed')
  BY <1>2, <1>6 DEF Focus, GoodEd, Editor
<1>7. ASSUME NEW b \in Buffers, NEW force \in BOOLEAN, DeleteBuffer(b, force)
      PROVE  Quiet(ed, ed')
  <2> DEFINE new == [ed.buf[b] EXCEPT !.open = FALSE]
  <2>1. \E sh : ed' = [ed EXCEPT !.buf[b] = new, !.shows = sh]
    BY <1>7 DEF DeleteBuffer
  <2>2. new.tick = ed.buf[b].tick /\ new.text = ed.buf[b].text
        /\ new.modified = ed.buf[b].modified
    BY <1>1 DEF OpenBuffer
  <2> HIDE DEF new
  <2>3. ed'.buf = [ed.buf EXCEPT ![b] = new]
    BY <2>1 DEF GoodEd, Editor
  <2> QED BY <1>1, <2>2, <2>3 DEF Quiet
<1>8. ASSUME NEW bang \in BOOLEAN, NEW parks \in BOOLEAN,
             Quit(bang, parks) \/ QuitAll(bang, parks)
      PROVE  Quiet(ed, ed')
  <2>1. ed' = ExQuit(ed, bang, parks) \/ ed' = ExQuitAll(ed, bang, parks)
    BY <1>8 DEF Quit, QuitAll
  <2>2. /\ ExQuit(ed, bang, parks).buf = ed.buf
        /\ ExQuitAll(ed, bang, parks).buf = ed.buf
    BY QuitGood, QuitAllGood
  <2> QED BY <1>2, <2>1, <2>2
<1>9. CASE ExitSettled
  BY <1>2, <1>9 DEF ExitSettled, GoodEd, Editor
<1> QED BY <1>4, <1>5, <1>6, <1>7, <1>8, <1>9

\* Snapshots of a well-formed editor, one per buffer, are fit to be queued.
LEMMA SnapshotsInv ==
  ASSUME NEW q \in Queues, NEW D \in SUBSET SaveDone, NEW e, GoodEd(e),
         NEW r \in Files, SaveInv(q, D, e, r), NEW S,
         \A s \in S : \E pw \in PreWrite : s = Snapshot(e, pw),
         \A s, t \in S : s.buf = t.buf => s = t
  PROVE  SaveInv(Enqueue(q, S), D, e, r)
<1>1. \A s \in S : /\ s \in PendingSave
                   /\ s.text = e.buf[s.buf].text
                   /\ s.tick = e.buf[s.buf].tick
  BY SnapshotType
<1>2. S \in SUBSET PendingSave
  BY <1>1
<1> QED BY <1>1, <1>2, EnqueueInv

LEMMA ExWriteInv ==
  ASSUME TypeInv, NEW r \in Files, SaveInv(io, dones, ed, r),
         NEW quit \in Quits, NEW fate, ExWrite(quit, fate)
  PROVE  SaveInv(io', dones', ed', r)
<1> DEFINE pw == [seq |-> nextSeq, buf |-> Current(ed), quit |-> quit,
                  win |-> ed.cur]
           S  == IF fate = "commit" THEN {Snapshot(ed, pw)} ELSE {}
<1>1. GoodEd(ed) /\ io \in Queues /\ RestOK
  BY TypeParts
<1>2. pw \in PreWrite
  BY <1>1, SaveAssumption
     DEF PreWrite, GoodEd, Editor, Current, RestOK, Seqs, ExWrite
<1>3. io' = Enqueue(io, S) /\ UNCHANGED <<ed, dones>>
  BY DEF ExWrite
<1>4. /\ \A s \in S : \E p \in PreWrite : s = Snapshot(ed, p)
      /\ \A s, t \in S : s.buf = t.buf => s = t
  BY <1>2
<1> HIDE DEF S
<1>5. SaveInv(Enqueue(io, S), dones, ed, r)
  BY <1>1, <1>4, SnapshotsInv DEF RestOK
<1> QED BY <1>3, <1>5

LEMMA ExWriteAllInv ==
  ASSUME TypeInv, NEW r \in Files, SaveInv(io, dones, ed, r),
         NEW quits, NEW bang, NEW fate, ExWriteAll(quits, bang, fate)
  PROVE  SaveInv(io', dones', ed', r)
<1> DEFINE B     == Modified(ed)
           pw(b) == [seq |-> nextSeq + Cardinality({c \in B : c < b}),
                     buf |-> b, quit |-> "none", win |-> ed.cur]
           S     == {Snapshot(ed, pw(b)) :
                       b \in {c \in B : fate[c] = "commit"}}
<1>1. GoodEd(ed) /\ io \in Queues /\ RestOK
  BY TypeParts
<1>2. B \in SUBSET Buffers /\ nextSeq + Cardinality(B) <= MaxSeq + 1
      /\ nextSeq \in 1..(MaxSeq + 1)
  BY <1>1 DEF ExWriteAll, Modified, RestOK
<1>3. io' = Enqueue(io, S) /\ UNCHANGED <<ed, dones>>
  BY DEF ExWriteAll
<1> HIDE DEF B
<1>4. \A b \in B : nextSeq + Cardinality({c \in B : c < b}) \in Seqs
  BY <1>2, BatchSeqs
<1>5. \A b \in B : pw(b) \in PreWrite /\ pw(b).buf = b
  BY <1>1, <1>2, <1>4 DEF PreWrite, Quits, GoodEd, Editor
<1> HIDE DEF pw
<1>6. \A b \in B : Snapshot(ed, pw(b)).buf = b
  BY <1>1, <1>5, SnapshotType
<1>7. \A s \in S : \E p \in PreWrite : s = Snapshot(ed, p)
  BY <1>5
<1>8. \A s, t \in S : s.buf = t.buf => s = t
  BY <1>6
<1> HIDE DEF S
<1>9. SaveInv(Enqueue(io, S), dones, ed, r)
  BY <1>1, <1>7, <1>8, SnapshotsInv DEF RestOK
<1> QED BY <1>3, <1>9

LEMMA GateDoneInv ==
  ASSUME TypeInv, NEW r \in Files, SaveInv(io, dones, ed, r),
         NEW pw \in gated, NEW fate, GateDone(pw, fate)
  PROVE  SaveInv(io', dones', ed', r)
<1> DEFINE S == IF fate = "commit" THEN {Snapshot(ed, pw)} ELSE {}
<1>1. GoodEd(ed) /\ io \in Queues /\ RestOK
  BY TypeParts
<1>2. io' \in {io, Enqueue(io, S)} /\ UNCHANGED <<ed, dones>>
  BY DEF GateDone
<1>3. /\ \A s \in S : \E p \in PreWrite : s = Snapshot(ed, p)
      /\ \A s, t \in S : s.buf = t.buf => s = t
  BY <1>1 DEF RestOK
<1> HIDE DEF S
<1>4. SaveInv(Enqueue(io, S), dones, ed, r)
  BY <1>1, <1>3, SnapshotsInv DEF RestOK
<1> QED BY <1>2, <1>4

\* An acknowledged write: its buffer is settled, its quit runs, and the slot
\* goes on to the next write.
LEMMA ApplyOkInv ==
  ASSUME HandlerWrites = FALSE, TypeInv,
         NEW r \in Files, SaveInv(io, dones, ed, r),
         NEW d \in dones, NEW parks \in BOOLEAN, NEW hook \in BOOLEAN,
         ApplyOk(d, parks, hook)
  PROVE  /\ SaveInv(io', dones', ed', r)
         /\ ed'.buf = FinalizeSave(ed, d.save).buf
<1> DEFINE s  == d.save
           e1 == FinalizeSave(ed, s)
           e2 == IF s.quit = "none" THEN e1 ELSE ExQuit(e1, s.quit = "q!", parks)
           e3 == IF s.quit # "none" /\ replay.on
                 THEN ExQuitAll(e2, replay.bang, parks) ELSE e2
           q1 == [io EXCEPT !.inflight = @ \ {s.buf}]
<1>1. GoodEd(ed) /\ io \in Queues /\ RestOK
  BY TypeParts
<1>2. s \in PendingSave
  BY <1>1 DEF RestOK, SaveDone
<1>3. /\ dones' = dones \ {d} /\ ed' = e3
      /\ io' = DispatchNext(q1, s.buf)
  BY DEF ApplyOk
<1>4. replay.bang \in BOOLEAN /\ (s.quit = "q!") \in BOOLEAN
  BY <1>1 DEF RestOK, Replays
<1>5. SaveInv(io', dones', ed, r)
  BY <1>1, <1>3, DispatchInv DEF RestOK
<1>6. io' \in Queues /\ dones' \in SUBSET SaveDone
  BY <1>1, <1>3, ApplyOkType DEF RestOK
<1> HIDE DEF s
<1>7. /\ GoodEd(e1)
      /\ \A b \in Buffers : /\ e1.buf[b].tick = ed.buf[b].tick
                            /\ e1.buf[b].text = ed.buf[b].text
  BY <1>1, <1>2, FinalizeGood
<1> HIDE DEF e1
<1>8. GoodEd(e2) /\ e2.buf = e1.buf
  BY <1>4, <1>7, QuitGood
<1> HIDE DEF e2
<1>9. GoodEd(e3) /\ e3.buf = e1.buf
  <2>1. /\ GoodEd(ExQuitAll(e2, replay.bang, parks))
        /\ ExQuitAll(e2, replay.bang, parks).buf = e2.buf
    BY <1>4, <1>8, QuitAllGood
  <2> QED BY <1>8, <2>1
<1> HIDE DEF e3
<1>10. Moves(ed, e3)
  BY <1>7, <1>9 DEF Moves
<1>11. SaveInv(io', dones', e3, r)
  BY <1>1, <1>5, <1>6, <1>9, <1>10, EditorMoves
<1>12. ed'.buf = e1.buf
  BY <1>3, <1>9
<1>13. e1 = FinalizeSave(ed, d.save)
  BY DEF e1, s
<1> QED BY <1>3, <1>11, <1>12, <1>13

\* The steps that leave the files alone keep the invariant, whatever the files
\* hold.
FileStep ==
  \/ \E s \in io.wire, fate \in WriteFates, ok \in BOOLEAN : TaskEnds(s, fate, ok)
  \/ \E s \in late : LateWrite(s)

LEMMA SaveStep ==
  ASSUME HandlerWrites = FALSE, TypeInv,
         NEW r \in Files, SaveInv(io, dones, ed, r),
         [Next]_vars, ~FileStep
  PROVE  SaveInv(io', dones', ed', r)
<1>1. GoodEd(ed) /\ io \in Queues /\ RestOK
  BY TypeParts
<1>2. TypeInv'
  BY TypeStep
<1>3. GoodEd(ed')
  <2>1. GoodEd(ed)'
    <3>1. TypeInv' <=> (GoodEd(ed) /\ io \in Queues /\ RestOK)'
      BY TypeParts, PTL
    <3> QED BY <1>2, <3>1
  <2> QED BY <2>1 DEF GoodEd
<1>4. io \in Queues /\ dones \in SUBSET SaveDone
  BY <1>1 DEF RestOK
<1>5. CASE \/ \E b \in Buffers : Edit(b)
           \/ \E v \in Ticks : Undo(v)
           \/ \E w \in Windows : Focus(w)
           \/ \E b \in Buffers, force \in BOOLEAN : DeleteBuffer(b, force)
           \/ \E bang, parks \in BOOLEAN : Quit(bang, parks)
           \/ \E bang, parks \in BOOLEAN : QuitAll(bang, parks)
           \/ ExitSettled
  <2>1. Moves(ed, ed')
    BY <1>1, <1>5, EditorStepsQuiet DEF Quiet, Moves
  <2>2. UNCHANGED <<io, dones>>
    BY <1>5 DEF Edit, Undo, Focus, DeleteBuffer, Quit, QuitAll, ExitSettled
  <2>3. SaveInv(io, dones, ed', r)
    BY <1>1, <1>3, <1>4, <2>1, EditorMoves
  <2> QED BY <2>2, <2>3
<1>6. ASSUME NEW quit \in Quits, NEW fate \in Fates, ExWrite(quit, fate)
      PROVE  SaveInv(io', dones', ed', r)
  BY <1>6, ExWriteInv
<1>7. ASSUME NEW quits \in BOOLEAN, NEW bang \in BOOLEAN,
             NEW fate \in [Buffers -> Fates], ExWriteAll(quits, bang, fate)
      PROVE  SaveInv(io', dones', ed', r)
  BY <1>7, ExWriteAllInv
<1>8. ASSUME NEW d \in dones, ApplyErr(d)
      PROVE  SaveInv(io', dones', ed', r)
  <2>1. /\ io' = [io EXCEPT !.inflight = @ \ {d.save.buf},
                           !.queued[d.save.buf] = <<>>]
        /\ dones' = dones \ {d} /\ ed' = ed
    BY <1>8 DEF ApplyErr
  <2>2. SaveInv([io EXCEPT !.inflight = @ \ {d.save.buf},
                           !.queued[d.save.buf] = <<>>],
                dones \ {d}, ed, r)
    BY <1>1, <1>4, DropInv
  <2> QED BY <2>1, <2>2
<1>9. ASSUME NEW parks \in BOOLEAN, ReplayQuitAll(parks)
      PROVE  SaveInv(io', dones', ed', r)
  <2>1. replay.bang \in BOOLEAN
    BY <1>1 DEF RestOK, Replays
  <2>2. ed'.buf = ed.buf
    BY <1>1, <1>9, <2>1, QuitAllGood DEF ReplayQuitAll
  <2>3. SaveInv(io, dones, ed', r)
    BY <1>1, <1>3, <1>4, <2>2, EditorMoves DEF Moves
  <2> QED BY <1>9, <2>3 DEF ReplayQuitAll
<1>10. CASE UNCHANGED vars
  BY <1>10 DEF vars
<1> QED
  BY <1>5, <1>6, <1>7, <1>8, <1>9, <1>10, GateDoneInv, ApplyOkInv
     DEF Next, UserStep, SystemStep, FileStep

\* The file of a late write's buffer, once the write is served.
Landing(r, s) == [r EXCEPT ![s.buf] = Holds(s, TRUE)]

LEMMA LandingIs ==
  ASSUME NEW r \in Files, NEW s \in PendingSave
  PROVE  /\ Landing(r, s) \in Files
         /\ Landing(r, s)[s.buf] = Holds(s, TRUE)
         /\ \A b \in Buffers : b # s.buf => Landing(r, s)[b] = r[b]
<1>1. Holds(s, TRUE) \in File /\ s.buf \in Buffers
  BY DEF PendingSave, Holds, File
<1> QED BY <1>1 DEF Landing, Files

\* The invariant is about each buffer's file apart.
LEMMA SaveInvMix ==
  ASSUME NEW q, NEW D \in SUBSET SaveDone, NEW e, NEW r, NEW g, NEW f,
         SaveInv(q, D, e, r), SaveInv(q, D, e, g),
         \A b \in Buffers : f[b] = r[b] \/ f[b] = g[b]
  PROVE  SaveInv(q, D, e, f)
<1>1. Sorted(q, e, f)
  BY DEF SaveInv, Sorted
<1>2. Texts(q, D, e, f)
  <2>1. \A d \in D : d.save.buf \in Buffers
    BY DEF SaveDone, PendingSave
  <2> QED BY <2>1 DEF SaveInv, Texts
<1> QED BY <1>1, <1>2 DEF SaveInv

\* The invariant of the reachable states: it holds of the files as they are,
\* and as any of the late writes would make them.
Serialized ==
  /\ SaveInv(io, dones, ed, remote)
  /\ \A s \in late : SaveInv(io, dones, ed, Landing(remote, s))

\* A write that ends keeps it: what is late now is no newer than what flies.
LEMMA TaskEndsSerial ==
  ASSUME TypeInv, Serialized,
         NEW s \in io.wire, NEW fate \in WriteFates, NEW ok \in BOOLEAN,
         TaskEnds(s, fate, ok)
  PROVE  /\ SaveInv(io', dones', ed', remote')
         /\ \A u \in late' : SaveInv(io', dones', ed', Landing(remote', u))
<1>1. GoodEd(ed) /\ io \in Queues /\ RestOK
  BY TypeParts
<1>2. remote \in Files /\ late \in SUBSET PendingSave
      /\ dones \in SUBSET SaveDone
  BY <1>1 DEF RestOK
<1>3. remote' \in Files /\ late' \in SUBSET PendingSave
  BY TaskEndsType DEF RestOK
<1>4. s \in PendingSave /\ s.buf \in Buffers
  BY <1>1 DEF Queues, PendingSave
<1>5. /\ io' = [io EXCEPT !.wire = @ \ {s}]
      /\ dones' = dones \cup {[save |-> s, ok |-> ok]}
      /\ ed' = ed
      /\ ok => fate = "landed"
      /\ late' = IF fate = "late" THEN late \cup {s} ELSE late
      /\ remote' = IF fate = "landed"
                   THEN [remote EXCEPT ![s.buf] = Holds(s, FALSE)] ELSE remote
  BY DEF TaskEnds
<1>6. /\ \A b \in Buffers : b # s.buf => remote'[b] = remote[b]
      /\ fate = "landed" => remote'[s.buf] = Holds(s, FALSE)
      /\ fate # "landed" => remote'[s.buf] = remote[s.buf]
  BY <1>2, <1>4, <1>5 DEF Files
<1>7. \A x \in BOOLEAN : /\ Holds(s, x).text = s.text
                         /\ Holds(s, x).tick = s.tick
                         /\ Holds(s, x).late = x
  BY DEF Holds
<1>8. SaveInv(io', dones', ed', remote')
  <2>1. remote'[s.buf].tick = remote[s.buf].tick \/ remote'[s.buf].tick = s.tick
    BY <1>6, <1>7
  <2>2. ok => remote'[s.buf].text = s.text
    BY <1>5, <1>6, <1>7
  <2>3. SaveInv([io EXCEPT !.wire = @ \ {s}],
                dones \cup {[save |-> s, ok |-> ok]}, ed, remote')
    BY <1>1, <1>2, <1>3, <1>6, <2>1, <2>2, TaskInv DEF Serialized
  <2> QED BY <1>5, <2>3
<1>9. ASSUME NEW u \in late' PROVE SaveInv(io', dones', ed', Landing(remote', u))
  <2> DEFINE f == Landing(remote', u)
  <2>1. u \in PendingSave /\ u.buf \in Buffers
    BY <1>3 DEF PendingSave
  <2>2. /\ f \in Files
        /\ f[u.buf] = Holds(u, TRUE)
        /\ \A b \in Buffers : b # u.buf => f[b] = remote'[b]
    BY <1>3, <2>1, LandingIs
  <2>3. Holds(u, TRUE).tick = u.tick /\ Holds(u, TRUE).late
    BY DEF Holds
  <2> HIDE DEF f
  <2>4. CASE u \in late
    <3> DEFINE g == Landing(remote, u)
    <3>1. /\ g \in Files
          /\ g[u.buf] = Holds(u, TRUE)
          /\ \A b \in Buffers : b # u.buf => g[b] = remote[b]
      BY <1>2, <2>1, LandingIs
    <3>2. SaveInv(io, dones, ed, g)
      BY <2>4 DEF Serialized
    <3> HIDE DEF g
    <3>3. \A b \in Buffers : b # s.buf => f[b] = g[b]
      BY <1>6, <2>2, <3>1
    <3>4. f[s.buf].tick = g[s.buf].tick \/ f[s.buf].tick = s.tick
      BY <1>4, <1>6, <1>7, <2>2, <3>1
    <3>5. ok /\ ~f[s.buf].late => f[s.buf].text = s.text
      BY <1>4, <1>5, <1>6, <1>7, <2>2, <2>3
    <3>6. SaveInv([io EXCEPT !.wire = @ \ {s}],
                  dones \cup {[save |-> s, ok |-> ok]}, ed, f)
      BY <1>1, <1>2, <2>2, <3>1, <3>2, <3>3, <3>4, <3>5, TaskInv
    <3> QED BY <1>5, <3>6 DEF f
  <2>5. CASE u \notin late
    <3>1. u = s /\ ~ok /\ fate # "landed"
      BY <1>5, <2>5
    <3>2. \A b \in Buffers : b # s.buf => f[b] = remote[b]
      BY <1>6, <2>2, <3>1
    <3>3. f[s.buf].tick = s.tick
      BY <2>2, <2>3, <3>1
    <3>4. SaveInv([io EXCEPT !.wire = @ \ {s}],
                  dones \cup {[save |-> s, ok |-> ok]}, ed, f)
      BY <1>1, <1>2, <2>2, <3>1, <3>2, <3>3, TaskInv DEF Serialized
    <3> QED BY <1>5, <3>4 DEF f
  <2> QED BY <2>4, <2>5
<1> QED BY <1>8, <1>9

\* A late write makes of the files what the invariant foresaw.
LEMMA LateWriteSerial ==
  ASSUME TypeInv, Serialized, NEW s \in late, LateWrite(s)
  PROVE  /\ SaveInv(io', dones', ed', remote')
         /\ \A u \in late' : SaveInv(io', dones', ed', Landing(remote', u))
<1>1. remote \in Files /\ late \in SUBSET PendingSave
      /\ dones \in SUBSET SaveDone
  BY TypeParts DEF RestOK
<1>2. /\ remote' = Landing(remote, s) /\ late' = late \ {s}
      /\ UNCHANGED <<io, dones, ed>>
  BY DEF LateWrite, Landing
<1>3. SaveInv(io, dones, ed, Landing(remote, s))
  BY DEF Serialized
<1>4. Landing(remote, s) \in Files
  BY <1>1, LandingIs
<1>5. ASSUME NEW u \in late'
      PROVE  SaveInv(io, dones, ed, Landing(remote', u))
  <2> DEFINE g == Landing(remote, s)
             h == Landing(remote, u)
             f == Landing(g, u)
  <2>1. u \in late /\ u \in PendingSave
    BY <1>1, <1>2
  <2>0. SaveInv(io, dones, ed, h) /\ SaveInv(io, dones, ed, g)
    BY <1>3, <2>1 DEF Serialized
  <2> HIDE DEF g
  <2>a. g \in Files
    BY <1>4 DEF g
  <2>b. f[u.buf] = Holds(u, TRUE) /\ h[u.buf] = Holds(u, TRUE)
    BY <1>1, <2>1, <2>a, LandingIs
  <2>2. f[u.buf] = h[u.buf]
    BY <2>b
  <2>3. \A b \in Buffers : b # u.buf => f[b] = g[b]
    BY <2>1, <2>a, LandingIs
  <2>5. \A b \in Buffers : f[b] = h[b] \/ f[b] = g[b]
    BY <2>2, <2>3
  <2> HIDE DEF f, h
  <2>6. SaveInv(io, dones, ed, f)
    BY <1>1, <2>0, <2>5, SaveInvMix
  <2> QED BY <1>2, <2>6 DEF f, g
<1> QED BY <1>2, <1>3, <1>5

LEMMA SerialStep ==
  ASSUME HandlerWrites = FALSE, TypeInv, Serialized, [Next]_vars
  PROVE  /\ SaveInv(io', dones', ed', remote')
         /\ \A u \in late' : SaveInv(io', dones', ed', Landing(remote', u))
<1>1. CASE FileStep
  BY <1>1, TaskEndsSerial, LateWriteSerial DEF FileStep
<1>2. CASE ~FileStep
  <2>1. remote' = remote /\ late' = late
    BY <1>2, ZenonT(40)
       DEF FileStep, Next, UserStep, SystemStep, Edit, Undo, Focus,
           DeleteBuffer, ExWrite, ExWriteAll, Quit, QuitAll, ExitSettled,
           GateDone, ApplyOk, ApplyErr, ReplayQuitAll, vars
  <2>2. remote \in Files /\ \A u \in late : Landing(remote, u) \in Files
    BY TypeParts, LandingIs DEF RestOK
  <2>3. SaveInv(io', dones', ed', remote)
    BY <1>2, <2>2, SaveStep DEF Serialized
  <2>4. \A u \in late : SaveInv(io', dones', ed', Landing(remote, u))
    BY <1>2, <2>2, SaveStep DEF Serialized
  <2> QED BY <2>1, <2>3, <2>4
<1> QED BY <1>1, <1>2

LEMMA SerialAlways ==
  ASSUME HandlerWrites = FALSE
  PROVE  Spec => [](TypeInv /\ Serialized)
<1>1. Init => Serialized
  <2> SUFFICES ASSUME Init PROVE Serialized
    OBVIOUS
  <2>1. /\ io.wire = {} /\ dones = {} /\ io.inflight = {} /\ late = {}
        /\ \A b \in Buffers : io.queued[b] = <<>> /\ ed.buf[b].tick = 0
                              /\ remote[b].tick = 0
    BY DEF Init
  <2>2. DOMAIN <<>> = {}
    OBVIOUS
  <2> QED BY <2>1, <2>2 DEF Serialized, SaveInv, Slots, Sorted, Texts
<1>2. TypeInv /\ Serialized /\ [Next]_vars => Serialized'
  <2> SUFFICES ASSUME TypeInv, Serialized, [Next]_vars PROVE Serialized'
    OBVIOUS
  <2>1. /\ SaveInv(io', dones', ed', remote')
        /\ \A u \in late' : SaveInv(io', dones', ed', Landing(remote', u))
    BY SerialStep
  <2> QED BY <2>1 DEF Serialized, SaveInv, Slots, Sorted, Texts, Matches, Landing
<1> QED BY <1>1, <1>2, TypeInit, TypeStep, PTL DEF Spec

(***************************************************************************)
(* Overlapping writes of one buffer never fly together: drain_pending_saves *)
(* and the answers keep one write per buffer between the task and the run  *)
(* loop.  It needs that no BufWritePost handler writes inside the          *)
(* convergence of a deferred :q (SaveReentrant.cfg has the counterexample  *)
(* when one does).                                                         *)
(***************************************************************************)
THEOREM WritesSerialized ==
  ASSUME HandlerWrites = FALSE
  PROVE  Spec => []OneWriteInFlight
<1>1. TypeInv /\ Serialized => OneWriteInFlight
  BY DEF Serialized, SaveInv, Slots, OneWriteInFlight, Flying
<1> QED BY <1>1, SerialAlways, PTL

(***************************************************************************)
(* A snapshot in the queue always stands behind a write whose answer is    *)
(* still to come, so apply_save_done will send it or give it up.           *)
(***************************************************************************)
THEOREM NothingStranded ==
  ASSUME HandlerWrites = FALSE
  PROVE  Spec => []NoStrandedWrite
<1>1. TypeInv /\ Serialized => NoStrandedWrite
  <2> SUFFICES ASSUME Serialized, NEW b \in Buffers, io.queued[b] # <<>>
               PROVE  \E s \in Flying : s.buf = b
    BY DEF NoStrandedWrite
  <2>1. b \in io.inflight
    BY DEF Serialized, SaveInv, Slots
  <2> QED BY <2>1 DEF Serialized, SaveInv, Slots, Flying
<1> QED BY <1>1, SerialAlways, PTL

(***************************************************************************)
(* Nothing under way is overtaken (drain_pending_saves, apply_save_done    *)
(* and the daemon's drain): a file goes back to an earlier snapshot only   *)
(* by a write whose failure the user was already told, which the daemon of *)
(* a dropped link still served.  Without such a write a later text of a    *)
(* buffer is never overwritten by an earlier one.                          *)
(***************************************************************************)
THEOREM SnapshotsInOrder ==
  ASSUME HandlerWrites = FALSE
  PROVE  Spec => SnapshotOrder
<1> DEFINE Forward(b) == remote'[b].tick < remote[b].tick =>
                           \E s \in late \ late' : s.buf = b /\ s \notin Flying
<1>1. TypeInv /\ Serialized /\ [Next]_vars =>
        [\A b \in Buffers : Forward(b)]_vars
  <2> SUFFICES ASSUME TypeInv, Serialized, Next, NEW b \in Buffers
               PROVE  Forward(b)
    OBVIOUS
  <2>1. GoodEd(ed) /\ io \in Queues /\ RestOK
    BY TypeParts
  <2>2. remote \in Files /\ \A c \in Buffers : remote[c].tick \in Int
    BY <2>1, SaveAssumption DEF RestOK, Files, File, Ticks
  <2>3. \A s \in Flying : remote[s.buf].tick <= s.tick /\ s.tick \in Int
    <3>1. \A s \in io.wire : s.buf \in Buffers /\ s.tick \in Int
      BY <2>1, SaveAssumption DEF Queues, PendingSave, Ticks
    <3>2. \A d \in dones : d.save.tick \in Int
      BY <2>1, SaveAssumption DEF RestOK, SaveDone, PendingSave, Ticks
    <3>3. \A s \in io.wire : remote[s.buf].tick <= s.tick
      BY <3>1 DEF Serialized, SaveInv, Sorted
    <3>4. \A d \in dones : remote[d.save.buf].tick <= d.save.tick
      BY DEF Serialized, SaveInv, Texts
    <3> QED BY <3>1, <3>2, <3>3, <3>4 DEF Flying
  <2>4. ASSUME NEW s \in io.wire, NEW fate \in WriteFates, NEW ok \in BOOLEAN,
               TaskEnds(s, fate, ok)
        PROVE  Forward(b)
    <3>1. s.buf \in Buffers /\ Holds(s, FALSE).tick = s.tick
      BY <2>1 DEF Queues, PendingSave, Holds
    <3>2. remote[s.buf].tick <= s.tick /\ s.tick \in Int
      BY <2>3 DEF Flying
    <3>3. remote' = remote \/ remote' = [remote EXCEPT ![s.buf] = Holds(s, FALSE)]
      BY <2>4 DEF TaskEnds
    <3>4. \/ remote'[b].tick = remote[b].tick
          \/ b = s.buf /\ remote'[b].tick = s.tick
      BY <2>2, <3>1, <3>3 DEF Files
    <3> QED BY <2>2, <3>2, <3>4
  <2>5. ASSUME NEW s \in late, LateWrite(s), remote'[b].tick < remote[b].tick
        PROVE  \E u \in late \ late' : u.buf = b /\ u \notin Flying
    <3>1. s \in PendingSave /\ Holds(s, TRUE).tick = s.tick
      BY <2>1 DEF RestOK, Holds
    <3>2. remote' = [remote EXCEPT ![s.buf] = Holds(s, TRUE)]
          /\ late' = late \ {s}
      BY <2>5 DEF LateWrite
    <3>a. \A c \in Buffers : c # s.buf => remote'[c] = remote[c]
      BY <2>2, <3>2 DEF Files
    <3>b. remote'[s.buf] = Holds(s, TRUE)
      <4>1. s.buf \in Buffers
        BY <3>1 DEF PendingSave
      <4> QED BY <2>2, <3>2, <4>1 DEF Files
    <3>c. b = s.buf
      BY <2>2, <2>5, <3>a
    <3>3. b = s.buf /\ remote'[b].tick = s.tick
      BY <3>1, <3>b, <3>c
    <3>4. s \notin Flying
      BY <2>2, <2>3, <2>5, <3>3
    <3> QED BY <3>2, <3>3, <3>4
  <2>6. CASE ~FileStep
    <3>1. remote' = remote
      BY <2>6, ZenonT(40)
         DEF FileStep, Next, UserStep, SystemStep, Edit, Undo, Focus,
             DeleteBuffer, ExWrite, ExWriteAll, Quit, QuitAll, ExitSettled,
             GateDone, ApplyOk, ApplyErr, ReplayQuitAll
    <3> QED BY <2>2, <3>1
  <2> QED BY <2>4, <2>5, <2>6 DEF FileStep
<1> QED BY <1>1, SerialAlways, PTL DEF Spec, SnapshotOrder

(***************************************************************************)
(* finalize_save is exact: when an answer turns a buffer clean, the file   *)
(* holds the buffer's text, whatever was typed during the round trip, or   *)
(* the bytes of a write answered as failed that a cut-off daemon served    *)
(* after the one the answer is for.                                        *)
(***************************************************************************)
THEOREM AckExact ==
  ASSUME HandlerWrites = FALSE
  PROVE  Spec => AckIsExact
<1> DEFINE Exact(b) == ed.buf[b].modified /\ ~ed'.buf[b].modified
                         /\ ed'.buf[b].tick = ed.buf[b].tick
                       => remote[b].text = ed'.buf[b].text
                          \/ remote[b].late
<1>1. TypeInv /\ Serialized /\ [Next]_vars => [\A b \in Buffers : Exact(b)]_vars
  <2> SUFFICES ASSUME TypeInv, Serialized, Next, NEW b \in Buffers
               PROVE  Exact(b)
    OBVIOUS
  <2>1. GoodEd(ed) /\ io \in Queues /\ RestOK
    BY TypeParts
  <2>2. ed'.buf = ed.buf => Exact(b)
    OBVIOUS
  <2>3. CASE \/ \E c \in Buffers : Edit(c)
             \/ \E v \in Ticks : Undo(v)
             \/ \E w \in Windows : Focus(w)
             \/ \E c \in Buffers, force \in BOOLEAN : DeleteBuffer(c, force)
             \/ \E bang, parks \in BOOLEAN : Quit(bang, parks)
             \/ \E bang, parks \in BOOLEAN : QuitAll(bang, parks)
             \/ ExitSettled
    <3>1. Quiet(ed, ed')
      BY <2>1, <2>3, EditorStepsQuiet
    <3>2. ed.buf[b].tick \in Int
      BY <2>1, SaveAssumption DEF GoodEd, Editor, OpenBuffer, Ticks
    <3> QED BY <3>1, <3>2 DEF Quiet
  <2>4. ASSUME NEW d \in dones, NEW parks \in BOOLEAN, NEW hook \in BOOLEAN,
               ApplyOk(d, parks, hook)
        PROVE  Exact(b)
    <3> DEFINE s == d.save
               f == FinalizeSave(ed, s)
    <3>1. s \in PendingSave /\ s.buf \in Buffers
      BY <2>1 DEF RestOK, SaveDone, PendingSave
    <3>a. remote \in Files /\ SaveInv(io, dones, ed, remote)
      BY <2>1 DEF RestOK, Serialized
    <3>2. ed'.buf = f.buf /\ d.ok
      BY <2>4, <3>a, ApplyOkInv DEF ApplyOk
    <3>3. /\ f.buf[b].text = ed.buf[b].text
          /\ \/ f.buf[b].modified = ed.buf[b].modified
             \/ f.buf[b].modified
             \/ b = s.buf /\ ed.buf[b].tick = s.tick
      BY <2>1, <3>1, FinalizeGood
    <3>4. b = s.buf /\ ed.buf[b].tick = s.tick =>
            remote[b].text = ed.buf[b].text \/ remote[b].late
      BY <3>2 DEF Serialized, SaveInv, Texts, Matches
    <3> HIDE DEF f, s
    <3> QED BY <3>2, <3>3, <3>4
  <2>5. ASSUME NEW parks \in BOOLEAN, ReplayQuitAll(parks) PROVE Exact(b)
    <3>1. replay.bang \in BOOLEAN
      BY <2>1 DEF RestOK, Replays
    <3>2. ed'.buf = ed.buf
      BY <2>1, <2>5, <3>1, QuitAllGood DEF ReplayQuitAll
    <3> QED BY <2>2, <3>2
  <2>6. CASE \/ \E quit \in Quits, fate \in Fates : ExWrite(quit, fate)
             \/ \E quits, bang \in BOOLEAN, fate \in [Buffers -> Fates] :
                  ExWriteAll(quits, bang, fate)
             \/ \E pw \in gated, fate \in {"commit", "fail"} : GateDone(pw, fate)
             \/ \E s \in io.wire, fate \in WriteFates, ok \in BOOLEAN : TaskEnds(s, fate, ok)
             \/ \E s \in late : LateWrite(s)
             \/ \E d \in dones : ApplyErr(d)
    <3>1. ed' = ed
      BY <2>6 DEF ExWrite, ExWriteAll, GateDone, TaskEnds, LateWrite, ApplyErr
    <3> QED BY <2>2, <3>1
  <2> QED BY <2>3, <2>4, <2>5, <2>6 DEF Next, UserStep, SystemStep
<1> QED BY <1>1, SerialAlways, PTL DEF Spec, AckIsExact

-----------------------------------------------------------------------------
(***************************************************************************)
(* The gate of a :wqa.  Who owes the answer of a seq is stated of the      *)
(* queues q, the answers D and the parked writes P, so that what Enqueue,  *)
(* DispatchNext and the gate's operators do to it are lemmas.              *)
(***************************************************************************)

\* The write of seq n is parked, flying or queued.
Owed(q, D, P, n) ==
  \/ \E pw \in P : pw.seq = n
  \/ \E s \in q.wire : s.seq = n
  \/ \E d \in D : d.save.seq = n
  \/ \E b \in Buffers : \E i \in DOMAIN q.queued[b] : q.queued[b][i].seq = n

LEMMA OwedIsOwner ==
  GateHasOwners <=> \A n \in gate.waiting : Owed(io, dones, gated, n)
<1>1. ASSUME NEW n
      PROVE  Owed(io, dones, gated, n) <=>
               \/ \E pw \in gated : pw.seq = n
               \/ \E s \in Flying : s.seq = n
               \/ \E b \in Buffers : \E s \in Waiting(b) : s.seq = n
  <2>1. (\E s \in Flying : s.seq = n) <=>
          (\E s \in io.wire : s.seq = n) \/ (\E d \in dones : d.save.seq = n)
    BY DEF Flying
  <2>2. \A b \in Buffers : (\E s \in Waiting(b) : s.seq = n) <=>
          (\E i \in DOMAIN io.queued[b] : io.queued[b][i].seq = n)
    BY DEF Waiting
  <2> QED BY <2>1, <2>2, Zenon DEF Owed
<1> QED BY <1>1, Zenon DEF GateHasOwners

\* Nothing is dropped when snapshots of different buffers are queued, and
\* each of them goes to the wire or to its buffer's queue.
LEMMA EnqueueOwed ==
  ASSUME NEW q \in Queues, NEW S \in SUBSET PendingSave,
         \A s, t \in S : s.buf = t.buf => s = t,
         NEW D, NEW P, NEW n,
         Owed(q, D, P, n) \/ \E s \in S : s.seq = n
  PROVE  Owed(Enqueue(q, S), D, P, n)
<1> DEFINE m == Enqueue(q, S)
           one(b) == CHOOSE s \in S : s.buf = b
<1>1. /\ m.wire = q.wire \cup {s \in S : s.buf \notin q.inflight}
      /\ \A b \in Buffers :
           m.queued[b] = IF b \in q.inflight /\ \E s \in S : s.buf = b
                         THEN Append(q.queued[b], one(b)) ELSE q.queued[b]
  BY DEF Enqueue
<1>2. \A b \in Buffers : (\E s \in S : s.buf = b) => one(b) \in S /\ one(b).buf = b
  OBVIOUS
<1> HIDE DEF m, one
<1>3. \A b \in Buffers : q.queued[b] \in Seq(PendingSave)
  BY DEF Queues
<1>4. ASSUME NEW b \in Buffers, NEW i \in DOMAIN q.queued[b]
      PROVE  i \in DOMAIN m.queued[b] /\ m.queued[b][i] = q.queued[b][i]
  <2>1. CASE b \in q.inflight /\ \E s \in S : s.buf = b
    <3>1. one(b) \in PendingSave /\ m.queued[b] = Append(q.queued[b], one(b))
      BY <1>1, <1>2, <2>1
    <3> QED BY <1>3, <3>1
  <2>2. CASE ~(b \in q.inflight /\ \E s \in S : s.buf = b)
    BY <1>1, <2>2
  <2> QED BY <2>1, <2>2
<1>5. ASSUME NEW s \in S, s.seq = n PROVE Owed(m, D, P, n)
  <2>1. s.buf \in Buffers
    BY DEF PendingSave
  <2>2. CASE s.buf \notin q.inflight
    BY <1>1, <1>5, <2>2 DEF Owed
  <2>3. CASE s.buf \in q.inflight
    <3>1. one(s.buf) = s
      BY <1>2, <2>1
    <3>2. m.queued[s.buf] = Append(q.queued[s.buf], s)
      BY <1>1, <2>1, <2>3, <3>1
    <3> DEFINE i == Len(q.queued[s.buf]) + 1
    <3>3. i \in DOMAIN m.queued[s.buf] /\ m.queued[s.buf][i] = s
      BY <1>3, <2>1, <3>2
    <3> QED BY <1>5, <2>1, <3>3 DEF Owed
  <2> QED BY <2>2, <2>3
<1>6. ASSUME Owed(q, D, P, n) PROVE Owed(m, D, P, n)
  <2>1. CASE \E b \in Buffers : \E i \in DOMAIN q.queued[b] :
               q.queued[b][i].seq = n
    BY <1>4, <2>1, Zenon DEF Owed
  <2>2. CASE \/ \E pw \in P : pw.seq = n
             \/ \E s \in q.wire : s.seq = n
             \/ \E d \in D : d.save.seq = n
    BY <1>1, <2>2 DEF Owed
  <2> QED BY <1>6, <2>1, <2>2 DEF Owed
<1> QED BY <1>5, <1>6 DEF m

\* The write that leaves a buffer's queue goes to the wire.
LEMMA DispatchOwed ==
  ASSUME NEW q \in Queues, NEW c \in Buffers, NEW D, NEW P, NEW n,
         Owed(q, D, P, n)
  PROVE  Owed(DispatchNext(q, c), D, P, n)
<1> DEFINE m == DispatchNext(q, c)
<1>1. CASE q.queued[c] = <<>>
  BY <1>1 DEF DispatchNext
<1>2. CASE q.queued[c] # <<>>
  <2>1. /\ q.queued \in [Buffers -> Seq(PendingSave)]
        /\ q.queued[c] \in Seq(PendingSave)
    BY DEF Queues
  <2>2. /\ m.wire = q.wire \cup {Head(q.queued[c])}
        /\ m.queued = [q.queued EXCEPT ![c] = Tail(@)]
    BY <1>2 DEF DispatchNext
  <2>3. /\ m.queued[c] = Tail(q.queued[c])
        /\ \A b \in Buffers : b # c => m.queued[b] = q.queued[b]
    BY <2>1, <2>2
  <2> HIDE DEF m
  <2>4. ASSUME NEW b \in Buffers, NEW i \in DOMAIN q.queued[b],
               q.queued[b][i].seq = n
        PROVE  Owed(m, D, P, n)
    <3>1. CASE b # c
      BY <2>3, <2>4, <3>1 DEF Owed
    <3>2. CASE b = c /\ i = 1
      <4>1. Head(q.queued[c]).seq = n
        BY <2>1, <2>4, <3>2, <1>2
      <4> QED BY <2>2, <4>1 DEF Owed
    <3>3. CASE b = c /\ i # 1
      <4>1. /\ i - 1 \in DOMAIN Tail(q.queued[c])
            /\ Tail(q.queued[c])[i - 1] = q.queued[c][i]
        BY <1>2, <2>1, <3>3
      <4>2. i - 1 \in DOMAIN m.queued[c] /\ m.queued[c][i - 1].seq = n
        BY <2>3, <2>4, <3>3, <4>1
      <4> QED BY <4>2 DEF Owed
    <3> QED BY <3>1, <3>2, <3>3
  <2>5. ASSUME \/ \E pw \in P : pw.seq = n
               \/ \E s \in q.wire : s.seq = n
               \/ \E d \in D : d.save.seq = n
        PROVE  Owed(m, D, P, n)
    <3>1. \A s \in q.wire : s \in m.wire
      BY <2>2
    <3> QED BY <2>5, <3>1, Zenon DEF Owed
  <2>6. Owed(m, D, P, n)
    BY <2>4, <2>5, Zenon DEF Owed
  <2> QED BY <2>6 DEF m
<1> QED BY <1>1, <1>2

\* A settled seq leaves the gate, and a given-up one empties it.
LEMMA GateShrinks ==
  ASSUME NEW g \in Gates, NEW n, NEW D
  PROVE  /\ AdvanceGate(g, n).waiting \subseteq g.waiting \ {n}
         /\ CancelGate(g, D).waiting \subseteq g.waiting \ D
  BY DEF AdvanceGate, CancelGate, NoGate, Gates

\* What is acknowledged: all that the gate no longer waits for, and all that
\* a replay stands for.
Settled(g, r, A) ==
  /\ g.all \ g.waiting \subseteq A
  /\ r.on => r.all \subseteq A

LEMMA AdvanceSettled ==
  ASSUME NEW g \in Gates, NEW r \in Replays, NEW A, NEW n, NEW burst,
         Settled(g, r, A)
  PROVE  /\ Settled(AdvanceGate(g, n), r, A \cup {n})
         /\ Settled(AdvanceGate(g, n), NoReplay, A \cup {n})
         /\ Settled(AdvanceGate(g, n), Completes(g, n, burst), A \cup {n})
<1>1. g.all \ g.waiting \subseteq A /\ (r.on => r.all \subseteq A)
  BY DEF Settled
<1>2. AdvanceGate(g, n).all \ AdvanceGate(g, n).waiting \subseteq A \cup {n}
  BY <1>1 DEF AdvanceGate, NoGate, Gates
<1>3. Completes(g, n, burst).on => Completes(g, n, burst).all \subseteq A \cup {n}
  BY <1>1 DEF Completes, NoReplay
<1> QED BY <1>1, <1>2, <1>3 DEF Settled, NoReplay

LEMMA CancelSettled ==
  ASSUME NEW g, NEW r, NEW A, NEW D, Settled(g, r, A)
  PROVE  Settled(CancelGate(g, D), r, A)
  BY DEF Settled, CancelGate, NoGate

\* The gate's invariant: every seq it waits for is owed, and every seq it no
\* longer waits for was acknowledged.
GateOK(q, D, P, g, r, A) ==
  /\ \A n \in g.waiting : Owed(q, D, P, n)
  /\ Settled(g, r, A)

GateInv == GateOK(io, dones, gated, gate, replay, acked)

\* A :w parks its write, sends it, or issues none.
LEMMA ExWriteGate ==
  ASSUME TypeInv, GateInv, NEW quit \in Quits, NEW fate \in Fates,
         ExWrite(quit, fate)
  PROVE  GateOK(io', dones', gated', gate', replay', acked')
<1> DEFINE pw == [seq |-> nextSeq, buf |-> Current(ed), quit |-> quit,
                  win |-> ed.cur]
           S  == IF fate = "commit" THEN {Snapshot(ed, pw)} ELSE {}
<1>1. GoodEd(ed) /\ io \in Queues /\ RestOK
  BY TypeParts
<1>2. pw \in PreWrite
  <2>1. Current(ed) \in Buffers /\ ed.cur \in Windows
    BY <1>1 DEF GoodEd, Editor, Current
  <2>2. nextSeq \in Seqs
    BY <1>1, SaveAssumption DEF ExWrite, RestOK, Seqs
  <2> QED BY <2>1, <2>2 DEF PreWrite
<1>3. S \in SUBSET PendingSave /\ \A s, t \in S : s.buf = t.buf => s = t
  BY <1>1, <1>2, SnapshotType
<1>4. /\ gated \subseteq gated'
      /\ io' = Enqueue(io, S)
      /\ UNCHANGED <<dones, gate, replay, acked>>
  BY DEF ExWrite
<1> HIDE DEF S, pw
<1>5. ASSUME NEW n \in gate'.waiting PROVE Owed(io', dones', gated', n)
  <2>1. Owed(io, dones, gated, n)
    BY <1>4, <1>5 DEF GateInv, GateOK
  <2>2. Owed(io', dones, gated, n)
    BY <1>1, <1>3, <1>4, <2>1, EnqueueOwed
  <2> QED BY <1>4, <2>2 DEF Owed
<1> QED BY <1>4, <1>5 DEF GateInv, GateOK

\* A :wqa arms the gate with the seqs of its writes: each of them is parked or
\* snapshotted, or its failure has emptied the gate again.
LEMMA ExWriteAllGate ==
  ASSUME TypeInv, GateInv, NEW quits \in BOOLEAN, NEW bang \in BOOLEAN,
         NEW fate \in [Buffers -> Fates], ExWriteAll(quits, bang, fate)
  PROVE  GateOK(io', dones', gated', gate', replay', acked')
<1> DEFINE B     == Modified(ed)
           pw(b) == [seq |-> nextSeq + Cardinality({c \in B : c < b}),
                     buf |-> b, quit |-> "none", win |-> ed.cur]
           seqs  == {pw(b).seq : b \in B}
           S     == {Snapshot(ed, pw(b)) :
                       b \in {c \in B : fate[c] = "commit"}}
           P     == {pw(b) : b \in {c \in B : fate[c] = "park"}}
           D     == {pw(b).seq : b \in {c \in B : fate[c] = "fail"}}
           g     == [bang |-> bang, waiting |-> seqs, all |-> seqs]
<1>1. GoodEd(ed) /\ io \in Queues /\ RestOK
  BY TypeParts
<1>2. B \in SUBSET Buffers /\ nextSeq + Cardinality(B) <= MaxSeq + 1
      /\ nextSeq \in 1..(MaxSeq + 1)
  BY <1>1 DEF ExWriteAll, Modified, RestOK
<1>3. /\ ~replay.on
      /\ gated' = gated \cup P
      /\ io' = Enqueue(io, S)
      /\ gate' = IF quits THEN CancelGate(g, D) ELSE gate
      /\ UNCHANGED <<ed, dones, replay, acked>>
  BY DEF ExWriteAll, Idle
<1> HIDE DEF B
<1>4. \A b \in B : pw(b) \in PreWrite /\ pw(b).buf = b /\ pw(b).seq \in Seqs
  <2>1. \A b \in B : nextSeq + Cardinality({c \in B : c < b}) \in Seqs
    BY <1>2, BatchSeqs
  <2> QED BY <1>1, <1>2, <2>1 DEF PreWrite, Quits, GoodEd, Editor
<1>5. \A b \in B : fate[b] \in {"commit", "fail", "park"}
  BY <1>2 DEF Fates
<1> HIDE DEF pw
<1>6. \A b \in B : /\ Snapshot(ed, pw(b)) \in PendingSave
                   /\ Snapshot(ed, pw(b)).buf = b
                   /\ Snapshot(ed, pw(b)).seq = pw(b).seq
  BY <1>1, <1>4, SnapshotType DEF Snapshot
<1>7. S \in SUBSET PendingSave /\ \A s, t \in S : s.buf = t.buf => s = t
  BY <1>6
<1>8. \A n : Owed(io, dones, gated, n) \/ (\E s \in S : s.seq = n)
               => Owed(io', dones', gated', n)
  <2> SUFFICES ASSUME NEW n,
                      Owed(io, dones, gated, n) \/ \E s \in S : s.seq = n
               PROVE  Owed(io', dones', gated', n)
    OBVIOUS
  <2>1. Owed(Enqueue(io, S), dones, gated, n)
    BY <1>1, <1>7, EnqueueOwed
  <2>2. dones' = dones /\ gated \subseteq gated' /\ io' = Enqueue(io, S)
    BY <1>3
  <2> QED BY <2>1, <2>2 DEF Owed
<1>9. ASSUME NEW n \in gate'.waiting PROVE Owed(io', dones', gated', n)
  <2>1. CASE ~quits
    BY <1>3, <1>8, <1>9, <2>1 DEF GateInv, GateOK
  <2>2. CASE quits
    <3>1. g \in Gates
      BY <1>4 DEF Gates
    <3>2. gate'.waiting \subseteq seqs \ D
      BY <1>3, <2>2, <3>1, GateShrinks
    <3>3. PICK b \in B : n = pw(b).seq /\ fate[b] # "fail"
      BY <1>9, <3>2
    <3>4. CASE fate[b] = "commit"
      BY <1>6, <1>8, <3>3, <3>4
    <3>5. CASE fate[b] = "park"
      <4>1. pw(b) \in gated' /\ pw(b).seq = n
        BY <1>3, <3>3, <3>5
      <4> QED BY <4>1 DEF Owed
    <3> QED BY <1>5, <3>3, <3>4, <3>5
  <2> QED BY <2>1, <2>2
<1>10. Settled(gate', replay', acked')
  <2>1. Settled(gate, replay, acked) /\ Settled(g, replay, acked)
    BY <1>3 DEF GateInv, GateOK, Settled
  <2> QED BY <1>3, <2>1, CancelSettled
<1> QED BY <1>9, <1>10 DEF GateOK

\* A parked write that is moot settles its seq, one that fails gives it up.
LEMMA GateDoneGate ==
  ASSUME TypeInv, GateInv, NEW pw \in gated, NEW fate \in {"commit", "fail"},
         GateDone(pw, fate)
  PROVE  GateOK(io', dones', gated', gate', replay', acked')
<1>1. GoodEd(ed) /\ io \in Queues /\ RestOK
  BY TypeParts
<1>2. gate \in Gates /\ replay \in Replays /\ pw \in PreWrite
  BY <1>1 DEF RestOK
<1>3. /\ \A n \in gate.waiting : Owed(io, dones, gated, n)
      /\ Settled(gate, replay, acked)
  BY DEF GateInv, GateOK
<1>4. dones' = dones /\ gated' = gated \ {pw}
  BY DEF GateDone
<1>5. ASSUME NEW q, NEW n, n # pw.seq, Owed(q, dones, gated, n)
      PROVE  Owed(q, dones, gated', n)
  BY <1>4, <1>5 DEF Owed
<1>6. CASE ~ed.buf[pw.buf].open
  <2>1. /\ io' = io /\ gate' = AdvanceGate(gate, pw.seq)
        /\ replay' = Completes(gate, pw.seq, FALSE)
        /\ acked' = acked \cup {pw.seq}
    BY <1>6 DEF GateDone
  <2>2. gate'.waiting \subseteq gate.waiting \ {pw.seq}
    BY <1>2, <2>1, GateShrinks
  <2>3. \A n \in gate'.waiting : Owed(io', dones', gated', n)
    BY <1>3, <1>4, <1>5, <2>1, <2>2
  <2>4. Settled(gate', replay', acked')
    BY <1>2, <1>3, <2>1, AdvanceSettled
  <2> QED BY <2>3, <2>4 DEF GateOK
<1>7. CASE ed.buf[pw.buf].open /\ fate = "commit"
  <2> DEFINE S == {Snapshot(ed, pw)}
  <2>1. /\ S \in SUBSET PendingSave
        /\ \A s, t \in S : s.buf = t.buf => s = t
        /\ \A s \in S : s.seq = pw.seq
    BY <1>1, <1>2, SnapshotType DEF Snapshot
  <2>2. io' = Enqueue(io, S) /\ gate' = gate
        /\ replay' = replay /\ acked' = acked
    BY <1>7 DEF GateDone
  <2>3. \E s \in S : s.seq = pw.seq
    BY <2>1
  <2> HIDE DEF S
  <2>4. ASSUME NEW n \in gate.waiting PROVE Owed(io', dones, gated', n)
    <3>1. Owed(io, dones, gated', n) \/ \E s \in S : s.seq = n
      BY <1>3, <1>5, <2>3
    <3> QED BY <1>1, <2>1, <2>2, <3>1, EnqueueOwed
  <2> QED BY <1>3, <1>4, <2>2, <2>4 DEF GateOK
<1>8. CASE ed.buf[pw.buf].open /\ fate = "fail"
  <2>1. /\ io' = Enqueue(io, {}) /\ gate' = CancelGate(gate, {pw.seq})
        /\ replay' = replay /\ acked' = acked
    BY <1>8 DEF GateDone
  <2>2. gate'.waiting \subseteq gate.waiting \ {pw.seq}
    BY <1>2, <2>1, GateShrinks
  <2>3. ASSUME NEW n \in gate'.waiting PROVE Owed(io', dones', gated', n)
    <3>1. Owed(io, dones, gated', n)
      BY <1>3, <1>5, <2>2, <2>3
    <3> QED BY <1>1, <1>4, <2>1, <3>1, EnqueueOwed
  <2>4. Settled(gate', replay', acked')
    BY <1>3, <2>1, CancelSettled
  <2> QED BY <2>3, <2>4 DEF GateOK
<1> QED BY <1>6, <1>7, <1>8

\* A task's answer takes the write's place.
LEMMA TaskEndsGate ==
  ASSUME GateInv, NEW s \in io.wire, NEW fate \in WriteFates, NEW ok \in BOOLEAN,
         TaskEnds(s, fate, ok), io \in Queues
  PROVE  GateOK(io', dones', gated', gate', replay', acked')
<1>1. /\ io'.wire = io.wire \ {s} /\ io'.queued = io.queued
      /\ dones' = dones \cup {[save |-> s, ok |-> ok]}
      /\ UNCHANGED <<gated, gate, replay, acked>>
  BY DEF TaskEnds, Queues
<1>2. \E d \in dones' : d.save = s
  <2>1. [save |-> s, ok |-> ok] \in dones'
    BY <1>1
  <2> QED BY <2>1
<1>3. \A n : Owed(io, dones, gated, n) => Owed(io', dones', gated', n)
  <2> SUFFICES ASSUME NEW n, Owed(io, dones, gated, n)
               PROVE  Owed(io', dones', gated', n)
    OBVIOUS
  <2>1. CASE \E t \in io.wire : t.seq = n
    <3>1. (\E t \in io'.wire : t.seq = n) \/ s.seq = n
      BY <1>1, <2>1
    <3> QED BY <1>2, <3>1 DEF Owed
  <2>2. CASE ~(\E t \in io.wire : t.seq = n)
    <3>1. dones \subseteq dones'
      BY <1>1
    <3> QED BY <1>1, <2>2, <3>1 DEF Owed
  <2> QED BY <2>1, <2>2
<1> QED BY <1>1, <1>3 DEF GateInv, GateOK

LEMMA LateWriteGate ==
  ASSUME GateInv, NEW s \in late, LateWrite(s)
  PROVE  GateOK(io', dones', gated', gate', replay', acked')
  BY DEF LateWrite, GateInv

\* An acknowledged write settles its seq; the slot goes on to a waiting one.
LEMMA ApplyOkGate ==
  ASSUME TypeInv, GateInv, NEW d \in dones, NEW parks \in BOOLEAN,
         NEW hook \in BOOLEAN, ApplyOk(d, parks, hook)
  PROVE  GateOK(io', dones', gated', gate', replay', acked')
<1> DEFINE s  == d.save
           e1 == FinalizeSave(ed, s)
           e2 == IF s.quit = "none" THEN e1 ELSE ExQuit(e1, s.quit = "q!", parks)
           hw == [seq |-> nextSeq, buf |-> Current(e2), quit |-> "none",
                  win |-> e2.cur]
           q1 == [io EXCEPT !.inflight = @ \ {s.buf}]
           S  == {Snapshot(e2, hw)}
           q2 == IF hook THEN Enqueue(q1, S) ELSE q1
           r1 == IF s.quit = "none" THEN replay ELSE NoReplay
           r2 == Completes(gate, s.seq, TRUE)
<1>1. GoodEd(ed) /\ io \in Queues /\ RestOK
  BY TypeParts
<1>2. s \in PendingSave /\ s.buf \in Buffers
  BY <1>1 DEF RestOK, SaveDone, PendingSave
<1>3. /\ hook => nextSeq <= MaxSeq
      /\ dones' = dones \ {d} /\ gated' = gated
      /\ gate' = AdvanceGate(gate, s.seq)
      /\ replay' = IF r2.on THEN r2 ELSE r1
      /\ acked' = acked \cup {s.seq}
      /\ io' = DispatchNext(q2, s.buf)
  BY DEF ApplyOk
<1>4. gate \in Gates /\ replay \in Replays /\ (s.quit = "q!") \in BOOLEAN
  BY <1>1 DEF RestOK
<1> HIDE DEF s
<1>5. GoodEd(e2)
  <2>1. GoodEd(e1)
    BY <1>1, <1>2, FinalizeGood
  <2> QED BY <1>4, <2>1, QuitGood
<1> HIDE DEF e1, e2
<1>6. q1 \in Queues /\ q1.wire = io.wire /\ q1.queued = io.queued
  BY <1>1 DEF Queues
<1> HIDE DEF q1
<1>7. hook => S \in SUBSET PendingSave
  <2>1. hook => hw \in PreWrite
    BY <1>1, <1>3, <1>5, SaveAssumption
       DEF PreWrite, GoodEd, Editor, Current, Quits, Seqs, RestOK
  <2> HIDE DEF hw
  <2> QED BY <1>5, <2>1, SnapshotType
<1>8. \A x, y \in S : x.buf = y.buf => x = y
  OBVIOUS
<1> HIDE DEF S
<1>9. q2 \in Queues
  BY <1>6, <1>7, EnqueueType
<1>10. ASSUME NEW n \in gate'.waiting PROVE Owed(io', dones', gated', n)
  <2>1. n \in gate.waiting /\ n # s.seq
    BY <1>3, <1>4, <1>10, GateShrinks
  <2>2. Owed(io, dones, gated, n)
    BY <2>1 DEF GateInv, GateOK
  <2>3. Owed(q1, dones', gated', n)
    <3>1. \A c \in dones : c.save.seq = n => c \in dones'
      BY <1>3, <2>1 DEF s
    <3> QED BY <1>3, <1>6, <2>2, <3>1 DEF Owed
  <2>4. Owed(q2, dones', gated', n)
    BY <1>6, <1>7, <1>8, <2>3, EnqueueOwed
  <2> HIDE DEF q2
  <2> QED BY <1>2, <1>3, <1>9, <2>4, DispatchOwed
<1>11. Settled(gate', replay', acked')
  <2>1. Settled(gate, replay, acked)
    BY DEF GateInv, GateOK
  <2>2. /\ Settled(AdvanceGate(gate, s.seq), r1, acked \cup {s.seq})
        /\ Settled(AdvanceGate(gate, s.seq), r2, acked \cup {s.seq})
    BY <1>4, <2>1, AdvanceSettled
  <2> HIDE DEF r1, r2
  <2> QED BY <1>3, <2>2
<1> QED BY <1>10, <1>11 DEF GateOK

\* A failed write gives up its seq and those of the queue behind it.
LEMMA ApplyErrGate ==
  ASSUME TypeInv, GateInv, NEW d \in dones, ApplyErr(d)
  PROVE  GateOK(io', dones', gated', gate', replay', acked')
<1> DEFINE s      == d.save
           given  == {io.queued[s.buf][i] : i \in DOMAIN io.queued[s.buf]}
           doomed == {s.seq} \cup {t.seq : t \in given}
<1>1. GoodEd(ed) /\ io \in Queues /\ RestOK
  BY TypeParts
<1>2. gate \in Gates /\ s.buf \in Buffers
  BY <1>1 DEF RestOK, SaveDone, PendingSave
<1>3. /\ dones' = dones \ {d}
      /\ io' = [io EXCEPT !.inflight = @ \ {s.buf}, !.queued[s.buf] = <<>>]
      /\ gate' = CancelGate(gate, doomed)
      /\ UNCHANGED <<gated, replay, acked>>
  BY DEF ApplyErr
<1>4. ASSUME NEW n \in gate'.waiting PROVE Owed(io', dones', gated', n)
  <2>1. n \in gate.waiting \ doomed
    BY <1>2, <1>3, <1>4, GateShrinks
  <2>2. Owed(io, dones, gated, n)
    BY <2>1 DEF GateInv, GateOK
  <2>3. io'.wire = io.wire
        /\ \A b \in Buffers : b # s.buf => io'.queued[b] = io.queued[b]
    BY <1>1, <1>2, <1>3 DEF Queues
  <2>4. \A i \in DOMAIN io.queued[s.buf] : io.queued[s.buf][i].seq # n
    BY <2>1
  <2>5. \A c \in dones : c.save.seq = n => c \in dones'
    BY <1>3, <2>1
  <2> HIDE DEF s
  <2> QED BY <1>3, <2>2, <2>3, <2>4, <2>5 DEF Owed
<1>5. Settled(gate', replay', acked')
  BY <1>3, CancelSettled DEF GateInv, GateOK
<1> QED BY <1>4, <1>5 DEF GateOK

\* Every step keeps the gate's invariant.
LEMMA GateStep ==
  ASSUME TypeInv, GateInv, [Next]_vars
  PROVE  GateInv'
<1>1. GoodEd(ed) /\ io \in Queues /\ RestOK
  BY TypeParts
<1>2. SUFFICES GateOK(io', dones', gated', gate', replay', acked')
  BY DEF GateInv, GateOK, Owed, Settled
<1>3. CASE \/ \E b \in Buffers : Edit(b)
           \/ \E v \in Ticks : Undo(v)
           \/ \E w \in Windows : Focus(w)
           \/ \E b \in Buffers, force \in BOOLEAN : DeleteBuffer(b, force)
           \/ \E bang, parks \in BOOLEAN : Quit(bang, parks)
           \/ \E bang, parks \in BOOLEAN : QuitAll(bang, parks)
           \/ ExitSettled
  <2>1. UNCHANGED <<io, gated, dones, gate, replay, acked>>
    BY <1>3 DEF Edit, Undo, Focus, DeleteBuffer, Quit, QuitAll, ExitSettled
  <2> QED BY <2>1 DEF GateInv
<1>4. ASSUME NEW parks \in BOOLEAN, ReplayQuitAll(parks)
      PROVE  GateOK(io', dones', gated', gate', replay', acked')
  BY <1>4 DEF ReplayQuitAll, GateInv, GateOK, Settled, NoReplay
<1>5. CASE UNCHANGED vars
  BY <1>5 DEF vars, GateInv
<1> QED
  BY <1>1, <1>3, <1>4, <1>5, ExWriteGate, ExWriteAllGate, GateDoneGate,
     TaskEndsGate, LateWriteGate, ApplyOkGate, ApplyErrGate DEF Next, UserStep, SystemStep

LEMMA GateAlways == Spec => [](TypeInv /\ GateInv)
<1>1. Init => GateInv
  BY DEF Init, GateInv, GateOK, Settled, NoGate, NoReplay
<1> QED BY <1>1, TypeInit, TypeStep, GateStep, PTL DEF Spec

(***************************************************************************)
(* A :wqa never waits for an answer nobody owes: every seq in              *)
(* quit_all_gate.waiting is that of a write still parked in an autocommand *)
(* gate, queued, with a task or in an answer.  commit_pre_write,           *)
(* on_save_dones and drain_au_gate_done take a write away only together    *)
(* with its seq, or with the whole gate.  It holds with writing            *)
(* BufWritePost handlers too.                                              *)
(***************************************************************************)
THEOREM GateIsOwed == Spec => []GateHasOwners
<1>1. GateInv => GateHasOwners
  BY OwedIsOwner DEF GateInv, GateOK
<1> QED BY <1>1, GateAlways, PTL

(***************************************************************************)
(* advance_quit_all_gate replays a :wqa's quit only when every write of    *)
(* its batch has landed, or was moot because its buffer was closed.        *)
(***************************************************************************)
THEOREM QuitAfterAcks == Spec => []AllAckedThenQuit
<1>1. GateInv => AllAckedThenQuit
  BY DEF GateInv, GateOK, Settled, AllAckedThenQuit
<1> QED BY <1>1, GateAlways, PTL

=============================================================================
