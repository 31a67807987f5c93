--------------------------- MODULE FileSyncProofs ---------------------------
(***************************************************************************)
(* The watch, the pushes and the reloads of a file, for any number of       *)
(* outages, openings, writes and changes.                                   *)
(***************************************************************************)
EXTENDS FileSync, FiniteSetTheorems, SequenceTheorems, WellFoundedInduction, TLAPS

-----------------------------------------------------------------------------
(* Types. *)

Ids     == 1..MaxOpens
Reads   == [op : {"read"}, id : Ids]
Writes  == [op : {"write"}, id : Ids, tick : Nat, warned : Int]
Tasks   == Reads \cup Writes
Watches == [op : {"watch"}, known : Int] \cup {Unwatch}
Orders  == Tasks \cup Watches
Answers == [op : {"opened"}, id : Ids, ok : {TRUE}, content : Nat, stat : Nat]
           \cup [op : {"opened"}, id : Ids, ok : {FALSE}]
           \cup [op : {"wrote"}, save : Writes, ok : {TRUE}, content : Nat, stat : Nat]
           \cup [op : {"wrote"}, save : Writes, ok : {FALSE}]
Pushes  == [op : {"push"}, stat : Nat]
News    == Answers \cup Pushes

Link    == [phase : {"up", "lost", "down", "back"}, out : Seq(Orders)]
Inbox   == [msgs : Seq(News), arrived : Nat]
Leg     == [call : Tasks \cup {Idle}, step : {"idle", "stat", "reply", "restat"},
            got : Nat, stat : Nat, watched : BOOLEAN, base : Nat]
Buffer  == [open : BOOLEAN, id : 0..MaxOpens, named : BOOLEAN, text : Int,
            base : Int, drift : BOOLEAN, tick : Nat, modified : BOOLEAN,
            reload : Int]
Log     == [own : SUBSET Nat, told : Int, overlap : BOOLEAN, blind : BOOLEAN,
            loaded : BOOLEAN, torn : BOOLEAN, writes : Nat, edits : Nat, drops : Nat]

\* The call the file leg is in matches the step of it.
LegInv ==
  /\ dmn.step = "idle" => dmn.call = Idle
  /\ dmn.step = "stat" => dmn.call \in Reads
  /\ dmn.step \in {"reply", "restat"} => dmn.call \in Writes

\* Each buffer's queue holds its own writes.
SavesInv ==
  /\ saves \in [inflight : SUBSET Ids, queued : [Ids -> Seq(Writes)]]
  /\ \A k \in Ids : \A i \in 1..Len(saves.queued[k]) : saves.queued[k][i].id = k

TypeInv ==
  /\ disk \in Nat /\ made \in Nat
  /\ wire \in Link
  /\ inn \in Inbox
  /\ dmn \in Leg /\ LegInv
  /\ tasks \in Seq(Tasks)
  /\ ed \in Buffer /\ (ed.open => ed.id \in Ids)
  /\ SavesInv
  /\ hist \in Log

-----------------------------------------------------------------------------
(* What a message is about. *)

Fetch(m, k) == m.op \in {"read", "opened"} /\ m.id = k
Store(m, k) == \/ m.op = "write" /\ m.id = k
               \/ m.op = "wrote" /\ m.save.id = k
About(m, kind, k) == IF kind = "fetch" THEN Fetch(m, k) ELSE Store(m, k)

Holds(q, kind, k) == \E i \in 1..Len(q) : About(q[i], kind, k)
Once(q, kind, k)  == \A i, j \in 1..Len(q) :
                       About(q[i], kind, k) /\ About(q[j], kind, k) => i = j

\* None of this kind for k is under way, or at most one is.
Gone(kind, k) ==
  /\ ~Holds(tasks, kind, k) /\ ~Holds(wire.out, kind, k)
  /\ ~About(dmn.call, kind, k) /\ ~Holds(inn.msgs, kind, k)
Sole(kind, k) ==
  /\ Once(tasks, kind, k) /\ Once(wire.out, kind, k) /\ Once(inn.msgs, kind, k)
  /\ Holds(tasks, kind, k) =>
       ~Holds(wire.out, kind, k) /\ ~About(dmn.call, kind, k) /\ ~Holds(inn.msgs, kind, k)
  /\ Holds(wire.out, kind, k) => ~About(dmn.call, kind, k) /\ ~Holds(inn.msgs, kind, k)
  /\ About(dmn.call, kind, k) => ~Holds(inn.msgs, kind, k)

\* A step adds none of this kind for k.
Kept(kind, k) == (Sole(kind, k) => Sole(kind, k)') /\ (Gone(kind, k) => Gone(kind, k)')

\* One write of a buffer at a time, and one fetch unless two overlapped.
WayInv ==
  /\ \A k \in Ids : k > ed.id => Gone("fetch", k)
  /\ \A k \in Ids : Sole("store", k) /\ (k \in saves.inflight \/ Gone("store", k))
  /\ ~hist.overlap => \A k \in Ids : k = ed.id => Sole("fetch", k)
  /\ ~hist.overlap /\ ed.open /\ hist.loaded /\ ed.reload = None =>
       \A k \in Ids : k = ed.id => Gone("fetch", k)

-----------------------------------------------------------------------------
(* What the messages to the daemon make of the watch. *)

\* The last of them that is about the watch leaves it as wanted.
HeldBy(q, watched, want) ==
  /\ (\A i \in DOMAIN q : ~IsWatchOp(q[i])) => watched = want
  /\ \A i \in DOMAIN q :
       IsWatchOp(q[i]) /\ (\A j \in DOMAIN q : IsWatchOp(q[j]) => j <= i)
         => (q[i].op = "watch") = want

WatchInv ==
  /\ wire.phase = "up" => HeldBy(wire.out, dmn.watched, Watching)
  /\ wire.phase = "back" /\ ~Watching => HeldBy(wire.out, dmn.watched, FALSE)
  /\ wire.phase \in {"lost", "down"} => wire.out = <<>> /\ ~dmn.watched

-----------------------------------------------------------------------------
(* Whose change a push reports, until the link drops. *)

NoWrite(q, n) == \A i \in 1..n : q[i].op # "write"

\* Every push tells of a change among the first n that nobody in s made.
Foreign(q, s, n) == \A i \in 1..Len(q) :
                      q[i].op = "push" => q[i].stat \notin s /\ q[i].stat <= n

\* A watch with a baseline comes before any write.
Fresh(q, before) == \A i \in 1..Len(q) :
                      q[i].op = "watch" /\ q[i].known # 0 => before /\ NoWrite(q, i)

NothingWritten == hist.own = {} /\ dmn.call.op # "write"

Quiet ==
  /\ wire.phase = "up" /\ late = <<>>
  /\ hist.own \subseteq 1..made /\ disk \in 0..made
  /\ Foreign(inn.msgs, hist.own, made)
  /\ dmn.step \in {"idle", "stat"} /\ dmn.watched /\ dmn.base # disk => disk \notin hist.own
  /\ ~ed.named => /\ NothingWritten
                  /\ NoWrite(tasks, Len(tasks)) /\ NoWrite(wire.out, Len(wire.out))
                  /\ \A k \in Ids : saves.queued[k] = <<>>
  /\ Fresh(wire.out, NothingWritten)

QuietInv == hist.drops = 0 => Quiet

-----------------------------------------------------------------------------
(* Lemmas about messages and their queues. *)

LEMMA Typing ==
  /\ \A k \in Ids : Read(k) \in Reads /\ Read(k).op = "read" /\ Read(k).id = k
  /\ \A v \in Int : Watch(v) \in Watches /\ Watch(v).op = "watch" /\ Watch(v).known = v
  /\ Unwatch \in Watches /\ Unwatch.op = "unwatch"
  /\ Idle.op = "idle" /\ Idle \notin Tasks
  /\ \A k \in Ids : \A c, s \in Nat : Opened(k, c, s) \in Answers /\ Opened(k, c, s).op = "opened"
                                      /\ Opened(k, c, s).id = k
  /\ \A w \in Writes : \A c, s \in Nat : Wrote(w, c, s) \in Answers /\ Wrote(w, c, s).op = "wrote"
                                      /\ Wrote(w, c, s).save = w
  /\ \A k \in Ids : \A t \in Nat : \A v \in Int :
       [op |-> "write", id |-> k, tick |-> t, warned |-> v] \in Writes
  /\ \A v \in Nat : [op |-> "push", stat |-> v] \in Pushes
  /\ \A k \in Ids : [op |-> "opened", id |-> k, ok |-> FALSE] \in Answers
  /\ \A w \in Writes : [op |-> "wrote", save |-> w, ok |-> FALSE] \in Answers
<1>1. \A k \in Ids : Read(k) \in Reads /\ Read(k).op = "read" /\ Read(k).id = k
  BY DEF Read, Reads
<1>2. \A v \in Int : Watch(v) \in Watches /\ Watch(v).op = "watch" /\ Watch(v).known = v
  BY DEF Watch, Watches
<1>3. Unwatch \in Watches /\ Unwatch.op = "unwatch"
  BY DEF Unwatch, Watches
<1>4. Idle.op = "idle" /\ Idle \notin Tasks
  BY DEF Idle, Tasks, Reads, Writes
<1>5. \A k \in Ids : \A c, s \in Nat : Opened(k, c, s) \in Answers /\ Opened(k, c, s).op = "opened"
                                       /\ Opened(k, c, s).id = k
  BY DEF Opened, Answers
<1>6. \A w \in Writes : \A c, s \in Nat : Wrote(w, c, s) \in Answers /\ Wrote(w, c, s).op = "wrote"
                                       /\ Wrote(w, c, s).save = w
  BY DEF Wrote, Answers
<1>7. \A k \in Ids : \A t \in Nat : \A v \in Int :
        [op |-> "write", id |-> k, tick |-> t, warned |-> v] \in Writes
  BY DEF Writes
<1>8. \A v \in Nat : [op |-> "push", stat |-> v] \in Pushes
  BY DEF Pushes
<1>9. \A k \in Ids : [op |-> "opened", id |-> k, ok |-> FALSE] \in Answers
  BY DEF Answers
<1>10. \A w \in Writes : [op |-> "wrote", save |-> w, ok |-> FALSE] \in Answers
  BY DEF Answers
<1> QED BY <1>1, <1>2, <1>3, <1>4, <1>5, <1>6, <1>7, <1>8, <1>9, <1>10

LEMMA Fields ==
  /\ \A m \in Reads  : m.op = "read" /\ m.id \in Ids
  /\ \A m \in Writes : m.op = "write" /\ m.id \in Ids
  /\ \A m \in Watches : m.op \in {"watch", "unwatch"} /\ (m.op = "watch" => m.known \in Int)
  /\ \A m \in Answers : \/ m.op = "opened" /\ m.id \in Ids /\ m.ok \in BOOLEAN
                           /\ (m.ok => m.content \in Nat /\ m.stat \in Nat)
                        \/ m.op = "wrote" /\ m.save \in Writes /\ m.ok \in BOOLEAN
                           /\ (m.ok => m.content \in Nat /\ m.stat \in Nat)
  /\ \A m \in Pushes : m.op = "push" /\ m.stat \in Nat
<1>1. /\ \A m \in Reads  : m.op = "read" /\ m.id \in Ids
      /\ \A m \in Writes : m.op = "write" /\ m.id \in Ids
  BY DEF Reads, Writes
<1>2. \A m \in Watches : m.op \in {"watch", "unwatch"} /\ (m.op = "watch" => m.known \in Int)
  BY DEF Watches, Unwatch
<1>3. \A m \in Answers : \/ m.op = "opened" /\ m.id \in Ids /\ m.ok \in BOOLEAN
                            /\ (m.ok => m.content \in Nat /\ m.stat \in Nat)
                         \/ m.op = "wrote" /\ m.save \in Writes /\ m.ok \in BOOLEAN
                            /\ (m.ok => m.content \in Nat /\ m.stat \in Nat)
  BY DEF Answers
<1>4. \A m \in Pushes : m.op = "push" /\ m.stat \in Nat
  BY DEF Pushes
<1> QED BY <1>1, <1>2, <1>3, <1>4

\* A lost request ends in the answer to it.
LEMMA FailedIsAnswer ==
  ASSUME NEW m \in Tasks \cup Answers
  PROVE  /\ Failed(m) \in Answers /\ Failed(m).op \in {"opened", "wrote"}
         /\ \A kind, k : About(Failed(m), kind, k) <=> About(m, kind, k)
<1>1. CASE m.op \in {"read", "opened"}
  <2>1. m.id \in Ids
    BY <1>1, Fields DEF Tasks
  <2>2. Failed(m) = [op |-> "opened", id |-> m.id, ok |-> FALSE]
    BY <1>1 DEF Failed, OpenFailed
  <2>3. Failed(m) \in Answers
    BY <2>1, <2>2, Typing
  <2>4. Failed(m).op = "opened" /\ Failed(m).id = m.id
    BY <2>2
  <2>5. \A kind, k : About(Failed(m), kind, k) <=> About(m, kind, k)
    BY <1>1, <2>4 DEF About, Fetch, Store
  <2> QED BY <2>3, <2>4, <2>5
<1>2. CASE m.op = "write"
  <2>1. m \in Writes
    BY <1>2, Fields DEF Tasks
  <2>2. Failed(m) = [op |-> "wrote", save |-> m, ok |-> FALSE]
    BY <1>2 DEF Failed, SaveFailed
  <2>3. Failed(m) \in Answers
    BY <2>1, <2>2, Typing
  <2>4. Failed(m).op = "wrote" /\ Failed(m).save = m
    BY <2>2
  <2>5. \A kind, k : About(Failed(m), kind, k) <=> About(m, kind, k)
    BY <1>2, <2>1, <2>4, Fields DEF About, Fetch, Store
  <2> QED BY <2>3, <2>4, <2>5
<1>3. CASE m.op = "wrote"
  <2>1. m.save \in Writes
    BY <1>3, Fields DEF Tasks
  <2>2. Failed(m) = [op |-> "wrote", save |-> m.save, ok |-> FALSE]
    BY <1>3 DEF Failed, SaveFailed
  <2>3. Failed(m) \in Answers
    BY <2>1, <2>2, Typing
  <2>4. Failed(m).op = "wrote" /\ Failed(m).save = m.save
    BY <2>2
  <2>5. \A kind, k : About(Failed(m), kind, k) <=> About(m, kind, k)
    BY <1>3, <2>4 DEF About, Fetch, Store
  <2> QED BY <2>3, <2>4, <2>5
<1>4. m.op \in {"read", "opened", "write", "wrote"}
  BY Fields DEF Tasks
<1> QED BY <1>1, <1>2, <1>3, <1>4

\* A set of positions has a lowest one.
LEMMA LowestExists ==
  ASSUME NEW S, S \subseteq Nat, S # {}
  PROVE  \E b \in S : \A c \in S : b <= c
<1>1. PICK b \in S : \A c \in S : ~(<<c, b>> \in OpToRel(<, Nat))
  BY NatLessThanWellFounded, WFMin
<1>2. \A c \in S : ~(c < b)
  BY <1>1 DEF OpToRel
<1> QED BY <1>2

\* The first message of a kind, and what is left without it.
LEMMA FirstFound ==
  ASSUME TypeInv, NEW o, First(o) > 0
  PROVE  First(o) \in 1..Len(inn.msgs) /\ inn.msgs[First(o)].op = o
<1> DEFINE I == {i \in 1..Len(inn.msgs) : inn.msgs[i].op = o}
<1>0. Len(inn.msgs) \in Nat
  BY DEF TypeInv, Link, Inbox, Leg
<1>1. First(o) = IF I # {} THEN Min(I) ELSE 0
  BY DEF First, SelectInSeq
<1>2. I # {} /\ First(o) = Min(I)
  BY <1>1
<1>3. \E i \in I : \A j \in I : i <= j
  <2>1. I \subseteq Nat /\ I # {}
    BY <1>0, <1>2
  <2> HIDE DEF I
  <2> QED BY <2>1, LowestExists
<1>4. Min(I) \in I
  BY <1>3 DEF Min
<1> QED BY <1>2, <1>4

LEMMA Removed ==
  ASSUME NEW S, NEW q \in Seq(S), NEW i \in 1..Len(q)
  PROVE  /\ RemoveAt(q, i) \in Seq(S) /\ Len(RemoveAt(q, i)) = Len(q) - 1
         /\ \A j \in 1..(Len(q) - 1) :
              RemoveAt(q, i)[j] = IF j < i THEN q[j] ELSE q[j + 1]
<1> DEFINE a == SubSeq(q, 1, i - 1)
           b == SubSeq(q, i + 1, Len(q))
<1>1. a \in Seq(S) /\ Len(a) = i - 1 /\ \A j \in 1..(i - 1) : a[j] = q[j]
  OBVIOUS
<1>2. b \in Seq(S) /\ Len(b) = Len(q) - i /\ \A j \in 1..(Len(q) - i) : b[j] = q[i + j]
  OBVIOUS
<1>3. RemoveAt(q, i) = a \o b
  BY DEF RemoveAt
<1> HIDE DEF a, b
<1>4. a \o b \in Seq(S) /\ Len(a \o b) = Len(a) + Len(b)
  <2>1. a \in Seq(S) /\ b \in Seq(S)
    BY <1>1, <1>2
  <2> QED BY <2>1
<1>6. Len(a \o b) = Len(q) - 1
  BY <1>1, <1>2, <1>4
<1>5. ASSUME NEW j \in 1..(Len(q) - 1)
      PROVE  (a \o b)[j] = IF j < i THEN q[j] ELSE q[j + 1]
  BY <1>1, <1>2
<1> QED BY <1>3, <1>4, <1>5, <1>6

LEMMA HoldsConcat ==
  ASSUME NEW S, NEW q \in Seq(S), NEW r \in Seq(S), NEW kind, NEW k
  PROVE  /\ Holds(q \o r, kind, k) <=> Holds(q, kind, k) \/ Holds(r, kind, k)
         /\ Once(q \o r, kind, k) <=> /\ Once(q, kind, k) /\ Once(r, kind, k)
                                      /\ ~(Holds(q, kind, k) /\ Holds(r, kind, k))
<1> DEFINE c == q \o r
<1>0. Len(q) \in Nat /\ Len(r) \in Nat
  OBVIOUS
<1>1. Len(c) = Len(q) + Len(r)
  OBVIOUS
<1>2. \A i \in 1..Len(q) : i \in 1..Len(c) /\ c[i] = q[i]
  OBVIOUS
<1>3. \A i \in 1..Len(r) : Len(q) + i \in 1..Len(c) /\ c[Len(q) + i] = r[i]
  OBVIOUS
<1>4. \A i \in 1..Len(c) : i \in 1..Len(q) \/ \E j \in 1..Len(r) : i = Len(q) + j
  <2> TAKE i \in 1..Len(c)
  <2> CASE i > Len(q)
    <3>1. i - Len(q) \in 1..Len(r) /\ i = Len(q) + (i - Len(q))
      BY <1>0, <1>1
    <3> QED BY <3>1
  <2> QED BY <1>0, <1>1
<1> HIDE DEF c
<1>5. Holds(c, kind, k) <=> Holds(q, kind, k) \/ Holds(r, kind, k)
  <2>1. Holds(c, kind, k) => Holds(q, kind, k) \/ Holds(r, kind, k)
    <3> SUFFICES ASSUME NEW i \in 1..Len(c), About(c[i], kind, k)
                 PROVE  Holds(q, kind, k) \/ Holds(r, kind, k)
      BY DEF Holds
    <3> QED BY <1>2, <1>3, <1>4 DEF Holds
  <2>2. Holds(q, kind, k) \/ Holds(r, kind, k) => Holds(c, kind, k)
    BY <1>2, <1>3 DEF Holds
  <2> QED BY <2>1, <2>2
<1>6. Once(c, kind, k) => /\ Once(q, kind, k) /\ Once(r, kind, k)
                          /\ ~(Holds(q, kind, k) /\ Holds(r, kind, k))
  <2> HAVE Once(c, kind, k)
  <2>1. Once(q, kind, k)
    BY <1>2 DEF Once
  <2>2. Once(r, kind, k)
    <3> SUFFICES ASSUME NEW i \in 1..Len(r), NEW j \in 1..Len(r),
                        About(r[i], kind, k), About(r[j], kind, k)
                 PROVE  i = j
      BY DEF Once
    <3>1. Len(q) + i = Len(q) + j
      BY <1>3 DEF Once
    <3> QED BY <1>0, <3>1
  <2>3. ASSUME NEW i \in 1..Len(q), NEW j \in 1..Len(r),
               About(q[i], kind, k), About(r[j], kind, k)
        PROVE  FALSE
    <3>1. i = Len(q) + j
      BY <1>2, <1>3, <2>3 DEF Once
    <3> QED BY <1>0, <3>1
  <2> QED BY <2>1, <2>2, <2>3 DEF Holds
<1>7. ASSUME Once(q, kind, k), Once(r, kind, k), ~(Holds(q, kind, k) /\ Holds(r, kind, k))
      PROVE  Once(c, kind, k)
  <2> SUFFICES ASSUME NEW i \in 1..Len(c), NEW j \in 1..Len(c),
                      About(c[i], kind, k), About(c[j], kind, k)
               PROVE  i = j
    BY DEF Once
  <2>1. CASE i \in 1..Len(q) /\ j \in 1..Len(q)
    BY <1>2, <1>7, <2>1 DEF Once
  <2>2. CASE \E a, b \in 1..Len(r) : i = Len(q) + a /\ j = Len(q) + b
    BY <1>3, <1>7, <2>2 DEF Once
  <2>3. CASE \E a \in 1..Len(q), b \in 1..Len(r) : (i = a /\ j = Len(q) + b) \/ (j = a /\ i = Len(q) + b)
    BY <1>2, <1>3, <1>7, <2>3 DEF Holds
  <2> QED BY <1>4, <2>1, <2>2, <2>3
<1> QED BY <1>5, <1>6, <1>7 DEF c

LEMMA HoldsOne ==
  ASSUME NEW m, NEW kind, NEW k
  PROVE  /\ Holds(<<m>>, kind, k) <=> About(m, kind, k)
         /\ Once(<<m>>, kind, k)
         /\ ~Holds(<<>>, kind, k) /\ Once(<<>>, kind, k)
BY DEF Holds, Once

LEMMA HoldsAppend ==
  ASSUME NEW S, NEW q \in Seq(S), NEW m \in S, NEW kind, NEW k
  PROVE  /\ Holds(Append(q, m), kind, k) <=> Holds(q, kind, k) \/ About(m, kind, k)
         /\ Once(Append(q, m), kind, k) <=>
              Once(q, kind, k) /\ ~(Holds(q, kind, k) /\ About(m, kind, k))
<1>1. Append(q, m) = q \o <<m>> /\ <<m>> \in Seq(S)
  OBVIOUS
<1> QED BY ONLY <1>1, HoldsConcat, HoldsOne, q \in Seq(S)

LEMMA HoldsTail ==
  ASSUME NEW S, NEW q \in Seq(S), q # <<>>, NEW kind, NEW k
  PROVE  /\ Holds(q, kind, k) <=> About(Head(q), kind, k) \/ Holds(Tail(q), kind, k)
         /\ Once(q, kind, k) <=> /\ Once(Tail(q), kind, k)
                                 /\ ~(About(Head(q), kind, k) /\ Holds(Tail(q), kind, k))
<1> DEFINE h == <<Head(q)>>
           t == Tail(q)
<1>1. q = h \o t
  OBVIOUS
<1>2. h \in Seq(S) /\ t \in Seq(S)
  OBVIOUS
<1>3. /\ Holds(h, kind, k) <=> About(Head(q), kind, k)
      /\ Once(h, kind, k)
  BY HoldsOne
<1> HIDE DEF h
<1>4. /\ Holds(h \o t, kind, k) <=> Holds(h, kind, k) \/ Holds(t, kind, k)
      /\ Once(h \o t, kind, k) <=> /\ Once(h, kind, k) /\ Once(t, kind, k)
                                   /\ ~(Holds(h, kind, k) /\ Holds(t, kind, k))
  BY ONLY <1>2, HoldsConcat
<1> QED BY <1>1, <1>3, <1>4

LEMMA HoldsRemoved ==
  ASSUME NEW S, NEW q \in Seq(S), NEW i \in 1..Len(q), NEW kind, NEW k
  PROVE  /\ Holds(q, kind, k) <=> About(q[i], kind, k) \/ Holds(RemoveAt(q, i), kind, k)
         /\ Once(q, kind, k) <=> /\ Once(RemoveAt(q, i), kind, k)
                                 /\ ~(About(q[i], kind, k) /\ Holds(RemoveAt(q, i), kind, k))
<1> DEFINE r    == RemoveAt(q, i)
           p(j) == IF j < i THEN j ELSE j + 1
<1>0. Len(q) \in Nat /\ Len(r) = Len(q) - 1
      /\ \A j \in 1..(Len(q) - 1) : r[j] = IF j < i THEN q[j] ELSE q[j + 1]
  BY Removed, SMTT(60)
<1> HIDE DEF r
<1>1. \A j \in 1..Len(r) : p(j) \in 1..Len(q) /\ p(j) # i /\ q[p(j)] = r[j]
  BY <1>0
<1>2. \A j, n \in 1..Len(r) : p(j) = p(n) => j = n
  BY <1>0
<1>3. \A n \in 1..Len(q) : n = i \/ \E j \in 1..Len(r) : n = p(j)
  <2> TAKE n \in 1..Len(q)
  <2>1. CASE n < i
    <3>1. n \in 1..Len(r) /\ n = p(n)
      BY <1>0, <2>1
    <3> QED BY <3>1
  <2>2. CASE n > i
    <3>1. n - 1 \in 1..Len(r) /\ n = p(n - 1)
      BY <1>0, <2>2
    <3> QED BY <3>1
  <2> QED BY <1>0, <2>1, <2>2
<1> HIDE DEF p
<1>4. Holds(q, kind, k) <=> About(q[i], kind, k) \/ Holds(r, kind, k)
  <2>1. Holds(q, kind, k) => About(q[i], kind, k) \/ Holds(r, kind, k)
    BY <1>1, <1>3 DEF Holds
  <2>2. About(q[i], kind, k) \/ Holds(r, kind, k) => Holds(q, kind, k)
    BY <1>1 DEF Holds
  <2> QED BY <2>1, <2>2
<1>5. Once(q, kind, k) => Once(r, kind, k) /\ ~(About(q[i], kind, k) /\ Holds(r, kind, k))
  <2> HAVE Once(q, kind, k)
  <2>1. Once(r, kind, k)
    BY <1>1, <1>2 DEF Once
  <2>2. ~(About(q[i], kind, k) /\ Holds(r, kind, k))
    BY <1>1 DEF Once, Holds
  <2> QED BY <2>1, <2>2
<1>6. Once(r, kind, k) /\ ~(About(q[i], kind, k) /\ Holds(r, kind, k)) => Once(q, kind, k)
  <2> SUFFICES ASSUME Once(r, kind, k), ~(About(q[i], kind, k) /\ Holds(r, kind, k)),
                      NEW j \in 1..Len(q), NEW n \in 1..Len(q),
                      About(q[j], kind, k), About(q[n], kind, k)
               PROVE  j = n
    BY DEF Once
  <2>1. CASE j = i \/ n = i
    BY <1>1, <1>3, <2>1 DEF Holds
  <2>2. CASE j # i /\ n # i
    BY <1>1, <1>3, <2>2 DEF Once
  <2> QED BY <2>1, <2>2
<1> QED BY <1>4, <1>5, <1>6 DEF r

\* A queue cut in two.
LEMMA CutInTwo ==
  ASSUME NEW S, NEW q \in Seq(S), NEW n \in 0..Len(q)
  PROVE  LET a == SubSeq(q, 1, n)
             b == SubSeq(q, n + 1, Len(q))
         IN a \in Seq(S) /\ b \in Seq(S) /\ q = a \o b
<1> DEFINE a == SubSeq(q, 1, n)
           b == SubSeq(q, n + 1, Len(q))
<1>1. Len(q) \in Nat /\ \A i \in 1..Len(q) : q[i] \in S
  OBVIOUS
<1>2. a \in Seq(S) /\ Len(a) = n /\ \A i \in 1..n : a[i] = q[i]
  BY <1>1, SubSeqProperties
<1>3. b \in Seq(S) /\ Len(b) = Len(q) - n /\ \A i \in 1..(Len(q) - n) : b[i] = q[n + i]
  BY <1>1, SubSeqProperties
<1> HIDE DEF a, b
<1>4. a \o b \in Seq(S) /\ Len(a \o b) = Len(a) + Len(b)
      /\ \A i \in 1..(Len(a) + Len(b)) :
           (a \o b)[i] = IF i <= Len(a) THEN a[i] ELSE b[i - Len(a)]
  BY <1>2, <1>3, ConcatProperties
<1> DEFINE c == a \o b
<1>5. c \in Seq(S) /\ Len(c) = Len(q) /\ \A i \in 1..Len(q) : c[i] = q[i]
  BY <1>1, <1>2, <1>3, <1>4
<1> HIDE DEF c
<1>6. q = c
  BY <1>5, SeqEqual
<1> QED BY <1>2, <1>3, <1>6 DEF a, b, c

\* The requests that were lost fail once each.
LEMMA FailuresFit ==
  ASSUME TypeInv, NEW n \in 0..Len(inn.msgs)
  PROVE  LET kept == SubSeq(inn.msgs, 1, n)
             msgs == kept \o Failures(SubSeq(inn.msgs, n + 1, Len(inn.msgs)))
         IN /\ msgs \in Seq(News)
            /\ \A kind, k :
                 /\ Holds(msgs, kind, k) => \/ Holds(inn.msgs, kind, k) \/ About(dmn.call, kind, k)
                                           \/ Holds(wire.out, kind, k)
                 /\ Once(inn.msgs, kind, k) /\ Once(wire.out, kind, k)
                    /\ ~(Holds(inn.msgs, kind, k) /\ About(dmn.call, kind, k))
                    /\ ~(Holds(inn.msgs, kind, k) /\ Holds(wire.out, kind, k))
                    /\ ~(About(dmn.call, kind, k) /\ Holds(wire.out, kind, k))
                    => Once(msgs, kind, k)
<1> DEFINE kept == SubSeq(inn.msgs, 1, n)
           lost == SubSeq(inn.msgs, n + 1, Len(inn.msgs))
           T    == News \cup Orders \cup {Idle}
           call == <<dmn.call>>
           all  == lost \o call \o wire.out
           owed == {i \in DOMAIN all : all[i].op \in {"read", "write", "opened", "wrote"}}
           N    == Cardinality(owed)
           fs   == Failures(lost)
<1>1. inn.msgs \in Seq(News) /\ wire.out \in Seq(Orders) /\ dmn.call \in Tasks \cup {Idle}
  BY DEF TypeInv, Link, Inbox, Leg
<1>2. kept \in Seq(News) /\ lost \in Seq(News) /\ inn.msgs = kept \o lost
  BY <1>1, CutInTwo
<1>3. kept \in Seq(T) /\ lost \in Seq(T) /\ call \in Seq(T) /\ wire.out \in Seq(T)
  BY <1>1, <1>2 DEF Orders
<1> HIDE DEF kept, lost, T, call
<1>4. lost \o call \in Seq(T) /\ all \in Seq(T)
  BY <1>3
<1> DEFINE al == all
<1>a. al \in Seq(T) /\ al = all
  BY <1>4
<1> HIDE DEF al, all
<1>b. owed = {i \in DOMAIN al : al[i].op \in {"read", "write", "opened", "wrote"}}
  BY <1>a
<1>c. Len(al) \in Nat /\ DOMAIN al = 1..Len(al) /\ \A i \in 1..Len(al) : al[i] \in T
  <2>1. al \in Seq(T)
    BY <1>a
  <2> QED BY <2>1
<1> HIDE DEF owed
<1>5. IsFiniteSet(owed)
  <2>1. IsFiniteSet(1..Len(al))
    BY <1>c, FS_Interval
  <2>2. owed \subseteq 1..Len(al)
    BY <1>b, <1>c
  <2> QED BY <2>1, <2>2, FS_Subset
<1>6. N \in Nat /\ ExistsBijection(1..N, owed)
  BY <1>5, FS_NatBijection, FS_CountingElements
<1>7. \E f \in [1..N -> owed] : IsInjective(f)
  BY <1>6 DEF ExistsBijection, Bijection, Injection
<1> DEFINE f == SetToSeq(owed)
<1>8. f \in [1..N -> owed] /\ IsInjective(f)
  BY <1>7 DEF SetToSeq
<1>9. fs = [i \in 1..N |-> Failed(al[f[i]])]
  BY <1>a DEF Failures, call, owed, all
<1>11. \A i \in owed : i \in 1..Len(al) /\ al[i] \in Tasks \cup Answers
  <2>1. \A m \in T : m.op \in {"read", "write", "opened", "wrote"} => m \in Tasks \cup Answers
    BY Fields, Typing DEF T, News, Orders
  <2> QED BY <1>b, <1>c, <2>1
<1> HIDE DEF f, N, fs
<1>12. fs \in Seq(Answers) /\ Len(fs) = N
  BY <1>6, <1>8, <1>9, <1>11, FailedIsAnswer
<1>13. \A i \in 1..N : f[i] \in 1..Len(al)
         /\ \A kind, k : About(fs[i], kind, k) <=> About(al[f[i]], kind, k)
  BY <1>6, <1>8, <1>9, <1>11, FailedIsAnswer
<1>14. kept \o fs \in Seq(News)
  <2>1. fs \in Seq(News)
    BY <1>12 DEF News
  <2> QED BY <1>2, <2>1
<1>15. ASSUME NEW kind, NEW k
       PROVE  /\ Holds(fs, kind, k) => Holds(al, kind, k)
              /\ Once(al, kind, k) => Once(fs, kind, k)
  <2>1. Holds(fs, kind, k) => Holds(al, kind, k)
    BY <1>12, <1>13 DEF Holds
  <2>2. \A i, j \in 1..N : f[i] = f[j] => i = j
    BY <1>8 DEF IsInjective
  <2>3. Once(al, kind, k) => Once(fs, kind, k)
    BY <1>12, <1>13, <2>2 DEF Once
  <2> QED BY <2>1, <2>3
<1>16. ASSUME NEW kind, NEW k
       PROVE  /\ Holds(inn.msgs, kind, k) <=> Holds(kept, kind, k) \/ Holds(lost, kind, k)
              /\ Once(inn.msgs, kind, k) <=>
                   /\ Once(kept, kind, k) /\ Once(lost, kind, k)
                   /\ ~(Holds(kept, kind, k) /\ Holds(lost, kind, k))
  BY <1>2, HoldsConcat
<1>17. ASSUME NEW kind, NEW k
       PROVE  /\ Holds(al, kind, k) <=> \/ Holds(lost, kind, k) \/ About(dmn.call, kind, k)
                                         \/ Holds(wire.out, kind, k)
              /\ Once(al, kind, k) <=>
                   /\ Once(lost, kind, k) /\ Once(wire.out, kind, k)
                   /\ ~(Holds(lost, kind, k) /\ About(dmn.call, kind, k))
                   /\ ~(Holds(lost, kind, k) /\ Holds(wire.out, kind, k))
                   /\ ~(About(dmn.call, kind, k) /\ Holds(wire.out, kind, k))
  <2> DEFINE d == lost \o call
  <2>1. /\ Holds(d, kind, k) <=> Holds(lost, kind, k) \/ Holds(call, kind, k)
        /\ Once(d, kind, k) <=> /\ Once(lost, kind, k) /\ Once(call, kind, k)
                                /\ ~(Holds(lost, kind, k) /\ Holds(call, kind, k))
    BY <1>3, HoldsConcat
  <2>2. Once(call, kind, k) /\ (Holds(call, kind, k) <=> About(dmn.call, kind, k))
    BY HoldsOne DEF call
  <2>3. d \in Seq(T) /\ al = d \o wire.out
    BY <1>4, <1>a DEF all
  <2> HIDE DEF d
  <2>4. /\ Holds(al, kind, k) <=> Holds(d, kind, k) \/ Holds(wire.out, kind, k)
        /\ Once(al, kind, k) <=> /\ Once(d, kind, k) /\ Once(wire.out, kind, k)
                                  /\ ~(Holds(d, kind, k) /\ Holds(wire.out, kind, k))
    BY <1>3, <2>3, HoldsConcat
  <2> QED BY <2>1, <2>2, <2>4
<1>18. ASSUME NEW kind, NEW k
       PROVE  /\ Holds(kept \o fs, kind, k) <=> Holds(kept, kind, k) \/ Holds(fs, kind, k)
              /\ Once(kept \o fs, kind, k) <=>
                   /\ Once(kept, kind, k) /\ Once(fs, kind, k)
                   /\ ~(Holds(kept, kind, k) /\ Holds(fs, kind, k))
  <2>1. fs \in Seq(News)
    BY <1>12 DEF News
  <2> QED BY <1>2, <2>1, HoldsConcat
<1>19. ASSUME NEW kind, NEW k
       PROVE  /\ Holds(kept \o fs, kind, k) =>
                   \/ Holds(inn.msgs, kind, k) \/ About(dmn.call, kind, k)
                   \/ Holds(wire.out, kind, k)
              /\ Once(inn.msgs, kind, k) /\ Once(wire.out, kind, k)
                 /\ ~(Holds(inn.msgs, kind, k) /\ About(dmn.call, kind, k))
                 /\ ~(Holds(inn.msgs, kind, k) /\ Holds(wire.out, kind, k))
                 /\ ~(About(dmn.call, kind, k) /\ Holds(wire.out, kind, k))
                 => Once(kept \o fs, kind, k)
  BY <1>15, <1>16, <1>17, <1>18
<1> QED BY <1>14, <1>19 DEF kept, lost, fs

-----------------------------------------------------------------------------
(* The types hold. *)

LEMMA SentFields ==
  ASSUME NEW w \in Link, NEW m \in Orders
  PROVE  /\ Sent(w, m) \in Link /\ Sent(w, m).phase = w.phase
         /\ Sent(w, m).out = IF w.phase \in {"up", "back"} THEN Append(w.out, m) ELSE w.out
BY DEF Sent, Link

LEMMA TookFields ==
  ASSUME TypeInv, NEW o, First(o) > 0
  PROVE  /\ Took(First(o)) \in Inbox
         /\ Took(First(o)).msgs = RemoveAt(inn.msgs, First(o))
         /\ First(o) \in 1..Len(inn.msgs)
         /\ inn.msgs[First(o)].op = o /\ inn.msgs[First(o)] \in News
<1> DEFINE i == First(o)
<1>1. i \in 1..Len(inn.msgs) /\ inn.msgs[i].op = o
  BY FirstFound
<1> HIDE DEF i
<1>2. inn.msgs \in Seq(News) /\ inn.arrived \in Nat
  BY DEF TypeInv, Inbox
<1>3. RemoveAt(inn.msgs, i) \in Seq(News)
  BY <1>1, <1>2, Removed
<1>4. Took(i) \in Inbox /\ Took(i).msgs = RemoveAt(inn.msgs, i)
  BY <1>1, <1>2, <1>3 DEF Took, Inbox
<1>5. inn.msgs[i] \in News
  BY <1>1, <1>2
<1> QED BY <1>1, <1>4, <1>5 DEF i

LEMMA ReplyFields ==
  ASSUME TypeInv, NEW m \in News, Reply(m)
  PROVE  inn' \in Inbox /\ inn'.msgs = Append(inn.msgs, m)
<1>1. inn.msgs \in Seq(News) /\ inn.arrived \in Nat /\ inn \in Inbox
  BY DEF TypeInv, Inbox
<1>2. Append(inn.msgs, m) \in Seq(News)
  BY <1>1
<1>3. inn' = [inn EXCEPT !.msgs = Append(@, m)]
  BY DEF Reply
<1> QED BY <1>1, <1>2, <1>3 DEF Inbox

\* The fields of the state, one by one.
LEMMA Parts ==
  ASSUME TypeInv
  PROVE  /\ wire.phase \in {"up", "lost", "down", "back"} /\ wire.out \in Seq(Orders)
         /\ inn.msgs \in Seq(News) /\ inn.arrived \in Nat
         /\ dmn.call \in Tasks \cup {Idle} /\ dmn.got \in Nat /\ dmn.stat \in Nat
         /\ dmn.watched \in BOOLEAN /\ dmn.base \in Nat
         /\ dmn.step \in {"idle", "stat", "reply", "restat"}
         /\ ed.open \in BOOLEAN /\ ed.named \in BOOLEAN /\ ed.id \in 0..MaxOpens
         /\ ed.text \in Int /\ ed.base \in Int /\ ed.tick \in Nat /\ ed.reload \in Int
         /\ saves.inflight \in SUBSET Ids /\ saves.queued \in [Ids -> Seq(Writes)]
         /\ hist.own \in SUBSET Nat /\ hist.told \in Int /\ hist.drops \in Nat
         /\ hist.overlap \in BOOLEAN /\ hist.loaded \in BOOLEAN
BY DEF TypeInv, Link, Inbox, Leg, Buffer, SavesInv, Log

LEMMA TypeInit == Init => TypeInv
<1> SUFFICES ASSUME Init PROVE TypeInv
  OBVIOUS
<1>1. disk \in Nat /\ made \in Nat
  BY DEF Init
<1>2. wire \in Link
  BY DEF Init, Link
<1>3. inn \in Inbox
  BY DEF Init, Inbox
<1>4. dmn \in Leg /\ LegInv
  BY DEF Init, Leg, LegInv
<1>5. tasks \in Seq(Tasks)
  <2>1. Read(1) \in Tasks
    BY FileAssumption, Typing DEF Ids, Tasks
  <2> QED BY <2>1 DEF Init
<1>6. ed \in Buffer /\ (ed.open => ed.id \in Ids)
  <2>1. 0 \in 0..MaxOpens /\ 1 \in 0..MaxOpens /\ 1 \in Ids /\ None \in Int
    BY FileAssumption DEF Ids, None
  <2>2. PICK s \in {0, 1} :
          ed = [open |-> s = 1, id |-> s, named |-> FALSE, text |-> 0, base |-> 0,
                drift |-> FALSE, tick |-> 0, modified |-> FALSE, reload |-> None]
    BY DEF Init
  <2> DEFINE o == s = 1
  <2>3. s \in 0..MaxOpens /\ o \in BOOLEAN /\ (o => s \in Ids)
    BY <2>1
  <2>4. ed = [open |-> o, id |-> s, named |-> FALSE, text |-> 0, base |-> 0,
              drift |-> FALSE, tick |-> 0, modified |-> FALSE, reload |-> None]
    BY <2>2
  <2> HIDE DEF o
  <2>5. ed \in Buffer
    BY <2>1, <2>3, <2>4 DEF Buffer
  <2>6. ed.open = o /\ ed.id = s
    BY <2>4
  <2> QED BY <2>3, <2>5, <2>6
<1>7. SavesInv
  BY DEF Init, SavesInv, Ids
<1>8. hist \in Log
  BY DEF Init, Log, None
<1> QED BY <1>1, <1>2, <1>3, <1>4, <1>5, <1>6, <1>7, <1>8 DEF TypeInv

\* What an order is, by its op.
LEMMA HeadOf ==
  ASSUME TypeInv, wire.out # <<>>
  PROVE  /\ Head(wire.out) \in Orders /\ Tail(wire.out) \in Seq(Orders)
         /\ Popped \in Link /\ Popped.out = Tail(wire.out) /\ Popped.phase = wire.phase
         /\ Head(wire.out).op = "read" => Head(wire.out) \in Reads
         /\ Head(wire.out).op = "write" => Head(wire.out) \in Writes
         /\ Head(wire.out).op \in {"watch", "unwatch"} => Head(wire.out) \in Watches
<1>1. wire.out \in Seq(Orders) /\ wire.phase \in {"up", "lost", "down", "back"}
  BY Parts
<1>2. Head(wire.out) \in Orders /\ Tail(wire.out) \in Seq(Orders)
  BY <1>1
<1>3. Popped \in Link /\ Popped.out = Tail(wire.out) /\ Popped.phase = wire.phase
  BY <1>1, <1>2 DEF Popped, TypeInv, Link
<1>4. Head(wire.out) \in Reads \/ Head(wire.out) \in Writes \/ Head(wire.out) \in Watches
  BY <1>2 DEF Orders, Tasks
<1> QED BY <1>2, <1>3, <1>4, Fields

\* A task is a request.
LEMMA HeadTask ==
  ASSUME TypeInv, tasks # <<>>
  PROVE  /\ Head(tasks) \in Tasks /\ Tail(tasks) \in Seq(Tasks)
         /\ Head(tasks) \in Orders /\ Failed(Head(tasks)) \in News
<1>1. Head(tasks) \in Tasks /\ Tail(tasks) \in Seq(Tasks)
  BY DEF TypeInv
<1> QED BY <1>1, FailedIsAnswer DEF Orders, News

LEMMA TypeOutside ==
  ASSUME TypeInv, NEW v \in {0, made + 1}, OutsideChange(v)
  PROVE  TypeInv'
<1>1. disk' \in Nat /\ made' \in Nat
  BY DEF TypeInv, OutsideChange
<1> DEFINE t == dmn.step # "idle"
<1>2. hist' = [hist EXCEPT !.torn = t] /\ t \in BOOLEAN
  BY DEF OutsideChange
<1> HIDE DEF t
<1>3. hist' \in Log
  BY <1>2 DEF TypeInv, Log
<1> QED BY <1>1, <1>3 DEF TypeInv, OutsideChange, SavesInv, LegInv

\* A change from outside leaves the rest of the history alone.
LEMMA OutsideFields ==
  ASSUME TypeInv, NEW v \in {0, made + 1}, OutsideChange(v)
  PROVE  /\ hist'.own = hist.own /\ hist'.drops = hist.drops
         /\ hist'.overlap = hist.overlap /\ hist'.loaded = hist.loaded
BY DEF TypeInv, Log, OutsideChange

LEMMA TypeTaskRuns == ASSUME TypeInv, TaskRuns PROVE TypeInv'
<1>1. tasks' \in Seq(Tasks)
  BY HeadTask DEF TaskRuns
<1>2. wire' \in Link /\ inn' \in Inbox
  <2>1. CASE Up
    <3>1. wire' = Sent(wire, Head(tasks)) /\ inn' = inn
      BY <2>1 DEF TaskRuns
    <3> QED BY <3>1, HeadTask, SentFields DEF TypeInv, TaskRuns
  <2>2. CASE ~Up
    <3>1. inn' = [msgs |-> Append(inn.msgs, Failed(Head(tasks))),
                  arrived |-> Len(inn.msgs) + 1] /\ wire' = wire
      BY <2>2 DEF TaskRuns
    <3>2. Failed(Head(tasks)) \in News /\ inn.msgs \in Seq(News)
      BY HeadTask, Parts DEF TaskRuns
    <3>3. Append(inn.msgs, Failed(Head(tasks))) \in Seq(News) /\ Len(inn.msgs) + 1 \in Nat
      BY <3>2
    <3> QED BY <3>1, <3>3 DEF Inbox, TypeInv
  <2> QED BY <2>1, <2>2
<1> QED BY <1>1, <1>2 DEF TypeInv, TaskRuns, SavesInv, LegInv

LEMMA TypeDrop ==
  ASSUME TypeInv, NEW arrived \in inn.arrived..Len(inn.msgs), NEW received \in BOOLEAN,
         Drop(arrived, received)
  PROVE  TypeInv'
<1>1. arrived \in 0..Len(inn.msgs)
  BY Parts
<1>2. wire' \in Link
  BY DEF Drop, Link
<1>3. inn' \in Inbox
  <2> DEFINE msgs == SubSeq(inn.msgs, 1, arrived)
                     \o Failures(SubSeq(inn.msgs, arrived + 1, Len(inn.msgs)))
  <2>1. msgs \in Seq(News)
    BY <1>1, FailuresFit
  <2>2. inn' = [msgs |-> msgs, arrived |-> Len(msgs)]
    BY DEF Drop
  <2> HIDE DEF msgs
  <2> QED BY <2>1, <2>2 DEF Inbox
<1>4. dmn' \in Leg /\ LegInv'
  BY DEF Drop, Leg, LegInv
<1>5. hist' \in Log
  <2>1. hist' = [hist EXCEPT !.drops = @ + 1]
    BY DEF Drop
  <2>2. hist.drops + 1 \in Nat /\ hist \in Log
    BY Parts DEF TypeInv
  <2> QED BY <2>1, <2>2 DEF Log
<1> QED BY <1>2, <1>3, <1>4, <1>5 DEF TypeInv, Drop, SavesInv

LEMMA TypeLink ==
  ASSUME TypeInv, Reconnect \/ SeeOutage
  PROVE  TypeInv'
<1>1. wire' \in Link
  BY DEF Reconnect, SeeOutage, TypeInv, Link
<1> QED BY <1>1 DEF TypeInv, Reconnect, SeeOutage, SavesInv, LegInv

LEMMA ResyncFields ==
  ASSUME TypeInv, Resync
  PROVE  /\ wire' \in Link /\ wire'.phase = "up" /\ Watch(ed.base) \in Orders
         /\ wire'.out = IF Watching THEN Append(wire.out, Watch(ed.base)) ELSE wire.out
<1> DEFINE w == [wire EXCEPT !.phase = "up"]
<1>1. w \in Link /\ w.phase = "up" /\ w.out = wire.out
  BY DEF TypeInv, Link
<1>2. Watch(ed.base) \in Orders
  BY Typing, Parts DEF Orders
<1>3. wire' = IF Watching THEN Sent(w, Watch(ed.base)) ELSE w
  BY DEF Resync
<1> HIDE DEF w
<1> QED BY <1>1, <1>2, <1>3, SentFields

LEMMA TypeResync == ASSUME TypeInv, Resync PROVE TypeInv'
<1>1. wire' \in Link
  BY ResyncFields
<1>2. hist' \in Log
  <2>1. (hist.blind \/ (Watching /\ ed.base = 0)) \in BOOLEAN
    OBVIOUS
  <2>2. hist' = [hist EXCEPT !.blind = @ \/ (Watching /\ ed.base = 0)]
    BY DEF Resync
  <2> DEFINE b == hist.blind \/ (Watching /\ ed.base = 0)
  <2> HIDE DEF b
  <2>3. hist' = [hist EXCEPT !.blind = b] /\ b \in BOOLEAN
    BY <2>1, <2>2 DEF b
  <2> QED BY <2>3 DEF TypeInv, Log
<1> QED BY <1>1, <1>2 DEF TypeInv, Resync, SavesInv, LegInv

LEMMA TypeServeRead ==
  ASSUME TypeInv, ServeRead
  PROVE  TypeInv'
<1> DEFINE m == Head(wire.out)
<1>1. m \in Reads /\ m.id \in Ids /\ m \in Tasks /\ wire' \in Link
  BY HeadOf, Fields DEF ServeRead, Next1, Tasks
<1>2. CASE disk = 0
  <2>1. Opened(m.id, 0, 0) \in News /\ Reply(Opened(m.id, 0, 0)) /\ dmn' = dmn
    BY <1>1, <1>2, Typing DEF ServeRead, News
  <2>2. inn' \in Inbox
    BY <2>1, ReplyFields
  <2> QED BY <1>1, <2>1, <2>2 DEF TypeInv, ServeRead, SavesInv, LegInv
<1>3. CASE disk # 0
  <2>1. dmn' = [dmn EXCEPT !.call = m, !.step = "stat", !.got = disk] /\ inn' = inn
    BY <1>3 DEF ServeRead
  <2>2. dmn' \in Leg /\ LegInv'
    BY <1>1, <2>1 DEF TypeInv, Leg, LegInv
  <2> QED BY <1>1, <2>1, <2>2 DEF TypeInv, ServeRead, SavesInv
<1> QED BY <1>2, <1>3

LEMMA FreeFields ==
  ASSUME TypeInv
  PROVE  /\ Free \in Leg /\ Free.call = Idle /\ Free.step = "idle"
         /\ Free.watched = dmn.watched /\ Free.base = dmn.base
BY DEF TypeInv, Leg, Free

LEMMA TypeReadStat == ASSUME TypeInv, ReadStat PROVE TypeInv'
<1>1. dmn.call \in Reads /\ dmn.call.id \in Ids /\ dmn.got \in Nat /\ disk \in Nat
  BY Fields DEF TypeInv, LegInv, ReadStat, Leg
<1>2. Opened(dmn.call.id, dmn.got, disk) \in News
  BY <1>1, Typing DEF News
<1>3. inn' \in Inbox
  BY <1>2, ReplyFields DEF ReadStat
<1>4. dmn' \in Leg /\ LegInv'
  BY FreeFields DEF ReadStat, LegInv
<1> QED BY <1>3, <1>4 DEF TypeInv, ReadStat, SavesInv

LEMMA OverwriteFields ==
  ASSUME TypeInv, Overwrite
  PROVE  /\ disk' \in Nat /\ made' \in Nat /\ hist' \in Log
         /\ disk' = made + 1 /\ made' = made + 1 /\ hist'.own = hist.own \cup {made + 1}
         /\ hist'.overlap = hist.overlap /\ hist'.loaded = hist.loaded
         /\ hist'.drops = hist.drops
<1>1. made + 1 \in Nat /\ hist.own \cup {made + 1} \in SUBSET Nat
  BY Parts, SMTT(30) DEF TypeInv
<1> QED BY <1>1 DEF Overwrite, TypeInv, Log

LEMMA TypeServeWrite == ASSUME TypeInv, ServeWrite PROVE TypeInv'
<1>1. Head(wire.out) \in Writes /\ Head(wire.out) \in Tasks /\ wire' \in Link
  BY HeadOf DEF ServeWrite, Next1, Tasks
<1>2. disk' \in Nat /\ made' \in Nat /\ hist' \in Log
  BY OverwriteFields DEF ServeWrite
<1>3. dmn' \in Leg /\ LegInv'
  BY <1>1, <1>2 DEF ServeWrite, TypeInv, Leg, LegInv
<1> QED BY <1>1, <1>2, <1>3 DEF TypeInv, ServeWrite, SavesInv

LEMMA TypeServeWriteFails == ASSUME TypeInv, ServeWriteFails PROVE TypeInv'
<1>1. Head(wire.out) \in Writes /\ wire' \in Link
  BY HeadOf DEF ServeWriteFails, Next1
<1>2. SaveFailed(Head(wire.out)) \in News
  BY <1>1, Typing DEF SaveFailed, News
<1>3. inn' \in Inbox
  BY <1>2, ReplyFields DEF ServeWriteFails
<1> QED BY <1>1, <1>3 DEF TypeInv, ServeWriteFails, SavesInv, LegInv

LEMMA TypeWriteStat == ASSUME TypeInv, WriteStat PROVE TypeInv'
<1>1. dmn' \in Leg /\ LegInv'
  BY DEF WriteStat, TypeInv, Leg, LegInv
<1> QED BY <1>1 DEF TypeInv, WriteStat, SavesInv

LEMMA AnswerFields ==
  ASSUME TypeInv, WriteAnswer
  PROVE  /\ dmn' \in Leg /\ dmn'.call = Idle /\ dmn'.step = "idle"
         /\ dmn'.watched = dmn.watched
         /\ dmn'.base = IF dmn.watched THEN disk ELSE dmn.base
         /\ dmn.call \in Writes /\ Wrote(dmn.call, dmn.got, dmn.stat) \in News
<1>1. dmn' = [Free EXCEPT !.base = IF dmn.watched THEN disk ELSE @]
  BY DEF WriteAnswer
<1>2. disk \in Nat
  BY DEF TypeInv
<1>3. dmn.call \in Writes /\ dmn.got \in Nat /\ dmn.stat \in Nat
  BY Parts DEF TypeInv, LegInv, WriteAnswer
<1>4. Wrote(dmn.call, dmn.got, dmn.stat) \in News
  BY <1>3, Typing DEF News
<1> QED BY <1>1, <1>2, <1>3, <1>4, FreeFields DEF Leg

LEMMA TypeWriteAnswer == ASSUME TypeInv, WriteAnswer PROVE TypeInv'
<1>1. inn' \in Inbox
  BY AnswerFields, ReplyFields DEF WriteAnswer
<1>2. dmn' \in Leg /\ LegInv'
  BY AnswerFields DEF LegInv
<1> QED BY <1>1, <1>2 DEF TypeInv, WriteAnswer, SavesInv

LEMMA TypeServeWatch == ASSUME TypeInv, ServeWatch PROVE TypeInv'
<1>1. wire' \in Link
  BY HeadOf DEF ServeWatch, Next1
<1>2. inn' \in Inbox
  <2>1. [op |-> "push", stat |-> disk] \in News
    BY Typing DEF TypeInv, News
  <2> QED BY <2>1, ReplyFields DEF ServeWatch, Push, TypeInv
<1>3. dmn' \in Leg /\ LegInv'
  BY DEF ServeWatch, TypeInv, Leg, LegInv, Next1
<1>4. hist' \in Log
  <2> DEFINE b == hist.blind \/ {disk, Head(wire.out).known} = {0}
  <2>1. hist' = [hist EXCEPT !.blind = b] /\ b \in BOOLEAN
    BY DEF ServeWatch
  <2> HIDE DEF b
  <2> QED BY <2>1 DEF TypeInv, Log
<1> QED BY <1>1, <1>2, <1>3, <1>4 DEF TypeInv, ServeWatch, SavesInv

LEMMA TypeServeUnwatch == ASSUME TypeInv, ServeUnwatch PROVE TypeInv'
<1>1. wire' \in Link
  BY HeadOf DEF ServeUnwatch, Next1
<1>2. dmn' \in Leg /\ LegInv'
  BY DEF ServeUnwatch, TypeInv, Leg, LegInv, Next1
<1> QED BY <1>1, <1>2 DEF TypeInv, ServeUnwatch, SavesInv

LEMMA TypePoll == ASSUME TypeInv, Poll PROVE TypeInv'
<1>1. inn' \in Inbox
  <2>1. [op |-> "push", stat |-> disk] \in News
    BY Typing DEF TypeInv, News
  <2> QED BY <2>1, ReplyFields DEF Poll, Push
<1>2. dmn' \in Leg /\ LegInv'
  BY DEF Poll, TypeInv, Leg, LegInv
<1> QED BY <1>1, <1>2 DEF TypeInv, Poll, SavesInv

LEMMA TypeLateWrite == ASSUME TypeInv, LateWrite PROVE TypeInv'
<1>1. disk' \in Nat /\ made' \in Nat /\ hist' \in Log
  BY OverwriteFields DEF LateWrite
<1> QED BY <1>1 DEF TypeInv, LateWrite, SavesInv, LegInv

LEMMA TypeEdit == ASSUME TypeInv, Edit PROVE TypeInv'
<1>1. ed' \in Buffer /\ ed'.open = ed.open /\ ed'.id = ed.id
  <2>1. ed.tick + 1 \in Nat /\ Typed \in Int
    BY Parts DEF Typed
  <2> QED BY <2>1 DEF Edit, TypeInv, Buffer
<1>2. hist' \in Log
  <2>1. hist' = [hist EXCEPT !.edits = @ + 1]
    BY DEF Edit
  <2> QED BY <2>1 DEF TypeInv, Log
<1> QED BY <1>1, <1>2 DEF TypeInv, Edit, SavesInv, LegInv

\* What `:w` does to the writes: it starts one, or queues one for its buffer.
LEMMA ExWriteFields ==
  ASSUME TypeInv, NEW bang \in BOOLEAN, ExWrite(bang)
  PROVE  /\ ed.open /\ ed.named /\ ed.id \in Ids
         /\ \E s \in Writes :
              /\ s.id = ed.id /\ s.op = "write"
              /\ \/ /\ ed.id \in saves.inflight /\ tasks' = tasks
                    /\ saves' = [saves EXCEPT !.queued[ed.id] = Append(@, s)]
                 \/ /\ ed.id \notin saves.inflight /\ tasks' = Append(tasks, s)
                    /\ saves' = [saves EXCEPT !.inflight = @ \cup {ed.id}]
<1>1. ed.open /\ ed.named /\ ed.id \in Ids
  BY DEF ExWrite, TypeInv
<1> DEFINE v == IF bang \/ hist.told \in {ed.text, ed.base} THEN None ELSE hist.told
           s == [op |-> "write", id |-> ed.id, tick |-> ed.tick, warned |-> v]
<1>2. v \in Int
  BY Parts DEF None
<1> HIDE DEF v
<1>3. s \in Writes /\ s.id = ed.id /\ s.op = "write"
  BY <1>1, <1>2, Typing, Parts
<1>4. \/ /\ ed.id \in saves.inflight /\ tasks' = tasks
         /\ saves' = [saves EXCEPT !.queued[ed.id] = Append(@, s)]
      \/ /\ ed.id \notin saves.inflight /\ tasks' = Append(tasks, s)
         /\ saves' = [saves EXCEPT !.inflight = @ \cup {ed.id}]
  BY DEF ExWrite, v
<1> HIDE DEF s
<1> QED BY <1>1, <1>3, <1>4

LEMMA TypeExWrite ==
  ASSUME TypeInv, NEW bang \in BOOLEAN, ExWrite(bang)
  PROVE  TypeInv'
<1>1. PICK s \in Writes :
        /\ s.id = ed.id /\ s.op = "write"
        /\ \/ /\ ed.id \in saves.inflight /\ tasks' = tasks
              /\ saves' = [saves EXCEPT !.queued[ed.id] = Append(@, s)]
           \/ /\ ed.id \notin saves.inflight /\ tasks' = Append(tasks, s)
              /\ saves' = [saves EXCEPT !.inflight = @ \cup {ed.id}]
  BY ExWriteFields
<1>2. ed.id \in Ids
  BY ExWriteFields
<1>3. tasks' \in Seq(Tasks)
  <2>1. s \in Tasks
    BY DEF Tasks
  <2> QED BY <1>1, <2>1, SMTT(30) DEF TypeInv
<1>4. SavesInv'
  <2> DEFINE p == saves.queued[ed.id]
             q == Append(p, s)
  <2>1. p \in Seq(Writes) /\ \A i \in 1..Len(p) : p[i].id = ed.id
    BY <1>2 DEF TypeInv, SavesInv
  <2>a. saves.queued[ed.id] = p
    OBVIOUS
  <2> HIDE DEF p
  <2>2. q \in Seq(Writes) /\ \A i \in 1..Len(q) : q[i].id = ed.id
    BY <1>1, <2>1
  <2>3. CASE saves' = [saves EXCEPT !.queued[ed.id] = Append(@, s)]
    <3>1. saves' = [saves EXCEPT !.queued[ed.id] = q]
      BY <2>a, <2>3
    <3> HIDE DEF q
    <3> QED BY <1>2, <2>2, <3>1 DEF TypeInv, SavesInv
  <2>4. CASE saves' = [saves EXCEPT !.inflight = @ \cup {ed.id}]
    BY <1>2, <2>4 DEF TypeInv, SavesInv
  <2> QED BY <1>1, <2>3, <2>4
<1>5. hist' \in Log
  <2>1. hist' = [hist EXCEPT !.writes = @ + 1]
    BY DEF ExWrite
  <2> QED BY <2>1, SMTT(30) DEF TypeInv, Log
<1> QED BY <1>3, <1>4, <1>5 DEF TypeInv, ExWrite, LegInv

LEMMA CloseFields ==
  ASSUME TypeInv, Close
  PROVE  /\ Unwatch \in Orders /\ wire' \in Link /\ wire'.phase = wire.phase
         /\ wire'.out = IF ed.named /\ wire.phase \in {"up", "back"}
                        THEN Append(wire.out, Unwatch) ELSE wire.out
         /\ ed' \in Buffer /\ ~ed'.open /\ ed'.id = ed.id /\ ed'.named = ed.named
         /\ ed'.reload = ed.reload /\ ed'.text = ed.text
<1>1. Unwatch \in Orders
  BY Typing DEF Orders
<1>2. wire' = IF ed.named THEN Sent(wire, Unwatch) ELSE wire
  BY DEF Close
<1>3. wire \in Link
  BY DEF TypeInv
<1>4. /\ ed' \in Buffer /\ ~ed'.open /\ ed'.id = ed.id /\ ed'.named = ed.named
      /\ ed'.reload = ed.reload /\ ed'.text = ed.text
  BY DEF Close, TypeInv, Buffer
<1> QED BY <1>1, <1>2, <1>3, <1>4, SentFields

LEMMA TypeClose == ASSUME TypeInv, Close PROVE TypeInv'
BY CloseFields DEF TypeInv, Close, SavesInv, LegInv

LEMMA OpenFields ==
  ASSUME TypeInv, Open
  PROVE  /\ Watch(0) \in Orders /\ wire' \in Link /\ wire'.phase = wire.phase
         /\ wire'.out = IF wire.phase \in {"up", "back"}
                        THEN Append(wire.out, Watch(0)) ELSE wire.out
         /\ ed' \in Buffer /\ ed'.open /\ ed'.id = ed.id + 1 /\ ed'.named
         /\ ed.id + 1 \in Ids /\ Read(ed.id + 1) \in Tasks
         /\ hist' \in Log /\ ~hist'.loaded /\ hist'.own = hist.own
         /\ hist'.overlap = hist.overlap /\ hist'.drops = hist.drops
<1>1. Watch(0) \in Orders
  BY Typing DEF Orders
<1>2. wire' = Sent(wire, Watch(0)) /\ wire \in Link
  BY DEF Open, TypeInv
<1>3. ed.id \in 0..MaxOpens /\ ed.id < MaxOpens
  BY Parts DEF Open
<1>4. ed.id + 1 \in Ids /\ ed.id + 1 \in 0..MaxOpens
  BY <1>3, FileAssumption DEF Ids
<1>5. ed' = [open |-> TRUE, id |-> ed.id + 1, named |-> TRUE, text |-> 0,
             base |-> 0, drift |-> FALSE, tick |-> 0, modified |-> FALSE,
             reload |-> None] /\ None \in Int
  BY DEF Open, None
<1>6. ed' \in Buffer /\ ed'.open /\ ed'.id = ed.id + 1 /\ ed'.named
  BY <1>4, <1>5 DEF Buffer
<1>7. Read(ed.id + 1) \in Tasks
  BY <1>4, Typing DEF Tasks
<1>8. /\ hist' \in Log /\ ~hist'.loaded /\ hist'.own = hist.own
      /\ hist'.overlap = hist.overlap /\ hist'.drops = hist.drops
  BY DEF Open, TypeInv, Log
<1> QED BY <1>1, <1>2, <1>4, <1>6, <1>7, <1>8, SentFields

LEMMA TypeOpen == ASSUME TypeInv, Open PROVE TypeInv'
<1>1. tasks' \in Seq(Tasks)
  BY OpenFields DEF Open, TypeInv
<1> QED BY <1>1, OpenFields DEF TypeInv, Open, SavesInv, LegInv

LEMMA OpenedMsg ==
  ASSUME TypeInv, First("opened") > 0
  PROVE  LET a == inn.msgs[First("opened")]
         IN a.op = "opened" /\ a.id \in Ids /\ a.ok \in BOOLEAN
            /\ (a.ok => a.content \in Nat /\ a.stat \in Nat)
<1> DEFINE a == inn.msgs[First("opened")]
<1>1. a.op = "opened" /\ a \in News
  BY TookFields
<1> HIDE DEF a
<1>2. a.op = "opened" /\ a.id \in Ids /\ a.ok \in BOOLEAN
      /\ (a.ok => a.content \in Nat /\ a.stat \in Nat)
  BY <1>1, Fields DEF News
<1> QED BY <1>2 DEF a

\* What a landing changes: the buffer it loads, and the startup buffer's watch.
LandsOn(a) == ed.open /\ a.id = ed.id
Loads(a)   == LandsOn(a) /\ a.ok /\ ed.reload \in {None, ed.tick}

LEMMA LandOpenFields ==
  ASSUME TypeInv, LandOpen
  PROVE  LET a == inn.msgs[First("opened")]
         IN /\ ed' \in Buffer /\ ed'.open = ed.open /\ ed'.id = ed.id
            /\ ed'.named = (ed.named \/ Loads(a))
            /\ LandsOn(a) => ed'.reload = None
            /\ ~LandsOn(a) => ed' = ed
            /\ ~Loads(a) => ed'.text = ed.text
            /\ Watch(ed'.base) \in Orders
            /\ wire' \in Link /\ wire'.phase = wire.phase
            /\ wire'.out = IF Loads(a) /\ ~ed.named /\ wire.phase \in {"up", "back"}
                           THEN Append(wire.out, Watch(ed'.base)) ELSE wire.out
            /\ hist' \in Log /\ hist'.own = hist.own /\ hist'.drops = hist.drops
            /\ hist'.overlap = hist.overlap /\ hist'.loaded = (hist.loaded \/ Loads(a))
<1> DEFINE m == inn.msgs[First("opened")]
<1>0. First("opened") > 0
  BY DEF LandOpen, LandOpenIf
<1>1. m.id \in Ids /\ m.ok \in BOOLEAN /\ (m.ok => m.content \in Nat /\ m.stat \in Nat)
  BY <1>0, OpenedMsg
<1>2. /\ ed' = IF Loads(m) THEN Loaded(m)
               ELSE IF LandsOn(m) THEN [ed EXCEPT !.reload = None] ELSE ed
      /\ wire' = IF Loads(m) /\ ~ed.named THEN Sent(wire, Watch(ed'.base)) ELSE wire
      /\ hist' = IF Loads(m)
                 THEN [hist EXCEPT !.blind = @ \/ (~ed.named /\ m.stat = 0), !.loaded = TRUE]
                 ELSE hist
  BY DEF LandOpen, LandOpenIf, Loads, LandsOn
<1> HIDE DEF m
<1>3. /\ ed' \in Buffer /\ ed'.open = ed.open /\ ed'.id = ed.id
      /\ ed'.named = (ed.named \/ Loads(m))
      /\ LandsOn(m) => ed'.reload = None
      /\ ~LandsOn(m) => ed' = ed
      /\ ~Loads(m) => ed'.text = ed.text
  <2>1. CASE Loads(m)
    <3> DEFINE b == IF m.content # 0 /\ m.stat = 0 THEN SizeOnly ELSE m.stat
    <3>0. m.content \in Nat /\ m.stat \in Nat
      BY <1>1, <2>1 DEF Loads
    <3>a. SizeOnly \in Int /\ None \in Int /\ ed.tick + 1 \in Nat
      BY Parts DEF SizeOnly, None
    <3>1. b \in Int /\ m.content \in Int /\ ed.tick + 1 \in Nat /\ None \in Int
      BY <3>0, <3>a
    <3>2. ed' = [ed EXCEPT !.named = TRUE, !.text = m.content, !.drift = FALSE,
                           !.base = b, !.tick = @ + 1, !.modified = FALSE, !.reload = None]
      BY <1>2, <2>1 DEF Loaded
    <3> HIDE DEF b
    <3> QED BY <2>1, <3>1, <3>2 DEF TypeInv, Buffer, Loads
  <2>2. CASE ~Loads(m) /\ LandsOn(m)
    <3>1. ed' = [ed EXCEPT !.reload = None] /\ None \in Int
      BY <1>2, <2>2 DEF None
    <3> QED BY <2>2, <3>1 DEF TypeInv, Buffer
  <2>3. CASE ~Loads(m) /\ ~LandsOn(m)
    <3>1. ed' = ed
      BY <1>2, <2>3
    <3> QED BY <2>3, <3>1 DEF TypeInv, Buffer
  <2> QED BY <2>1, <2>2, <2>3
<1>4. Watch(ed'.base) \in Orders
  <2>1. ed'.base \in Int
    BY <1>3 DEF Buffer
  <2> QED BY <2>1, Typing DEF Orders
<1>5. /\ wire' \in Link /\ wire'.phase = wire.phase
      /\ wire'.out = IF Loads(m) /\ ~ed.named /\ wire.phase \in {"up", "back"}
                     THEN Append(wire.out, Watch(ed'.base)) ELSE wire.out
  BY <1>2, <1>4, SentFields DEF TypeInv
<1>6. /\ hist' \in Log /\ hist'.own = hist.own /\ hist'.drops = hist.drops
      /\ hist'.overlap = hist.overlap /\ hist'.loaded = (hist.loaded \/ Loads(m))
  <2> DEFINE b == hist.blind \/ (~ed.named /\ m.stat = 0)
  <2>1. b \in BOOLEAN
    OBVIOUS
  <2>2. hist' = IF Loads(m) THEN [hist EXCEPT !.blind = b, !.loaded = TRUE] ELSE hist
    BY <1>2
  <2> HIDE DEF b
  <2> QED BY <2>1, <2>2 DEF TypeInv, Log
<1> QED BY <1>3, <1>4, <1>5, <1>6 DEF m

LEMMA TypeLandOpen == ASSUME TypeInv, LandOpen PROVE TypeInv'
<1>1. inn' \in Inbox
  BY TookFields DEF LandOpen, LandOpenIf
<1>2. ed' \in Buffer /\ (ed'.open => ed'.id \in Ids)
  BY LandOpenFields DEF TypeInv
<1> QED BY <1>1, <1>2, LandOpenFields DEF TypeInv, LandOpen, LandOpenIf, SavesInv, LegInv

LEMMA WroteMsg ==
  ASSUME TypeInv, First("wrote") > 0
  PROVE  LET d == inn.msgs[First("wrote")]
         IN d.op = "wrote" /\ d.save \in Writes /\ d.save.id \in Ids
            /\ d.ok \in BOOLEAN /\ (d.ok => d.content \in Nat /\ d.stat \in Nat)
<1> DEFINE d == inn.msgs[First("wrote")]
<1>1. d.op = "wrote" /\ d \in News
  BY TookFields
<1> HIDE DEF d
<1>2. d.op = "wrote" /\ d.save \in Writes /\ d.save.id \in Ids
      /\ d.ok \in BOOLEAN /\ (d.ok => d.content \in Nat /\ d.stat \in Nat)
  BY <1>1, Fields DEF News
<1> QED BY <1>2 DEF d

\* The answer of a write starts the next of its buffer, or ends the writing.
LEMMA LandSaveFields ==
  ASSUME TypeInv, LandSave
  PROVE  LET id == inn.msgs[First("wrote")].save.id
         IN /\ id \in Ids
            /\ ed' \in Buffer /\ ed'.open = ed.open /\ ed'.id = ed.id
            /\ ed'.named = ed.named /\ ed'.reload = ed.reload
            /\ \/ /\ saves.queued[id] # <<>> /\ Head(saves.queued[id]) \in Writes
                  /\ Head(saves.queued[id]).id = id
                  /\ tasks' = Append(tasks, Head(saves.queued[id]))
                  /\ saves' = [saves EXCEPT !.queued[id] = Tail(saves.queued[id])]
               \/ /\ tasks' = tasks
                  /\ saves' = [inflight |-> saves.inflight \ {id},
                               queued |-> [saves.queued EXCEPT ![id] = <<>>]]
<1> DEFINE d == inn.msgs[First("wrote")]
           id == d.save.id
           q == saves.queued[id]
<1>0. First("wrote") > 0
  BY DEF LandSave
<1>1. id \in Ids /\ d.ok \in BOOLEAN /\ (d.ok => d.content \in Nat /\ d.stat \in Nat)
  BY <1>0, WroteMsg
<1>2. q \in Seq(Writes) /\ \A i \in 1..Len(q) : q[i].id = id
  BY <1>1 DEF TypeInv, SavesInv
<1>3. q # <<>> => Head(q) \in Writes /\ Head(q).id = id
  BY <1>2
<1>4. \/ /\ q # <<>> /\ d.ok
         /\ saves' = [saves EXCEPT !.queued[id] = Tail(q)]
         /\ tasks' = Append(tasks, Head(q)) /\ ed' = Saved(d)
      \/ /\ saves' = [inflight |-> saves.inflight \ {id},
                      queued |-> [saves.queued EXCEPT ![id] = <<>>]]
         /\ tasks' = tasks /\ ed' = IF d.ok THEN Saved(d) ELSE ed
  BY DEF LandSave
<1>5. /\ ed' \in Buffer /\ ed'.open = ed.open /\ ed'.id = ed.id
      /\ ed'.named = ed.named /\ ed'.reload = ed.reload
  <2> HIDE DEF d
  <2>1. ed \in Buffer
    BY DEF TypeInv
  <2>2. CASE ~d.ok
    BY <1>4, <2>1, <2>2
  <2>3. CASE d.ok
    <3>1. ed' = Saved(d) /\ d.stat \in Int /\ d.content \in Int
      BY <1>1, <1>4, <2>3
    <3>2. \/ ed' = ed
          \/ ed' = [ed EXCEPT !.base = d.stat, !.drift = FALSE, !.modified = FALSE,
                              !.text = d.content]
          \/ ed' = [ed EXCEPT !.base = d.stat, !.drift = FALSE, !.modified = TRUE]
      BY <3>1 DEF Saved
    <3> QED BY <2>1, <3>1, <3>2 DEF Buffer
  <2> QED BY <1>1, <2>2, <2>3
<1> HIDE DEF q, id, d
<1>6. /\ id \in Ids
      /\ ed' \in Buffer /\ ed'.open = ed.open /\ ed'.id = ed.id
      /\ ed'.named = ed.named /\ ed'.reload = ed.reload
      /\ \/ /\ q # <<>> /\ Head(q) \in Writes
            /\ Head(q).id = id
            /\ tasks' = Append(tasks, Head(q))
            /\ saves' = [saves EXCEPT !.queued[id] = Tail(q)]
         \/ /\ tasks' = tasks
            /\ saves' = [inflight |-> saves.inflight \ {id},
                         queued |-> [saves.queued EXCEPT ![id] = <<>>]]
  BY <1>1, <1>3, <1>4, <1>5
<1> QED BY <1>6 DEF q, id, d

LEMMA TypeLandSave == ASSUME TypeInv, LandSave PROVE TypeInv'
<1>1. inn' \in Inbox
  BY TookFields DEF LandSave
<1> DEFINE id == inn.msgs[First("wrote")].save.id
           q == saves.queued[id]
<1>2. /\ id \in Ids /\ ed' \in Buffer /\ ed'.open = ed.open /\ ed'.id = ed.id
      /\ \/ /\ q # <<>> /\ Head(q) \in Writes
            /\ Head(q).id = id
            /\ tasks' = Append(tasks, Head(q))
            /\ saves' = [saves EXCEPT !.queued[id] = Tail(q)]
         \/ /\ tasks' = tasks
            /\ saves' = [inflight |-> saves.inflight \ {id},
                         queued |-> [saves.queued EXCEPT ![id] = <<>>]]
  BY LandSaveFields
<1> HIDE DEF id
<1>3. q \in Seq(Writes) /\ \A i \in 1..Len(q) : q[i].id = id
  BY <1>2 DEF TypeInv, SavesInv
<1> HIDE DEF q
<1>4. CASE /\ q # <<>> /\ Head(q) \in Writes /\ Head(q).id = id
           /\ tasks' = Append(tasks, Head(q))
           /\ saves' = [saves EXCEPT !.queued[id] = Tail(q)]
  <2>1. tasks' \in Seq(Tasks)
    BY <1>4 DEF TypeInv, Tasks
  <2> DEFINE t == Tail(q)
  <2>0. q \in Seq(Writes) /\ q # <<>>
    BY <1>3, <1>4
  <2>2. t \in Seq(Writes) /\ \A i \in 1..Len(t) : t[i].id = id
    BY <1>3, <2>0, HeadTailProperties
  <2> HIDE DEF t
  <2>3. saves' = [saves EXCEPT !.queued[id] = t]
    BY <1>4 DEF t
  <2>4. SavesInv'
    BY <1>2, <2>2, <2>3 DEF TypeInv, SavesInv
  <2> QED BY <1>1, <1>2, <2>1, <2>4 DEF TypeInv, LandSave, LegInv
<1>5. CASE /\ tasks' = tasks
           /\ saves' = [inflight |-> saves.inflight \ {id},
                        queued |-> [saves.queued EXCEPT ![id] = <<>>]]
  <2> DEFINE t == [saves.queued EXCEPT ![id] = <<>>]
  <2>1. t \in [Ids -> Seq(Writes)] /\ \A k \in Ids : \A i \in 1..Len(t[k]) : t[k][i].id = k
    BY <1>2 DEF TypeInv, SavesInv
  <2> HIDE DEF t
  <2>2. saves' = [inflight |-> saves.inflight \ {id}, queued |-> t]
    BY <1>5 DEF t
  <2>3. SavesInv'
    BY <1>2, <2>1, <2>2 DEF TypeInv, SavesInv
  <2> QED BY <1>1, <1>2, <1>5, <2>3 DEF TypeInv, LandSave, LegInv
<1> QED BY <1>2, <1>4, <1>5

LEMMA HandlePushFields ==
  ASSUME TypeInv, NEW choice, HandlePush(choice)
  PROVE  /\ ed' \in Buffer /\ ed'.open = ed.open /\ ed'.id = ed.id
         /\ ed'.named = ed.named /\ ed'.text = ed.text
         /\ hist' \in Log /\ hist'.own = hist.own /\ hist'.drops = hist.drops
         /\ hist'.loaded = hist.loaded
         /\ \/ /\ Watching /\ ed.id \in Ids /\ Read(ed.id) \in Tasks
               /\ tasks' = Append(tasks, Read(ed.id)) /\ ed'.reload = ed.tick
               /\ hist'.overlap = (hist.overlap \/ Fetching)
            \/ tasks' = tasks /\ ed'.reload = ed.reload /\ hist'.overlap = hist.overlap
<1> DEFINE v == inn.msgs[First("push")].stat
           silent == v # 0 /\ ~ed.modified /\ Autoread
           reload == silent \/ (choice = "reload" /\ v # 0) \/ choice = "edit"
<1>0. First("push") > 0
  BY DEF HandlePush
<1>1. v \in Nat
  <2> DEFINE m == inn.msgs[First("push")]
  <2>1. m.op = "push" /\ m \in News
    BY <1>0, TookFields
  <2> HIDE DEF m
  <2>2. m.stat \in Nat
    BY <2>1, Fields DEF News
  <2> QED BY <2>2 DEF m
<1>2. CASE ~Watching
  <2>1. ed' = ed /\ tasks' = tasks /\ hist' = hist
    BY <1>2 DEF HandlePush
  <2> QED BY <2>1 DEF TypeInv
<1>3. CASE Watching
  <2>1. /\ ed' = [ed EXCEPT !.drift = TRUE, !.reload = IF reload THEN ed.tick ELSE @]
        /\ tasks' = IF reload THEN Append(tasks, Read(ed.id)) ELSE tasks
        /\ hist' = [hist EXCEPT !.told = v, !.overlap = @ \/ (reload /\ Fetching)]
    BY <1>3 DEF HandlePush
  <2>2. reload \in BOOLEAN /\ Fetching \in BOOLEAN
    BY DEF Fetching
  <2> HIDE DEF reload, v
  <2>3. ed \in Buffer /\ hist \in Log /\ (ed.open => ed.id \in Ids)
    BY DEF TypeInv
  <2> DEFINE r == IF reload THEN ed.tick ELSE ed.reload
  <2>a. r \in Int /\ ed' = [ed EXCEPT !.drift = TRUE, !.reload = r] /\ ed \in Buffer
    BY <2>1, <2>2, Parts DEF TypeInv
  <2>b. r = IF reload THEN ed.tick ELSE ed.reload
    OBVIOUS
  <2> HIDE DEF r
  <2>c. ed' \in Buffer
    BY <2>a DEF Buffer
  <2>d. /\ ed'.open = ed.open /\ ed'.id = ed.id /\ ed'.reload = r
        /\ ed'.named = ed.named /\ ed'.text = ed.text
    BY <2>a DEF Buffer
  <2>4. /\ ed' \in Buffer /\ ed'.open = ed.open /\ ed'.id = ed.id
        /\ ed'.named = ed.named /\ ed'.text = ed.text
        /\ ed'.reload = IF reload THEN ed.tick ELSE ed.reload
    BY <2>b, <2>c, <2>d
  <2> DEFINE o == hist.overlap \/ (reload /\ Fetching)
  <2>5. o \in BOOLEAN /\ hist' = [hist EXCEPT !.told = v, !.overlap = o]
    BY <2>1
  <2>6. o = IF reload THEN (hist.overlap \/ Fetching) ELSE hist.overlap
    BY <2>2, <2>3 DEF Log
  <2> HIDE DEF o
  <2>7. /\ hist' \in Log /\ hist'.own = hist.own /\ hist'.drops = hist.drops
        /\ hist'.loaded = hist.loaded /\ hist'.overlap = o
    <3>1. v \in Int /\ o \in BOOLEAN /\ hist \in Log
      BY <1>1, <2>3, <2>5
    <3>2. hist' = [hist EXCEPT !.told = v, !.overlap = o]
      BY <2>5
    <3>3. hist' \in Log
      BY <3>1, <3>2 DEF Log
    <3>4. /\ hist'.own = hist.own /\ hist'.drops = hist.drops
          /\ hist'.loaded = hist.loaded /\ hist'.overlap = o
      BY <3>1, <3>2 DEF Log
    <3> QED BY <3>3, <3>4
  <2>8. ed.id \in Ids /\ Read(ed.id) \in Tasks
    BY <1>3, <2>3, Typing DEF Watching, Tasks
  <2> QED BY <1>3, <2>1, <2>4, <2>6, <2>7, <2>8
<1> QED BY <1>2, <1>3

LEMMA TypeHandlePush ==
  ASSUME TypeInv, NEW choice, HandlePush(choice)
  PROVE  TypeInv'
<1>1. inn' \in Inbox
  BY TookFields DEF HandlePush
<1>2. tasks' \in Seq(Tasks)
  BY HandlePushFields DEF TypeInv
<1> QED BY <1>1, <1>2, HandlePushFields DEF TypeInv, HandlePush, SavesInv, LegInv

LEMMA TypeStep == TypeInv /\ [Next]_vars => TypeInv'
<1> SUFFICES ASSUME TypeInv, [Next]_vars PROVE TypeInv'
  OBVIOUS
<1>1. CASE UNCHANGED vars
  BY <1>1 DEF vars, TypeInv, SavesInv, LegInv
<1>2. CASE Daemon
  BY <1>2, TypeServeRead, TypeReadStat, TypeServeWrite, TypeServeWriteFails, TypeWriteStat,
     TypeWriteAnswer, TypeServeWatch, TypeServeUnwatch DEF Daemon
<1>3. CASE \/ \E v \in {0, made + 1} : OutsideChange(v)
           \/ TaskRuns \/ Reconnect \/ SeeOutage \/ Resync \/ Poll \/ LateWrite
           \/ \E arrived \in inn.arrived..Len(inn.msgs), received \in BOOLEAN :
                Drop(arrived, received)
  BY <1>3, TypeOutside, TypeTaskRuns, TypeDrop, TypeLink, TypeResync, TypePoll, TypeLateWrite
<1>4. CASE \/ Edit \/ (\E bang \in BOOLEAN : ExWrite(bang)) \/ Close \/ Open
           \/ LandOpen \/ LandSave
           \/ (\E choice \in FcsChoices \cup {"ask"} : HandlePush(choice))
  BY <1>4, TypeEdit, TypeExWrite, TypeClose, TypeOpen, TypeLandOpen, TypeLandSave, TypeHandlePush
<1> QED BY <1>1, <1>2, <1>3, <1>4 DEF Next

(* The state of the leg, of the wire and of the buffer stays in its types:   *)
(* in particular the file leg is in the call its step says, and the writes   *)
(* a buffer's queue holds are that buffer's (serve_fs_daemon_on,             *)
(* saves_queued).                                                            *)
THEOREM FilesTyped == Spec => []TypeInv
<1>1. Init => TypeInv
  BY TypeInit
<1>2. TypeInv /\ [Next]_vars => TypeInv'
  BY TypeStep
<1> QED BY <1>1, <1>2, PTL DEF Spec

-----------------------------------------------------------------------------
(* The watch holds. *)

LEMMA HeldAppend ==
  ASSUME NEW q \in Seq(Orders), NEW m \in Orders, NEW w \in BOOLEAN, NEW want \in BOOLEAN
  PROVE  /\ ~IsWatchOp(m) /\ HeldBy(q, w, want) => HeldBy(Append(q, m), w, want)
         /\ m.op = "watch" => HeldBy(Append(q, m), w, TRUE)
         /\ m.op = "unwatch" => HeldBy(Append(q, m), w, FALSE)
<1> DEFINE r == Append(q, m)
           n == Len(q) + 1
<1>1. /\ DOMAIN q = 1..Len(q) /\ DOMAIN r = 1..n /\ r[n] = m /\ Len(q) \in Nat
      /\ \A i \in 1..Len(q) : r[i] = q[i]
  OBVIOUS
<1> HIDE DEF r
<1>2. ASSUME ~IsWatchOp(m), HeldBy(q, w, want)
      PROVE  HeldBy(r, w, want)
  <2>1. (\A i \in DOMAIN r : ~IsWatchOp(r[i])) => w = want
    BY <1>1, <1>2 DEF HeldBy
  <2>2. ASSUME NEW i \in DOMAIN r, IsWatchOp(r[i]),
               \A j \in DOMAIN r : IsWatchOp(r[j]) => j <= i
        PROVE  (r[i].op = "watch") = want
    <3>1. i \in DOMAIN q /\ r[i] = q[i]
      BY <1>1, <1>2, <2>2
    <3>2. \A j \in DOMAIN q : IsWatchOp(q[j]) => j <= i
      BY <1>1, <2>2
    <3> QED BY <1>2, <2>2, <3>1, <3>2 DEF HeldBy
  <2> QED BY <2>1, <2>2 DEF HeldBy
<1>3. ASSUME IsWatchOp(m)
      PROVE  HeldBy(r, w, m.op = "watch")
  <2>1. ~(\A i \in DOMAIN r : ~IsWatchOp(r[i]))
    BY <1>1, <1>3
  <2>2. ASSUME NEW i \in DOMAIN r, \A j \in DOMAIN r : IsWatchOp(r[j]) => j <= i
        PROVE  r[i] = m
    <3>1. n <= i
      BY <1>1, <1>3, <2>2
    <3> QED BY <1>1, <3>1
  <2> QED BY <2>1, <2>2 DEF HeldBy
<1>4. m.op = "watch" => HeldBy(r, w, TRUE)
  <2>1. m.op = "watch" => IsWatchOp(m) /\ (m.op = "watch") = TRUE
    BY DEF IsWatchOp
  <2> QED BY <1>3, <2>1
<1>5. m.op = "unwatch" => HeldBy(r, w, FALSE)
  <2>1. m.op = "unwatch" => IsWatchOp(m) /\ (m.op = "watch") = FALSE
    BY DEF IsWatchOp
  <2> QED BY <1>3, <2>1
<1> QED BY <1>2, <1>4, <1>5 DEF r

LEMMA HeldTail ==
  ASSUME NEW q \in Seq(Orders), q # <<>>, NEW w \in BOOLEAN, NEW want \in BOOLEAN,
         HeldBy(q, w, want)
  PROVE  /\ ~IsWatchOp(Head(q)) => HeldBy(Tail(q), w, want)
         /\ IsWatchOp(Head(q)) => HeldBy(Tail(q), Head(q).op = "watch", want)
<1> DEFINE r == Tail(q)
           h == Head(q)
<1>1. /\ Len(q) \in Nat /\ Len(q) >= 1 /\ DOMAIN q = 1..Len(q) /\ q[1] = h
      /\ DOMAIN r = 1..(Len(q) - 1) /\ \A i \in 1..(Len(q) - 1) : r[i] = q[i + 1]
  <2>1. r \in Seq(Orders) /\ Len(r) = Len(q) - 1 /\ \A i \in 1..Len(r) : r[i] = q[i + 1]
    BY HeadTailProperties
  <2> QED BY <2>1
<1> HIDE DEF r, h
<1>2. \A i \in DOMAIN q : i = 1 \/ (i - 1 \in DOMAIN r /\ q[i] = r[i - 1])
  BY <1>1
<1>3. \A i \in DOMAIN r : i + 1 \in DOMAIN q /\ r[i] = q[i + 1]
  BY <1>1
<1>4. ASSUME NEW i \in DOMAIN r, IsWatchOp(r[i]),
             \A j \in DOMAIN r : IsWatchOp(r[j]) => j <= i
      PROVE  (r[i].op = "watch") = want
  <2>1. i + 1 \in DOMAIN q /\ IsWatchOp(q[i + 1])
    BY <1>3, <1>4
  <2>2. ASSUME NEW j \in DOMAIN q, IsWatchOp(q[j]) PROVE j <= i + 1
    <3>1. CASE j = 1
      BY <1>1, <1>4, <3>1
    <3>2. CASE j # 1
      <4>1. j - 1 \in DOMAIN r /\ IsWatchOp(r[j - 1])
        BY <1>2, <2>2, <3>2
      <4>2. j - 1 <= i
        BY <1>4, <4>1
      <4> QED BY <1>1, <4>2
    <3> QED BY <3>1, <3>2
  <2>3. (q[i + 1].op = "watch") = want
    BY <2>1, <2>2 DEF HeldBy
  <2> QED BY <1>3, <2>3
<1>5. ASSUME ~IsWatchOp(h) PROVE HeldBy(r, w, want)
  <2>1. (\A i \in DOMAIN r : ~IsWatchOp(r[i])) => w = want
    <3>1. (\A i \in DOMAIN r : ~IsWatchOp(r[i])) => \A i \in DOMAIN q : ~IsWatchOp(q[i])
      BY <1>1, <1>2, <1>5
    <3> QED BY <3>1 DEF HeldBy
  <2> QED BY <1>4, <2>1 DEF HeldBy
<1>6. ASSUME IsWatchOp(h) PROVE HeldBy(r, h.op = "watch", want)
  <2>1. (\A i \in DOMAIN r : ~IsWatchOp(r[i])) => (h.op = "watch") = want
    <3> SUFFICES ASSUME \A i \in DOMAIN r : ~IsWatchOp(r[i])
                 PROVE  (h.op = "watch") = want
      OBVIOUS
    <3>1. \A j \in DOMAIN q : IsWatchOp(q[j]) => j <= 1
      BY <1>1, <1>2
    <3>2. 1 \in DOMAIN q /\ q[1] = h
      BY <1>1
    <3> QED BY <1>6, <3>1, <3>2 DEF HeldBy
  <2> QED BY <1>4, <2>1 DEF HeldBy
<1> QED BY <1>5, <1>6 DEF r, h

\* The last order about the watch is the one the state promises.
LEMMA HeldMeansWatched ==
  ASSUME TypeInv, WatchInv
  PROVE  WatchHeld
BY DEF WatchInv, HeldBy, WatchHeld, WatchOps

LEMMA WatchInit == Init => WatchInv
<1> SUFFICES ASSUME Init PROVE WatchInv
  OBVIOUS
<1>1. wire.phase = "up" /\ wire.out = <<>> /\ dmn.watched = FALSE
  BY DEF Init
<1>2. ed.named = FALSE
  BY DEF Init
<1>3. Watching = FALSE
  BY <1>2 DEF Watching
<1>4. HeldBy(<<>>, FALSE, FALSE)
  BY DEF HeldBy
<1> QED BY <1>1, <1>3, <1>4 DEF WatchInv

LEMMA WatchTaskRuns == ASSUME TypeInv, WatchInv, TaskRuns PROVE WatchInv'
<1>1. Head(tasks) \in Orders /\ ~IsWatchOp(Head(tasks))
  BY HeadTask, Fields DEF TaskRuns, Tasks, IsWatchOp
<1>2. wire \in Link /\ wire.out \in Seq(Orders) /\ dmn.watched \in BOOLEAN
  BY Parts DEF TypeInv
<1>3. Watching' = Watching /\ dmn' = dmn /\ Watching \in BOOLEAN
  BY Parts DEF TaskRuns, Watching
<1>4. CASE Up
  <2>1. wire'.phase = wire.phase /\ wire'.out = Append(wire.out, Head(tasks))
    BY <1>1, <1>2, <1>4, SentFields DEF TaskRuns, Up
  <2>2. \A want \in BOOLEAN : HeldBy(wire.out, dmn.watched, want) =>
                              HeldBy(wire'.out, dmn.watched, want)
    BY <1>1, <1>2, <2>1, HeldAppend
  <2> QED BY <1>3, <1>4, <2>1, <2>2 DEF WatchInv, Up
<1>5. CASE ~Up
  BY <1>3, <1>5 DEF TaskRuns, WatchInv
<1> QED BY <1>4, <1>5

LEMMA WatchResync == ASSUME TypeInv, WatchInv, Resync PROVE WatchInv'
<1>1. /\ wire'.phase = "up" /\ Watch(ed.base) \in Orders
      /\ wire'.out = IF Watching THEN Append(wire.out, Watch(ed.base)) ELSE wire.out
  BY ResyncFields
<1>2. wire.out \in Seq(Orders) /\ dmn.watched \in BOOLEAN /\ wire.phase = "back"
      /\ Watch(ed.base).op = "watch"
  BY Parts, Typing DEF Resync
<1>3. Watching' = Watching /\ dmn' = dmn /\ Watching \in BOOLEAN
  BY Parts DEF Resync, Watching
<1>4. CASE Watching
  <2>1. HeldBy(wire'.out, dmn.watched, TRUE)
    BY <1>1, <1>2, <1>4, HeldAppend
  <2> QED BY <1>1, <1>3, <1>4, <2>1 DEF WatchInv
<1>5. CASE ~Watching
  BY <1>1, <1>2, <1>3, <1>5 DEF WatchInv
<1> QED BY <1>4, <1>5

\* A step that takes the wire's first order when it is not about the watch.
LEMMA WatchServed ==
  ASSUME TypeInv, WatchInv, wire.out # <<>>, ~IsWatchOp(Head(wire.out)),
         wire' = Popped, dmn'.watched = dmn.watched, ed' = ed
  PROVE  WatchInv'
<1>1. wire.out \in Seq(Orders) /\ dmn.watched \in BOOLEAN /\ Watching \in BOOLEAN
      /\ Watching' = Watching
  BY Parts DEF Watching
<1>2. wire'.phase = wire.phase /\ wire'.out = Tail(wire.out)
  BY HeadOf
<1>3. \A want \in BOOLEAN : HeldBy(wire.out, dmn.watched, want) =>
                            HeldBy(wire'.out, dmn.watched, want)
  BY <1>1, <1>2, HeldTail
<1> QED BY <1>1, <1>2, <1>3 DEF WatchInv

LEMMA WatchTold ==
  ASSUME TypeInv, WatchInv, ServeWatch \/ ServeUnwatch
  PROVE  WatchInv'
<1>1. wire.out \in Seq(Orders) /\ dmn.watched \in BOOLEAN /\ Watching \in BOOLEAN
      /\ Watching' = Watching
  BY Parts DEF Watching, ServeWatch, ServeUnwatch
<1>2. wire.out # <<>> /\ wire'.phase = wire.phase /\ wire'.out = Tail(wire.out)
      /\ IsWatchOp(Head(wire.out))
  BY HeadOf DEF ServeWatch, ServeUnwatch, Next1, IsWatchOp
<1>3. dmn'.watched = (Head(wire.out).op = "watch")
  BY DEF ServeWatch, ServeUnwatch, Next1, TypeInv, Leg
<1>4. \A want \in BOOLEAN : HeldBy(wire.out, dmn.watched, want) =>
                            HeldBy(wire'.out, dmn'.watched, want)
  BY <1>1, <1>2, <1>3, HeldTail
<1> QED BY <1>1, <1>2, <1>4 DEF WatchInv

LEMMA WatchClose == ASSUME TypeInv, WatchInv, Close PROVE WatchInv'
<1>1. wire.out \in Seq(Orders) /\ dmn.watched \in BOOLEAN /\ Watching \in BOOLEAN
      /\ ~Watching' /\ dmn' = dmn
  BY Parts, CloseFields DEF Watching, Close
<1>4. Watching' = FALSE
  <2>1. Watching' \in BOOLEAN
    BY DEF Watching
  <2> QED BY <1>1, <2>1
<1>2. CASE wire.phase \in {"up", "back"} /\ ed.named
  <2>1. wire'.phase = wire.phase /\ wire'.out = Append(wire.out, Unwatch)
        /\ Unwatch \in Orders /\ Unwatch.op = "unwatch"
    BY <1>2, CloseFields, Typing
  <2>2. HeldBy(wire'.out, dmn.watched, FALSE)
    BY <1>1, <2>1, HeldAppend
  <2> QED BY <1>1, <1>2, <1>4, <2>1, <2>2 DEF WatchInv
<1>3. CASE ~(wire.phase \in {"up", "back"} /\ ed.named)
  <2>1. wire'.phase = wire.phase /\ wire'.out = wire.out
    BY <1>3, CloseFields
  <2>2. wire.phase \in {"up", "back"} => ~Watching
    BY <1>3 DEF Watching
  <2> QED BY <1>1, <1>4, <2>1, <2>2 DEF WatchInv
<1> QED BY <1>2, <1>3

LEMMA WatchOpen == ASSUME TypeInv, WatchInv, Open PROVE WatchInv'
<1>1. wire.out \in Seq(Orders) /\ dmn.watched \in BOOLEAN /\ Watching' /\ dmn' = dmn
  BY Parts, OpenFields DEF Watching, Open
<1>2. Watching' = TRUE /\ wire.phase \in {"up", "lost", "down", "back"}
  <2>1. Watching' \in BOOLEAN
    BY DEF Watching
  <2> QED BY <1>1, <2>1, Parts
<1>3. CASE wire.phase \in {"up", "back"}
  <2>1. wire'.phase = wire.phase /\ wire'.out = Append(wire.out, Watch(0))
        /\ Watch(0) \in Orders /\ Watch(0).op = "watch"
    BY <1>3, OpenFields, Typing
  <2>2. HeldBy(wire'.out, dmn.watched, TRUE)
    BY <1>1, <2>1, HeldAppend
  <2> QED BY <1>1, <1>2, <1>3, <2>1, <2>2 DEF WatchInv
<1>4. CASE wire.phase \notin {"up", "back"}
  <2>1. wire'.phase = wire.phase /\ wire'.out = wire.out
    BY <1>4, OpenFields
  <2> QED BY <1>1, <1>4, <2>1 DEF WatchInv
<1> QED BY <1>3, <1>4

LEMMA WatchLandOpen == ASSUME TypeInv, WatchInv, LandOpen PROVE WatchInv'
<1> DEFINE a == inn.msgs[First("opened")]
<1>1. /\ ed'.open = ed.open /\ ed'.named = (ed.named \/ Loads(a))
      /\ Watch(ed'.base) \in Orders /\ ed'.base \in Int
      /\ wire'.phase = wire.phase
      /\ wire'.out = IF Loads(a) /\ ~ed.named /\ wire.phase \in {"up", "back"}
                     THEN Append(wire.out, Watch(ed'.base)) ELSE wire.out
  BY LandOpenFields DEF Buffer
<1> HIDE DEF a
<1>2. wire.out \in Seq(Orders) /\ dmn.watched \in BOOLEAN /\ dmn' = dmn
      /\ wire.phase \in {"up", "lost", "down", "back"}
      /\ Watch(ed'.base).op = "watch"
  BY <1>1, Parts, Typing DEF LandOpen, LandOpenIf
<1>3. Watching \in BOOLEAN /\ Watching' \in BOOLEAN
  BY DEF Watching
<1>4. CASE Loads(a) /\ ~ed.named
  <2>1. Watching'
    BY <1>1, <1>4 DEF Watching, Loads, LandsOn
  <2>2. CASE wire.phase \in {"up", "back"}
    <3>1. HeldBy(wire'.out, dmn.watched, TRUE)
      BY <1>1, <1>2, <1>4, <2>2, HeldAppend
    <3> QED BY <1>1, <1>2, <1>3, <2>1, <2>2, <3>1 DEF WatchInv
  <2>3. CASE wire.phase \notin {"up", "back"}
    BY <1>1, <1>2, <2>1, <2>3 DEF WatchInv
  <2> QED BY <2>2, <2>3
<1>5. CASE ~(Loads(a) /\ ~ed.named)
  <2>1. Watching' = Watching /\ wire'.out = wire.out
    BY <1>1, <1>5 DEF Watching, Loads, LandsOn
  <2> QED BY <1>1, <1>2, <2>1 DEF WatchInv
<1> QED BY <1>4, <1>5

LEMMA WatchDrop ==
  ASSUME TypeInv, NEW arrived, NEW received, Drop(arrived, received)
  PROVE  WatchInv'
<1>1. wire'.phase \in {"lost", "down"} /\ wire'.out = <<>> /\ ~dmn'.watched
  BY DEF Drop
<1> QED BY <1>1 DEF WatchInv

LEMMA WatchLink ==
  ASSUME TypeInv, WatchInv, Reconnect \/ SeeOutage
  PROVE  WatchInv'
<1>1. wire'.phase \in {"down", "back"} /\ wire'.out = wire.out /\ dmn' = dmn
      /\ Watching' = Watching /\ wire.phase \in {"lost", "down"}
  BY DEF Reconnect, SeeOutage, TypeInv, Link, Watching
<1>2. wire.out = <<>> /\ ~dmn.watched /\ dmn.watched \in BOOLEAN
  BY <1>1, Parts DEF WatchInv
<1>3. HeldBy(wire'.out, dmn'.watched, FALSE)
  BY <1>1, <1>2 DEF HeldBy
<1> QED BY <1>1, <1>2, <1>3 DEF WatchInv

\* A step that leaves the wire, the watch and what the editor shows alone.
LEMMA WatchFrame ==
  ASSUME WatchInv, wire' = wire, dmn'.watched = dmn.watched,
         ed'.open = ed.open, ed'.named = ed.named
  PROVE  WatchInv'
BY DEF WatchInv, Watching

LEMMA WatchStep == TypeInv /\ WatchInv /\ [Next]_vars => WatchInv'
<1> SUFFICES ASSUME TypeInv, WatchInv, [Next]_vars PROVE WatchInv'
  OBVIOUS
<1>1. CASE UNCHANGED vars
  BY <1>1, WatchFrame DEF vars
<1>2. CASE ServeRead \/ ServeWrite \/ ServeWriteFails
  <2>1. wire.out # <<>> /\ ~IsWatchOp(Head(wire.out)) /\ wire' = Popped /\ ed' = ed
    BY <1>2 DEF ServeRead, ServeWrite, ServeWriteFails, Next1, IsWatchOp
  <2>2. dmn'.watched = dmn.watched
    BY <1>2 DEF ServeRead, ServeWrite, ServeWriteFails, TypeInv, Leg
  <2> QED BY <2>1, <2>2, WatchServed
<1>3. CASE ReadStat \/ WriteStat \/ WriteAnswer \/ Poll
  <2>1. wire' = wire /\ ed' = ed
    BY <1>3 DEF ReadStat, WriteStat, WriteAnswer, Poll
  <2>2. dmn'.watched = dmn.watched
    <3>1. CASE ReadStat
      BY <3>1, FreeFields DEF ReadStat
    <3>2. CASE WriteStat \/ Poll
      BY <3>2 DEF WriteStat, Poll, TypeInv, Leg
    <3> QED BY <1>3, <3>1, <3>2, AnswerFields
  <2> QED BY <2>1, <2>2, WatchFrame
<1>4. CASE \/ \E v \in {0, made + 1} : OutsideChange(v)
           \/ LateWrite \/ Edit \/ (\E bang \in BOOLEAN : ExWrite(bang)) \/ LandSave
           \/ (\E choice \in FcsChoices \cup {"ask"} : HandlePush(choice))
  <2>1. wire' = wire /\ dmn' = dmn
    BY <1>4 DEF OutsideChange, LateWrite, Edit, ExWrite, LandSave, HandlePush
  <2>2. ed'.open = ed.open /\ ed'.named = ed.named
    <3>1. CASE Edit
      BY <3>1 DEF Edit, TypeInv, Buffer
    <3>2. CASE \/ \E v \in {0, made + 1} : OutsideChange(v)
               \/ LateWrite \/ (\E bang \in BOOLEAN : ExWrite(bang))
      BY <3>2 DEF OutsideChange, LateWrite, ExWrite
    <3>3. CASE LandSave \/ (\E choice \in FcsChoices \cup {"ask"} : HandlePush(choice))
      BY <3>3, LandSaveFields, HandlePushFields
    <3> QED BY <1>4, <3>1, <3>2, <3>3
  <2> QED BY <2>1, <2>2, WatchFrame
<1>5. CASE \E arrived \in inn.arrived..Len(inn.msgs), received \in BOOLEAN :
             Drop(arrived, received)
  BY <1>5, WatchDrop
<1> QED BY <1>1, <1>2, <1>3, <1>4, <1>5, WatchTaskRuns, WatchResync, WatchTold,
           WatchClose, WatchOpen, WatchLandOpen, WatchLink DEF Next, Daemon

(* Once the editor has dealt with the last change of the link, the daemon   *)
(* watches the file exactly when the buffer is open on it, or the message   *)
(* that will make it so is on the wire and none follows that undoes it,     *)
(* over any number of openings, drops and reconnects (sync_buffer_watches,  *)
(* resync_after_reconnect).                                                 *)
THEOREM WatchIsHeld == Spec => []WatchHeld
<1>1. Init => TypeInv /\ WatchInv
  BY TypeInit, WatchInit
<1>2. TypeInv /\ WatchInv /\ [Next]_vars => (TypeInv /\ WatchInv)'
  BY TypeStep, WatchStep
<1>3. TypeInv /\ WatchInv => WatchHeld
  BY HeldMeansWatched
<1> QED BY <1>1, <1>2, <1>3, PTL DEF Spec

-----------------------------------------------------------------------------
(* The daemon does not report the edit-host's own write. *)

LEMMA ForeignAppend ==
  ASSUME NEW S, NEW q \in Seq(S), NEW m \in S, NEW s, NEW n, Foreign(q, s, n),
         m.op = "push" => m.stat \notin s /\ m.stat <= n
  PROVE  Foreign(Append(q, m), s, n)
<1>1. \A i \in 1..Len(Append(q, m)) :
        (i \in 1..Len(q) /\ Append(q, m)[i] = q[i]) \/ Append(q, m)[i] = m
  OBVIOUS
<1> DEFINE r == Append(q, m)
<1> HIDE DEF r
<1>2. \A i \in 1..Len(r) : (i \in 1..Len(q) /\ r[i] = q[i]) \/ r[i] = m
  BY <1>1 DEF r
<1>3. Foreign(r, s, n)
  BY <1>2 DEF Foreign
<1> QED BY <1>3 DEF r

LEMMA ForeignRemoved ==
  ASSUME NEW S, NEW q \in Seq(S), NEW j \in 1..Len(q), NEW s, NEW n, Foreign(q, s, n)
  PROVE  Foreign(RemoveAt(q, j), s, n)
<1> DEFINE r == RemoveAt(q, j)
<1>1. Len(q) \in Nat /\ Len(r) = Len(q) - 1
      /\ \A i \in 1..(Len(q) - 1) : r[i] = IF i < j THEN q[i] ELSE q[i + 1]
  BY Removed
<1> HIDE DEF r
<1>2. \A i \in 1..Len(r) : \E k \in 1..Len(q) : r[i] = q[k]
  BY <1>1
<1>3. Foreign(r, s, n)
  BY <1>2 DEF Foreign
<1> QED BY <1>3 DEF r

LEMMA AppendOne ==
  ASSUME NEW S, NEW q \in Seq(S), NEW m \in S
  PROVE  /\ Len(Append(q, m)) = Len(q) + 1 /\ Len(q) \in Nat
         /\ Append(q, m)[Len(q) + 1] = m
         /\ \A i \in 1..Len(q) : Append(q, m)[i] = q[i]
OBVIOUS

LEMMA TailOne ==
  ASSUME NEW S, NEW q \in Seq(S), q # <<>>
  PROVE  /\ Len(Tail(q)) = Len(q) - 1 /\ Len(q) \in Nat /\ Len(q) >= 1
         /\ q[1] = Head(q)
         /\ \A i \in 1..(Len(q) - 1) : Tail(q)[i] = q[i + 1]
BY HeadTailProperties

LEMMA FreshAppend ==
  ASSUME NEW S, NEW q \in Seq(S), NEW m \in S, NEW b, Fresh(q, b),
         m.op = "watch" /\ m.known # 0 => b /\ NoWrite(q, Len(q))
  PROVE  Fresh(Append(q, m), b)
<1> DEFINE r == Append(q, m)
           n == Len(q) + 1
<1>1. Len(r) = n /\ Len(q) \in Nat /\ r[n] = m /\ \A i \in 1..Len(q) : r[i] = q[i]
  BY AppendOne
<1> HIDE DEF r
<1> SUFFICES ASSUME NEW i \in 1..Len(r), r[i].op = "watch", r[i].known # 0
             PROVE  b /\ NoWrite(r, i)
  BY DEF Fresh, r
<1>2. CASE i \in 1..Len(q)
  <2>1. b /\ NoWrite(q, i)
    BY <1>1, <1>2 DEF Fresh
  <2>2. \A j \in 1..i : r[j] = q[j]
    BY <1>1, <1>2
  <2> QED BY <2>1, <2>2 DEF NoWrite
<1>3. CASE i = n
  <2>1. b /\ NoWrite(q, Len(q)) /\ r[n].op # "write"
    BY <1>1, <1>3
  <2> QED BY <1>1, <1>3, <2>1 DEF NoWrite
<1> QED BY <1>1, <1>2, <1>3

LEMMA FreshTail ==
  ASSUME NEW S, NEW q \in Seq(S), q # <<>>, NEW b, Fresh(q, b)
  PROVE  /\ Fresh(Tail(q), b)
         /\ Head(q).op = "write" => \A c : Fresh(Tail(q), c)
<1> DEFINE r == Tail(q)
<1>1. Len(r) = Len(q) - 1 /\ Len(q) \in Nat /\ Len(q) >= 1 /\ q[1] = Head(q)
      /\ \A i \in 1..(Len(q) - 1) : r[i] = q[i + 1]
  BY TailOne
<1> HIDE DEF r
<1>2. ASSUME NEW i \in 1..Len(r), r[i].op = "watch", r[i].known # 0
      PROVE  b /\ NoWrite(r, i) /\ Head(q).op # "write"
  <2>1. i + 1 \in 1..Len(q) /\ r[i] = q[i + 1]
    BY <1>1
  <2>2. b /\ NoWrite(q, i + 1)
    BY <1>2, <2>1 DEF Fresh
  <2>3. q[1].op # "write"
    BY <1>1, <2>1, <2>2 DEF NoWrite
  <2>4. \A j \in 1..i : j + 1 \in 1..(i + 1) /\ r[j] = q[j + 1]
    BY <1>1
  <2> QED BY <1>1, <2>2, <2>3, <2>4 DEF NoWrite
<1> QED BY <1>2 DEF Fresh, r

LEMMA NoWriteAppend ==
  ASSUME NEW S, NEW q \in Seq(S), NEW m \in S, NoWrite(q, Len(q)), m.op # "write"
  PROVE  NoWrite(Append(q, m), Len(Append(q, m)))
BY AppendOne DEF NoWrite

LEMMA NoWriteTail ==
  ASSUME NEW S, NEW q \in Seq(S), q # <<>>, NoWrite(q, Len(q))
  PROVE  NoWrite(Tail(q), Len(Tail(q))) /\ Head(q).op # "write"
<1> DEFINE r == Tail(q)
<1>1. Len(r) = Len(q) - 1 /\ Len(q) \in Nat /\ Len(q) >= 1 /\ q[1] = Head(q)
      /\ \A i \in 1..(Len(q) - 1) : r[i] = q[i + 1]
  BY TailOne
<1> HIDE DEF r
<1>2. \A i \in 1..Len(r) : i + 1 \in 1..Len(q) /\ r[i] = q[i + 1]
  BY <1>1
<1>3. NoWrite(r, Len(r)) /\ Head(q).op # "write"
  BY <1>1, <1>2 DEF NoWrite
<1> QED BY <1>3 DEF r

LEMMA PushTyped ==
  ASSUME TypeInv
  PROVE  \A i \in 1..Len(inn.msgs) : inn.msgs[i].op = "push" => inn.msgs[i].stat \in Nat
<1>1. \A i \in 1..Len(inn.msgs) : inn.msgs[i] \in News
  BY Parts
<1>2. \A m \in News : m.op = "push" => m.stat \in Nat
  BY Fields DEF News
<1> QED BY <1>1, <1>2

\* A step that only adds an order to the wire, or none, and reads no push.
LEMMA QuietOutside ==
  ASSUME TypeInv, Quiet, NEW v \in {0, made + 1}, OutsideChange(v)
  PROVE  Quiet'
<1>1. disk' = v /\ made' = made + 1 /\ made \in Nat
  BY DEF OutsideChange, TypeInv
<1>2. hist'.own = hist.own /\ hist.own \subseteq 1..made
  BY OutsideFields DEF Quiet
<1>3. disk' \notin hist.own /\ disk' \in 0..made' /\ hist.own \subseteq 1..made'
  BY <1>1, <1>2
<1>4. Foreign(inn.msgs, hist.own, made')
  <2>1. \A i \in 1..Len(inn.msgs) : inn.msgs[i].op = "push" => inn.msgs[i].stat \in Nat
    BY PushTyped
  <2> QED BY <1>1, <2>1 DEF Quiet, Foreign
<1> QED BY <1>2, <1>3, <1>4 DEF Quiet, NothingWritten, OutsideChange

LEMMA QuietTaskRuns == ASSUME TypeInv, Quiet, TaskRuns PROVE Quiet'
<1>1. Up
  BY DEF Quiet, Up
<1> DEFINE m == Head(tasks)
<1>2. m \in Tasks /\ m \in Orders /\ tasks # <<>> /\ tasks \in Seq(Tasks)
      /\ m.op \notin {"watch", "push"}
  BY HeadTask, Fields DEF TaskRuns, TypeInv, Tasks
<1>3. wire'.phase = "up" /\ wire'.out = Append(wire.out, m) /\ wire.out \in Seq(Orders)
  <2>1. wire' = Sent(wire, m)
    BY <1>1 DEF TaskRuns
  <2> QED BY <1>2, <2>1, SentFields, Parts DEF Quiet, TypeInv
<1>4. inn' = inn /\ tasks' = Tail(tasks)
  BY <1>1 DEF TaskRuns
<1> HIDE DEF m
<1>5. Fresh(wire'.out, NothingWritten)
  BY <1>2, <1>3, FreshAppend DEF Quiet
<1>6. ~ed.named => NoWrite(tasks', Len(tasks')) /\ NoWrite(wire'.out, Len(wire'.out))
  <2> SUFFICES ASSUME ~ed.named
               PROVE  NoWrite(tasks', Len(tasks')) /\ NoWrite(wire'.out, Len(wire'.out))
    OBVIOUS
  <2>1. NoWrite(tasks, Len(tasks)) /\ NoWrite(wire.out, Len(wire.out))
    BY DEF Quiet
  <2>2. NoWrite(tasks', Len(tasks')) /\ m.op # "write"
    BY <1>2, <1>4, <2>1, NoWriteTail DEF m
  <2> QED BY <1>2, <1>3, <2>1, <2>2, NoWriteAppend
<1> QED BY <1>3, <1>4, <1>5, <1>6 DEF Quiet, NothingWritten, TaskRuns

LEMMA QuietServeRead == ASSUME TypeInv, Quiet, ServeRead PROVE Quiet'
<1> DEFINE m == Head(wire.out)
<1>1. wire.out # <<>> /\ wire.out \in Seq(Orders) /\ m \in Reads /\ m.op = "read"
      /\ wire'.phase = wire.phase /\ wire'.out = Tail(wire.out) /\ m.id \in Ids
      /\ dmn.step = "idle"
  BY HeadOf, Fields, Parts DEF ServeRead, Next1
<1>2. Fresh(wire'.out, NothingWritten)
  BY <1>1, FreshTail DEF Quiet
<1>3. ~ed.named => NoWrite(wire'.out, Len(wire'.out))
  BY <1>1, NoWriteTail DEF Quiet
<1>4. /\ Foreign(inn'.msgs, hist.own, made)
      /\ dmn'.step \in {"idle", "stat"} /\ dmn'.watched = dmn.watched /\ dmn'.base = dmn.base
      /\ dmn'.call.op # "write" \/ dmn'.call = dmn.call
  <2>1. CASE disk = 0
    <3>a. Opened(m.id, 0, 0) \in News /\ Opened(m.id, 0, 0).op = "opened"
      BY <1>1, Typing DEF News
    <3>b. Reply(Opened(m.id, 0, 0)) /\ dmn' = dmn
      BY <2>1 DEF ServeRead
    <3>1. Opened(m.id, 0, 0) \in News /\ Reply(Opened(m.id, 0, 0)) /\ dmn' = dmn
          /\ Opened(m.id, 0, 0).op = "opened"
      BY <3>a, <3>b
    <3>2. inn'.msgs = Append(inn.msgs, Opened(m.id, 0, 0)) /\ inn.msgs \in Seq(News)
      BY <3>1, ReplyFields, Parts
    <3>3. Foreign(inn'.msgs, hist.own, made)
      BY <3>1, <3>2, ForeignAppend DEF Quiet
    <3> QED BY <1>1, <3>1, <3>3
  <2>2. CASE disk # 0
    <3>1. inn' = inn /\ dmn' = [dmn EXCEPT !.call = m, !.step = "stat", !.got = disk]
      BY <2>2 DEF ServeRead
    <3> HIDE DEF m
    <3>2. /\ dmn'.step = "stat" /\ dmn'.watched = dmn.watched /\ dmn'.base = dmn.base
          /\ dmn'.call = m
      BY <3>1 DEF TypeInv, Leg
    <3> QED BY <1>1, <3>1, <3>2 DEF Quiet
  <2> QED BY <2>1, <2>2
<1>5. dmn.call = Idle /\ Idle.op # "write" /\ dmn'.call.op # "write"
  BY <1>1, <1>4, Typing DEF TypeInv, LegInv
<1>6. /\ disk' = disk /\ made' = made /\ late' = late /\ tasks' = tasks /\ ed' = ed
      /\ saves' = saves /\ hist' = hist
  BY DEF ServeRead
<1> HIDE DEF m
<1>7. NothingWritten' = NothingWritten
  BY <1>5, <1>6 DEF NothingWritten
<1> QED BY <1>1, <1>2, <1>3, <1>4, <1>6, <1>7 DEF Quiet

LEMMA QuietReadStat == ASSUME TypeInv, Quiet, ReadStat PROVE Quiet'
<1>1. dmn.call \in Reads /\ dmn.call.id \in Ids /\ dmn.call.op = "read"
      /\ dmn.got \in Nat /\ disk \in Nat
  BY Fields DEF TypeInv, LegInv, ReadStat, Leg
<1>2. Opened(dmn.call.id, dmn.got, disk) \in News
      /\ Opened(dmn.call.id, dmn.got, disk).op = "opened"
  BY <1>1, Typing DEF News
<1>3. inn'.msgs = Append(inn.msgs, Opened(dmn.call.id, dmn.got, disk)) /\ inn.msgs \in Seq(News)
  BY <1>2, ReplyFields, Parts DEF ReadStat
<1>4. Foreign(inn'.msgs, hist.own, made)
  BY <1>2, <1>3, ForeignAppend DEF Quiet
<1>5. /\ dmn'.step = "idle" /\ dmn'.call.op # "write" /\ dmn'.watched = dmn.watched
      /\ dmn'.base = dmn.base
  BY FreeFields, Typing DEF ReadStat
<1>6. /\ disk' = disk /\ made' = made /\ late' = late /\ tasks' = tasks /\ ed' = ed
      /\ saves' = saves /\ hist' = hist /\ wire' = wire /\ dmn.step = "stat"
  BY DEF ReadStat
<1>7. NothingWritten' = NothingWritten
  BY <1>1, <1>5, <1>6 DEF NothingWritten
<1> QED BY <1>4, <1>5, <1>6, <1>7 DEF Quiet

LEMMA QuietServeWrite == ASSUME TypeInv, Quiet, ServeWrite PROVE Quiet'
<1>1. wire.out # <<>> /\ wire.out \in Seq(Orders) /\ Head(wire.out).op = "write"
      /\ wire'.phase = wire.phase /\ wire'.out = Tail(wire.out)
  BY HeadOf, Parts DEF ServeWrite, Next1
<1>2. ed.named /\ ed' = ed
  BY <1>1, NoWriteTail DEF Quiet, ServeWrite
<1>3. Fresh(wire'.out, NothingWritten')
  BY <1>1, FreshTail DEF Quiet
<1>4. disk' = made + 1 /\ made' = made + 1 /\ hist'.own = hist.own \cup {made + 1} /\ made \in Nat
  BY OverwriteFields DEF ServeWrite, TypeInv
<1>5. hist'.own \subseteq 1..made' /\ disk' \in 0..made'
  BY <1>4 DEF Quiet
<1>6. Foreign(inn'.msgs, hist'.own, made')
  <2>1. \A i \in 1..Len(inn.msgs) : inn.msgs[i].op = "push" => inn.msgs[i].stat \in Nat
    BY Parts, Fields, SMTT(30) DEF News
  <2>2. inn' = inn
    BY DEF ServeWrite
  <2> QED BY <1>4, <2>1, <2>2 DEF Quiet, Foreign
<1>7. dmn'.step = "reply" /\ late' = late
  BY DEF ServeWrite, TypeInv, Leg
<1> QED BY <1>1, <1>2, <1>3, <1>5, <1>6, <1>7 DEF Quiet

LEMMA QuietServeWriteFails == ASSUME TypeInv, Quiet, ServeWriteFails PROVE Quiet'
<1>1. wire.out # <<>> /\ wire.out \in Seq(Orders) /\ Head(wire.out) \in Writes
      /\ wire'.phase = wire.phase /\ wire'.out = Tail(wire.out)
  BY HeadOf, Parts DEF ServeWriteFails, Next1
<1>2. Fresh(wire'.out, NothingWritten)
  BY <1>1, FreshTail DEF Quiet
<1>3. ~ed.named => NoWrite(wire'.out, Len(wire'.out))
  BY <1>1, NoWriteTail DEF Quiet
<1>4. SaveFailed(Head(wire.out)) \in News /\ SaveFailed(Head(wire.out)).op = "wrote"
  BY <1>1, Typing DEF SaveFailed, News
<1>5. inn'.msgs = Append(inn.msgs, SaveFailed(Head(wire.out))) /\ inn.msgs \in Seq(News)
  BY <1>4, ReplyFields, Parts DEF ServeWriteFails
<1>6. Foreign(inn'.msgs, hist.own, made)
  BY <1>4, <1>5, ForeignAppend DEF Quiet
<1>7. /\ disk' = disk /\ made' = made /\ late' = late /\ tasks' = tasks /\ ed' = ed
      /\ saves' = saves /\ hist' = hist /\ dmn' = dmn
  BY DEF ServeWriteFails
<1> QED BY <1>1, <1>2, <1>3, <1>6, <1>7 DEF Quiet, NothingWritten

LEMMA QuietWriteStat == ASSUME TypeInv, Quiet, WriteStat PROVE Quiet'
<1>1. dmn'.step = "restat" /\ dmn'.call = dmn.call
  BY DEF WriteStat, TypeInv, Leg
<1> QED BY <1>1 DEF Quiet, NothingWritten, WriteStat

LEMMA QuietWriteAnswer == ASSUME TypeInv, Quiet, WriteAnswer PROVE Quiet'
<1> DEFINE m == Wrote(dmn.call, dmn.got, dmn.stat)
<1>1. /\ dmn'.call.op # "write" /\ dmn'.watched = dmn.watched /\ dmn.call \in Writes
      /\ dmn'.base = (IF dmn.watched THEN disk ELSE dmn.base) /\ m \in News
  BY AnswerFields, Typing
<1>2. m.op = "wrote" /\ dmn.call.op = "write"
  BY <1>1, Parts, Typing, Fields
<1>3. inn'.msgs = Append(inn.msgs, m) /\ inn.msgs \in Seq(News)
  BY <1>1, ReplyFields, Parts DEF WriteAnswer
<1> HIDE DEF m
<1>4. Foreign(inn'.msgs, hist.own, made)
  BY <1>1, <1>2, <1>3, ForeignAppend DEF Quiet
<1>5. /\ disk' = disk /\ made' = made /\ late' = late /\ tasks' = tasks /\ ed' = ed
      /\ saves' = saves /\ hist' = hist /\ wire' = wire
  BY DEF WriteAnswer
<1>6. ed.named /\ ~NothingWritten
  BY <1>2 DEF Quiet, NothingWritten
<1>7. Fresh(wire.out, NothingWritten')
  BY <1>6 DEF Quiet, Fresh
<1> QED BY <1>1, <1>4, <1>5, <1>6, <1>7 DEF Quiet

LEMMA QuietServeWatch == ASSUME TypeInv, Quiet, ServeWatch PROVE Quiet'
<1> DEFINE m == Head(wire.out)
<1>1. wire.out # <<>> /\ wire.out \in Seq(Orders) /\ m \in Watches /\ m.op = "watch"
      /\ wire'.phase = wire.phase /\ wire'.out = Tail(wire.out)
  BY HeadOf, Parts DEF ServeWatch, Next1
<1>2. Fresh(wire'.out, NothingWritten)
  BY <1>1, FreshTail DEF Quiet
<1>3. ~ed.named => NoWrite(wire'.out, Len(wire'.out))
  BY <1>1, NoWriteTail DEF Quiet
<1>4. m.known # 0 => hist.own = {}
  <2>1. 1 \in 1..Len(wire.out) /\ wire.out[1] = m
    BY <1>1, TailOne
  <2> QED BY <1>1, <2>1 DEF Quiet, Fresh, NothingWritten
<1> HIDE DEF m
<1>5. disk \in 0..made /\ disk \in Nat /\ inn.msgs \in Seq(News) /\ made \in Nat
  BY Parts DEF Quiet, TypeInv
<1>6. Foreign(inn'.msgs, hist.own, made)
  <2>1. CASE m.known \in {0, disk}
    BY <2>1 DEF ServeWatch, Quiet, m
  <2>2. CASE m.known \notin {0, disk}
    <3> DEFINE p == [op |-> "push", stat |-> disk]
    <3>1. p \in News /\ p.stat = disk
      BY <1>5, Typing DEF News
    <3>2. Reply(p)
      BY <2>2 DEF ServeWatch, Push, m
    <3> HIDE DEF p
    <3>3. inn'.msgs = Append(inn.msgs, p)
      BY <3>1, <3>2, ReplyFields
    <3>4. p.stat \notin hist.own /\ p.stat <= made
      BY <1>4, <1>5, <2>2, <3>1
    <3> QED BY <1>5, <3>1, <3>3, <3>4, ForeignAppend DEF Quiet
  <2> QED BY <2>1, <2>2
<1>7. dmn'.base = disk /\ dmn'.call = dmn.call /\ hist'.own = hist.own
  BY DEF ServeWatch, TypeInv, Leg, Log
<1>8. /\ disk' = disk /\ made' = made /\ late' = late /\ tasks' = tasks /\ ed' = ed
      /\ saves' = saves
  BY DEF ServeWatch
<1>9. NothingWritten' = NothingWritten
  BY <1>7 DEF NothingWritten
<1> QED BY <1>1, <1>2, <1>3, <1>6, <1>7, <1>8, <1>9 DEF Quiet

LEMMA QuietServeUnwatch == ASSUME TypeInv, Quiet, ServeUnwatch PROVE Quiet'
<1>1. wire.out # <<>> /\ wire.out \in Seq(Orders)
      /\ wire'.phase = wire.phase /\ wire'.out = Tail(wire.out)
  BY HeadOf, Parts DEF ServeUnwatch, Next1
<1>2. Fresh(wire'.out, NothingWritten)
  BY <1>1, FreshTail DEF Quiet
<1>3. ~ed.named => NoWrite(wire'.out, Len(wire'.out))
  BY <1>1, NoWriteTail DEF Quiet
<1>4. ~dmn'.watched /\ dmn'.call = dmn.call
  BY DEF ServeUnwatch, TypeInv, Leg
<1>5. /\ disk' = disk /\ made' = made /\ late' = late /\ tasks' = tasks /\ ed' = ed
      /\ saves' = saves /\ hist' = hist /\ inn' = inn
  BY DEF ServeUnwatch
<1>6. NothingWritten' = NothingWritten
  BY <1>4, <1>5 DEF NothingWritten
<1> QED BY <1>1, <1>2, <1>3, <1>4, <1>5, <1>6 DEF Quiet

LEMMA QuietPoll == ASSUME TypeInv, Quiet, Poll PROVE Quiet'
<1>1. disk \in 0..made /\ disk \in Nat /\ inn.msgs \in Seq(News) /\ disk \notin hist.own
      /\ made \in Nat
  BY Parts DEF Quiet, TypeInv, Poll
<1> DEFINE p == [op |-> "push", stat |-> disk]
<1>2. p \in News /\ p.stat = disk
  BY <1>1, Typing DEF News
<1>3. Reply(p)
  BY DEF Poll, Push
<1> HIDE DEF p
<1>4. inn'.msgs = Append(inn.msgs, p)
  BY <1>2, <1>3, ReplyFields
<1>5. Foreign(inn'.msgs, hist.own, made)
  BY <1>1, <1>2, <1>4, ForeignAppend DEF Quiet
<1>6. dmn'.base = disk /\ dmn'.call = dmn.call
  BY DEF Poll, TypeInv, Leg
<1>7. /\ disk' = disk /\ made' = made /\ late' = late /\ tasks' = tasks /\ ed' = ed
      /\ saves' = saves /\ hist' = hist /\ wire' = wire
  BY DEF Poll
<1>8. NothingWritten' = NothingWritten
  BY <1>6, <1>7 DEF NothingWritten
<1> QED BY <1>5, <1>6, <1>7, <1>8 DEF Quiet

LEMMA QuietEdit == ASSUME TypeInv, Quiet, Edit PROVE Quiet'
<1>1. ed'.named = ed.named
  BY DEF Edit, TypeInv, Buffer
<1>2. hist'.own = hist.own
  BY DEF Edit, TypeInv, Log
<1> QED BY <1>1, <1>2 DEF Quiet, NothingWritten, Edit

LEMMA QuietExWrite ==
  ASSUME TypeInv, Quiet, NEW bang \in BOOLEAN, ExWrite(bang)
  PROVE  Quiet'
<1>1. ed.named /\ ed' = ed
  BY DEF ExWrite
<1>2. hist'.own = hist.own
  BY DEF ExWrite, TypeInv, Log
<1>3. /\ disk' = disk /\ made' = made /\ late' = late /\ dmn' = dmn
      /\ inn' = inn /\ wire' = wire
  BY DEF ExWrite
<1> QED BY <1>1, <1>2, <1>3 DEF Quiet, NothingWritten

LEMMA QuietClose == ASSUME TypeInv, Quiet, Close PROVE Quiet'
<1>1. /\ disk' = disk /\ made' = made /\ late' = late /\ dmn' = dmn
      /\ inn' = inn /\ tasks' = tasks /\ saves' = saves /\ hist' = hist
  BY DEF Close
<1>2. wire.out \in Seq(Orders) /\ Unwatch \in Orders /\ Unwatch.op = "unwatch"
      /\ wire'.phase = "up" /\ ed'.named = ed.named
      /\ wire'.out = IF ed.named THEN Append(wire.out, Unwatch) ELSE wire.out
  BY Parts, CloseFields, Typing DEF Quiet
<1>3. Fresh(wire'.out, NothingWritten)
  <2>1. Fresh(Append(wire.out, Unwatch), NothingWritten)
    BY <1>2, FreshAppend DEF Quiet
  <2> QED BY <1>2, <2>1 DEF Quiet
<1> QED BY <1>1, <1>2, <1>3 DEF Quiet, NothingWritten

LEMMA QuietOpen == ASSUME TypeInv, Quiet, Open PROVE Quiet'
<1>1. /\ disk' = disk /\ made' = made /\ late' = late /\ dmn' = dmn
      /\ inn' = inn
  BY DEF Open
<1>2. wire.out \in Seq(Orders) /\ Watch(0) \in Orders /\ Watch(0).known = 0
      /\ wire'.phase = "up" /\ ed'.named /\ hist'.own = hist.own
      /\ wire'.out = Append(wire.out, Watch(0))
  <2>1. Watch(0).known = 0
    BY Typing
  <2>2. wire.phase = "up" /\ wire.out \in Seq(Orders)
    BY Parts DEF Quiet
  <2> QED BY <2>1, <2>2, OpenFields
<1>3. Fresh(wire'.out, NothingWritten)
  BY <1>2, FreshAppend DEF Quiet
<1> QED BY <1>1, <1>2, <1>3 DEF Quiet, NothingWritten

LEMMA QuietLandOpen == ASSUME TypeInv, Quiet, LandOpen PROVE Quiet'
<1> DEFINE a == inn.msgs[First("opened")]
           w == Watch(ed'.base)
<1>1. /\ ed'.named = (ed.named \/ Loads(a)) /\ w \in Orders
      /\ wire'.phase = "up" /\ hist'.own = hist.own /\ wire.out \in Seq(Orders)
      /\ wire'.out = IF Loads(a) /\ ~ed.named THEN Append(wire.out, w) ELSE wire.out
  BY LandOpenFields, Parts DEF Quiet
<1>2. /\ disk' = disk /\ made' = made /\ late' = late /\ dmn' = dmn
      /\ tasks' = tasks /\ saves' = saves
  BY DEF LandOpen, LandOpenIf
<1>3. Foreign(inn'.msgs, hist.own, made)
  <2>1. inn' = Took(First("opened")) /\ First("opened") > 0
    BY DEF LandOpen, LandOpenIf
  <2> QED BY <2>1, TookFields, ForeignRemoved, Parts, SMTT(30) DEF Quiet
<1> HIDE DEF a, w
<1>4. CASE Loads(a) /\ ~ed.named
  <2>1. NothingWritten /\ NoWrite(wire.out, Len(wire.out)) /\ Fresh(wire.out, NothingWritten)
    BY <1>4 DEF Quiet
  <2>2. Fresh(wire'.out, NothingWritten)
    BY <1>1, <1>4, <2>1, FreshAppend
  <2>3. ed'.named = TRUE
    BY <1>1, <1>4
  <2> QED BY <1>1, <1>2, <1>3, <2>2, <2>3 DEF Quiet, NothingWritten
<1>5. CASE ~(Loads(a) /\ ~ed.named)
  <2>1. ed'.named = ed.named /\ wire'.out = wire.out
    <3>1. ed.named \in BOOLEAN
      BY Parts
    <3> QED BY <1>1, <1>5, <3>1
  <2> QED BY <1>1, <1>2, <1>3, <2>1 DEF Quiet, NothingWritten
<1> QED BY <1>4, <1>5

LEMMA QuietLandSave == ASSUME TypeInv, Quiet, LandSave PROVE Quiet'
<1> DEFINE id == inn.msgs[First("wrote")].save.id
<1>1. /\ id \in Ids /\ ed'.named = ed.named
      /\ \/ saves.queued[id] # <<>>
         \/ /\ tasks' = tasks
            /\ saves' = [inflight |-> saves.inflight \ {id},
                         queued |-> [saves.queued EXCEPT ![id] = <<>>]]
  BY LandSaveFields
<1>2. /\ disk' = disk /\ made' = made /\ late' = late /\ dmn' = dmn
      /\ wire' = wire /\ hist' = hist
  BY DEF LandSave
<1>3. Foreign(inn'.msgs, hist.own, made)
  <2>1. inn' = Took(First("wrote")) /\ First("wrote") > 0
    BY DEF LandSave
  <2> QED BY <2>1, TookFields, ForeignRemoved, Parts, SMTT(30) DEF Quiet
<1> HIDE DEF id
<1>4. ~ed.named => tasks' = tasks /\ \A k \in Ids : saves'.queued[k] = <<>>
  <2> SUFFICES ASSUME ~ed.named
               PROVE  tasks' = tasks /\ \A k \in Ids : saves'.queued[k] = <<>>
    OBVIOUS
  <2>1. \A k \in Ids : saves.queued[k] = <<>>
    BY DEF Quiet
  <2>2. /\ tasks' = tasks
        /\ saves'.queued = [saves.queued EXCEPT ![id] = <<>>]
    BY <1>1, <2>1
  <2>3. saves.queued \in [Ids -> Seq(Writes)]
    BY Parts
  <2> QED BY <1>1, <2>1, <2>2, <2>3
<1> QED BY <1>1, <1>2, <1>3, <1>4 DEF Quiet, NothingWritten

LEMMA QuietHandlePush ==
  ASSUME TypeInv, Quiet, NEW choice, HandlePush(choice)
  PROVE  Quiet'
<1>1. /\ disk' = disk /\ made' = made /\ late' = late /\ dmn' = dmn
      /\ wire' = wire /\ saves' = saves
  BY DEF HandlePush
<1>2. ed'.named = ed.named /\ hist'.own = hist.own
  BY HandlePushFields
<1>3. Foreign(inn'.msgs, hist.own, made)
  <2>1. inn' = Took(First("push")) /\ First("push") > 0
    BY DEF HandlePush
  <2> QED BY <2>1, TookFields, ForeignRemoved, Parts, SMTT(30) DEF Quiet
<1>4. ~ed.named => NoWrite(tasks', Len(tasks'))
  <2> SUFFICES ASSUME ~ed.named, tasks' # tasks PROVE NoWrite(tasks', Len(tasks'))
    BY DEF Quiet
  <2>1. Watching
    BY HandlePushFields
  <2> QED BY <2>1 DEF Watching
<1> QED BY <1>1, <1>2, <1>3, <1>4 DEF Quiet, NothingWritten

LEMMA QuietInit == Init => Quiet
<1> SUFFICES ASSUME Init PROVE Quiet
  OBVIOUS
<1>1. /\ disk \in {0, 1} /\ made = 1 /\ wire.phase = "up" /\ wire.out = <<>>
      /\ inn.msgs = <<>> /\ dmn.call = Idle /\ dmn.watched = FALSE
      /\ late = <<>> /\ saves.queued = [k \in Ids |-> <<>>] /\ hist.own = {}
  BY DEF Init, Ids
<1>2. tasks = <<Read(1)>> \/ tasks = <<>>
  BY DEF Init
<1>3. NoWrite(tasks, Len(tasks))
  <2>1. Read(1).op # "write"
    BY FileAssumption, Typing DEF Ids
  <2> QED BY <1>2, <2>1 DEF NoWrite
<1>4. Foreign(inn.msgs, hist.own, made) /\ Fresh(wire.out, NothingWritten)
      /\ NoWrite(wire.out, Len(wire.out))
  BY <1>1 DEF Foreign, Fresh, NoWrite
<1>5. NothingWritten
  BY <1>1, Typing DEF NothingWritten
<1>6. hist.own \subseteq 1..made /\ disk \in 0..made
  BY <1>1
<1>7. \A k \in Ids : saves.queued[k] = <<>>
  BY <1>1
<1>8. wire.phase = "up" /\ late = <<>> /\ ~dmn.watched
  BY <1>1
<1> QED BY <1>3, <1>4, <1>5, <1>6, <1>7, <1>8 DEF Quiet

LEMMA QuietStep == TypeInv /\ QuietInv /\ [Next]_vars => QuietInv'
<1> SUFFICES ASSUME TypeInv, QuietInv, [Next]_vars, hist'.drops = 0
             PROVE  Quiet'
  BY DEF QuietInv
<1>1. CASE UNCHANGED vars
  BY <1>1 DEF vars, QuietInv, Quiet, NothingWritten
<1>2. CASE \E arrived \in inn.arrived..Len(inn.msgs), received \in BOOLEAN :
             Drop(arrived, received)
  <2>1. hist' = [hist EXCEPT !.drops = @ + 1]
    BY <1>2 DEF Drop
  <2>2. hist'.drops = hist.drops + 1 /\ hist.drops \in Nat
    BY <2>1 DEF TypeInv, Log
  <2> QED BY <2>2
<1>3. CASE /\ ~UNCHANGED vars
           /\ ~\E arrived \in inn.arrived..Len(inn.msgs), received \in BOOLEAN :
                 Drop(arrived, received)
  <2>1. hist'.drops = hist.drops
    <3>0. CASE \E v \in {0, made + 1} : OutsideChange(v)
      BY <3>0, OutsideFields
    <3>1. CASE \/ TaskRuns \/ Reconnect \/ SeeOutage \/ ServeRead \/ ReadStat
               \/ ServeWriteFails \/ WriteStat \/ WriteAnswer \/ ServeUnwatch \/ Poll
               \/ Close \/ LandSave
      BY <3>1 DEF TaskRuns, Reconnect, SeeOutage, ServeRead, ReadStat,
         ServeWriteFails, WriteStat, WriteAnswer, ServeUnwatch, Poll, Close, LandSave
    <3>2. CASE Resync
      BY <3>2 DEF Resync, TypeInv, Log
    <3>3. CASE ServeWatch
      BY <3>3 DEF ServeWatch, TypeInv, Log
    <3>4. CASE ServeWrite \/ LateWrite
      BY <3>4, OverwriteFields DEF ServeWrite, LateWrite
    <3>5. CASE Edit \/ (\E bang \in BOOLEAN : ExWrite(bang))
      BY <3>5 DEF Edit, ExWrite, TypeInv, Log
    <3>6. CASE \/ Open \/ LandOpen
               \/ (\E choice \in FcsChoices \cup {"ask"} : HandlePush(choice))
      BY <3>6, OpenFields, LandOpenFields, HandlePushFields
    <3> QED BY <1>3, <3>0, <3>1, <3>2, <3>3, <3>4, <3>5, <3>6 DEF Next, Daemon
  <2>2. Quiet
    BY <2>1 DEF QuietInv
  <2>3. CASE Reconnect \/ SeeOutage \/ Resync \/ LateWrite
    BY <2>2, <2>3 DEF Reconnect, SeeOutage, Resync, LateWrite, Quiet
  <2>4. CASE Daemon \/ Poll
    BY <2>2, <2>4, QuietServeRead, QuietReadStat, QuietServeWrite, QuietServeWriteFails,
       QuietWriteStat, QuietWriteAnswer, QuietServeWatch, QuietServeUnwatch, QuietPoll
       DEF Daemon
  <2>5. CASE \/ \E v \in {0, made + 1} : OutsideChange(v)
             \/ TaskRuns \/ Edit \/ (\E bang \in BOOLEAN : ExWrite(bang)) \/ Close \/ Open
             \/ LandOpen \/ LandSave
             \/ (\E choice \in FcsChoices \cup {"ask"} : HandlePush(choice))
    BY <2>2, <2>5, QuietOutside, QuietTaskRuns, QuietEdit, QuietExWrite, QuietClose,
       QuietOpen, QuietLandOpen, QuietLandSave, QuietHandlePush
  <2> QED BY <1>3, <2>3, <2>4, <2>5 DEF Next
<1> QED BY <1>1, <1>2, <1>3

LEMMA QuietMeansForeign ==
  ASSUME TypeInv, QuietInv
  PROVE  OwnWriteQuiet
<1> SUFFICES ASSUME hist.drops = 0, NEW m \in Range(inn.msgs), m.op = "push"
             PROVE  m.stat \notin hist.own
  BY DEF OwnWriteQuiet, PushIsForeign
<1>1. PICK i \in DOMAIN inn.msgs : m = inn.msgs[i]
  BY DEF Range
<1>2. i \in 1..Len(inn.msgs)
  <2>1. inn.msgs \in Seq(News)
    BY Parts
  <2>2. DOMAIN inn.msgs = 1..Len(inn.msgs)
    BY ONLY <2>1
  <2> QED BY <1>1, <2>2
<1> QED BY <1>1, <1>2 DEF QuietInv, Quiet, Foreign

(* As long as the link has not dropped, whatever order the saves, the       *)
(* closings and the polls take, the daemon never reports the edit-host's    *)
(* own write to it (serve_write's restat, the watch's baseline).            *)
THEOREM OwnWritesAreQuiet == Spec => []OwnWriteQuiet
<1>1. Init => TypeInv /\ QuietInv
  BY TypeInit, QuietInit DEF QuietInv
<1>2. TypeInv /\ QuietInv /\ [Next]_vars => (TypeInv /\ QuietInv)'
  BY TypeStep, QuietStep
<1>3. TypeInv /\ QuietInv => OwnWriteQuiet
  BY QuietMeansForeign
<1> QED BY <1>1, <1>2, <1>3, PTL DEF Spec

-----------------------------------------------------------------------------
(* A lone reload keeps the edits. *)

LEMMA AboutNothing ==
  ASSUME NEW m \in Watches \cup Pushes \cup {Idle}, NEW kind, NEW k
  PROVE  ~About(m, kind, k)
<1>1. m.op \in {"watch", "unwatch", "push", "idle"}
  BY Fields, Typing
<1> QED BY <1>1 DEF About, Fetch, Store

\* An answer is about what its request was.
LEMMA AboutAnswer ==
  ASSUME NEW kind, NEW k
  PROVE  /\ \A m \in Reads : \A c, s \in Nat :
              About(Opened(m.id, c, s), kind, k) <=> About(m, kind, k)
         /\ \A m \in Writes : \A c, s \in Nat :
              About(Wrote(m, c, s), kind, k) <=> About(m, kind, k)
         /\ \A m \in Writes : About(SaveFailed(m), kind, k) <=> About(m, kind, k)
<1>1. ASSUME NEW m \in Reads, NEW c \in Nat, NEW s \in Nat
      PROVE  About(Opened(m.id, c, s), kind, k) <=> About(m, kind, k)
  <2>1. m.op = "read" /\ m.id \in Ids
    BY Fields
  <2>2. Opened(m.id, c, s).op = "opened" /\ Opened(m.id, c, s).id = m.id
    BY DEF Opened
  <2> QED BY <2>1, <2>2 DEF About, Fetch, Store
<1>2. ASSUME NEW m \in Writes, NEW c \in Nat, NEW s \in Nat
      PROVE  About(Wrote(m, c, s), kind, k) <=> About(m, kind, k)
  <2>1. m.op = "write" /\ Wrote(m, c, s).op = "wrote" /\ Wrote(m, c, s).save = m
    BY Fields DEF Wrote
  <2> QED BY <2>1 DEF About, Fetch, Store
<1>3. ASSUME NEW m \in Writes
      PROVE  About(SaveFailed(m), kind, k) <=> About(m, kind, k)
  <2>1. m.op = "write" /\ SaveFailed(m).op = "wrote" /\ SaveFailed(m).save = m
    BY Fields DEF SaveFailed
  <2> QED BY <2>1 DEF About, Fetch, Store
<1> QED BY <1>1, <1>2, <1>3

LEMMA KeptSame ==
  ASSUME tasks' = tasks, wire'.out = wire.out, dmn'.call = dmn.call, inn'.msgs = inn.msgs,
         NEW kind, NEW k
  PROVE  Kept(kind, k)
BY DEF Kept, Sole, Gone

LEMMA KeptTaskRuns == ASSUME TypeInv, TaskRuns, NEW kind, NEW k PROVE Kept(kind, k)
<1> DEFINE m == Head(tasks)
<1>1. tasks \in Seq(Tasks) /\ tasks # <<>> /\ tasks' = Tail(tasks) /\ dmn' = dmn
      /\ m \in Tasks /\ m \in Orders /\ Failed(m) \in News
      /\ inn.msgs \in Seq(News) /\ wire.out \in Seq(Orders)
  BY HeadTask, Parts DEF TaskRuns, TypeInv
<1>2. /\ Holds(tasks, kind, k) <=> About(m, kind, k) \/ Holds(tasks', kind, k)
      /\ Once(tasks, kind, k) <=> /\ Once(tasks', kind, k)
                                 /\ ~(About(m, kind, k) /\ Holds(tasks', kind, k))
  BY <1>1, HoldsTail
<1>3. CASE Up
  <2>1. wire' = Sent(wire, m) /\ inn' = inn
    BY <1>3 DEF TaskRuns
  <2>2. wire'.out = Append(wire.out, m)
    BY <1>1, <1>3, <2>1, SentFields DEF TypeInv, Up
  <2>3. /\ Holds(wire'.out, kind, k) <=> Holds(wire.out, kind, k) \/ About(m, kind, k)
        /\ Once(wire'.out, kind, k) <=>
             Once(wire.out, kind, k) /\ ~(Holds(wire.out, kind, k) /\ About(m, kind, k))
    BY <1>1, <2>2, HoldsAppend
  <2> QED BY <1>1, <1>2, <2>1, <2>3 DEF Kept, Sole, Gone
<1>4. CASE ~Up
  <2>1. inn'.msgs = Append(inn.msgs, Failed(m)) /\ wire' = wire
    BY <1>4 DEF TaskRuns
  <2>2. /\ Holds(inn'.msgs, kind, k) <=> Holds(inn.msgs, kind, k) \/ About(Failed(m), kind, k)
        /\ Once(inn'.msgs, kind, k) <=>
             Once(inn.msgs, kind, k) /\ ~(Holds(inn.msgs, kind, k) /\ About(Failed(m), kind, k))
    BY <1>1, <2>1, HoldsAppend
  <2>3. About(Failed(m), kind, k) <=> About(m, kind, k)
    BY <1>1, FailedIsAnswer
  <2> QED BY <1>1, <1>2, <2>1, <2>2, <2>3 DEF Kept, Sole, Gone
<1> QED BY <1>3, <1>4

LEMMA KeptDrop ==
  ASSUME TypeInv, NEW arrived \in inn.arrived..Len(inn.msgs), NEW received \in BOOLEAN,
         Drop(arrived, received), NEW kind, NEW k
  PROVE  Kept(kind, k)
<1>1. arrived \in 0..Len(inn.msgs)
  BY Parts
<1>2. tasks' = tasks /\ wire'.out = <<>> /\ dmn'.call = Idle
  BY DEF Drop
<1>3. inn'.msgs = SubSeq(inn.msgs, 1, arrived)
                  \o Failures(SubSeq(inn.msgs, arrived + 1, Len(inn.msgs)))
  BY DEF Drop
<1>4. /\ Holds(inn'.msgs, kind, k) =>
           \/ Holds(inn.msgs, kind, k) \/ About(dmn.call, kind, k) \/ Holds(wire.out, kind, k)
      /\ Once(inn.msgs, kind, k) /\ Once(wire.out, kind, k)
         /\ ~(Holds(inn.msgs, kind, k) /\ About(dmn.call, kind, k))
         /\ ~(Holds(inn.msgs, kind, k) /\ Holds(wire.out, kind, k))
         /\ ~(About(dmn.call, kind, k) /\ Holds(wire.out, kind, k))
         => Once(inn'.msgs, kind, k)
  BY <1>1, <1>3, FailuresFit
<1>5. ~Holds(wire'.out, kind, k) /\ Once(wire'.out, kind, k) /\ ~About(dmn'.call, kind, k)
  BY <1>2, HoldsOne, AboutNothing
<1> QED BY <1>2, <1>4, <1>5 DEF Kept, Sole, Gone

\* A step of the editor that sends, at most, an order about the watch.
LEMMA KeptSend ==
  ASSUME TypeInv, NEW m \in Watches, tasks' = tasks, dmn'.call = dmn.call,
         inn'.msgs = inn.msgs, wire'.out \in {wire.out, Append(wire.out, m)},
         NEW kind, NEW k
  PROVE  Kept(kind, k)
<1>1. wire.out \in Seq(Orders) /\ m \in Orders /\ ~About(m, kind, k)
  BY Parts, AboutNothing DEF Orders
<1>2. /\ Holds(wire'.out, kind, k) <=> Holds(wire.out, kind, k)
      /\ Once(wire'.out, kind, k) <=> Once(wire.out, kind, k)
  <2>1. CASE wire'.out = wire.out
    BY <2>1
  <2>2. CASE wire'.out = Append(wire.out, m)
    BY <1>1, <2>2, HoldsAppend
  <2> QED BY <2>1, <2>2
<1> QED BY <1>2 DEF Kept, Sole, Gone

\* The daemon takes its next order, which becomes its call or its answer.
LEMMA KeptServed ==
  ASSUME TypeInv, wire.out # <<>>, wire'.out = Tail(wire.out), tasks' = tasks,
         NEW kind, NEW k, ~About(dmn.call, kind, k),
         \/ /\ About(dmn'.call, kind, k) <=> About(Head(wire.out), kind, k)
            /\ inn'.msgs = inn.msgs
         \/ /\ ~About(dmn'.call, kind, k)
            /\ \E m \in News : /\ inn'.msgs = Append(inn.msgs, m)
                               /\ About(m, kind, k) <=> About(Head(wire.out), kind, k)
  PROVE  Kept(kind, k)
<1>1. wire.out \in Seq(Orders) /\ inn.msgs \in Seq(News)
  BY Parts
<1>2. /\ Holds(wire.out, kind, k) <=> About(Head(wire.out), kind, k) \/ Holds(wire'.out, kind, k)
      /\ Once(wire.out, kind, k) <=>
           /\ Once(wire'.out, kind, k)
           /\ ~(About(Head(wire.out), kind, k) /\ Holds(wire'.out, kind, k))
  BY <1>1, HoldsTail
<1> DEFINE h == About(Head(wire.out), kind, k)
<1>3. CASE (About(dmn'.call, kind, k) <=> h) /\ inn'.msgs = inn.msgs
  <2>1. /\ Holds(inn'.msgs, kind, k) <=> Holds(inn.msgs, kind, k)
        /\ Once(inn'.msgs, kind, k) <=> Once(inn.msgs, kind, k)
        /\ Holds(tasks', kind, k) <=> Holds(tasks, kind, k)
        /\ Once(tasks', kind, k) <=> Once(tasks, kind, k)
        /\ About(dmn'.call, kind, k) <=> h
    BY <1>3
  <2> HIDE DEF h
  <2>2. /\ Holds(wire.out, kind, k) <=> h \/ Holds(wire'.out, kind, k)
        /\ Once(wire.out, kind, k) <=> /\ Once(wire'.out, kind, k)
                                       /\ ~(h /\ Holds(wire'.out, kind, k))
    BY <1>2 DEF h
  <2> QED BY <2>1, <2>2 DEF Kept, Sole, Gone
<1>4. CASE ~About(dmn'.call, kind, k)
           /\ \E m \in News : inn'.msgs = Append(inn.msgs, m) /\ (About(m, kind, k) <=> h)
  <2>1. PICK m \in News : inn'.msgs = Append(inn.msgs, m) /\ (About(m, kind, k) <=> h)
    BY <1>4
  <2>2. /\ Holds(inn'.msgs, kind, k) <=> Holds(inn.msgs, kind, k) \/ h
        /\ Once(inn'.msgs, kind, k) <=>
             Once(inn.msgs, kind, k) /\ ~(Holds(inn.msgs, kind, k) /\ h)
    BY <1>1, <2>1, HoldsAppend
  <2> QED BY <1>2, <1>4, <2>2 DEF Kept, Sole, Gone
<1> QED BY <1>3, <1>4

\* The daemon answers its call, or pushes.
LEMMA KeptReply ==
  ASSUME TypeInv, wire' = wire, tasks' = tasks, NEW kind, NEW k, NEW m \in News,
         inn'.msgs = Append(inn.msgs, m),
         \/ ~About(m, kind, k) /\ dmn'.call = dmn.call
         \/ (About(m, kind, k) <=> About(dmn.call, kind, k)) /\ dmn'.call = Idle
  PROVE  Kept(kind, k)
<1>1. inn.msgs \in Seq(News) /\ ~About(Idle, kind, k)
  BY Parts, AboutNothing
<1>2. /\ Holds(inn'.msgs, kind, k) <=> Holds(inn.msgs, kind, k) \/ About(m, kind, k)
      /\ Once(inn'.msgs, kind, k) <=>
           Once(inn.msgs, kind, k) /\ ~(Holds(inn.msgs, kind, k) /\ About(m, kind, k))
  BY <1>1, HoldsAppend
<1> QED BY <1>1, <1>2 DEF Kept, Sole, Gone

\* Between the link and the daemon nothing is added.
LEMMA KeptByDaemon ==
  ASSUME TypeInv, Daemon \/ Poll, NEW kind, NEW k
  PROVE  Kept(kind, k)
<1>0. tasks' = tasks
  BY DEF Daemon, ServeRead, ReadStat, ServeWrite, ServeWriteFails, WriteStat, WriteAnswer,
     ServeWatch, ServeUnwatch, Poll
<1>a. dmn.step = "idle" => ~About(dmn.call, kind, k)
  BY AboutNothing DEF TypeInv, LegInv
<1> DEFINE m == Head(wire.out)
<1>1. CASE ServeRead
  <2>1. wire.out # <<>> /\ wire'.out = Tail(wire.out) /\ dmn.step = "idle" /\ m \in Reads
        /\ m.id \in Ids
    BY <1>1, HeadOf, Fields DEF ServeRead, Next1
  <2>2. CASE disk = 0
    <3> DEFINE o == Opened(m.id, 0, 0)
    <3>1. Reply(o) /\ dmn' = dmn
      BY <1>1, <2>2 DEF ServeRead
    <3>2. o \in News /\ (About(o, kind, k) <=> About(m, kind, k))
      BY <2>1, Typing, AboutAnswer DEF News
    <3> HIDE DEF o
    <3>3. inn'.msgs = Append(inn.msgs, o)
      BY <3>1, <3>2, ReplyFields
    <3> QED BY <1>0, <1>a, <2>1, <3>1, <3>2, <3>3, KeptServed
  <2>3. CASE disk # 0
    <3> HIDE DEF m
    <3>1. dmn'.call = m /\ inn' = inn
      <4>1. dmn' = [dmn EXCEPT !.call = m, !.step = "stat", !.got = disk] /\ inn' = inn
        BY <1>1, <2>3 DEF ServeRead, m
      <4> QED BY <4>1 DEF TypeInv, Leg
    <3> QED BY <1>0, <1>a, <2>1, <3>1, KeptServed DEF m
  <2> QED BY <2>2, <2>3
<1>2. CASE ReadStat
  <2> DEFINE o == Opened(dmn.call.id, dmn.got, disk)
  <2>1. dmn.call \in Reads /\ dmn.call.id \in Ids /\ dmn.got \in Nat /\ disk \in Nat
    BY <1>2, Fields DEF TypeInv, LegInv, ReadStat, Leg
  <2>2. o \in News /\ (About(o, kind, k) <=> About(dmn.call, kind, k))
    BY <2>1, Typing, AboutAnswer DEF News
  <2>3. Reply(o) /\ wire' = wire
    BY <1>2 DEF ReadStat
  <2>4. dmn'.call = Idle
    BY <1>2, FreeFields DEF ReadStat
  <2> HIDE DEF o
  <2>5. inn'.msgs = Append(inn.msgs, o)
    BY <2>2, <2>3, ReplyFields
  <2> QED BY <1>0, <2>2, <2>3, <2>4, <2>5, KeptReply
<1>3. CASE ServeWrite
  <2>1. wire.out # <<>> /\ wire'.out = Tail(wire.out) /\ dmn.step = "idle" /\ inn' = inn
    BY <1>3, HeadOf DEF ServeWrite, Next1
  <2>2. dmn'.call = m
    BY <1>3 DEF ServeWrite, TypeInv, Leg
  <2> QED BY <1>0, <1>a, <2>1, <2>2, KeptServed
<1>4. CASE ServeWriteFails
  <2> DEFINE o == SaveFailed(m)
  <2>1. wire.out # <<>> /\ wire'.out = Tail(wire.out) /\ dmn.step = "idle" /\ m \in Writes
        /\ dmn' = dmn
    BY <1>4, HeadOf DEF ServeWriteFails, Next1
  <2>2. o \in News
    BY <2>1, Typing DEF SaveFailed, News
  <2>3. About(o, kind, k) <=> About(m, kind, k)
    BY <2>1, AboutAnswer
  <2>4. Reply(o)
    BY <1>4 DEF ServeWriteFails
  <2> HIDE DEF o
  <2>5. inn'.msgs = Append(inn.msgs, o)
    BY <2>2, <2>4, ReplyFields
  <2> QED BY <1>0, <1>a, <2>1, <2>2, <2>3, <2>5, KeptServed
<1>5. CASE WriteStat
  <2>1. dmn'.call = dmn.call /\ wire' = wire /\ inn' = inn
    BY <1>5 DEF WriteStat, TypeInv, Leg
  <2> QED BY <1>0, <2>1, KeptSame
<1>6. CASE WriteAnswer
  <2> DEFINE o == Wrote(dmn.call, dmn.got, dmn.stat)
  <2>1. dmn.call \in Writes /\ dmn.got \in Nat /\ dmn.stat \in Nat /\ dmn'.call = Idle /\ o \in News
    BY <1>6, AnswerFields, Parts
  <2>2. About(o, kind, k) <=> About(dmn.call, kind, k)
    BY <2>1, AboutAnswer
  <2>3. Reply(o) /\ wire' = wire
    BY <1>6 DEF WriteAnswer
  <2> HIDE DEF o
  <2>4. inn'.msgs = Append(inn.msgs, o)
    BY <2>1, <2>3, ReplyFields
  <2> QED BY <1>0, <2>1, <2>2, <2>3, <2>4, KeptReply
<1> DEFINE p == [op |-> "push", stat |-> disk]
<1>b. p \in News /\ ~About(p, kind, k)
  BY Typing, AboutNothing DEF TypeInv, News
<1>7. CASE ServeWatch \/ ServeUnwatch
  <2>1. wire.out # <<>> /\ wire'.out = Tail(wire.out) /\ dmn.step = "idle" /\ m \in Watches
    BY <1>7, HeadOf DEF ServeWatch, ServeUnwatch, Next1
  <2>2. ~About(m, kind, k)
    BY <2>1, AboutNothing
  <2>3. dmn'.call = dmn.call
    BY <1>7 DEF ServeWatch, ServeUnwatch, TypeInv, Leg
  <2>4. Reply(p) \/ inn' = inn
    BY <1>7 DEF ServeWatch, ServeUnwatch, Push
  <2> HIDE DEF p
  <2>5. inn'.msgs = Append(inn.msgs, p) \/ inn' = inn
    BY <1>b, <2>4, ReplyFields
  <2> QED BY <1>0, <1>a, <1>b, <2>1, <2>2, <2>3, <2>5, KeptServed
<1>8. CASE Poll
  <2>1. dmn'.call = dmn.call /\ wire' = wire /\ Reply(p)
    BY <1>8 DEF Poll, Push, TypeInv, Leg
  <2> HIDE DEF p
  <2>2. inn'.msgs = Append(inn.msgs, p)
    BY <1>b, <2>1, ReplyFields
  <2> QED BY <1>0, <1>b, <2>1, <2>2, KeptReply
<1> QED BY <1>1, <1>2, <1>3, <1>4, <1>5, <1>6, <1>7, <1>8 DEF Daemon

\* The editor gives a task, and may send an order about the watch.
LEMMA KeptGiven ==
  ASSUME TypeInv, inn'.msgs = inn.msgs, dmn' = dmn, NEW t \in Tasks, tasks' = Append(tasks, t),
         NEW w \in Watches, wire'.out \in {wire.out, Append(wire.out, w)},
         NEW kind, NEW k
  PROVE  /\ ~About(t, kind, k) => Kept(kind, k)
         /\ Gone(kind, k) => Sole(kind, k)'
<1>1. tasks \in Seq(Tasks) /\ wire.out \in Seq(Orders) /\ w \in Orders
  BY Parts DEF TypeInv, Orders
<1>2. /\ Holds(tasks', kind, k) <=> Holds(tasks, kind, k) \/ About(t, kind, k)
      /\ Once(tasks', kind, k) <=>
           Once(tasks, kind, k) /\ ~(Holds(tasks, kind, k) /\ About(t, kind, k))
  BY <1>1, HoldsAppend
<1>3. /\ Holds(wire'.out, kind, k) <=> Holds(wire.out, kind, k)
      /\ Once(wire'.out, kind, k) <=> Once(wire.out, kind, k)
  <2>1. CASE wire'.out = wire.out
    BY <2>1
  <2>2. CASE wire'.out = Append(wire.out, w)
    BY <1>1, <2>2, HoldsAppend, AboutNothing
  <2> QED BY <2>1, <2>2
<1>4. ~Holds(tasks, kind, k) => Once(tasks, kind, k)
  BY DEF Holds, Once
<1>5. /\ ~Holds(wire.out, kind, k) => Once(wire.out, kind, k)
      /\ ~Holds(inn.msgs, kind, k) => Once(inn.msgs, kind, k)
  BY DEF Holds, Once
<1> QED BY <1>2, <1>3, <1>4, <1>5 DEF Kept, Sole, Gone

\* The editor takes a message, and may give a task and an order about the watch.
LEMMA KeptLanded ==
  ASSUME TypeInv, NEW o, First(o) > 0, inn' = Took(First(o)), dmn' = dmn,
         NEW w \in Watches, wire'.out \in {wire.out, Append(wire.out, w)},
         NEW t \in Tasks, tasks' \in {tasks, Append(tasks, t)}, NEW kind, NEW k
  PROVE  LET given == tasks' # tasks /\ About(t, kind, k)
             taken == About(inn.msgs[First(o)], kind, k)
         IN /\ ~given => Kept(kind, k)
            /\ ~given /\ taken /\ Sole(kind, k) => Gone(kind, k)'
            /\ Gone(kind, k) \/ (taken /\ Sole(kind, k)) => Sole(kind, k)'
            /\ taken => ~Gone(kind, k)
<1> DEFINE i == First(o)
           given == tasks' # tasks /\ About(t, kind, k)
           taken == About(inn.msgs[i], kind, k)
<1>1. inn.msgs \in Seq(News) /\ wire.out \in Seq(Orders) /\ w \in Orders
      /\ tasks \in Seq(Tasks) /\ i \in 1..Len(inn.msgs)
      /\ inn'.msgs = RemoveAt(inn.msgs, i)
  BY TookFields, Parts DEF Orders, TypeInv
<1> HIDE DEF i
<1>2. /\ Holds(inn.msgs, kind, k) <=> taken \/ Holds(inn'.msgs, kind, k)
      /\ Once(inn.msgs, kind, k) <=> /\ Once(inn'.msgs, kind, k)
                                     /\ ~(taken /\ Holds(inn'.msgs, kind, k))
  BY <1>1, HoldsRemoved
<1>3. /\ Holds(wire'.out, kind, k) <=> Holds(wire.out, kind, k)
      /\ Once(wire'.out, kind, k) <=> Once(wire.out, kind, k)
  <2>1. CASE wire'.out = wire.out
    BY <2>1
  <2>2. CASE wire'.out = Append(wire.out, w)
    BY <1>1, <2>2, HoldsAppend, AboutNothing
  <2> QED BY <2>1, <2>2
<1>4. /\ Holds(tasks', kind, k) <=> Holds(tasks, kind, k) \/ given
      /\ Once(tasks', kind, k) <=> Once(tasks, kind, k) /\ ~(Holds(tasks, kind, k) /\ given)
  <2>1. CASE tasks' = tasks
    BY <2>1
  <2>2. CASE tasks' # tasks
    <3>1. tasks' = Append(tasks, t) /\ (given <=> About(t, kind, k))
      BY <2>2
    <3> HIDE DEF given
    <3>2. /\ Holds(tasks', kind, k) <=> Holds(tasks, kind, k) \/ About(t, kind, k)
          /\ Once(tasks', kind, k) <=>
               Once(tasks, kind, k) /\ ~(Holds(tasks, kind, k) /\ About(t, kind, k))
      BY <1>1, <3>1, HoldsAppend
    <3> QED BY <3>1, <3>2
  <2> QED BY <2>1, <2>2
<1>5. /\ ~Holds(tasks, kind, k) => Once(tasks, kind, k)
      /\ ~Holds(wire.out, kind, k) => Once(wire.out, kind, k)
      /\ ~Holds(inn.msgs, kind, k) => Once(inn.msgs, kind, k)
  BY DEF Holds, Once
<1> HIDE DEF given, taken
<1>6. /\ ~given => Kept(kind, k)
      /\ ~given /\ taken /\ Sole(kind, k) => Gone(kind, k)'
      /\ taken => ~Gone(kind, k)
  BY <1>2, <1>3, <1>4 DEF Kept, Sole, Gone
<1>7. Gone(kind, k) \/ (taken /\ Sole(kind, k)) => Sole(kind, k)'
  BY <1>2, <1>3, <1>4, <1>5 DEF Sole, Gone
<1> QED BY <1>6, <1>7 DEF given, taken, i

-----------------------------------------------------------------------------

\* A step that adds nothing and leaves what the invariant speaks of.
LEMMA WayFrame ==
  ASSUME WayInv, \A kind, k : Kept(kind, k), saves'.inflight = saves.inflight,
         ed'.id = ed.id, hist'.overlap = hist.overlap, hist'.loaded = hist.loaded,
         ed'.reload = ed.reload, ed'.open => ed.open
  PROVE  WayInv'
<1>1. \A k \in Ids : k > ed'.id => Gone("fetch", k)'
  BY DEF WayInv, Kept
<1>2. \A k \in Ids : Sole("store", k)' /\ (k \in saves'.inflight \/ Gone("store", k)')
  BY DEF WayInv, Kept
<1>3. ~hist'.overlap => \A k \in Ids : k = ed'.id => Sole("fetch", k)'
  BY DEF WayInv, Kept
<1>4. ~hist'.overlap /\ ed'.open /\ hist'.loaded /\ ed'.reload = None =>
        \A k \in Ids : k = ed'.id => Gone("fetch", k)'
  BY DEF WayInv, Kept
<1> QED BY <1>1, <1>2, <1>3, <1>4 DEF WayInv

LEMMA WayInit == Init => WayInv
<1> SUFFICES ASSUME Init PROVE WayInv
  OBVIOUS
<1>1. wire.out = <<>> /\ inn.msgs = <<>> /\ dmn.call = Idle /\ hist.loaded = FALSE
  BY DEF Init
<1>2. \/ tasks = <<>> /\ ed.id = 0
      \/ tasks = <<Read(1)>> /\ ed.id = 1
  BY DEF Init
<1>3. 1 \in Ids /\ Read(1) \in Reads /\ Read(1).op = "read" /\ Read(1).id = 1
  BY FileAssumption, Typing DEF Ids
<1>4. \A kind, k : About(Read(1), kind, k) => kind = "fetch" /\ k = 1
  BY <1>3 DEF About, Fetch, Store
<1>5. ASSUME NEW kind, NEW k
      PROVE  /\ Sole(kind, k)
             /\ Holds(tasks, kind, k) => kind = "fetch" /\ k = 1 /\ ed.id = 1
             /\ ~Holds(tasks, kind, k) => Gone(kind, k)
  <2>1. ~About(Idle, kind, k)
    BY AboutNothing
  <2>2. /\ Once(tasks, kind, k)
        /\ Holds(tasks, kind, k) => kind = "fetch" /\ k = 1 /\ ed.id = 1
    <3>1. CASE tasks = <<>> /\ ed.id = 0
      <4>1. ~Holds(<<>>, kind, k) /\ Once(<<>>, kind, k)
        BY HoldsOne
      <4> QED BY <3>1, <4>1
    <3>2. CASE tasks = <<Read(1)>> /\ ed.id = 1
      <4> DEFINE r == Read(1)
      <4>1. About(r, kind, k) => kind = "fetch" /\ k = 1
        BY <1>4
      <4> HIDE DEF r
      <4>2. (Holds(<<r>>, kind, k) <=> About(r, kind, k)) /\ Once(<<r>>, kind, k)
        BY HoldsOne
      <4>3. tasks = <<r>>
        BY <3>2 DEF r
      <4> QED BY <3>2, <4>1, <4>2, <4>3
    <3> QED BY <1>2, <3>1, <3>2
  <2>3. ~Holds(<<>>, kind, k) /\ Once(<<>>, kind, k)
    BY HoldsOne
  <2> QED BY <1>1, <2>1, <2>2, <2>3 DEF Sole, Gone
<1>6. \A k \in Ids : k > ed.id => Gone("fetch", k)
  <2>1. \A k \in Ids : k > ed.id => ~(k = 1 /\ ed.id = 1)
    BY DEF Ids
  <2> QED BY <1>5, <2>1
<1>7. \A k \in Ids : Gone("store", k)
  BY <1>5
<1> QED BY <1>1, <1>5, <1>6, <1>7 DEF WayInv

LEMMA WayExWrite ==
  ASSUME TypeInv, WayInv, NEW bang \in BOOLEAN, ExWrite(bang)
  PROVE  WayInv'
<1>1. PICK s \in Writes :
        /\ s.id = ed.id /\ s.op = "write"
        /\ \/ /\ ed.id \in saves.inflight /\ tasks' = tasks
              /\ saves' = [saves EXCEPT !.queued[ed.id] = Append(@, s)]
           \/ /\ ed.id \notin saves.inflight /\ tasks' = Append(tasks, s)
              /\ saves' = [saves EXCEPT !.inflight = @ \cup {ed.id}]
  BY ExWriteFields
<1>2. ed.id \in Ids /\ ed' = ed /\ wire' = wire /\ inn' = inn /\ dmn' = dmn
  BY ExWriteFields DEF ExWrite
<1>3. hist'.overlap = hist.overlap /\ hist'.loaded = hist.loaded
  BY DEF ExWrite, TypeInv, Log
<1>4. CASE ed.id \in saves.inflight
  <2>1. tasks' = tasks /\ saves'.inflight = saves.inflight
    BY <1>1, <1>4 DEF TypeInv, SavesInv
  <2>2. \A kind, k : Kept(kind, k)
    BY <1>2, <2>1, KeptSame
  <2> QED BY <1>2, <1>3, <2>1, <2>2, WayFrame
<1>5. CASE ed.id \notin saves.inflight
  <2>1. tasks' = Append(tasks, s) /\ saves'.inflight = saves.inflight \cup {ed.id}
        /\ s \in Tasks
    BY <1>1, <1>5 DEF TypeInv, SavesInv, Tasks
  <2>2. \A kind, k : /\ ~About(s, kind, k) => Kept(kind, k)
                     /\ Gone(kind, k) => Sole(kind, k)'
    <3>1. Unwatch \in Watches
      BY Typing
    <3> QED BY <1>2, <2>1, <3>1, KeptGiven
  <2>3. \A kind, k : About(s, kind, k) => kind # "fetch" /\ k = ed.id
    BY <1>1 DEF About, Fetch, Store
  <2>4. \A k \in Ids : Kept("fetch", k) /\ (k # ed.id => Kept("store", k))
    BY <2>2, <2>3
  <2>5. \A k \in Ids : Sole("store", k)' /\ (k \in saves'.inflight \/ Gone("store", k)')
    BY <1>5, <2>1, <2>2, <2>4 DEF WayInv, Kept
  <2>6. \A k \in Ids : k > ed'.id => Gone("fetch", k)'
    BY <1>2, <2>4 DEF WayInv, Kept
  <2>7. ~hist'.overlap => \A k \in Ids : k = ed'.id => Sole("fetch", k)'
    BY <1>2, <1>3, <2>4 DEF WayInv, Kept
  <2>8. ~hist'.overlap /\ ed'.open /\ hist'.loaded /\ ed'.reload = None =>
          \A k \in Ids : k = ed'.id => Gone("fetch", k)'
    BY <1>2, <1>3, <2>4 DEF WayInv, Kept
  <2> QED BY <2>5, <2>6, <2>7, <2>8 DEF WayInv
<1> QED BY <1>4, <1>5

LEMMA WayOpen == ASSUME TypeInv, WayInv, Open PROVE WayInv'
<1>o. /\ ed'.id = ed.id + 1 /\ ed.id + 1 \in Ids
      /\ Read(ed.id + 1) \in Tasks /\ ~hist'.loaded /\ hist'.overlap = hist.overlap
      /\ wire'.out \in {wire.out, Append(wire.out, Watch(0))}
  BY OpenFields
<1>n. PICK n \in Ids : n = ed.id + 1
  BY <1>o
<1>1. /\ Watch(0) \in Watches /\ Read(n).op = "read" /\ Read(n).id = n
  BY Typing
<1>2. tasks' = Append(tasks, Read(n)) /\ inn' = inn /\ dmn' = dmn /\ saves' = saves
      /\ Read(n) \in Tasks
  BY <1>o, <1>n DEF Open
<1>3. \A kind, k : /\ ~About(Read(n), kind, k) => Kept(kind, k)
                   /\ Gone(kind, k) => Sole(kind, k)'
  BY <1>o, <1>1, <1>2, KeptGiven
<1>4. \A kind, k : About(Read(n), kind, k) => kind = "fetch" /\ k = n
  BY <1>1 DEF About, Fetch, Store
<1>5. n > ed.id /\ ed.id \in Nat
  BY <1>n, Parts
<1>6. \A k \in Ids : k > ed'.id => Gone("fetch", k)'
  <2> SUFFICES ASSUME NEW k \in Ids, k > ed'.id PROVE Gone("fetch", k)'
    OBVIOUS
  <2>1. k > ed.id /\ k # n
    BY <1>o, <1>n, <1>5 DEF Ids
  <2> QED BY <1>3, <1>4, <2>1 DEF WayInv, Kept
<1>7. \A k \in Ids : Sole("store", k)' /\ (k \in saves'.inflight \/ Gone("store", k)')
  BY <1>2, <1>3, <1>4 DEF WayInv, Kept
<1>8. ~hist'.overlap => \A k \in Ids : k = ed'.id => Sole("fetch", k)'
  BY <1>o, <1>n, <1>3, <1>5 DEF WayInv
<1> QED BY <1>o, <1>6, <1>7, <1>8 DEF WayInv

LEMMA WayLandOpen == ASSUME TypeInv, WayInv, LandOpen PROVE WayInv'
<1> DEFINE a == inn.msgs[First("opened")]
<1>1. /\ ed'.open = ed.open
      /\ ed'.id = ed.id
      /\ LandsOn(a) => ed'.reload = None
      /\ ~LandsOn(a) => ed' = ed
      /\ hist'.overlap = hist.overlap
      /\ hist'.loaded = (hist.loaded \/ Loads(a))
  BY LandOpenFields
<1>3. First("opened") > 0 /\ inn' = Took(First("opened")) /\ dmn' = dmn /\ tasks' = tasks
      /\ saves' = saves
  BY DEF LandOpen, LandOpenIf
<1>4. Watch(ed'.base) \in Watches /\ wire'.out \in {wire.out, Append(wire.out, Watch(ed'.base))}
  <2>1. ed'.base \in Int
    BY LandOpenFields DEF Buffer
  <2> QED BY <2>1, LandOpenFields, Typing
<1>5. \A kind, k : /\ Kept(kind, k)
                   /\ About(a, kind, k) /\ Sole(kind, k) => Gone(kind, k)'
  <2>1. \E t \in Tasks : TRUE
    <3>1. 1 \in Ids
      BY FileAssumption DEF Ids
    <3> QED BY <3>1, Typing DEF Tasks
  <2>2. PICK t \in Tasks : TRUE
    BY <2>1
  <2>3. tasks' \in {tasks, Append(tasks, t)}
    BY <1>3
  <2> QED BY <1>3, <1>4, <2>3, KeptLanded
<1>6. About(a, "fetch", a.id)
  BY <1>3, OpenedMsg DEF About, Fetch
<1> HIDE DEF a
<1>7. CASE LandsOn(a)
  <2>1. a.id = ed.id
    BY <1>7 DEF LandsOn
  <2>2. ~hist'.overlap => \A k \in Ids : k = ed'.id => Gone("fetch", k)'
    BY <1>1, <1>5, <1>6, <2>1 DEF WayInv
  <2>4. \A k \in Ids : k > ed'.id => Gone("fetch", k)'
    BY <1>1, <1>5 DEF WayInv, Kept
  <2>5. \A k \in Ids : Sole("store", k)' /\ (k \in saves'.inflight \/ Gone("store", k)')
    BY <1>3, <1>5 DEF WayInv, Kept
  <2>6. ~hist'.overlap => \A k \in Ids : k = ed'.id => Sole("fetch", k)'
    BY <1>1, <1>5 DEF WayInv, Kept
  <2> QED BY <2>2, <2>4, <2>5, <2>6 DEF WayInv
<1>8. CASE ~LandsOn(a)
  <2>1. ed' = ed
    BY <1>1, <1>8
  <2>2. hist'.loaded = hist.loaded
    <3>1. hist.loaded \in BOOLEAN /\ ~Loads(a)
      BY <1>8, Parts DEF Loads
    <3> QED BY <1>1, <3>1
  <2> QED BY <1>1, <1>3, <1>5, <2>1, <2>2, WayFrame
<1> QED BY <1>7, <1>8

\* A message in the inbox is one under way.
LEMMA TakenIsThere ==
  ASSUME TypeInv, NEW o, First(o) > 0, NEW kind, NEW k, About(inn.msgs[First(o)], kind, k)
  PROVE  ~Gone(kind, k)
BY FirstFound DEF Gone, Holds

LEMMA WayLandSave == ASSUME TypeInv, WayInv, LandSave PROVE WayInv'
<1> DEFINE d == inn.msgs[First("wrote")]
<1>0. d.save.id \in Ids
  BY LandSaveFields
<1>a. PICK id \in Ids : id = d.save.id
  BY <1>0
<1> DEFINE q == saves.queued[id]
<1>1. /\ ed'.open = ed.open /\ ed'.id = ed.id /\ ed'.reload = ed.reload
      /\ \/ /\ q # <<>> /\ Head(q) \in Writes
            /\ Head(q).id = id
            /\ tasks' = Append(tasks, Head(q))
            /\ saves' = [saves EXCEPT !.queued[id] = Tail(q)]
         \/ /\ tasks' = tasks
            /\ saves' = [inflight |-> saves.inflight \ {id},
                         queued |-> [saves.queued EXCEPT ![id] = <<>>]]
  BY <1>a, LandSaveFields
<1>2. First("wrote") > 0 /\ inn' = Took(First("wrote")) /\ dmn' = dmn /\ wire' = wire
      /\ hist' = hist
  BY DEF LandSave
<1>3. About(d, "store", id)
  BY <1>2, <1>a, WroteMsg DEF About, Store
<1>w. Unwatch \in Watches
  BY Typing
<1> HIDE DEF d
<1>4. Sole("store", id) /\ id \in saves.inflight
  <2>1. ~Gone("store", id)
    BY <1>2, <1>3, TakenIsThere DEF d
  <2> QED BY <2>1 DEF WayInv
<1>5. CASE /\ q # <<>> /\ Head(q) \in Writes /\ Head(q).id = id
           /\ tasks' = Append(tasks, Head(q))
           /\ saves' = [saves EXCEPT !.queued[id] = Tail(q)]
  <2> DEFINE t == Head(q)
  <2>1. t \in Tasks /\ t.op = "write" /\ t.id = id
    BY <1>5, Fields DEF Tasks
  <2>2. saves'.inflight = saves.inflight
    BY <1>5 DEF TypeInv, SavesInv
  <2>3. \A kind, k : About(t, kind, k) => kind # "fetch" /\ k = id
    BY <2>1 DEF About, Fetch, Store
  <2>4. tasks' \in {tasks, Append(tasks, t)}
    BY <1>5
  <2> HIDE DEF t, q
  <2>5. \A kind, k : /\ ~(tasks' # tasks /\ About(t, kind, k)) => Kept(kind, k)
                     /\ About(d, kind, k) /\ Sole(kind, k) => Sole(kind, k)'
    BY <1>2, <1>w, <2>1, <2>4, KeptLanded DEF d
  <2>6. \A k \in Ids : Kept("fetch", k) /\ (k # id => Kept("store", k))
    BY <2>3, <2>5
  <2>7. Sole("store", id)'
    BY <1>3, <1>4, <2>5
  <2>8. \A k \in Ids : Sole("store", k)' /\ (k \in saves'.inflight \/ Gone("store", k)')
    BY <1>4, <2>2, <2>6, <2>7 DEF WayInv, Kept
  <2>9. \A k \in Ids : k > ed'.id => Gone("fetch", k)'
    BY <1>1, <2>6 DEF WayInv, Kept
  <2>10. /\ ~hist'.overlap => \A k \in Ids : k = ed'.id => Sole("fetch", k)'
         /\ ~hist'.overlap /\ ed'.open /\ hist'.loaded /\ ed'.reload = None =>
              \A k \in Ids : k = ed'.id => Gone("fetch", k)'
    BY <1>1, <1>2, <2>6 DEF WayInv, Kept
  <2> QED BY <2>8, <2>9, <2>10 DEF WayInv
<1>6. CASE /\ tasks' = tasks
           /\ saves' = [inflight |-> saves.inflight \ {id},
                        queued |-> [saves.queued EXCEPT ![id] = <<>>]]
  <2>1. saves'.inflight = saves.inflight \ {id}
    BY <1>6
  <2>2. PICK t \in Tasks : tasks' \in {tasks, Append(tasks, t)}
    <3>1. 1 \in Ids
      BY FileAssumption DEF Ids
    <3> QED BY <1>6, <3>1, Typing DEF Tasks
  <2>3. \A kind, k : /\ Kept(kind, k)
                     /\ About(d, kind, k) /\ Sole(kind, k) => Gone(kind, k)'
    BY <1>2, <1>6, <1>w, <2>2, KeptLanded DEF d
  <2>4. Gone("store", id)'
    BY <1>3, <1>4, <2>3
  <2>5. \A k \in Ids : Sole("store", k)' /\ (k \in saves'.inflight \/ Gone("store", k)')
    BY <2>1, <2>3, <2>4 DEF WayInv, Kept
  <2>6. \A k \in Ids : k > ed'.id => Gone("fetch", k)'
    BY <1>1, <2>3 DEF WayInv, Kept
  <2>7. /\ ~hist'.overlap => \A k \in Ids : k = ed'.id => Sole("fetch", k)'
        /\ ~hist'.overlap /\ ed'.open /\ hist'.loaded /\ ed'.reload = None =>
             \A k \in Ids : k = ed'.id => Gone("fetch", k)'
    BY <1>1, <1>2, <2>3 DEF WayInv, Kept
  <2> QED BY <2>5, <2>6, <2>7 DEF WayInv
<1> QED BY <1>1, <1>5, <1>6

\* While no fetch of any buffer is under way, none of this one is.
LEMMA NotFetching ==
  ASSUME TypeInv, ~Fetching, NEW k
  PROVE  Gone("fetch", k)
<1> DEFINE S == Orders \cup {Idle} \cup News
           a == tasks \o wire.out
           b == a \o <<dmn.call>>
           c == b \o inn.msgs
<1>1. tasks \in Seq(S) /\ wire.out \in Seq(S) /\ <<dmn.call>> \in Seq(S) /\ inn.msgs \in Seq(S)
  <2>1. tasks \in Seq(Tasks) /\ wire.out \in Seq(Orders) /\ inn.msgs \in Seq(News)
        /\ dmn.call \in S /\ Tasks \subseteq S /\ Orders \subseteq S /\ News \subseteq S
    BY Parts DEF TypeInv, Orders
  <2> HIDE DEF S
  <2> QED BY <2>1
<1>2. ~Holds(c, "fetch", k)
  <2> SUFFICES ASSUME NEW i \in 1..Len(c), About(c[i], "fetch", k) PROVE FALSE
    BY DEF Holds
  <2>1. c \in Seq(S)
    <3> HIDE DEF S
    <3> QED BY <1>1
  <2>2. c[i].op \in {"read", "opened"} /\ Range(c) = {c[j] : j \in DOMAIN c}
    BY DEF About, Fetch, Range
  <2>3. c[i] \in Range(c)
    <3> HIDE DEF c, S
    <3> QED BY <2>1, <2>2
  <2> QED BY <2>2, <2>3 DEF Fetching
<1> HIDE DEF S
<1>3. a \in Seq(S) /\ b \in Seq(S)
  BY <1>1
<1>4. Holds(a, "fetch", k) <=> Holds(tasks, "fetch", k) \/ Holds(wire.out, "fetch", k)
  BY <1>1, HoldsConcat
<1> HIDE DEF a
<1>5. Holds(b, "fetch", k) <=> Holds(a, "fetch", k) \/ Holds(<<dmn.call>>, "fetch", k)
  BY <1>1, <1>3, HoldsConcat
<1>6. Holds(<<dmn.call>>, "fetch", k) <=> About(dmn.call, "fetch", k)
  BY HoldsOne
<1> HIDE DEF b
<1>7. Holds(c, "fetch", k) <=> Holds(b, "fetch", k) \/ Holds(inn.msgs, "fetch", k)
  BY <1>1, <1>3, HoldsConcat
<1> QED BY <1>2, <1>4, <1>5, <1>6, <1>7 DEF Gone

LEMMA WayHandlePush ==
  ASSUME TypeInv, WayInv, NEW choice, HandlePush(choice)
  PROVE  WayInv'
<1>1. /\ ed'.open = ed.open
      /\ ed'.id = ed.id
      /\ hist'.loaded = hist.loaded
      /\ \/ /\ Watching /\ ed.id \in Ids /\ Read(ed.id) \in Tasks
            /\ tasks' = Append(tasks, Read(ed.id)) /\ ed'.reload = ed.tick
            /\ hist'.overlap = (hist.overlap \/ Fetching)
         \/ tasks' = tasks /\ ed'.reload = ed.reload /\ hist'.overlap = hist.overlap
  BY HandlePushFields
<1>2. First("push") > 0 /\ inn' = Took(First("push")) /\ dmn' = dmn /\ saves' = saves
      /\ wire' = wire
  BY DEF HandlePush
<1>w. Unwatch \in Watches
  BY Typing
<1>3. CASE tasks' = tasks /\ ed'.reload = ed.reload /\ hist'.overlap = hist.overlap
  <2>1. \E t \in Tasks : TRUE
    <3>1. 1 \in Ids
      BY FileAssumption DEF Ids
    <3> QED BY <3>1, Typing DEF Tasks
  <2>2. PICK t \in Tasks : TRUE
    BY <2>1
  <2>3. tasks' \in {tasks, Append(tasks, t)}
    BY <1>3
  <2>4. \A kind, k : Kept(kind, k)
    BY <1>2, <1>3, <1>w, <2>3, KeptLanded
  <2> QED BY <1>1, <1>2, <1>3, <2>4, WayFrame
<1>4. CASE /\ Watching /\ ed.id \in Ids /\ Read(ed.id) \in Tasks
           /\ tasks' = Append(tasks, Read(ed.id)) /\ ed'.reload = ed.tick
           /\ hist'.overlap = (hist.overlap \/ Fetching)
  <2>1. PICK n \in Ids : n = ed.id
    BY <1>4
  <2> DEFINE t == Read(n)
  <2>2. t \in Tasks /\ t.op = "read" /\ t.id = n /\ tasks' = Append(tasks, t)
    BY <1>4, <2>1, Typing
  <2> HIDE DEF t
  <2>3. \A kind, k : About(t, kind, k) => kind = "fetch" /\ k = n
    BY <2>2 DEF About, Fetch, Store
  <2>4. tasks' \in {tasks, Append(tasks, t)}
    BY <2>2
  <2>5. \A kind, k : /\ ~(tasks' # tasks /\ About(t, kind, k)) => Kept(kind, k)
                     /\ Gone(kind, k) => Sole(kind, k)'
    BY <1>2, <1>w, <2>2, <2>4, KeptLanded
  <2>6. \A k \in Ids : Kept("store", k) /\ (k # n => Kept("fetch", k))
    BY <2>3, <2>5
  <2>7. \A k \in Ids : Sole("store", k)' /\ (k \in saves'.inflight \/ Gone("store", k)')
    BY <1>2, <2>6 DEF WayInv, Kept
  <2>8. \A k \in Ids : k > ed'.id => Gone("fetch", k)'
    <3>1. \A k \in Ids : k > ed'.id => k > ed.id /\ k # n
      BY <1>1, <2>1 DEF Ids
    <3> QED BY <2>6, <3>1 DEF WayInv, Kept
  <2>9. ~hist'.overlap => \A k \in Ids : k = ed'.id => Sole("fetch", k)'
    <3>1. ~hist'.overlap => ~Fetching
      BY <1>4
    <3>2. ~hist'.overlap => Gone("fetch", n)
      BY <3>1, NotFetching
    <3> QED BY <1>1, <2>1, <2>5, <3>2
  <2>10. ed'.reload # None
    BY <1>4, Parts DEF None
  <2> QED BY <2>7, <2>8, <2>9, <2>10 DEF WayInv
<1> QED BY <1>1, <1>3, <1>4

LEMMA WayStep == TypeInv /\ WayInv /\ [Next]_vars => WayInv'
<1> SUFFICES ASSUME TypeInv, WayInv, [Next]_vars PROVE WayInv'
  OBVIOUS
<1>1. CASE \/ UNCHANGED vars \/ (\E v \in {0, made + 1} : OutsideChange(v))
           \/ Reconnect \/ SeeOutage \/ LateWrite \/ Edit
  <2>1. /\ tasks' = tasks /\ wire'.out = wire.out /\ dmn' = dmn /\ inn' = inn
        /\ saves' = saves /\ ed'.id = ed.id /\ ed'.reload = ed.reload /\ ed'.open = ed.open
        /\ hist'.overlap = hist.overlap /\ hist'.loaded = hist.loaded
    <3>1. CASE UNCHANGED vars \/ (\E v \in {0, made + 1} : OutsideChange(v))
      BY <3>1, OutsideFields DEF vars, OutsideChange
    <3>2. CASE Reconnect \/ SeeOutage
      BY <3>2 DEF Reconnect, SeeOutage, TypeInv, Link
    <3>3. CASE LateWrite
      BY <3>3, OverwriteFields DEF LateWrite
    <3>4. CASE Edit
      BY <3>4 DEF Edit, TypeInv, Buffer, Log
    <3> QED BY <1>1, <3>1, <3>2, <3>3, <3>4
  <2>2. \A kind, k : Kept(kind, k)
    BY <2>1, KeptSame
  <2> QED BY <2>1, <2>2, WayFrame
<1>2. CASE TaskRuns
  <2>1. \A kind, k : Kept(kind, k)
    BY <1>2, KeptTaskRuns
  <2> QED BY <1>2, <2>1, WayFrame DEF TaskRuns
<1>3. CASE \E arrived \in inn.arrived..Len(inn.msgs), received \in BOOLEAN :
             Drop(arrived, received)
  <2>1. PICK arrived \in inn.arrived..Len(inn.msgs), received \in BOOLEAN :
          Drop(arrived, received)
    BY <1>3
  <2>2. \A kind, k : Kept(kind, k)
    BY <2>1, KeptDrop
  <2>3. ed' = ed /\ saves' = saves /\ hist'.overlap = hist.overlap /\ hist'.loaded = hist.loaded
    BY <2>1 DEF Drop, TypeInv, Log
  <2> QED BY <2>2, <2>3, WayFrame
<1>4. CASE Resync
  <2>1. /\ Watch(ed.base) \in Watches
        /\ wire'.out \in {wire.out, Append(wire.out, Watch(ed.base))}
    BY <1>4, ResyncFields, Typing, Parts
  <2>2. /\ tasks' = tasks /\ dmn' = dmn /\ inn' = inn /\ ed' = ed /\ saves' = saves
        /\ hist'.overlap = hist.overlap /\ hist'.loaded = hist.loaded
    BY <1>4 DEF Resync, TypeInv, Log
  <2>3. \A kind, k : Kept(kind, k)
    BY <2>1, <2>2, KeptSend
  <2> QED BY <2>2, <2>3, WayFrame
<1>5. CASE Close
  <2>1. Unwatch \in Watches /\ wire'.out \in {wire.out, Append(wire.out, Unwatch)}
        /\ ed'.id = ed.id /\ ed'.reload = ed.reload /\ ~ed'.open
    BY <1>5, CloseFields, Typing
  <2>2. tasks' = tasks /\ dmn' = dmn /\ inn' = inn /\ saves' = saves /\ hist' = hist
    BY <1>5 DEF Close
  <2>3. \A kind, k : Kept(kind, k)
    BY <2>1, <2>2, KeptSend
  <2> QED BY <2>1, <2>2, <2>3, WayFrame
<1>6. CASE Daemon \/ Poll
  <2>1. \A kind, k : Kept(kind, k)
    BY <1>6, KeptByDaemon
  <2>2. ed' = ed /\ saves' = saves
    BY <1>6 DEF Daemon, ServeRead, ReadStat, ServeWrite, ServeWriteFails, WriteStat, WriteAnswer,
       ServeWatch, ServeUnwatch, Poll
  <2>3. hist'.overlap = hist.overlap /\ hist'.loaded = hist.loaded
    <3>1. CASE ServeWrite
      BY <3>1, OverwriteFields DEF ServeWrite
    <3>2. CASE ServeWatch
      BY <3>2 DEF ServeWatch, TypeInv, Log
    <3>3. CASE ~ServeWrite /\ ~ServeWatch
      BY <1>6, <3>3 DEF Daemon, ServeRead, ReadStat, ServeWriteFails, WriteStat, WriteAnswer,
         ServeUnwatch, Poll
    <3> QED BY <3>1, <3>2, <3>3
  <2> QED BY <2>1, <2>2, <2>3, WayFrame
<1>7. CASE \/ (\E bang \in BOOLEAN : ExWrite(bang)) \/ Open \/ LandOpen \/ LandSave
           \/ (\E choice \in FcsChoices \cup {"ask"} : HandlePush(choice))
  BY <1>7, WayExWrite, WayOpen, WayLandOpen, WayLandSave, WayHandlePush
<1> QED BY <1>1, <1>2, <1>3, <1>4, <1>5, <1>6, <1>7 DEF Next

LEMMA LandOpenKeepsTyped ==
  ASSUME TypeInv, WayInv, LandOpen, Discards
  PROVE  hist.overlap
<1> SUFFICES ASSUME ~hist.overlap PROVE FALSE
  OBVIOUS
<1> DEFINE a == inn.msgs[First("opened")]
<1>1. ~Loads(a) => ed'.text = ed.text
  BY LandOpenFields
<1>2. First("opened") > 0 /\ a.op = "opened"
  BY OpenedMsg DEF LandOpen, LandOpenIf
<1> HIDE DEF a
<1>3. Loads(a)
  BY <1>1 DEF Discards
<1>4. a.id = ed.id /\ ed.open /\ hist.loaded /\ ed.reload = None
  BY <1>3 DEF Loads, LandsOn, Discards
<1>5. ed.id \in Ids
  BY <1>4 DEF TypeInv
<1>6. Gone("fetch", ed.id)
  BY <1>4, <1>5 DEF WayInv
<1>7. About(a, "fetch", ed.id)
  BY <1>2, <1>4 DEF About, Fetch
<1> QED BY <1>2, <1>6, <1>7, TakenIsThere DEF a

LEMMA LandSaveShows ==
  ASSUME TypeInv, WayInv, LandSave
  PROVE  saves' # saves
<1> DEFINE d == inn.msgs[First("wrote")]
           id == d.save.id
           q == saves.queued[id]
<1>1. /\ id \in Ids
      /\ \/ q # <<>> /\ saves' = [saves EXCEPT !.queued[id] = Tail(q)]
         \/ saves' = [inflight |-> saves.inflight \ {id},
                      queued |-> [saves.queued EXCEPT ![id] = <<>>]]
  BY LandSaveFields
<1>2. First("wrote") > 0
  BY DEF LandSave
<1>3. About(d, "store", id)
  BY <1>2, WroteMsg DEF About, Store
<1>4. ~Gone("store", id)
  BY <1>2, <1>3, TakenIsThere
<1> HIDE DEF d, id
<1>5. id \in saves.inflight
  BY <1>1, <1>4 DEF WayInv
<1>6. CASE q # <<>> /\ saves' = [saves EXCEPT !.queued[id] = Tail(q)]
  <2>1. q \in Seq(Writes)
    BY <1>1, Parts
  <2>2. Tail(q) # q
    <3> HIDE DEF q
    <3>1. Len(Tail(q)) # Len(q)
      BY <1>6, <2>1
    <3> QED BY <3>1, Zenon
  <2>3. saves'.queued[id] = Tail(q)
    BY <1>1, <1>6 DEF TypeInv, SavesInv
  <2> QED BY <2>2, <2>3
<1>7. CASE saves' = [inflight |-> saves.inflight \ {id},
                     queued |-> [saves.queued EXCEPT ![id] = <<>>]]
  <2>1. id \notin saves'.inflight
    BY <1>7
  <2> QED BY <1>5, <2>1
<1> QED BY <1>1, <1>6, <1>7

LEMMA StepKeepsTyped ==
  TypeInv /\ WayInv /\ [Next]_vars => [Discards => hist.overlap]_vars
<1> SUFFICES ASSUME TypeInv, WayInv, Next, Discards PROVE hist.overlap
  OBVIOUS
<1>1. ed.open /\ ed.text = Typed /\ ed'.open /\ ed'.text # Typed /\ saves' = saves
  BY DEF Discards
<1>2. CASE \/ (\E v \in {0, made + 1} : OutsideChange(v))
           \/ TaskRuns
           \/ (\E arrived \in inn.arrived..Len(inn.msgs), received \in BOOLEAN :
                 Drop(arrived, received))
           \/ Reconnect \/ SeeOutage \/ Resync \/ Daemon \/ Poll \/ LateWrite
           \/ (\E bang \in BOOLEAN : ExWrite(bang))
  <2>1. ed' = ed
    BY <1>2 DEF OutsideChange, TaskRuns, Drop, Reconnect, SeeOutage, Resync, Daemon, ServeRead,
       ReadStat, ServeWrite, ServeWriteFails, WriteStat, WriteAnswer, ServeWatch, ServeUnwatch,
       Poll, LateWrite, ExWrite
  <2> QED BY <1>1, <2>1
<1>3. CASE Edit
  <2>1. ed'.text = Typed
    BY <1>3 DEF Edit, TypeInv, Buffer
  <2> QED BY <1>1, <2>1
<1>4. CASE Close
  BY <1>1, <1>4, CloseFields
<1>5. CASE Open
  BY <1>1, <1>5 DEF Open
<1>6. CASE \E choice \in FcsChoices \cup {"ask"} : HandlePush(choice)
  BY <1>1, <1>6, HandlePushFields
<1>7. CASE LandSave
  BY <1>1, <1>7, LandSaveShows
<1>8. CASE LandOpen
  BY <1>8, LandOpenKeepsTyped
<1> QED BY <1>2, <1>3, <1>4, <1>5, <1>6, <1>7, <1>8 DEF Next

(* A reload that comes back after the user typed does not take the text     *)
(* with it, unless two fetches of the file were under way at one time: for  *)
(* any number of buffers, drops and saves (load_replica_bytes and its       *)
(* reload_posts marker).                                                    *)
THEOREM LoneReloadsKeepEdits == Spec => LoneReloadKeepsEdits
<1>1. Init => TypeInv /\ WayInv
  BY TypeInit, WayInit
<1>2. TypeInv /\ WayInv /\ [Next]_vars => (TypeInv /\ WayInv)'
  BY TypeStep, WayStep
<1>3. TypeInv /\ WayInv /\ [Next]_vars => [Discards => hist.overlap]_vars
  BY StepKeepsTyped
<1> QED BY <1>1, <1>2, <1>3, PTL DEF Spec, LoneReloadKeepsEdits

=============================================================================
