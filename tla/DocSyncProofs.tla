---------------------------- MODULE DocSyncProofs ----------------------------
(***************************************************************************)
(* What a language server is told of a document fits the text it holds, for *)
(* any number of buffers, servers, edits, crashes, stops and restarts.      *)
(***************************************************************************)
EXTENDS DocSync, FiniteSetTheorems, TLAPS

-----------------------------------------------------------------------------
(* Types. *)

Texts == Nat \cup {Closed, Garbled}
Copy  == [text : Texts, version : Nat]
Doc   == [bound : BOOLEAN, opened : BOOLEAN, version : Nat, last : Nat, save : Nat]
Msg   == [type : {"open"}, buf : Buffers, version : Nat, to : Nat]
         \cup [type : {"change"}, buf : Buffers, version : Nat, to : Nat,
               from : Nat \cup {Closed}]
         \cup [type : {"save"}, buf : Buffers, to : Nat]
         \cup [type : {"close"}, buf : Buffers]
         \cup {[type |-> "shutdown"]}
Task  == [key : Keys, phase : {"start", "serve", "backoff", "ended"},
          queue : Seq(Msg), failures : Nat, docs : [Buffers -> Copy]]

TypeInv ==
  /\ ed \in [cur : Buffers, open : SUBSET Buffers, runtime : SUBSET Keys,
             ensured : SUBSET Keys]
  /\ ed.cur \in ed.open
  /\ text \in [Buffers -> Nat] /\ saves \in [Buffers -> Nat]
  /\ jrn \in [Buffers -> [from : Nat, resync : BOOLEAN]]
  /\ doc \in [Buffers -> [Keys -> Doc]]
  /\ tasks \in Seq(Task)
  /\ servers \in [Keys -> Nat]
  /\ \A k \in Keys : servers[k] # 0 =>
       servers[k] \in DOMAIN tasks /\ tasks[servers[k]].key = k

-----------------------------------------------------------------------------
(* Chains of notifications. *)

IsNote(m, b)  == m.type # "shutdown" /\ m.buf = b
IsState(m, b) == IsNote(m, b) /\ m.type # "save"

\* The copy of a server that took the note and had the document open.
Says(m) == IF m.type = "close" THEN [text |-> Closed, version |-> 0]
           ELSE [text |-> m.to, version |-> m.version]

\* The note finds the copy it was made for, or a server that ignores it.
Fits(d, m) ==
  d.text # Closed =>
    /\ m.type = "change" => m.from \in {Closed, d.text} /\ m.version = d.version + 1
    /\ m.type = "save" => m.to = d.text

\* The notes on b before place j: none that sets the copy, or i is the last.
None(q, b, j)      == \A n \in 1..(j - 1) : ~IsState(q[n], b)
Before(q, b, i, j) == i < j /\ IsState(q[i], b) /\ \A n \in (i + 1)..(j - 1) : ~IsState(q[n], b)

\* Each note fits what the server holds once it took the ones before it.
ChainFits(d, q, b) ==
  \A j \in 1..Len(q) : IsNote(q[j], b) =>
    /\ None(q, b, j) => Fits(d, q[j])
    /\ \A i \in 1..Len(q) : Before(q, b, i, j) => Fits(Says(q[i]), q[j])

\* After all of them it holds e, or never had the document open.
Leads(d, q, b, e) ==
  /\ None(q, b, Len(q) + 1) => d.text = Closed \/ d = e
  /\ \A i \in 1..Len(q) : Before(q, b, i, Len(q) + 1) =>
       q[i].type # "close" /\ Says(q[i]) = e

\* What is not a note on b changes nothing for b.
LEMMA ChainAppendOther ==
  ASSUME NEW q \in Seq(Msg), NEW m \in Msg, NEW b, NEW d, ~IsNote(m, b),
         ChainFits(d, q, b)
  PROVE  ChainFits(d, Append(q, m), b)
<1> DEFINE r == Append(q, m)
<1>1. Len(r) = Len(q) + 1 /\ \A i \in 1..Len(q) : r[i] = q[i]
  OBVIOUS
<1>2. r[Len(q) + 1] = m
  OBVIOUS
<1>3. \A j \in 1..Len(q) : None(r, b, j) => None(q, b, j)
  BY <1>1 DEF None
<1>4. \A i, j \in 1..Len(q) : Before(r, b, i, j) => Before(q, b, i, j)
  BY <1>1 DEF Before
<1> HIDE DEF r
<1>5. SUFFICES ASSUME NEW j \in 1..Len(r), IsNote(r[j], b)
               PROVE  /\ None(r, b, j) => Fits(d, r[j])
                      /\ \A i \in 1..Len(r) : Before(r, b, i, j) => Fits(Says(r[i]), r[j])
  BY DEF ChainFits, r
<1>6. j \in 1..Len(q)
  BY <1>1, <1>2, <1>5
<1>7. \A i \in 1..Len(r) : Before(r, b, i, j) => i \in 1..Len(q)
  BY <1>1, <1>6 DEF Before
<1> QED BY <1>1, <1>3, <1>4, <1>5, <1>6, <1>7 DEF ChainFits

LEMMA LeadsAppendOther ==
  ASSUME NEW q \in Seq(Msg), NEW m \in Msg, NEW b, NEW d, NEW e, ~IsState(m, b),
         Leads(d, q, b, e)
  PROVE  Leads(d, Append(q, m), b, e)
<1> DEFINE r == Append(q, m)
<1>1. Len(r) = Len(q) + 1 /\ \A i \in 1..Len(q) : r[i] = q[i]
  OBVIOUS
<1>2. r[Len(q) + 1] = m
  OBVIOUS
<1> HIDE DEF r
<1>3. None(r, b, Len(r) + 1) => None(q, b, Len(q) + 1)
  BY <1>1 DEF None
<1>4. \A i \in 1..Len(r) : Before(r, b, i, Len(r) + 1) =>
        i \in 1..Len(q) /\ Before(q, b, i, Len(q) + 1)
  BY <1>1, <1>2 DEF Before
<1> QED BY <1>1, <1>3, <1>4 DEF Leads, r

\* The editor adds a note that fits what the ones before lead to.
LEMMA ChainAppend ==
  ASSUME NEW q \in Seq(Msg), NEW m \in Msg, NEW b, NEW d, ChainFits(d, q, b),
         m.type \in {"open", "close"} \/ \E e : Leads(d, q, b, e) /\ Fits(e, m)
  PROVE  ChainFits(d, Append(q, m), b)
<1> DEFINE r == Append(q, m)
<1>1. Len(r) = Len(q) + 1 /\ \A i \in 1..Len(q) : r[i] = q[i]
  OBVIOUS
<1>2. r[Len(q) + 1] = m
  OBVIOUS
<1>3. \A j \in 1..(Len(q) + 1) : None(r, b, j) => None(q, b, j)
  BY <1>1 DEF None
<1>4. \A i \in 1..Len(q), j \in 1..(Len(q) + 1) : Before(r, b, i, j) => Before(q, b, i, j)
  BY <1>1 DEF Before
<1> HIDE DEF r
<1>5. SUFFICES ASSUME NEW j \in 1..Len(r), IsNote(r[j], b)
               PROVE  /\ None(r, b, j) => Fits(d, r[j])
                      /\ \A i \in 1..Len(r) : Before(r, b, i, j) => Fits(Says(r[i]), r[j])
  BY DEF ChainFits, r
<1>7. \A i \in 1..Len(r) : Before(r, b, i, j) => i \in 1..Len(q)
  BY <1>1 DEF Before
<1>8. CASE j \in 1..Len(q)
  BY <1>1, <1>3, <1>4, <1>5, <1>7, <1>8 DEF ChainFits
<1>9. CASE j = Len(q) + 1
  <2>1. CASE m.type \in {"open", "close"}
    BY <1>2, <1>9, <2>1 DEF Fits
  <2>2. CASE \E e : Leads(d, q, b, e) /\ Fits(e, m)
    <3>1. PICK e : Leads(d, q, b, e) /\ Fits(e, m)
      BY <2>2
    <3>2. None(r, b, j) => d.text = Closed \/ d = e
      BY <1>3, <1>9, <3>1 DEF Leads
    <3>3. None(r, b, j) => Fits(d, r[j])
      BY <1>2, <1>9, <3>1, <3>2 DEF Fits
    <3>4. ASSUME NEW i \in 1..Len(r), Before(r, b, i, j) PROVE Says(r[i]) = e
      BY <1>1, <1>4, <1>7, <1>9, <3>1, <3>4 DEF Leads
    <3> QED BY <1>2, <1>9, <3>1, <3>3, <3>4
  <2> QED BY <2>1, <2>2
<1> QED BY <1>1, <1>8, <1>9

LEMMA LeadsAppend ==
  ASSUME NEW q \in Seq(Msg), NEW m \in Msg, NEW b, NEW d,
         IsState(m, b), m.type # "close"
  PROVE  Leads(d, Append(q, m), b, Says(m))
<1> DEFINE r == Append(q, m)
<1>1. Len(r) = Len(q) + 1 /\ \A i \in 1..Len(q) : r[i] = q[i]
  OBVIOUS
<1>2. r[Len(r)] = m
  OBVIOUS
<1>0. Len(r) \in Nat \ {0}
  BY <1>1
<1> HIDE DEF r
<1>3. ~None(r, b, Len(r) + 1)
  BY <1>0, <1>2 DEF None
<1>4. \A i \in 1..Len(r) : Before(r, b, i, Len(r) + 1) => i = Len(r)
  BY <1>0, <1>2 DEF Before
<1> QED BY <1>2, <1>3, <1>4 DEF Leads, r

\* Closes of dead buffers always fit; other buffers do not notice.
LEMMA ChainConcat ==
  ASSUME NEW q \in Seq(Msg), NEW c \in Seq(Msg), NEW b, NEW d, ChainFits(d, q, b),
         \A i \in 1..Len(c) : IsNote(c[i], b) => c[i].type = "close"
  PROVE  ChainFits(d, q \o c, b)
<1> DEFINE r == q \o c
<1>1. /\ Len(r) = Len(q) + Len(c) /\ \A i \in 1..Len(q) : r[i] = q[i]
      /\ Len(q) \in Nat /\ Len(c) \in Nat
  OBVIOUS
<1>2. \A i \in 1..Len(r) : i > Len(q) => r[i] = c[i - Len(q)]
  OBVIOUS
<1> HIDE DEF r
<1>3. \A j \in 1..Len(q) : None(r, b, j) => None(q, b, j)
  BY <1>1 DEF None
<1>4. \A i, j \in 1..Len(q) : Before(r, b, i, j) => Before(q, b, i, j)
  BY <1>1 DEF Before
<1>5. SUFFICES ASSUME NEW j \in 1..Len(r), IsNote(r[j], b)
               PROVE  /\ None(r, b, j) => Fits(d, r[j])
                      /\ \A i \in 1..Len(r) : Before(r, b, i, j) => Fits(Says(r[i]), r[j])
  BY DEF ChainFits, r
<1>6. CASE j \in 1..Len(q)
  <2>1. \A i \in 1..Len(r) : Before(r, b, i, j) => i \in 1..Len(q)
    BY <1>6 DEF Before
  <2> QED BY <1>1, <1>3, <1>4, <1>5, <1>6, <2>1 DEF ChainFits
<1>7. CASE j > Len(q)
  <2>1. j - Len(q) \in 1..Len(c) /\ r[j] = c[j - Len(q)]
    BY <1>1, <1>2, <1>7
  <2>2. r[j].type = "close"
    BY <1>5, <2>1
  <2> QED BY <2>2 DEF Fits
<1> QED BY <1>1, <1>6, <1>7

LEMMA LeadsConcat ==
  ASSUME NEW q \in Seq(Msg), NEW c \in Seq(Msg), NEW b, NEW d, NEW e,
         Leads(d, q, b, e), \A i \in 1..Len(c) : ~IsState(c[i], b)
  PROVE  Leads(d, q \o c, b, e)
<1> DEFINE r == q \o c
<1>1. /\ Len(r) = Len(q) + Len(c) /\ \A i \in 1..Len(q) : r[i] = q[i]
      /\ Len(q) \in Nat /\ Len(c) \in Nat
  OBVIOUS
<1>2. \A i \in 1..Len(r) : i > Len(q) => r[i] = c[i - Len(q)]
  OBVIOUS
<1> HIDE DEF r
<1>3. None(r, b, Len(r) + 1) => None(q, b, Len(q) + 1)
  BY <1>1 DEF None
<1>4. \A i \in 1..Len(r) : IsState(r[i], b) => i \in 1..Len(q)
  <2> SUFFICES ASSUME NEW i \in 1..Len(r), IsState(r[i], b), i > Len(q) PROVE FALSE
    BY <1>1
  <2>1. i - Len(q) \in 1..Len(c) /\ r[i] = c[i - Len(q)]
    BY <1>1, <1>2
  <2> QED BY <2>1
<1>5. \A i \in 1..Len(r) : Before(r, b, i, Len(r) + 1) =>
        i \in 1..Len(q) /\ Before(q, b, i, Len(q) + 1)
  <2> SUFFICES ASSUME NEW i \in 1..Len(r), Before(r, b, i, Len(r) + 1)
               PROVE  i \in 1..Len(q) /\ Before(q, b, i, Len(q) + 1)
    OBVIOUS
  <2>1. IsState(r[i], b) /\ \A n \in (i + 1)..(Len(r) + 1 - 1) : ~IsState(r[n], b)
    BY DEF Before
  <2>2. i \in 1..Len(q)
    BY <1>4, <2>1
  <2>3. \A n \in (i + 1)..(Len(q) + 1 - 1) : ~IsState(q[n], b)
    BY <1>1, <2>1, <2>2
  <2> QED BY <1>1, <2>1, <2>2, <2>3 DEF Before
<1> QED BY <1>1, <1>3, <1>5 DEF Leads, r

\* A server takes the first of the notes.
LEMMA PassOther ==
  ASSUME NEW q \in Seq(Msg), q # <<>>, NEW b, NEW d, ~IsState(Head(q), b),
         ChainFits(d, q, b)
  PROVE  /\ ChainFits(d, Tail(q), b)
         /\ \A e : Leads(d, q, b, e) => Leads(d, Tail(q), b, e)
<1> DEFINE r == Tail(q)
<1>1. /\ Len(q) \in Nat \ {0} /\ Len(r) = Len(q) - 1
      /\ \A i \in 1..Len(r) : r[i] = q[i + 1] /\ i + 1 \in 1..Len(q)
  OBVIOUS
<1>2. ~IsState(q[1], b)
  OBVIOUS
<1> HIDE DEF r
<1>3. ASSUME NEW j \in 1..(Len(r) + 1), None(r, b, j) PROVE None(q, b, j + 1)
  <2> SUFFICES ASSUME NEW n \in 1..j PROVE ~IsState(q[n], b)
    BY <1>1 DEF None
  <2>1. CASE n = 1
    BY <1>2, <2>1
  <2>2. CASE n # 1
    <3>1. n - 1 \in 1..(j - 1) /\ n - 1 \in 1..Len(r)
      BY <2>2, <1>1
    <3>2. r[n - 1] = q[n]
      BY <1>1, <3>1
    <3> QED BY <1>3, <3>1, <3>2 DEF None
  <2> QED BY <2>1, <2>2
<1>4. ASSUME NEW i \in 1..Len(r), NEW j \in 1..(Len(r) + 1), Before(r, b, i, j)
      PROVE  Before(q, b, i + 1, j + 1)
  <2>1. i < j /\ IsState(r[i], b) /\ \A n \in (i + 1)..(j - 1) : ~IsState(r[n], b)
    BY <1>4 DEF Before
  <2>2. ASSUME NEW n \in (i + 1 + 1)..(j + 1 - 1) PROVE ~IsState(q[n], b)
    <3>1. n - 1 \in (i + 1)..(j - 1) /\ n - 1 \in 1..Len(r)
      BY <1>1
    <3>2. r[n - 1] = q[n]
      BY <1>1, <3>1
    <3> QED BY <2>1, <3>1, <3>2
  <2> QED BY <1>1, <2>1, <2>2 DEF Before
<1>5. ChainFits(d, r, b)
  <2> SUFFICES ASSUME NEW j \in 1..Len(r), IsNote(r[j], b)
               PROVE  /\ None(r, b, j) => Fits(d, r[j])
                      /\ \A i \in 1..Len(r) : Before(r, b, i, j) => Fits(Says(r[i]), r[j])
    BY DEF ChainFits
  <2>1. j + 1 \in 1..Len(q) /\ r[j] = q[j + 1] /\ j \in 1..(Len(r) + 1)
    BY <1>1
  <2>2. None(r, b, j) => Fits(d, r[j])
    BY <1>3, <2>1 DEF ChainFits
  <2>3. ASSUME NEW i \in 1..Len(r), Before(r, b, i, j) PROVE Fits(Says(r[i]), r[j])
    <3>1. Before(q, b, i + 1, j + 1)
      BY <1>4, <2>1, <2>3
    <3> QED BY <1>1, <2>1, <3>1 DEF ChainFits
  <2> QED BY <2>2, <2>3
<1>6. ASSUME NEW e, Leads(d, q, b, e) PROVE Leads(d, r, b, e)
  <2>1. Len(r) + 1 \in 1..(Len(r) + 1) /\ Len(r) + 1 + 1 = Len(q) + 1
    BY <1>1
  <2>2. None(r, b, Len(r) + 1) => d.text = Closed \/ d = e
    BY <1>3, <1>6, <2>1 DEF Leads
  <2>3. ASSUME NEW i \in 1..Len(r), Before(r, b, i, Len(r) + 1)
        PROVE  r[i].type # "close" /\ Says(r[i]) = e
    <3>1. Before(q, b, i + 1, Len(q) + 1)
      BY <1>4, <2>1, <2>3
    <3> QED BY <1>1, <1>6, <3>1 DEF Leads
  <2> QED BY <2>2, <2>3 DEF Leads
<1> QED BY <1>5, <1>6 DEF r

LEMMA TakeFits ==
  ASSUME NEW m \in Msg, NEW b, IsNote(m, b), NEW d \in Copy, d.text # Garbled, Fits(d, m)
  PROVE  /\ Take(d, m) \in Copy /\ Take(d, m).text # Garbled
         /\ m.type = "save" => Take(d, m) = d
         /\ m.type # "save" => Take(d, m).text = Closed \/ Take(d, m) = Says(m)
<1> USE DEF Copy, Texts, Closed, Garbled
<1>1. CASE m.type = "open"
  <2>1. m.version \in Nat /\ m.to \in Nat
    BY <1>1 DEF Msg
  <2>2. Take(d, m) = [text |-> m.to, version |-> m.version]
    BY <1>1 DEF Take
  <2> QED BY <1>1, <2>1, <2>2 DEF Says
<1>2. CASE m.type = "close"
  <2>2. Take(d, m) = [text |-> Closed, version |-> 0]
    BY <1>2 DEF Take
  <2> QED BY <1>2, <2>2
<1>3. CASE m.type = "change" /\ d.text # Closed
  <2>1. m.version \in Nat /\ m.to \in Nat
    BY <1>3 DEF Msg
  <2>2. Take(d, m) = [version |-> m.version, text |-> m.to]
    BY <1>3 DEF Take, Fits
  <2> QED BY <1>3, <2>1, <2>2 DEF Says
<1>4. CASE m.type = "change" /\ d.text = Closed
  <2>2. Take(d, m) = d
    BY <1>4 DEF Take
  <2> QED BY <1>4, <2>2
<1>5. CASE m.type = "save"
  <2>2. Take(d, m) = d
    BY <1>5 DEF Take, Fits
  <2> QED BY <1>5, <2>2
<1> QED BY <1>1, <1>2, <1>3, <1>4, <1>5 DEF Msg, IsNote

LEMMA PassNote ==
  ASSUME NEW q \in Seq(Msg), q # <<>>, NEW b, IsNote(Head(q), b),
         NEW d \in Copy, d.text # Garbled, ChainFits(d, q, b)
  PROVE  LET d2 == Take(d, Head(q)) IN
         /\ d2 \in Copy /\ d2.text # Garbled
         /\ ChainFits(d2, Tail(q), b)
         /\ \A e : Leads(d, q, b, e) => Leads(d2, Tail(q), b, e)
<1> DEFINE r  == Tail(q)
           m  == Head(q)
           d2 == Take(d, m)
<1>1. /\ Len(q) \in Nat \ {0} /\ Len(r) = Len(q) - 1 /\ m = q[1] /\ m \in Msg
      /\ \A i \in 1..Len(r) : r[i] = q[i + 1] /\ i + 1 \in 1..Len(q)
  OBVIOUS
<1>2. None(q, b, 1)
  BY DEF None
<1>3. Fits(d, m)
  BY <1>1, <1>2 DEF ChainFits
<1>4. /\ d2 \in Copy /\ d2.text # Garbled
      /\ m.type = "save" => d2 = d
      /\ m.type # "save" => d2.text = Closed \/ d2 = Says(m)
  BY <1>1, <1>3, TakeFits
<1>5. CASE m.type = "save"
  BY <1>4, <1>5, PassOther DEF IsState
<1>6. CASE m.type # "save"
  <2>1. IsState(q[1], b)
    BY <1>1, <1>6 DEF IsState
  <2> HIDE DEF r, m, d2
  <2>3. ASSUME NEW j \in 1..(Len(r) + 1), None(r, b, j) PROVE Before(q, b, 1, j + 1)
    <3> SUFFICES ASSUME NEW n \in 2..j PROVE ~IsState(q[n], b)
      BY <2>1 DEF Before
    <3>1. n - 1 \in 1..(j - 1) /\ n - 1 \in 1..Len(r)
      BY <1>1
    <3>2. r[n - 1] = q[n]
      BY <1>1, <3>1
    <3> QED BY <2>3, <3>1, <3>2 DEF None
  <2>4. ASSUME NEW i \in 1..Len(r), NEW j \in 1..(Len(r) + 1), Before(r, b, i, j)
        PROVE  Before(q, b, i + 1, j + 1)
    <3>1. i < j /\ IsState(r[i], b) /\ \A n \in (i + 1)..(j - 1) : ~IsState(r[n], b)
      BY <2>4 DEF Before
    <3>2. ASSUME NEW n \in (i + 1 + 1)..(j + 1 - 1) PROVE ~IsState(q[n], b)
      <4>1. n - 1 \in (i + 1)..(j - 1) /\ n - 1 \in 1..Len(r)
        BY <1>1
      <4>2. r[n - 1] = q[n]
        BY <1>1, <4>1
      <4> QED BY <3>1, <4>1, <4>2
    <3> QED BY <1>1, <3>1, <3>2 DEF Before
  <2>5. ChainFits(d2, r, b)
    <3> SUFFICES ASSUME NEW j \in 1..Len(r), IsNote(r[j], b)
                 PROVE  /\ None(r, b, j) => Fits(d2, r[j])
                        /\ \A i \in 1..Len(r) : Before(r, b, i, j) => Fits(Says(r[i]), r[j])
      BY DEF ChainFits
    <3>1. j + 1 \in 1..Len(q) /\ r[j] = q[j + 1] /\ j \in 1..(Len(r) + 1) /\ 1 \in 1..Len(q)
      BY <1>1
    <3>2. ASSUME None(r, b, j) PROVE Fits(d2, r[j])
      <4>1. Fits(Says(q[1]), q[j + 1])
        BY <2>3, <3>1, <3>2 DEF ChainFits
      <4> QED BY <1>1, <1>4, <1>6, <3>1, <4>1 DEF Fits
    <3>3. ASSUME NEW i \in 1..Len(r), Before(r, b, i, j) PROVE Fits(Says(r[i]), r[j])
      <4>1. Before(q, b, i + 1, j + 1)
        BY <2>4, <3>1, <3>3
      <4> QED BY <1>1, <3>1, <4>1 DEF ChainFits
    <3> QED BY <3>2, <3>3
  <2>6. ASSUME NEW e, Leads(d, q, b, e) PROVE Leads(d2, r, b, e)
    <3>1. Len(r) + 1 \in 1..(Len(r) + 1) /\ Len(r) + 1 + 1 = Len(q) + 1 /\ 1 \in 1..Len(q)
      BY <1>1
    <3>2. None(r, b, Len(r) + 1) => d2.text = Closed \/ d2 = e
      <4> SUFFICES ASSUME None(r, b, Len(r) + 1) PROVE d2.text = Closed \/ d2 = e
        OBVIOUS
      <4>1. Before(q, b, 1, Len(q) + 1)
        BY <2>3, <3>1
      <4>2. Says(q[1]) = e
        BY <2>6, <3>1, <4>1 DEF Leads
      <4> QED BY <1>1, <1>4, <1>6, <4>2
    <3>3. ASSUME NEW i \in 1..Len(r), Before(r, b, i, Len(r) + 1)
          PROVE  r[i].type # "close" /\ Says(r[i]) = e
      <4>1. Before(q, b, i + 1, Len(q) + 1)
        BY <2>4, <3>1, <3>3
      <4> QED BY <1>1, <2>6, <4>1 DEF Leads
    <3> QED BY <3>2, <3>3 DEF Leads
  <2> QED BY <1>4, <2>5, <2>6 DEF r, m, d2
<1> QED BY <1>5, <1>6

\* A process that just started.
LEMMA Blank ==
  ASSUME NEW d, d.text = Closed, NEW b, NEW e
  PROVE  ChainFits(d, <<>>, b) /\ Leads(d, <<>>, b, e)
BY DEF ChainFits, Leads, Closed

-----------------------------------------------------------------------------
(* The invariant. *)

Kept(d) == [text |-> d.last, version |-> d.version]

\* What a process holds fits what is on its way to it ...
Told(T, b) == T.docs[b].text # Garbled /\ ChainFits(T.docs[b], T.queue, b)

\* ... and that ends at what the editor believes it was told.
Follows(T, b, d) == d.opened => Leads(T.docs[b], T.queue, b, Kept(d))

\* Every server with the document open is served by the same journal.
JournalInv ==
  \A b \in Buffers, k \in Keys : doc[b][k].opened =>
    doc[b][k].bound /\ k \in ed.runtime /\ doc[b][k].last = jrn[b].from

EndedInv ==
  \A t \in DOMAIN tasks : Ended(t) => tasks[t].queue = <<>> /\ tasks[t].docs = Nothing

CopyInv ==
  \A t \in DOMAIN tasks, b \in Buffers :
    /\ Told(tasks[t], b)
    /\ servers[tasks[t].key] = t => Follows(tasks[t], b, doc[b][tasks[t].key])

SyncInv == TypeInv /\ JournalInv /\ EndedInv /\ CopyInv

LEMMA TaskTyped ==
  ASSUME NEW T \in Task
  PROVE  /\ T.key \in Keys /\ T.queue \in Seq(Msg) /\ T.docs \in [Buffers -> Copy]
         /\ T.failures \in Nat /\ T.phase \in {"start", "serve", "backoff", "ended"}
<1> HIDE DEF Msg, Copy
<1> QED BY DEF Task

LEMMA TasksTyped ==
  ASSUME TypeInv
  PROVE  /\ tasks \in Seq(Task) /\ DOMAIN tasks = 1..Len(tasks) /\ Len(tasks) \in Nat
         /\ \A t \in 1..Len(tasks) : tasks[t] \in Task /\ tasks[t].key \in Keys
              /\ tasks[t].queue \in Seq(Msg) /\ tasks[t].docs \in [Buffers -> Copy]
<1>1. tasks \in Seq(Task)
  BY DEF TypeInv
<1>2. \A t \in 1..Len(tasks) : tasks[t] \in Task
  BY <1>1
<1> QED BY <1>1, <1>2, TaskTyped

LEMMA NewTaskTyped ==
  ASSUME NEW k \in Keys
  PROVE  /\ NewTask(k) \in Task /\ NewTask(k).key = k
         /\ NewTask(k).queue = <<>> /\ NewTask(k).phase = "start"
         /\ NewTask(k).docs = Nothing
         /\ \A b \in Buffers : Nothing[b] \in Copy /\ Nothing[b].text = Closed
<1>1. Nothing \in [Buffers -> Copy] /\ \A b \in Buffers : Nothing[b].text = Closed
  BY DEF Nothing, Copy, Texts
<1>2. <<>> \in Seq(Msg)
  OBVIOUS
<1> QED BY <1>1, <1>2 DEF NewTask, Task

\* The tasks of the next state, and perhaps a new one.
LEMMA CopyStep ==
  ASSUME SyncInv, TypeInv', JournalInv',
         NEW S \in Seq(Task), Len(S) = Len(tasks),
         \A t \in 1..Len(S) : S[t].key = tasks[t].key,
         \A t \in 1..Len(S) : S[t].phase = "ended" =>
           S[t].queue = <<>> /\ S[t].docs = Nothing,
         \A t \in 1..Len(S), b \in Buffers :
           /\ Told(S[t], b)
           /\ servers'[S[t].key] = t => Follows(S[t], b, doc'[b][S[t].key]),
         tasks' = S \/ \E k \in Keys : tasks' = Append(S, NewTask(k))
  PROVE  SyncInv'
<1>1. CASE tasks' = S
  BY <1>1 DEF SyncInv, EndedInv, Ended, CopyInv
<1>2. CASE \E k \in Keys : tasks' = Append(S, NewTask(k))
  <2>1. PICK k \in Keys : tasks' = Append(S, NewTask(k))
    BY <1>2
  <2>2. /\ Len(tasks') = Len(S) + 1 /\ DOMAIN tasks' = 1..(Len(S) + 1)
        /\ \A t \in 1..Len(S) : tasks'[t] = S[t]
        /\ tasks'[Len(S) + 1] = NewTask(k)
    BY <2>1
  <2>3. /\ NewTask(k).queue = <<>> /\ NewTask(k).phase = "start"
        /\ \A b \in Buffers : NewTask(k).docs[b].text = Closed
    BY NewTaskTyped
  <2>4. EndedInv'
    BY <2>2, <2>3 DEF EndedInv, Ended
  <2>5. \A b \in Buffers : \A d : Told(NewTask(k), b) /\ Follows(NewTask(k), b, d)
    BY <2>3, Blank DEF Told, Follows, Closed, Garbled
  <2>6. CopyInv'
    <3> SUFFICES ASSUME NEW t \in 1..(Len(S) + 1), NEW b \in Buffers
                 PROVE  /\ Told(tasks'[t], b)
                        /\ servers'[tasks'[t].key] = t => Follows(tasks'[t], b, doc'[b][tasks'[t].key])
      BY <2>2 DEF CopyInv
    <3>1. CASE t \in 1..Len(S)
      BY <2>2, <3>1
    <3>2. CASE t = Len(S) + 1
      BY <2>2, <2>5, <3>2
    <3> QED BY <3>1, <3>2
  <2> QED BY <2>4, <2>6 DEF SyncInv
<1> QED BY <1>1, <1>2

\* Nothing is sent, and no document is newly counted as open.
LEMMA QuietStep ==
  ASSUME SyncInv, TypeInv', JournalInv', servers' = servers,
         \A b \in Buffers, k \in Keys : doc'[b][k].opened =>
           doc[b][k].opened /\ Kept(doc'[b][k]) = Kept(doc[b][k]),
         tasks' = tasks
  PROVE  SyncInv'
<1>1. tasks \in Seq(Task) /\ \A t \in 1..Len(tasks) : tasks[t].key \in Keys
  BY TasksTyped DEF SyncInv
<1>2. \A t \in 1..Len(tasks), b \in Buffers :
        /\ Told(tasks[t], b)
        /\ servers'[tasks[t].key] = t => Follows(tasks[t], b, doc'[b][tasks[t].key])
  BY <1>1 DEF SyncInv, CopyInv, Follows
<1>3. \A t \in 1..Len(tasks) : tasks[t].phase = "ended" =>
        tasks[t].queue = <<>> /\ tasks[t].docs = Nothing
  BY <1>1 DEF SyncInv, EndedInv, Ended
<1> QED BY <1>1, <1>2, <1>3, CopyStep

\* run_supervisor, task by task.
LEMMA SentIs ==
  ASSUME TypeInv, NEW M \in [Keys -> Seq(Msg)]
  PROVE  /\ Sent(M) \in Seq(Task) /\ Len(Sent(M)) = Len(tasks)
         /\ \A t \in 1..Len(tasks) :
              /\ Sent(M)[t].key = tasks[t].key /\ Sent(M)[t].docs = tasks[t].docs
              /\ Sent(M)[t].phase = tasks[t].phase
              /\ Sent(M)[t].queue = IF servers[tasks[t].key] = t /\ ~Ended(t)
                                    THEN tasks[t].queue \o M[tasks[t].key]
                                    ELSE tasks[t].queue
<1>1. tasks \in Seq(Task) /\ DOMAIN tasks = 1..Len(tasks) /\ Len(tasks) \in Nat
  BY DEF TypeInv
<1>2. ASSUME NEW t \in 1..Len(tasks)
      PROVE  /\ Sent(M)[t] \in Task
             /\ Sent(M)[t].key = tasks[t].key /\ Sent(M)[t].docs = tasks[t].docs
             /\ Sent(M)[t].phase = tasks[t].phase
             /\ Sent(M)[t].queue = IF servers[tasks[t].key] = t /\ ~Ended(t)
                                   THEN tasks[t].queue \o M[tasks[t].key]
                                   ELSE tasks[t].queue
  <2>1. tasks[t] \in Task /\ tasks[t].queue \in Seq(Msg) /\ M[tasks[t].key] \in Seq(Msg)
    BY TasksTyped
  <2>2. Sent(M)[t] = IF servers[tasks[t].key] = t /\ ~Ended(t)
          THEN [tasks[t] EXCEPT !.queue = @ \o M[tasks[t].key]] ELSE tasks[t]
    BY <1>1 DEF Sent
  <2>3. tasks[t].queue \o M[tasks[t].key] \in Seq(Msg)
    BY <2>1
  <2> QED BY <2>1, <2>2, <2>3 DEF Task
<1>3. DOMAIN Sent(M) = 1..Len(tasks)
  BY <1>1 DEF Sent
<1>4. Sent(M) = [t \in 1..Len(tasks) |-> Sent(M)[t]]
  BY <1>1 DEF Sent
<1>5. Sent(M) \in Seq(Task) /\ Len(Sent(M)) = Len(tasks)
  BY <1>1, <1>2, <1>4, SMT
<1> QED BY <1>2, <1>5

\* A task that is sent only closes of b, or nothing on b.
LEMMA SentCloses ==
  ASSUME SyncInv, NEW M \in [Keys -> Seq(Msg)], NEW b \in Buffers,
         NEW t \in 1..Len(tasks),
         \A i \in 1..Len(M[tasks[t].key]) :
           IsNote(M[tasks[t].key][i], b) => M[tasks[t].key][i].type = "close"
  PROVE  Told(Sent(M)[t], b)
<1>1. tasks[t] \in Task /\ tasks[t].queue \in Seq(Msg) /\ M[tasks[t].key] \in Seq(Msg)
  BY TasksTyped DEF SyncInv
<1>2. Told(tasks[t], b)
  BY DEF SyncInv, TypeInv, CopyInv
<1> QED BY <1>1, <1>2, SentIs, ChainConcat DEF Told, SyncInv

LEMMA SentNothing ==
  ASSUME SyncInv, NEW M \in [Keys -> Seq(Msg)], NEW b \in Buffers,
         NEW t \in 1..Len(tasks),
         \A i \in 1..Len(M[tasks[t].key]) : ~IsNote(M[tasks[t].key][i], b)
  PROVE  /\ Told(Sent(M)[t], b)
         /\ servers[tasks[t].key] = t => Follows(Sent(M)[t], b, doc[b][tasks[t].key])
<1>1. tasks[t] \in Task /\ tasks[t].queue \in Seq(Msg) /\ M[tasks[t].key] \in Seq(Msg)
  BY TasksTyped DEF SyncInv
<1>2. servers[tasks[t].key] = t => Follows(tasks[t], b, doc[b][tasks[t].key])
  BY DEF SyncInv, TypeInv, CopyInv
<1>3. \A i \in 1..Len(M[tasks[t].key]) : ~IsState(M[tasks[t].key][i], b)
  BY DEF IsState
<1>4. servers[tasks[t].key] = t => Follows(Sent(M)[t], b, doc[b][tasks[t].key])
  BY <1>1, <1>2, <1>3, SentIs, LeadsConcat, SMTT(30) DEF Follows, SyncInv
<1> QED BY <1>4, SentCloses

LEMMA EndedStay ==
  ASSUME SyncInv, NEW M \in [Keys -> Seq(Msg)], NEW t \in 1..Len(tasks),
         Sent(M)[t].phase = "ended"
  PROVE  Sent(M)[t].queue = <<>> /\ Sent(M)[t].docs = Nothing
<1>1. t \in DOMAIN tasks
  BY DEF SyncInv, TypeInv
<1> QED BY <1>1, SentIs DEF SyncInv, EndedInv, Ended

-----------------------------------------------------------------------------
(* What the editor sends. *)

LEMMA CloseTyped ==
  ASSUME NEW b \in Buffers
  PROVE  Note("close", b) \in Msg /\ Note("close", b).type = "close" /\ Note("close", b).buf = b
BY DEF Note, Msg

LEMMA ShutdownTyped ==
  ASSUME NEW k \in Keys
  PROVE  /\ ToKey(k, [type |-> "shutdown"]) \in [Keys -> Seq(Msg)]
         /\ \A j \in Keys, b \in Buffers : \A i \in 1..Len(ToKey(k, [type |-> "shutdown"])[j]) :
              ~IsNote(ToKey(k, [type |-> "shutdown"])[j][i], b)
<1> DEFINE m == [type |-> "shutdown"]
<1>1. m \in Msg /\ \A b \in Buffers : ~IsNote(m, b)
  BY DEF Msg, IsNote
<1> HIDE DEF m
<1>2. <<m>> \in Seq(Msg) /\ <<>> \in Seq(Msg) /\ Len(<<m>>) = 1 /\ <<m>>[1] = m
  BY <1>1
<1>3. ToKey(k, m) \in [Keys -> Seq(Msg)]
  BY <1>2 DEF ToKey
<1>4. \A j \in Keys : ToKey(k, m)[j] = <<m>> \/ ToKey(k, m)[j] = <<>>
  BY DEF ToKey
<1>5. \A j \in Keys : \A i \in 1..Len(ToKey(k, m)[j]) : ToKey(k, m)[j][i] = m
  BY <1>2, <1>4
<1> QED BY <1>1, <1>3, <1>5 DEF m

\* A finite set can be listed.
LEMMA SetToSeqLists ==
  ASSUME NEW S, IsFiniteSet(S)
  PROVE  SetToSeq(S) \in Seq(S)
<1> DEFINE n == Cardinality(S)
<1>1. n \in Nat /\ Bijection(1..n, S) # {}
  BY FS_CardinalityType DEF ExistsBijection
<1>2. \E f \in [1..n -> S] : IsInjective(f)
  BY <1>1 DEF Bijection, Injection
<1>3. SetToSeq(S) \in [1..n -> S]
  BY <1>2 DEF SetToSeq
<1> QED BY <1>1, <1>3

LEMMA ClosesTyped ==
  ASSUME TypeInv, NEW k \in Keys
  PROVE  /\ Closes(k) \in Seq(Msg)
         /\ \A i \in 1..Len(Closes(k)) :
              /\ Closes(k)[i].type = "close"
              /\ \A b \in ed.open : ~IsNote(Closes(k)[i], b)
<1> DEFINE S    == {b \in Buffers \ ed.open : doc[b][k].opened}
           dead == SetToSeq(S)
<1>1. IsFiniteSet(S)
  BY DocSyncAssumption, FS_Subset
<1>2. dead \in Seq(S)
  BY <1>1, SetToSeqLists
<1>3. Closes(k) = [i \in DOMAIN dead |-> Note("close", dead[i])]
  BY DEF Closes
<1> HIDE DEF dead
<1>4. /\ Len(dead) \in Nat /\ DOMAIN dead = 1..Len(dead)
      /\ \A i \in 1..Len(dead) : dead[i] \in Buffers /\ dead[i] \notin ed.open
  BY <1>2
<1>5. \A i \in 1..Len(dead) :
        /\ Note("close", dead[i]) \in Msg /\ Note("close", dead[i]).type = "close"
        /\ Note("close", dead[i]).buf = dead[i]
  BY <1>4, CloseTyped
<1>6. Closes(k) \in Seq(Msg) /\ Len(Closes(k)) = Len(dead)
  BY <1>3, <1>4, <1>5
<1> QED BY <1>3, <1>4, <1>5, <1>6 DEF IsNote

LEMMA OpeningTyped ==
  ASSUME TypeInv, NEW b \in Buffers
  PROVE  /\ Opening(b) \in Msg /\ Opening(b).type = "open" /\ Opening(b).buf = b
         /\ Says(Opening(b)) = [text |-> text[b], version |-> 1]
<1>1. text[b] \in Nat
  BY DEF TypeInv
<1> QED BY <1>1 DEF Opening, Msg, Says

LEMMA SavingTyped ==
  ASSUME TypeInv, NEW b \in Buffers
  PROVE  /\ Saving(b) \in Msg /\ Saving(b).type = "save" /\ Saving(b).buf = b
         /\ Saving(b).to = text[b]
<1>1. text[b] \in Nat
  BY DEF TypeInv
<1> QED BY <1>1 DEF Saving, Msg

LEMMA ChangeTyped ==
  ASSUME TypeInv, NEW b \in Buffers, NEW k \in Keys, NEW to \in Nat, NEW whole
  PROVE  /\ Change(b, k, to, whole) \in Msg /\ Change(b, k, to, whole).type = "change"
         /\ Change(b, k, to, whole).buf = b /\ Change(b, k, to, whole).to = to
         /\ Change(b, k, to, whole).version = doc[b][k].version + 1
         /\ Change(b, k, to, whole).from \in {Closed, jrn[b].from}
         /\ Says(Change(b, k, to, whole)) = [text |-> to, version |-> doc[b][k].version + 1]
<1>1. doc[b][k] \in Doc /\ jrn[b] \in [from : Nat, resync : BOOLEAN]
  BY DEF TypeInv
<1>2. doc[b][k].version \in Nat /\ jrn[b].from \in Nat
  BY <1>1 DEF Doc
<1> DEFINE from == IF whole \/ SyncKind[k] = "full" THEN Closed ELSE jrn[b].from
<1>3. from \in {Closed, jrn[b].from}
  OBVIOUS
<1>4. Change(b, k, to, whole) =
        [type |-> "change", buf |-> b, version |-> doc[b][k].version + 1, to |-> to,
         from |-> from]
  BY DEF Change
<1> HIDE DEF from
<1> QED BY <1>2, <1>3, <1>4 DEF Msg, Says

\* A change after what the editor believes the server was told fits.
LEMMA ChangeFits ==
  ASSUME TypeInv, NEW b \in Buffers, NEW k \in Keys, NEW to \in Nat, NEW whole,
         doc[b][k].last = jrn[b].from
  PROVE  Fits(Kept(doc[b][k]), Change(b, k, to, whole))
BY ChangeTyped DEF Fits, Kept

LEMMA SyncedTyped ==
  ASSUME TypeInv, NEW b \in Buffers, NEW k \in Keys
  PROVE  Synced(b, k) \in Doc
<1> DEFINE d == doc[b][k]
<1>1. d \in Doc /\ text[b] \in Nat /\ saves[b] \in Nat
  BY DEF TypeInv
<1> DEFINE v == IF Wants(b, k) THEN d.version + 1 ELSE d.version
           l == IF Wants(b, k) THEN text[b] ELSE d.last
<1>2. v \in Nat /\ l \in Nat
  BY <1>1 DEF Doc
<1>3. Synced(b, k) \in {d, [d EXCEPT !.opened = TRUE, !.version = 1, !.last = text[b],
                                   !.save = saves[b]],
                       [d EXCEPT !.version = v, !.last = l, !.save = saves[b]]}
  BY DEF Synced
<1> HIDE DEF d, v, l
<1>4. /\ [d EXCEPT !.opened = TRUE, !.version = 1, !.last = text[b], !.save = saves[b]] \in Doc
      /\ [d EXCEPT !.version = v, !.last = l, !.save = saves[b]] \in Doc
  BY <1>1, <1>2 DEF Doc
<1> QED BY <1>1, <1>3, <1>4

\* What a redraw sends of one document, after what was sent before.
LEMMA NotesFit ==
  ASSUME TypeInv, JournalInv, NEW b \in Buffers, NEW k \in Keys,
         NEW q \in Seq(Msg), NEW d, ChainFits(d, q, b),
         doc[b][k].opened => Leads(d, q, b, Kept(doc[b][k]))
  PROVE  /\ Notes(b, k) \in Seq(Msg)
         /\ \A i \in 1..Len(Notes(b, k)) : Notes(b, k)[i].buf = b
         /\ ChainFits(d, q \o Notes(b, k), b)
         /\ Synced(b, k).opened => Leads(d, q \o Notes(b, k), b, Kept(Synced(b, k)))
         /\ Synced(b, k).opened => /\ Synced(b, k).bound /\ k \in ed.runtime
                                   /\ Synced(b, k).last = text[b]
<1> DEFINE D == doc[b][k]
           C == Change(b, k, text[b], jrn[b].resync)
           S == Saving(b)
<1>1. D \in Doc /\ text[b] \in Nat /\ saves[b] \in Nat
  BY DEF TypeInv
<1>2. D.opened => D.bound /\ k \in ed.runtime /\ D.last = jrn[b].from
  BY DEF JournalInv
<1>3. q \o <<>> = q /\ <<>> \in Seq(Msg) /\ Len(<<>>) = 0
  OBVIOUS
<1>4. CASE ~D.bound \/ k \notin ed.runtime
  <2>1. Notes(b, k) = <<>> /\ Synced(b, k) = D
    BY <1>4 DEF Notes, Synced
  <2> QED BY <1>2, <1>3, <1>4, <2>1
<1>5. CASE D.bound /\ k \in ed.runtime /\ ~D.opened
  <2> DEFINE O == Opening(b)
  <2>1. /\ Notes(b, k) = <<O>>
        /\ Synced(b, k) = [D EXCEPT !.opened = TRUE, !.version = 1, !.last = text[b],
                                    !.save = saves[b]]
    BY <1>5 DEF Notes, Synced
  <2>2. /\ Synced(b, k).opened /\ Synced(b, k).bound /\ Synced(b, k).last = text[b]
        /\ Synced(b, k).version = 1
    BY <1>1, <1>5, <2>1 DEF Doc
  <2>3. /\ O \in Msg /\ O.type = "open" /\ O.buf = b
        /\ Says(O) = [text |-> text[b], version |-> 1]
    BY OpeningTyped
  <2> HIDE DEF O
  <2>4. ChainFits(d, Append(q, O), b)
    BY <2>3, ChainAppend
  <2>5. Leads(d, Append(q, O), b, Says(O))
    BY <2>3, LeadsAppend DEF IsState, IsNote
  <2>6. q \o <<O>> = Append(q, O) /\ <<O>> \in Seq(Msg) /\ Len(<<O>>) = 1 /\ <<O>>[1] = O
    BY <2>3
  <2>7. Kept(Synced(b, k)) = Says(O)
    BY <2>2, <2>3 DEF Kept
  <2>8. /\ q \o Notes(b, k) = Append(q, O) /\ Notes(b, k) \in Seq(Msg)
        /\ \A i \in 1..Len(Notes(b, k)) : Notes(b, k)[i].buf = b
    BY <2>1, <2>3, <2>6
  <2> QED BY <1>5, <2>2, <2>4, <2>5, <2>7, <2>8
<1>6. CASE D.opened
  <2>1. D.bound /\ k \in ed.runtime /\ D.last = jrn[b].from
    BY <1>2, <1>6
  <2> DEFINE N1 == IF Wants(b, k) THEN <<C>> ELSE <<>>
             N2 == IF D.save # saves[b] THEN <<S>> ELSE <<>>
             e  == [text |-> text[b], version |-> Synced(b, k).version]
  <2>2. /\ Notes(b, k) = N1 \o N2
        /\ Synced(b, k) = [D EXCEPT !.version = IF Wants(b, k) THEN @ + 1 ELSE @,
                                    !.last = IF Wants(b, k) THEN text[b] ELSE @,
                                    !.save = saves[b]]
    BY <1>6, <2>1 DEF Notes, Synced
  <2>3. /\ Synced(b, k).bound /\ Synced(b, k).opened
        /\ Synced(b, k).version = IF Wants(b, k) THEN D.version + 1 ELSE D.version
        /\ Synced(b, k).last = text[b]
    BY <1>1, <1>6, <2>1, <2>2 DEF Wants, Doc
  <2>4. /\ C \in Msg /\ C.type = "change" /\ C.buf = b
        /\ Says(C) = [text |-> text[b], version |-> D.version + 1]
        /\ Fits(Kept(D), C)
    BY <1>1, <2>1, ChangeTyped, ChangeFits
  <2>5. S \in Msg /\ S.type = "save" /\ S.buf = b /\ S.to = text[b]
    BY SavingTyped
  <2> HIDE DEF C, S
  <2>6. ChainFits(d, q \o N1, b) /\ Leads(d, q \o N1, b, e) /\ q \o N1 \in Seq(Msg)
    <3>1. CASE Wants(b, k)
      <4>1. q \o N1 = Append(q, C) /\ Append(q, C) \in Seq(Msg)
        BY <2>4, <3>1
      <4>2. ChainFits(d, Append(q, C), b)
        BY <1>6, <2>4, ChainAppend
      <4>3. Leads(d, Append(q, C), b, Says(C))
        BY <2>4, LeadsAppend DEF IsState, IsNote
      <4> QED BY <2>3, <2>4, <3>1, <4>1, <4>2, <4>3
    <3>2. CASE ~Wants(b, k)
      <4>1. q \o N1 = q
        BY <3>2
      <4>2. e = Kept(D)
        BY <2>3, <3>2 DEF Kept, Wants
      <4> QED BY <1>6, <4>1, <4>2
    <3> QED BY <3>1, <3>2
  <2>7. ChainFits(d, (q \o N1) \o N2, b) /\ Leads(d, (q \o N1) \o N2, b, e)
    <3> DEFINE p == q \o N1
    <3> HIDE DEF N1
    <3>1. CASE D.save # saves[b]
      <4>1. p \o N2 = Append(p, S)
        BY <2>5, <2>6, <3>1
      <4>2. Fits(e, S) /\ ~IsState(S, b)
        BY <2>5 DEF Fits, IsState
      <4>3. ChainFits(d, Append(p, S), b)
        BY <2>5, <2>6, <4>2, ChainAppend
      <4>4. Leads(d, Append(p, S), b, e)
        BY <2>5, <2>6, <4>2, LeadsAppendOther
      <4> QED BY <4>1, <4>3, <4>4
    <3>2. CASE ~(D.save # saves[b])
      <4>1. p \o N2 = p
        BY <2>6, <3>2
      <4> QED BY <2>6, <4>1
    <3> QED BY <3>1, <3>2
  <2>8. N1 \in Seq(Msg) /\ N2 \in Seq(Msg)
    BY <2>4, <2>5
  <2>9. (q \o N1) \o N2 = q \o Notes(b, k)
    <3> HIDE DEF N1, N2
    <3> QED BY <2>2, <2>8
  <2>10. \A i \in 1..Len(Notes(b, k)) : Notes(b, k)[i].buf = b
    <3>1. \A i \in 1..Len(N1) : N1[i].buf = b
      BY <2>4
    <3>2. \A i \in 1..Len(N2) : N2[i].buf = b
      BY <2>5
    <3> HIDE DEF N1, N2
    <3> QED BY <2>2, <2>8, <3>1, <3>2
  <2>11. e = Kept(Synced(b, k))
    BY <2>3 DEF Kept
  <2>12. Notes(b, k) \in Seq(Msg)
    BY <2>2, <2>8
  <2> QED BY <2>1, <2>3, <2>7, <2>9, <2>10, <2>11, <2>12
<1> QED BY <1>1, <1>4, <1>5, <1>6 DEF Doc

-----------------------------------------------------------------------------
(* The steps of the editor. *)

Stays == text' = text /\ jrn' = jrn /\ saves' = saves

\* A document that is marked in a way the servers do not see.
LEMMA DocFacts ==
  ASSUME TypeInv, NEW b \in Buffers, NEW k \in Keys
  PROVE  /\ doc[b][k] \in Doc /\ Unopened(doc[b][k]) \in Doc
         /\ [doc[b][k] EXCEPT !.bound = TRUE] \in Doc
         /\ NoDoc \in Doc /\ [NoDoc EXCEPT !.bound = doc[b][k].bound] \in Doc
         /\ ~Unopened(doc[b][k]).opened /\ ~NoDoc.opened
         /\ ~[NoDoc EXCEPT !.bound = doc[b][k].bound].opened
         /\ [doc[b][k] EXCEPT !.bound = TRUE].bound
         /\ [doc[b][k] EXCEPT !.bound = TRUE].opened = doc[b][k].opened
         /\ [doc[b][k] EXCEPT !.bound = TRUE].last = doc[b][k].last
         /\ [doc[b][k] EXCEPT !.bound = TRUE].version = doc[b][k].version
<1>1. doc[b][k] \in Doc
  BY DEF TypeInv
<1> DEFINE d == doc[b][k]
<1> HIDE DEF d
<1>2. d \in Doc
  BY <1>1 DEF d
<1>3. /\ Unopened(d) \in Doc /\ [d EXCEPT !.bound = TRUE] \in Doc
      /\ NoDoc \in Doc /\ [NoDoc EXCEPT !.bound = d.bound] \in Doc
      /\ ~Unopened(d).opened /\ ~NoDoc.opened /\ ~[NoDoc EXCEPT !.bound = d.bound].opened
      /\ [d EXCEPT !.bound = TRUE].bound
      /\ [d EXCEPT !.bound = TRUE].opened = d.opened
      /\ [d EXCEPT !.bound = TRUE].last = d.last
      /\ [d EXCEPT !.bound = TRUE].version = d.version
  BY <1>2 DEF Doc, Unopened, NoDoc
<1> QED BY <1>2, <1>3 DEF d

LEMMA EnsureTyped ==
  ASSUME TypeInv, NEW k \in Keys, NEW S \in Seq(Task), Len(S) = Len(tasks),
         \A t \in 1..Len(S) : S[t].key = tasks[t].key,
         tasks' = Append(S, NewTask(k)), servers' = [servers EXCEPT ![k] = Len(tasks) + 1]
  PROVE  /\ tasks' \in Seq(Task) /\ servers' \in [Keys -> Nat]
         /\ \A j \in Keys : servers'[j] # 0 =>
              servers'[j] \in DOMAIN tasks' /\ tasks'[servers'[j]].key = j
<1>1. NewTask(k) \in Task /\ NewTask(k).key = k
  BY NewTaskTyped
<1>2. Len(tasks) \in Nat /\ DOMAIN tasks = 1..Len(tasks)
  BY TasksTyped
<1>3. /\ tasks' \in Seq(Task) /\ DOMAIN tasks' = 1..(Len(S) + 1)
      /\ \A t \in 1..Len(S) : tasks'[t] = S[t]
      /\ tasks'[Len(S) + 1] = NewTask(k)
  BY <1>1
<1>4. /\ servers' \in [Keys -> Nat] /\ servers'[k] = Len(tasks) + 1
      /\ \A j \in Keys \ {k} : servers'[j] = servers[j]
  BY <1>2 DEF TypeInv
<1>5. \A j \in Keys : servers[j] # 0 =>
        servers[j] \in 1..Len(tasks) /\ tasks[servers[j]].key = j
  BY <1>2 DEF TypeInv
<1> QED BY <1>1, <1>2, <1>3, <1>4, <1>5

LEMMA StartStep ==
  ASSUME SyncInv, NEW b \in Buffers, NEW k \in Keys, Start(b, k) PROVE SyncInv'
<1>0. TypeInv /\ JournalInv
  BY DEF SyncInv
<1>1. /\ Stays /\ doc' = [doc EXCEPT ![b][k].bound = TRUE]
      /\ \/ ed' = ed /\ servers' = servers /\ tasks' = tasks
         \/ ed' = [ed EXCEPT !.ensured = @ \union {k}] /\ Ensure(k)
  BY DEF Start, Stays, content
<1>2. doc' \in [Buffers -> [Keys -> Doc]]
      /\ \A c \in Buffers, j \in Keys :
           /\ doc'[c][j].opened = doc[c][j].opened /\ doc'[c][j].last = doc[c][j].last
           /\ doc'[c][j].version = doc[c][j].version
           /\ doc[c][j].bound => doc'[c][j].bound
  <2> DEFINE x == [doc[b][k] EXCEPT !.bound = TRUE]
  <2>1. doc \in [Buffers -> [Keys -> Doc]] /\ x \in Doc
    BY <1>0, DocFacts DEF TypeInv
  <2>2. doc' = [doc EXCEPT ![b] = [doc[b] EXCEPT ![k] = x]]
    BY <1>1
  <2> HIDE DEF x
  <2>3. doc' \in [Buffers -> [Keys -> Doc]]
    BY <2>1, <2>2
  <2>4. \A c \in Buffers, j \in Keys :
          doc'[c][j] = IF c = b /\ j = k THEN x ELSE doc[c][j]
    BY <2>1, <2>2
  <2>5. /\ x.bound /\ x.opened = doc[b][k].opened
        /\ x.last = doc[b][k].last /\ x.version = doc[b][k].version
    BY <1>0, DocFacts DEF x
  <2> QED BY <2>3, <2>4, <2>5
<1>3. /\ ed' \in [cur : Buffers, open : SUBSET Buffers, runtime : SUBSET Keys,
                  ensured : SUBSET Keys]
      /\ ed'.cur = ed.cur /\ ed'.open = ed.open /\ ed'.runtime = ed.runtime
  <2>1. ed' = ed \/ ed' = [ed EXCEPT !.ensured = @ \union {k}]
    BY <1>1
  <2>2. ed \in [cur : Buffers, open : SUBSET Buffers, runtime : SUBSET Keys,
                ensured : SUBSET Keys]
    BY <1>0 DEF TypeInv
  <2>3. ed.ensured \union {k} \in SUBSET Keys
    BY <2>2
  <2>4. CASE ed' = [ed EXCEPT !.ensured = @ \union {k}]
    BY <2>2, <2>3, <2>4
  <2> QED BY <2>1, <2>2, <2>4
<1>4. JournalInv'
  BY <1>0, <1>1, <1>2, <1>3 DEF JournalInv, Stays
<1>5. \A c \in Buffers, j \in Keys : Kept(doc'[c][j]) = Kept(doc[c][j])
  BY <1>2 DEF Kept
<1>6. CASE servers' = servers /\ tasks' = tasks
  <2>1. TypeInv'
    BY <1>0, <1>1, <1>2, <1>3, <1>6 DEF TypeInv, Stays
  <2> QED BY <1>2, <1>4, <1>5, <1>6, <2>1, QuietStep
<1>7. CASE tasks' = Append(tasks, NewTask(k)) /\ servers' = [servers EXCEPT ![k] = Len(tasks) + 1]
  <2>0. tasks \in Seq(Task)
    BY <1>0 DEF TypeInv
  <2>1. TypeInv'
    <3>1. /\ tasks' \in Seq(Task) /\ servers' \in [Keys -> Nat]
          /\ \A j \in Keys : servers'[j] # 0 =>
               servers'[j] \in DOMAIN tasks' /\ tasks'[servers'[j]].key = j
      BY <1>0, <1>7, <2>0, EnsureTyped
    <3> QED BY <1>0, <1>1, <1>2, <1>3, <3>1 DEF TypeInv, Stays
  <2>2. ASSUME NEW t \in 1..Len(tasks), servers'[tasks[t].key] = t
        PROVE  servers[tasks[t].key] = t
    BY <1>0, <1>7, <2>2, TasksTyped DEF TypeInv
  <2>3. \A t \in 1..Len(tasks), c \in Buffers :
          /\ Told(tasks[t], c)
          /\ servers'[tasks[t].key] = t => Follows(tasks[t], c, doc'[c][tasks[t].key])
    BY <1>0, <1>2, <1>5, <2>2, TasksTyped, ZenonT(40) DEF SyncInv, CopyInv, Follows
  <2>4. \A t \in 1..Len(tasks) : tasks[t].phase = "ended" =>
          tasks[t].queue = <<>> /\ tasks[t].docs = Nothing
    BY <1>0, TasksTyped DEF SyncInv, EndedInv, Ended
  <2> QED BY <1>4, <1>7, <2>0, <2>1, <2>3, <2>4, CopyStep
<1> QED BY <1>1, <1>6, <1>7 DEF Ensure

\* What changes neither the documents nor the servers.
LEMMA ContentStep ==
  ASSUME SyncInv, UNCHANGED <<doc, servers, tasks>>, ed'.runtime = ed.runtime,
         ed' \in [cur : Buffers, open : SUBSET Buffers, runtime : SUBSET Keys,
                  ensured : SUBSET Keys],
         ed'.cur \in ed'.open,
         text' \in [Buffers -> Nat], saves' \in [Buffers -> Nat],
         jrn' \in [Buffers -> [from : Nat, resync : BOOLEAN]],
         \A b \in Buffers, k \in Keys : doc[b][k].opened => jrn'[b].from = jrn[b].from
  PROVE  SyncInv'
<1>1. TypeInv'
  BY DEF SyncInv, TypeInv
<1>2. JournalInv'
  BY DEF SyncInv, JournalInv
<1> QED BY <1>1, <1>2, QuietStep

LEMMA EditStep ==
  ASSUME SyncInv, NEW b \in Buffers, NEW whole \in BOOLEAN, Edit(b, whole) PROVE SyncInv'
<1>0. TypeInv
  BY DEF SyncInv
<1>1. text' \in [Buffers -> Nat] /\ saves' = saves /\ ed' = ed
  BY <1>0 DEF Edit, TypeInv
<1>2. jrn' \in [Buffers -> [from : Nat, resync : BOOLEAN]]
      /\ \A c \in Buffers : jrn'[c].from = jrn[c].from
  BY <1>0 DEF Edit, TypeInv
<1>3. UNCHANGED <<doc, servers, tasks>>
  BY DEF Edit, manager
<1> QED BY <1>0, <1>1, <1>2, <1>3, ContentStep DEF TypeInv

LEMMA WriteStep ==
  ASSUME SyncInv, NEW b \in Buffers, Write(b) PROVE SyncInv'
<1>0. TypeInv
  BY DEF SyncInv
<1>1. saves' \in [Buffers -> Nat]
  BY <1>0 DEF Write, TypeInv
<1>2. UNCHANGED <<ed, text, jrn, doc, servers, tasks>>
  BY DEF Write, manager
<1> QED BY <1>0, <1>1, <1>2, ContentStep DEF TypeInv

LEMMA SwitchStep ==
  ASSUME SyncInv, NEW b \in Buffers, Switch(b) PROVE SyncInv'
<1>0. TypeInv
  BY DEF SyncInv
<1>1. UNCHANGED <<text, jrn, saves, doc, servers, tasks>> /\ b \in ed.open
      /\ ed' = [ed EXCEPT !.cur = b]
  BY DEF Switch, content, manager
<1> QED BY <1>0, <1>1, ContentStep DEF TypeInv

LEMMA DeleteStep ==
  ASSUME SyncInv, NEW b \in Buffers, Delete(b) PROVE SyncInv'
<1>0. TypeInv
  BY DEF SyncInv
<1> DEFINE next == IF ed.cur = b THEN CHOOSE o \in ed.open : o # b ELSE ed.cur
<1>1. /\ UNCHANGED <<text, jrn, saves, doc, servers, tasks>>
      /\ b \in ed.open /\ ed.open # {b}
      /\ ed' = [ed EXCEPT !.open = @ \ {b}, !.cur = next]
  BY DEF Delete, content, manager
<1>2. ed.open \subseteq Buffers /\ ed.cur \in ed.open
  BY <1>0 DEF TypeInv
<1>3. \E o \in ed.open : o # b
  BY <1>1
<1>4. next \in ed.open \ {b}
  BY <1>1, <1>2, <1>3
<1> HIDE DEF next
<1> QED BY <1>0, <1>1, <1>2, <1>4, ContentStep DEF TypeInv

LEMMA ReopenStep ==
  ASSUME SyncInv, NEW b \in Buffers, Reopen(b) PROVE SyncInv'
<1>0. TypeInv /\ JournalInv
  BY DEF SyncInv
<1>1. /\ UNCHANGED <<text, saves, doc, servers, tasks>>
      /\ ed' = [ed EXCEPT !.open = @ \union {b}, !.cur = b]
      /\ \A k \in Keys : ~doc[b][k].bound
      /\ jrn' = [jrn EXCEPT ![b] = Unread(b)]
  BY DEF Reopen, manager
<1>2. Unread(b) \in [from : Nat, resync : BOOLEAN]
  BY <1>0 DEF TypeInv, Unread
<1>3. jrn' \in [Buffers -> [from : Nat, resync : BOOLEAN]]
      /\ \A c \in Buffers \ {b} : jrn'[c] = jrn[c]
  BY <1>0, <1>1, <1>2 DEF TypeInv
<1>4. \A c \in Buffers, k \in Keys : doc[c][k].opened => jrn'[c].from = jrn[c].from
  BY <1>0, <1>1, <1>3 DEF JournalInv
<1> QED BY <1>0, <1>1, <1>3, <1>4, ContentStep DEF TypeInv

\* What the tasks are sent leaves the supervisor's table right.
LEMMA SentTyped ==
  ASSUME TypeInv, NEW M \in [Keys -> Seq(Msg)], tasks' = Sent(M),
         servers' \in [Keys -> Nat],
         \A k \in Keys : servers'[k] \in {0, servers[k]}
  PROVE  /\ tasks' \in Seq(Task)
         /\ \A k \in Keys : servers'[k] # 0 =>
              servers'[k] \in DOMAIN tasks' /\ tasks'[servers'[k]].key = k
<1>1. /\ tasks' \in Seq(Task) /\ DOMAIN tasks' = 1..Len(tasks)
      /\ \A t \in 1..Len(tasks) : tasks'[t].key = tasks[t].key
  BY SentIs
<1>2. \A k \in Keys : servers[k] # 0 =>
        servers[k] \in 1..Len(tasks) /\ tasks[servers[k]].key = k
  BY TasksTyped DEF TypeInv
<1> QED BY <1>1, <1>2

LEMMA MoveStep ==
  ASSUME SyncInv, NEW b \in Buffers, Move(b) PROVE SyncInv'
<1> DEFINE M == [k \in Keys |-> IF doc[b][k].opened THEN <<Note("close", b)>> ELSE <<>>]
<1>0. TypeInv /\ JournalInv
  BY DEF SyncInv
<1>1. /\ UNCHANGED <<ed, text, jrn, saves, servers>> /\ tasks' = Sent(M)
      /\ doc' = [doc EXCEPT ![b] = [k \in Keys |-> [NoDoc EXCEPT !.bound = doc[b][k].bound]]]
  BY DEF Move, content
<1>2. /\ doc' \in [Buffers -> [Keys -> Doc]]
      /\ \A k \in Keys : ~doc'[b][k].opened
      /\ \A c \in Buffers \ {b} : doc'[c] = doc[c]
  <2>1. [k \in Keys |-> [NoDoc EXCEPT !.bound = doc[b][k].bound]] \in [Keys -> Doc]
    BY <1>0, DocFacts
  <2>2. \A k \in Keys : ~[NoDoc EXCEPT !.bound = doc[b][k].bound].opened
    BY <1>0, DocFacts
  <2> QED BY <1>0, <1>1, <2>1, <2>2 DEF TypeInv
<1>3. M \in [Keys -> Seq(Msg)]
  BY CloseTyped
<1>4. \A k \in Keys, c \in Buffers : \A i \in 1..Len(M[k]) :
        /\ M[k][i].type = "close"
        /\ c # b => ~IsNote(M[k][i], c)
  BY CloseTyped DEF IsNote
<1> HIDE DEF M
<1>5. Sent(M) \in Seq(Task) /\ Len(Sent(M)) = Len(tasks)
      /\ \A t \in 1..Len(tasks) : Sent(M)[t].key = tasks[t].key /\ tasks[t].key \in Keys
  BY <1>0, <1>3, SentIs, TasksTyped
<1>6. TypeInv'
  <2>1. servers' \in [Keys -> Nat] /\ \A k \in Keys : servers'[k] \in {0, servers[k]}
    BY <1>0, <1>1 DEF TypeInv
  <2>2. /\ tasks' \in Seq(Task)
        /\ \A k \in Keys : servers'[k] # 0 =>
             servers'[k] \in DOMAIN tasks' /\ tasks'[servers'[k]].key = k
    BY <1>0, <1>1, <1>3, <2>1, SentTyped
  <2> QED BY <1>0, <1>1, <1>2, <2>2 DEF TypeInv
<1>7. JournalInv'
  BY <1>0, <1>1, <1>2 DEF JournalInv
<1>8. ASSUME NEW t \in 1..Len(tasks), NEW c \in Buffers
      PROVE  /\ Told(Sent(M)[t], c)
             /\ servers'[tasks[t].key] = t => Follows(Sent(M)[t], c, doc'[c][tasks[t].key])
  <2>1. CASE c = b
    BY <1>2, <1>3, <1>4, <1>5, <2>1, SentCloses DEF Follows
  <2>2. CASE c # b
    BY <1>1, <1>2, <1>3, <1>4, <1>5, <2>2, SentNothing
  <2> QED BY <2>1, <2>2
<1>9. \A t \in 1..Len(tasks) : Sent(M)[t].phase = "ended" =>
        Sent(M)[t].queue = <<>> /\ Sent(M)[t].docs = Nothing
  BY <1>3, EndedStay
<1> QED BY <1>1, <1>5, <1>6, <1>7, <1>8, <1>9, CopyStep

\* A server is retired: its documents are not counted as open, its task is told
\* to stop, and another may take its place.
LEMMA RetireStep ==
  ASSUME SyncInv, NEW k \in Keys, UNCHANGED <<text, jrn, saves>>,
         ed' \in [cur : Buffers, open : SUBSET Buffers, runtime : SUBSET Keys,
                  ensured : SUBSET Keys],
         ed'.cur = ed.cur, ed'.open = ed.open, ed'.runtime = ed.runtime \ {k},
         doc' \in [Buffers -> [Keys -> Doc]],
         \A b \in Buffers : ~doc'[b][k].opened,
         \A b \in Buffers, j \in Keys \ {k} : doc'[b][j] = doc[b][j],
         \/ tasks' = Shutdown(k) /\ servers' = [servers EXCEPT ![k] = 0]
         \/ tasks' = Append(Shutdown(k), NewTask(k))
            /\ servers' = [servers EXCEPT ![k] = Len(tasks) + 1]
  PROVE  SyncInv'
<1> DEFINE M == ToKey(k, [type |-> "shutdown"])
           S == Sent(M)
<1>0. TypeInv /\ JournalInv
  BY DEF SyncInv
<1>1. M \in [Keys -> Seq(Msg)]
      /\ \A j \in Keys, b \in Buffers : \A i \in 1..Len(M[j]) : ~IsNote(M[j][i], b)
  BY ShutdownTyped
<1>2. Shutdown(k) = S
  BY DEF Shutdown
<1> HIDE DEF M
<1>3. S \in Seq(Task) /\ Len(S) = Len(tasks) /\ Len(tasks) \in Nat
      /\ \A t \in 1..Len(tasks) : S[t].key = tasks[t].key /\ tasks[t].key \in Keys
  BY <1>0, <1>1, SentIs, TasksTyped
<1>4. \A t \in 1..Len(tasks), b \in Buffers :
        /\ Told(S[t], b)
        /\ servers[tasks[t].key] = t => Follows(S[t], b, doc[b][tasks[t].key])
  BY <1>1, <1>3, SentNothing
<1>5. \A t \in 1..Len(tasks) : S[t].phase = "ended" =>
        S[t].queue = <<>> /\ S[t].docs = Nothing
  BY <1>1, EndedStay
<1>6. \A j \in Keys \ {k} : servers'[j] = servers[j]
  BY <1>0 DEF TypeInv
<1>7. ASSUME NEW t \in 1..Len(tasks), NEW b \in Buffers, servers'[tasks[t].key] = t
      PROVE  Follows(S[t], b, doc'[b][tasks[t].key])
  <2>1. CASE tasks[t].key = k
    BY <2>1 DEF Follows
  <2>2. CASE tasks[t].key # k
    BY <1>3, <1>4, <1>6, <1>7, <2>2
  <2> QED BY <2>1, <2>2
<1>8. JournalInv'
  BY <1>0 DEF JournalInv
<1>9. TypeInv'
  <2>1. CASE tasks' = S /\ servers' = [servers EXCEPT ![k] = 0]
    <3>1. servers' \in [Keys -> Nat] /\ \A j \in Keys : servers'[j] \in {0, servers[j]}
      BY <1>0, <2>1 DEF TypeInv
    <3>2. /\ tasks' \in Seq(Task)
          /\ \A j \in Keys : servers'[j] # 0 =>
               servers'[j] \in DOMAIN tasks' /\ tasks'[servers'[j]].key = j
      BY <1>0, <1>1, <2>1, <3>1, SentTyped
    <3> QED BY <1>0, <3>1, <3>2 DEF TypeInv
  <2>2. CASE tasks' = Append(S, NewTask(k)) /\ servers' = [servers EXCEPT ![k] = Len(tasks) + 1]
    <3> HIDE DEF S
    <3>1. /\ tasks' \in Seq(Task) /\ servers' \in [Keys -> Nat]
          /\ \A j \in Keys : servers'[j] # 0 =>
               servers'[j] \in DOMAIN tasks' /\ tasks'[servers'[j]].key = j
      BY <1>0, <1>3, <2>2, EnsureTyped
    <3> QED BY <1>0, <3>1 DEF TypeInv
  <2> QED BY <1>2, <2>1, <2>2
<1> HIDE DEF S
<1> QED BY <1>2, <1>3, <1>4, <1>5, <1>7, <1>8, <1>9, CopyStep

LEMMA UnopenTyped ==
  ASSUME TypeInv, NEW k \in Keys, UnopenAll({k})
  PROVE  /\ doc' \in [Buffers -> [Keys -> Doc]]
         /\ \A b \in Buffers : ~doc'[b][k].opened
         /\ \A b \in Buffers, j \in Keys \ {k} : doc'[b][j] = doc[b][j]
BY DocFacts DEF UnopenAll

LEMMA StopStep ==
  ASSUME SyncInv, NEW k \in Keys, Stop(k) PROVE SyncInv'
<1>0. TypeInv /\ JournalInv
  BY DEF SyncInv
<1>1. /\ UNCHANGED <<text, jrn, saves>>
      /\ tasks' = Shutdown(k) /\ servers' = [servers EXCEPT ![k] = 0]
      /\ ed' = [ed EXCEPT !.ensured = @ \ {k}, !.runtime = @ \ {k}]
      /\ doc' = IF k \in ed.runtime
                THEN [b \in Buffers |-> [doc[b] EXCEPT ![k] = NoDoc]] ELSE doc
  BY DEF Stop, content
<1>2. /\ ed' \in [cur : Buffers, open : SUBSET Buffers, runtime : SUBSET Keys,
                  ensured : SUBSET Keys]
      /\ ed'.cur = ed.cur /\ ed'.open = ed.open /\ ed'.runtime = ed.runtime \ {k}
  BY <1>0, <1>1 DEF TypeInv
<1>3. /\ doc' \in [Buffers -> [Keys -> Doc]]
      /\ \A b \in Buffers : ~doc'[b][k].opened
      /\ \A b \in Buffers, j \in Keys \ {k} : doc'[b][j] = doc[b][j]
  <2>1. doc \in [Buffers -> [Keys -> Doc]] /\ NoDoc \in Doc /\ ~NoDoc.opened
    BY <1>0 DEF TypeInv, NoDoc, Doc
  <2>2. CASE k \in ed.runtime
    BY <1>1, <2>1, <2>2
  <2>3. CASE k \notin ed.runtime
    BY <1>0, <1>1, <2>1, <2>3 DEF JournalInv
  <2> QED BY <2>2, <2>3
<1> QED BY <1>1, <1>2, <1>3, RetireStep

LEMMA ReplaceStep ==
  ASSUME SyncInv, NEW k \in Keys, Replace(k), UNCHANGED content PROVE SyncInv'
<1>0. TypeInv
  BY DEF SyncInv
<1>1. /\ UNCHANGED <<text, jrn, saves>>
      /\ tasks' = Append(Shutdown(k), NewTask(k))
      /\ servers' = [servers EXCEPT ![k] = Len(tasks) + 1]
      /\ ed' = [ed EXCEPT !.ensured = @ \union {k}, !.runtime = @ \ {k}]
      /\ UnopenAll({k})
  BY DEF Replace, content
<1>2. /\ ed' \in [cur : Buffers, open : SUBSET Buffers, runtime : SUBSET Keys,
                  ensured : SUBSET Keys]
      /\ ed'.cur = ed.cur /\ ed'.open = ed.open /\ ed'.runtime = ed.runtime \ {k}
  <2>1. ed \in [cur : Buffers, open : SUBSET Buffers, runtime : SUBSET Keys,
                ensured : SUBSET Keys]
    BY <1>0 DEF TypeInv
  <2>2. ed.ensured \union {k} \in SUBSET Keys /\ ed.runtime \ {k} \in SUBSET Keys
    BY <2>1
  <2> QED BY <1>1, <2>1, <2>2
<1>3. /\ doc' \in [Buffers -> [Keys -> Doc]]
      /\ \A b \in Buffers : ~doc'[b][k].opened
      /\ \A b \in Buffers, j \in Keys \ {k} : doc'[b][j] = doc[b][j]
  BY <1>0, <1>1, UnopenTyped
<1> QED BY <1>1, <1>2, <1>3, RetireStep

LEMMA RestartStep ==
  ASSUME SyncInv, NEW k \in Keys, Restart(k) PROVE SyncInv'
BY ReplaceStep DEF Restart

LEMMA ReconnectStep ==
  ASSUME SyncInv, NEW k \in Keys, Reconnect(k) PROVE SyncInv'
BY ReplaceStep DEF Reconnect

LEMMA Assemble ==
  ASSUME NEW T, NEW d, NEW q, NEW b, NEW e, T.docs[b] = d, T.queue = q,
         d.text # Garbled, ChainFits(d, q, b), e.opened => Leads(d, q, b, Kept(e))
  PROVE  Told(T, b) /\ Follows(T, b, e)
BY DEF Told, Follows

\* The closes of other documents do not come between the notes on one.
LEMMA ClosesThenNotes ==
  ASSUME TypeInv, JournalInv, NEW b \in Buffers, NEW k \in Keys,
         NEW q \in Seq(Msg), NEW c \in Seq(Msg), NEW d, ChainFits(d, q, b),
         doc[b][k].opened => Leads(d, q, b, Kept(doc[b][k])),
         \A i \in 1..Len(c) : ~IsNote(c[i], b)
  PROVE  /\ ChainFits(d, q \o (c \o Notes(b, k)), b)
         /\ Synced(b, k).opened =>
              Leads(d, q \o (c \o Notes(b, k)), b, Kept(Synced(b, k)))
<1> DEFINE p == q \o c
<1>1. p \in Seq(Msg)
  OBVIOUS
<1>2. ChainFits(d, p, b)
  BY ChainConcat
<1>3. doc[b][k].opened => Leads(d, p, b, Kept(doc[b][k]))
  BY LeadsConcat DEF IsState
<1> HIDE DEF p
<1>4. /\ Notes(b, k) \in Seq(Msg)
      /\ ChainFits(d, p \o Notes(b, k), b)
      /\ Synced(b, k).opened => Leads(d, p \o Notes(b, k), b, Kept(Synced(b, k)))
  BY <1>1, <1>2, <1>3, NotesFit
<1>5. p \o Notes(b, k) = q \o (c \o Notes(b, k))
  <2> DEFINE n == Notes(b, k)
  <2> HIDE DEF n
  <2>1. n \in Seq(Msg)
    BY <1>4 DEF n
  <2>2. (q \o c) \o n = q \o (c \o n)
    BY <2>1
  <2> QED BY <2>2 DEF n, p
<1> QED BY <1>4, <1>5

\* What a redraw sends of a document, whatever the server was sent before.
LEMMA NotesTyped ==
  ASSUME TypeInv, JournalInv, NEW b \in Buffers, NEW k \in Keys
  PROVE  /\ Notes(b, k) \in Seq(Msg)
         /\ \A i \in 1..Len(Notes(b, k)) : Notes(b, k)[i].buf = b
         /\ Synced(b, k).opened => /\ Synced(b, k).bound /\ k \in ed.runtime
                                   /\ Synced(b, k).last = text[b]
<1> DEFINE d == [text |-> Closed, version |-> 0]
           q == <<>>
<1>1. q \in Seq(Msg)
  OBVIOUS
<1>2. ChainFits(d, q, b) /\ Leads(d, q, b, Kept(doc[b][k]))
  BY Blank
<1> HIDE DEF d, q
<1> QED BY <1>1, <1>2, NotesFit

LEMMA SyncStep ==
  ASSUME SyncInv, Sync PROVE SyncInv'
<1> DEFINE c == ed.cur
           M == [k \in Keys |-> Closes(k) \o Notes(c, k)]
<1>0. TypeInv /\ JournalInv /\ c \in Buffers /\ c \in ed.open
  BY DEF SyncInv, TypeInv
<1>1. /\ UNCHANGED <<ed, text, saves, servers>> /\ tasks' = Sent(M)
      /\ doc' = [o \in Buffers |-> [k \in Keys |->
                  IF o \notin ed.open THEN NoDoc
                  ELSE IF o = c THEN Synced(o, k) ELSE doc[o][k]]]
      /\ jrn' = [jrn EXCEPT ![c] = Unread(c)]
  BY DEF Sync
<1> HIDE DEF c
<1>2. \A k \in Keys :
        /\ Notes(c, k) \in Seq(Msg)
        /\ \A i \in 1..Len(Notes(c, k)) : Notes(c, k)[i].buf = c
        /\ Synced(c, k).opened => /\ Synced(c, k).bound /\ k \in ed.runtime
                                  /\ Synced(c, k).last = text[c]
  BY <1>0, NotesTyped
<1>3. \A k \in Keys :
        /\ Closes(k) \in Seq(Msg)
        /\ \A i \in 1..Len(Closes(k)) :
             /\ Closes(k)[i].type = "close"
             /\ \A b \in ed.open : ~IsNote(Closes(k)[i], b)
  BY <1>0, ClosesTyped
<1>4. M \in [Keys -> Seq(Msg)]
  BY <1>2, <1>3
<1>5. \A k \in Keys, b \in Buffers : \A i \in 1..Len(M[k]) : IsNote(M[k][i], b) =>
        /\ b # c => M[k][i].type = "close"
        /\ b \in ed.open => b = c
  <2> SUFFICES ASSUME NEW k \in Keys, NEW b \in Buffers, NEW i \in 1..Len(M[k]),
                      IsNote(M[k][i], b)
               PROVE  (b # c => M[k][i].type = "close") /\ (b \in ed.open => b = c)
    OBVIOUS
  <2>1. /\ Len(M[k]) = Len(Closes(k)) + Len(Notes(c, k))
        /\ M[k][i] = IF i <= Len(Closes(k)) THEN Closes(k)[i]
                     ELSE Notes(c, k)[i - Len(Closes(k))]
        /\ Len(Closes(k)) \in Nat /\ Len(Notes(c, k)) \in Nat
    BY <1>2, <1>3
  <2>2. CASE i <= Len(Closes(k))
    <3>1. i \in 1..Len(Closes(k)) /\ M[k][i] = Closes(k)[i]
      BY <2>1, <2>2
    <3> HIDE DEF M
    <3> QED BY <1>3, <3>1
  <2>3. CASE i > Len(Closes(k))
    <3>1. i - Len(Closes(k)) \in 1..Len(Notes(c, k))
          /\ M[k][i] = Notes(c, k)[i - Len(Closes(k))]
      BY <2>1, <2>3
    <3> HIDE DEF M
    <3>2. M[k][i].buf = c
      BY <1>2, <3>1
    <3> QED BY <3>2 DEF IsNote
  <2> QED BY <2>1, <2>2, <2>3
<1>6. \A k \in Keys : M[k] = Closes(k) \o Notes(c, k)
  OBVIOUS
<1> HIDE DEF M
<1>7. doc' \in [Buffers -> [Keys -> Doc]]
      /\ \A o \in Buffers, k \in Keys :
           doc'[o][k] = IF o \notin ed.open THEN NoDoc
                        ELSE IF o = c THEN Synced(o, k) ELSE doc[o][k]
  <2>1. \A o \in Buffers, k \in Keys : NoDoc \in Doc /\ Synced(o, k) \in Doc /\ doc[o][k] \in Doc
    BY <1>0, DocFacts, SyncedTyped
  <2> QED BY <1>1, <2>1
<1>8. jrn' \in [Buffers -> [from : Nat, resync : BOOLEAN]] /\ jrn'[c].from = text[c]
      /\ \A o \in Buffers \ {c} : jrn'[o] = jrn[o]
  <2>1. Unread(c) \in [from : Nat, resync : BOOLEAN] /\ Unread(c).from = text[c]
    BY <1>0 DEF TypeInv, Unread
  <2> QED BY <1>0, <1>1, <2>1 DEF TypeInv
<1>9. TypeInv'
  <2>1. servers' \in [Keys -> Nat] /\ \A k \in Keys : servers'[k] \in {0, servers[k]}
    BY <1>0, <1>1 DEF TypeInv
  <2>2. /\ tasks' \in Seq(Task)
        /\ \A k \in Keys : servers'[k] # 0 =>
             servers'[k] \in DOMAIN tasks' /\ tasks'[servers'[k]].key = k
    BY <1>0, <1>1, <1>4, <2>1, SentTyped
  <2> QED BY <1>0, <1>1, <1>7, <1>8, <2>2 DEF TypeInv
<1>10. JournalInv'
  <2>1. ASSUME NEW o \in Buffers, NEW k \in Keys, doc'[o][k].opened
        PROVE  doc'[o][k].bound /\ k \in ed.runtime /\ doc'[o][k].last = jrn'[o].from
    <3>1. CASE o \notin ed.open
      BY <1>7, <2>1, <3>1 DEF NoDoc
    <3>2. CASE o = c
      BY <1>0, <1>2, <1>7, <1>8, <2>1, <3>2
    <3>3. CASE o \in ed.open /\ o # c
      BY <1>0, <1>7, <1>8, <2>1, <3>3, SMTT(30) DEF JournalInv
    <3> QED BY <3>1, <3>2, <3>3
  <2> QED BY <1>1, <2>1 DEF JournalInv
<1>11. ASSUME NEW t \in 1..Len(tasks), NEW b \in Buffers
       PROVE  /\ Told(Sent(M)[t], b)
              /\ servers[tasks[t].key] = t => Follows(Sent(M)[t], b, doc'[b][tasks[t].key])
  <2> DEFINE k == tasks[t].key
             T == tasks[t]
  <2>1. k \in Keys /\ T.queue \in Seq(Msg) /\ t \in DOMAIN tasks
    BY <1>0, TasksTyped
  <2>2. CASE b # c
    <3>1. Told(Sent(M)[t], b)
      BY <1>4, <1>5, <2>1, <2>2, SentCloses
    <3>2. CASE b \in ed.open
      <4>1. servers[k] = t => Follows(Sent(M)[t], b, doc[b][k])
        BY <1>4, <1>5, <2>1, <2>2, <3>2, SentNothing
      <4> QED BY <1>7, <2>1, <2>2, <3>1, <3>2, <4>1
    <3>3. CASE b \notin ed.open
      BY <1>7, <2>1, <3>1, <3>3 DEF Follows, NoDoc
    <3> QED BY <3>2, <3>3
  <2>3. CASE b = c
    <3>1. /\ Told(T, b)
          /\ servers[k] = t => Follows(T, b, doc[b][k])
      BY <2>1 DEF SyncInv, CopyInv
    <3>2. /\ Sent(M)[t].docs = T.docs
          /\ Sent(M)[t].queue = IF servers[k] = t /\ ~Ended(t) THEN T.queue \o M[k] ELSE T.queue
      BY <1>0, <1>4, SentIs
    <3>3. doc'[b][k] = Synced(b, k)
      BY <1>0, <1>7, <2>1, <2>3
    <3>4. CASE servers[k] = t /\ ~Ended(t)
      <4>1. ChainFits(T.docs[b], T.queue, b) /\ T.docs[b].text # Garbled
        BY <3>1 DEF Told
      <4>2. doc[b][k].opened => Leads(T.docs[b], T.queue, b, Kept(doc[b][k]))
        BY <3>1, <3>4 DEF Follows
      <4>3. Closes(k) \in Seq(Msg) /\ \A i \in 1..Len(Closes(k)) : ~IsNote(Closes(k)[i], b)
        BY <1>0, <1>3, <2>1, <2>3
      <4>4. Sent(M)[t].queue = T.queue \o (Closes(k) \o Notes(b, k))
        BY <1>6, <2>1, <2>3, <3>2, <3>4
      <4> HIDE DEF k, T
      <4>5. /\ ChainFits(T.docs[b], T.queue \o (Closes(k) \o Notes(b, k)), b)
            /\ Synced(b, k).opened =>
                 Leads(T.docs[b], T.queue \o (Closes(k) \o Notes(b, k)), b, Kept(Synced(b, k)))
        BY <1>0, <2>1, <4>1, <4>2, <4>3, ClosesThenNotes
      <4>6. Told(Sent(M)[t], b) /\ Follows(Sent(M)[t], b, Synced(b, k))
        BY <3>2, <4>1, <4>4, <4>5, Assemble
      <4> QED BY <3>3, <4>6 DEF k
    <3>5. CASE servers[k] # t
      <4>1. ChainFits(T.docs[b], T.queue, b) /\ T.docs[b].text # Garbled
        BY <3>1 DEF Told
      <4> QED BY <3>2, <3>5, <4>1 DEF Told
    <3>6. CASE Ended(t)
      <4>1. T.queue = <<>> /\ T.docs = Nothing /\ Nothing[b].text = Closed
        BY <2>1, <3>6, NewTaskTyped DEF SyncInv, EndedInv
      <4>2. Sent(M)[t].queue = <<>> /\ Sent(M)[t].docs[b].text = Closed
        BY <3>2, <3>6, <4>1
      <4>3. \A e : Told(Sent(M)[t], b) /\ Follows(Sent(M)[t], b, e)
        BY <4>2, Blank DEF Told, Follows, Closed, Garbled
      <4> QED BY <4>3
    <3> QED BY <3>4, <3>5, <3>6
  <2> QED BY <2>2, <2>3
<1>12. Sent(M) \in Seq(Task) /\ Len(Sent(M)) = Len(tasks)
       /\ \A t \in 1..Len(tasks) : Sent(M)[t].key = tasks[t].key
  BY <1>0, <1>4, SentIs
<1>13. \A t \in 1..Len(tasks) : Sent(M)[t].phase = "ended" =>
         Sent(M)[t].queue = <<>> /\ Sent(M)[t].docs = Nothing
  BY <1>4, EndedStay
<1> QED BY <1>1, <1>9, <1>10, <1>11, <1>12, <1>13, CopyStep

LEMMA WorkspaceEditStep ==
  ASSUME SyncInv, NEW b \in Buffers, WorkspaceEdit(b) PROVE SyncInv'
<1> DEFINE to    == text[b] + 1
           wants == {k \in ed.runtime : doc[b][k].opened}
           C(k)  == Change(b, k, to, jrn[b].resync)
           M     == [k \in Keys |-> IF k \in wants THEN <<C(k)>> ELSE <<>>]
           D(k)  == [doc[b][k] EXCEPT !.version = @ + 1, !.last = to]
<1>0. TypeInv /\ JournalInv /\ to \in Nat /\ wants \subseteq Keys
  BY DEF SyncInv, TypeInv
<1>1. /\ UNCHANGED <<ed, saves, servers>> /\ tasks' = Sent(M)
      /\ text' = [text EXCEPT ![b] = to]
      /\ jrn' = [jrn EXCEPT ![b] = [from |-> to, resync |-> FALSE]]
      /\ doc' = [doc EXCEPT ![b] = [k \in Keys |-> IF k \in wants THEN D(k) ELSE doc[b][k]]]
  BY DEF WorkspaceEdit
<1>2. \A k \in Keys : k \in wants <=> doc[b][k].opened
  BY <1>0 DEF JournalInv
<1>3. \A k \in Keys : /\ D(k) \in Doc /\ D(k).last = to
                      /\ D(k).version = doc[b][k].version + 1
                      /\ D(k).bound = doc[b][k].bound
  <2> SUFFICES ASSUME NEW k \in Keys
               PROVE  /\ D(k) \in Doc /\ D(k).last = to
                      /\ D(k).version = doc[b][k].version + 1
                      /\ D(k).bound = doc[b][k].bound
    OBVIOUS
  <2> DEFINE d == doc[b][k]
  <2>1. d \in Doc
    BY <1>0, DocFacts
  <2>2. D(k) = [d EXCEPT !.version = @ + 1, !.last = to]
    OBVIOUS
  <2> DEFINE v == d.version + 1
  <2> HIDE DEF d, to, D
  <2>4. v \in Nat
    BY <2>1 DEF Doc
  <2>5. D(k) = [d EXCEPT !.version = v, !.last = to]
    BY <2>2
  <2> HIDE DEF v
  <2>6. D(k) \in Doc /\ D(k).last = to /\ D(k).version = v /\ D(k).bound = d.bound
    BY <1>0, <2>1, <2>4, <2>5 DEF Doc
  <2>3. /\ D(k) \in Doc /\ D(k).last = to
        /\ D(k).version = d.version + 1 /\ D(k).bound = d.bound
    BY <2>6 DEF v
  <2> QED BY <2>3 DEF d
<1>4. \A k \in Keys :
        /\ C(k) \in Msg /\ C(k).type = "change" /\ C(k).buf = b
        /\ Says(C(k)) = [text |-> to, version |-> doc[b][k].version + 1]
        /\ k \in wants => Fits(Kept(doc[b][k]), C(k))
  <2> HIDE DEF to
  <2>1. \A k \in Keys : k \in wants => doc[b][k].last = jrn[b].from
    BY <1>0 DEF JournalInv
  <2> QED BY <1>0, <2>1, ChangeTyped, ChangeFits
<1> HIDE DEF to, C, D, wants
<1>5. M \in [Keys -> Seq(Msg)]
      /\ \A k \in Keys : M[k] = IF k \in wants THEN <<C(k)>> ELSE <<>>
  BY <1>4
<1>6. \A k \in Keys, c \in Buffers : \A i \in 1..Len(M[k]) :
        c # b \/ k \notin wants => ~IsNote(M[k][i], c)
  <2> SUFFICES ASSUME NEW k \in Keys, NEW c \in Buffers, NEW i \in 1..Len(M[k]),
                      c # b \/ k \notin wants
               PROVE  ~IsNote(M[k][i], c)
    OBVIOUS
  <2>1. CASE k \in wants
    <3>1. M[k][i] = C(k)
      BY <1>4, <1>5, <2>1
    <3> QED BY <1>4, <2>1, <3>1 DEF IsNote
  <2>2. CASE k \notin wants
    BY <1>5, <2>2
  <2> QED BY <2>1, <2>2
<1> HIDE DEF M
<1>7. /\ doc' \in [Buffers -> [Keys -> Doc]]
      /\ \A k \in Keys : doc'[b][k] = IF k \in wants THEN D(k) ELSE doc[b][k]
      /\ \A c \in Buffers \ {b} : doc'[c] = doc[c]
  <2>1. doc \in [Buffers -> [Keys -> Doc]]
    BY <1>0 DEF TypeInv
  <2>2. [k \in Keys |-> IF k \in wants THEN D(k) ELSE doc[b][k]] \in [Keys -> Doc]
    BY <1>3, <2>1
  <2> QED BY <1>1, <2>1, <2>2
<1>8. jrn' \in [Buffers -> [from : Nat, resync : BOOLEAN]] /\ jrn'[b].from = to
      /\ \A c \in Buffers \ {b} : jrn'[c] = jrn[c]
  BY <1>0, <1>1 DEF TypeInv
<1>9. TypeInv'
  <2>1. servers' \in [Keys -> Nat] /\ \A k \in Keys : servers'[k] \in {0, servers[k]}
    BY <1>0, <1>1 DEF TypeInv
  <2>2. /\ tasks' \in Seq(Task)
        /\ \A k \in Keys : servers'[k] # 0 =>
             servers'[k] \in DOMAIN tasks' /\ tasks'[servers'[k]].key = k
    BY <1>0, <1>1, <1>5, <2>1, SentTyped
  <2>3. text' \in [Buffers -> Nat]
    BY <1>0, <1>1 DEF TypeInv
  <2> QED BY <1>0, <1>1, <1>7, <1>8, <2>2, <2>3 DEF TypeInv
<1>10. JournalInv'
  <2>1. ASSUME NEW c \in Buffers, NEW k \in Keys, doc'[c][k].opened
        PROVE  doc'[c][k].bound /\ k \in ed.runtime /\ doc'[c][k].last = jrn'[c].from
    <3>1. CASE c # b
      BY <1>0, <1>7, <1>8, <2>1, <3>1 DEF JournalInv
    <3>2. CASE c = b /\ k \in wants
      BY <1>0, <1>2, <1>3, <1>7, <1>8, <3>2, SMTT(30) DEF JournalInv
    <3>3. CASE c = b /\ k \notin wants
      BY <1>2, <1>7, <2>1, <3>3
    <3> QED BY <3>1, <3>2, <3>3
  <2> QED BY <1>1, <2>1 DEF JournalInv
<1>11. ASSUME NEW t \in 1..Len(tasks), NEW c \in Buffers
       PROVE  /\ Told(Sent(M)[t], c)
              /\ servers[tasks[t].key] = t => Follows(Sent(M)[t], c, doc'[c][tasks[t].key])
  <2> DEFINE k == tasks[t].key
             T == tasks[t]
  <2>1. k \in Keys /\ T.queue \in Seq(Msg) /\ t \in DOMAIN tasks
    BY <1>0, TasksTyped
  <2>2. CASE c # b \/ k \notin wants
    <3>1. /\ Told(Sent(M)[t], c)
          /\ servers[k] = t => Follows(Sent(M)[t], c, doc[c][k])
      BY <1>5, <1>6, <2>1, <2>2, SentNothing
    <3>2. doc'[c][k] = doc[c][k]
      BY <1>7, <2>1, <2>2
    <3> QED BY <3>1, <3>2
  <2>3. CASE c = b /\ k \in wants
    <3>1. /\ Told(T, b)
          /\ servers[k] = t => Follows(T, b, doc[b][k])
      BY <2>1 DEF SyncInv, CopyInv
    <3>2. /\ Sent(M)[t].docs = T.docs
          /\ Sent(M)[t].queue = IF servers[k] = t /\ ~Ended(t) THEN T.queue \o M[k] ELSE T.queue
      BY <1>0, <1>5, SentIs
    <3>3. /\ C(k) \in Msg /\ C(k).type = "change" /\ C(k).buf = b
          /\ Fits(Kept(doc[b][k]), C(k)) /\ Kept(doc'[b][k]) = Says(C(k))
      <4>1. doc'[b][k] = D(k)
        BY <1>7, <2>1, <2>3
      <4> QED BY <1>3, <1>4, <2>1, <2>3, <4>1 DEF Kept
    <3>4. CASE servers[k] = t /\ ~Ended(t)
      <4>1. ChainFits(T.docs[b], T.queue, b) /\ T.docs[b].text # Garbled
        BY <3>1 DEF Told
      <4>2. Leads(T.docs[b], T.queue, b, Kept(doc[b][k]))
        BY <1>2, <2>1, <2>3, <3>1, <3>4 DEF Follows
      <4>3. Sent(M)[t].queue = T.queue \o <<C(k)>>
        BY <1>5, <2>1, <2>3, <3>2, <3>4
      <4> HIDE DEF k, T
      <4>4. T.queue \o <<C(k)>> = Append(T.queue, C(k))
        BY <2>1, <3>3
      <4>5. ChainFits(T.docs[b], Append(T.queue, C(k)), b)
        BY <2>1, <3>3, <4>1, <4>2, ChainAppend
      <4>6. Leads(T.docs[b], Append(T.queue, C(k)), b, Kept(doc'[b][k]))
        BY <2>1, <3>3, LeadsAppend DEF IsState, IsNote
      <4>7. Told(Sent(M)[t], b) /\ Follows(Sent(M)[t], b, doc'[b][k])
        BY <3>2, <4>1, <4>3, <4>4, <4>5, <4>6, Assemble
      <4> QED BY <2>3, <4>7 DEF k
    <3>5. CASE servers[k] # t
      <4>1. ChainFits(T.docs[b], T.queue, b) /\ T.docs[b].text # Garbled
        BY <3>1 DEF Told
      <4> QED BY <2>3, <3>2, <3>5, <4>1 DEF Told
    <3>6. CASE Ended(t)
      <4>1. T.queue = <<>> /\ T.docs = Nothing /\ Nothing[b].text = Closed
        BY <2>1, <3>6, NewTaskTyped DEF SyncInv, EndedInv
      <4>2. Sent(M)[t].queue = <<>> /\ Sent(M)[t].docs[b].text = Closed
        BY <3>2, <3>6, <4>1
      <4>3. \A e : Told(Sent(M)[t], b) /\ Follows(Sent(M)[t], b, e)
        BY <4>2, Blank DEF Told, Follows, Closed, Garbled
      <4> QED BY <2>3, <4>3
    <3> QED BY <3>4, <3>5, <3>6
  <2> QED BY <2>2, <2>3
<1>12. Sent(M) \in Seq(Task) /\ Len(Sent(M)) = Len(tasks)
       /\ \A t \in 1..Len(tasks) : Sent(M)[t].key = tasks[t].key
  BY <1>0, <1>5, SentIs
<1>13. \A t \in 1..Len(tasks) : Sent(M)[t].phase = "ended" =>
         Sent(M)[t].queue = <<>> /\ Sent(M)[t].docs = Nothing
  BY <1>5, EndedStay
<1> QED BY <1>1, <1>9, <1>10, <1>11, <1>12, <1>13, CopyStep

LEMMA OnInitializedStep ==
  ASSUME SyncInv, NEW k \in Keys, OnInitialized(k) PROVE SyncInv'
<1>0. TypeInv /\ JournalInv
  BY DEF SyncInv
<1>1. /\ UNCHANGED <<text, jrn, saves, servers, tasks>> /\ UnopenAll({k})
      /\ ed' = [ed EXCEPT !.runtime = @ \union {k}]
  BY DEF OnInitialized, content
<1>2. /\ doc' \in [Buffers -> [Keys -> Doc]]
      /\ \A b \in Buffers : ~doc'[b][k].opened
      /\ \A b \in Buffers, j \in Keys \ {k} : doc'[b][j] = doc[b][j]
  BY <1>0, <1>1, UnopenTyped
<1>3. /\ ed' \in [cur : Buffers, open : SUBSET Buffers, runtime : SUBSET Keys,
                  ensured : SUBSET Keys]
      /\ ed'.cur = ed.cur /\ ed'.open = ed.open /\ ed'.runtime = ed.runtime \union {k}
  <2>1. ed \in [cur : Buffers, open : SUBSET Buffers, runtime : SUBSET Keys,
                ensured : SUBSET Keys]
    BY <1>0 DEF TypeInv
  <2>2. ed.runtime \union {k} \in SUBSET Keys
    BY <2>1
  <2> QED BY <1>1, <2>1, <2>2
<1>4. TypeInv'
  BY <1>0, <1>1, <1>2, <1>3 DEF TypeInv
<1>5. JournalInv'
  BY <1>0, <1>1, <1>2, <1>3 DEF JournalInv
<1> QED BY <1>1, <1>2, <1>4, <1>5, QuietStep

LEMMA OnExitedStep ==
  ASSUME SyncInv, NEW k \in Keys, OnExited(k) PROVE SyncInv'
<1>0. TypeInv /\ JournalInv
  BY DEF SyncInv
<1>1. /\ UNCHANGED <<text, jrn, saves, servers, tasks>>
      /\ IF k \in ed.runtime THEN UnopenAll({k}) ELSE UNCHANGED doc
      /\ ed' = [ed EXCEPT !.ensured = @ \ {k}, !.runtime = @ \ {k}]
  BY DEF OnExited, content
<1>2. /\ doc' \in [Buffers -> [Keys -> Doc]]
      /\ \A b \in Buffers : ~doc'[b][k].opened
      /\ \A b \in Buffers, j \in Keys \ {k} : doc'[b][j] = doc[b][j]
  <2>1. CASE k \in ed.runtime
    BY <1>0, <1>1, <2>1, UnopenTyped
  <2>2. CASE k \notin ed.runtime
    BY <1>0, <1>1, <2>2 DEF TypeInv, JournalInv
  <2> QED BY <2>1, <2>2
<1>3. /\ ed' \in [cur : Buffers, open : SUBSET Buffers, runtime : SUBSET Keys,
                  ensured : SUBSET Keys]
      /\ ed'.cur = ed.cur /\ ed'.open = ed.open /\ ed'.runtime = ed.runtime \ {k}
  BY <1>0, <1>1 DEF TypeInv
<1>4. TypeInv'
  BY <1>0, <1>1, <1>2, <1>3 DEF TypeInv
<1>5. JournalInv'
  BY <1>0, <1>1, <1>2, <1>3 DEF JournalInv
<1> QED BY <1>1, <1>2, <1>4, <1>5, QuietStep

-----------------------------------------------------------------------------
(* The steps of the tasks. *)

\* One task takes a step and keeps what its queue leads to.
LEMMA TaskStep ==
  ASSUME SyncInv, UNCHANGED <<ed, text, jrn, saves, doc, servers>>,
         NEW t \in DOMAIN tasks, NEW T \in Task, tasks' = [tasks EXCEPT ![t] = T],
         T.key = tasks[t].key,
         T.phase = "ended" => T.queue = <<>> /\ T.docs = Nothing,
         \A b \in Buffers :
           /\ Told(T, b)
           /\ \A e : Leads(tasks[t].docs[b], tasks[t].queue, b, e)
                       => Leads(T.docs[b], T.queue, b, e)
  PROVE  SyncInv'
<1>0. TypeInv /\ JournalInv
  BY DEF SyncInv
<1>1. tasks \in Seq(Task) /\ DOMAIN tasks = 1..Len(tasks)
  BY <1>0, TasksTyped
<1>2. /\ tasks' \in Seq(Task) /\ Len(tasks') = Len(tasks) /\ DOMAIN tasks' = DOMAIN tasks
      /\ tasks'[t] = T /\ \A i \in DOMAIN tasks \ {t} : tasks'[i] = tasks[i]
  BY <1>1
<1>3. \A i \in DOMAIN tasks : tasks'[i].key = tasks[i].key
  BY <1>2
<1>4. TypeInv'
  BY <1>0, <1>2, <1>3 DEF TypeInv
<1>5. JournalInv'
  BY <1>0 DEF JournalInv
<1>6. EndedInv'
  BY <1>2 DEF SyncInv, EndedInv, Ended
<1>7. CopyInv'
  <2> SUFFICES ASSUME NEW i \in DOMAIN tasks, NEW b \in Buffers
               PROVE  /\ Told(tasks'[i], b)
                      /\ servers[tasks'[i].key] = i => Follows(tasks'[i], b, doc[b][tasks'[i].key])
    BY <1>2 DEF CopyInv
  <2>1. /\ Told(tasks[i], b)
        /\ servers[tasks[i].key] = i => Follows(tasks[i], b, doc[b][tasks[i].key])
    BY DEF SyncInv, CopyInv
  <2>2. CASE i = t
    BY <1>2, <2>1, <2>2 DEF Follows
  <2>3. CASE i # t
    BY <1>2, <2>1, <2>3
  <2> QED BY <2>2, <2>3
<1> QED BY <1>4, <1>5, <1>6, <1>7 DEF SyncInv

\* A process that is gone holds no document, and was sent nothing.
LEMMA GoneTask ==
  ASSUME NEW T, T.queue = <<>>, T.docs = Nothing, NEW b \in Buffers
  PROVE  Told(T, b) /\ \A e : Leads(T.docs[b], T.queue, b, e)
<1>1. T.docs[b].text = Closed
  BY DEF Nothing
<1> QED BY <1>1, Blank DEF Told, Closed, Garbled

LEMMA PhaseStep ==
  ASSUME SyncInv, NEW t \in DOMAIN tasks, Initialize(t) \/ Respawn(t) PROVE SyncInv'
<1>0. tasks[t] \in Task
  BY TasksTyped DEF SyncInv
<1>1. PICK p \in {"serve", "start"} : tasks' = [tasks EXCEPT ![t] = [tasks[t] EXCEPT !.phase = p]]
  BY DEF Initialize, Respawn
<1>2. UNCHANGED <<ed, text, jrn, saves, doc, servers>>
  BY DEF Initialize, Respawn, content
<1> DEFINE T == [tasks[t] EXCEPT !.phase = p]
<1>3. T \in Task /\ T.key = tasks[t].key /\ T.phase = p
      /\ T.queue = tasks[t].queue /\ T.docs = tasks[t].docs
  BY <1>0 DEF Task
<1>4. \A b \in Buffers : Told(tasks[t], b)
  BY DEF SyncInv, CopyInv
<1>5. tasks' = [tasks EXCEPT ![t] = T]
  BY <1>1
<1> HIDE DEF T
<1>6. \A b \in Buffers :
        /\ Told(T, b)
        /\ \A e : Leads(tasks[t].docs[b], tasks[t].queue, b, e) => Leads(T.docs[b], T.queue, b, e)
  BY <1>3, <1>4 DEF Told
<1> QED BY <1>2, <1>3, <1>5, <1>6, TaskStep

LEMMA DeliverStep ==
  ASSUME SyncInv, NEW t \in DOMAIN tasks, Deliver(t) PROVE SyncInv'
<1> DEFINE T0 == tasks[t]
           q  == T0.queue
           m  == Head(q)
           d2 == Take(T0.docs[m.buf], m)
           T  == [T0 EXCEPT !.queue = Tail(q), !.docs = [@ EXCEPT ![m.buf] = d2]]
<1>0. T0 \in Task /\ q \in Seq(Msg) /\ T0.docs \in [Buffers -> Copy]
  BY TasksTyped DEF SyncInv
<1>1. /\ T0.phase = "serve" /\ q # <<>> /\ m.type # "shutdown"
      /\ tasks' = [tasks EXCEPT ![t] = T]
      /\ UNCHANGED <<ed, text, jrn, saves, doc, servers>>
  BY DEF Deliver, content
<1>2. \A b \in Buffers : Told(T0, b)
  BY DEF SyncInv, CopyInv
<1> HIDE DEF T0
<1>3. m \in Msg /\ Tail(q) \in Seq(Msg)
  BY <1>0, <1>1
<1>4. m.buf \in Buffers
  <2> HIDE DEF m
  <2> QED BY <1>1, <1>3 DEF Msg
<1>5. IsNote(m, m.buf) /\ \A b \in Buffers \ {m.buf} : ~IsState(m, b)
  BY <1>1 DEF IsNote, IsState
<1>6. /\ d2 \in Copy /\ d2.text # Garbled
      /\ ChainFits(d2, Tail(q), m.buf)
      /\ \A e : Leads(T0.docs[m.buf], q, m.buf, e) => Leads(d2, Tail(q), m.buf, e)
  <2> DEFINE b == m.buf
             d == T0.docs[b]
  <2>1. d \in Copy /\ d.text # Garbled /\ ChainFits(d, q, b)
    BY <1>0, <1>2, <1>4 DEF Told
  <2>2. d2 = Take(d, m)
    OBVIOUS
  <2> HIDE DEF d, d2
  <2>3. IsNote(Head(q), b)
    BY <1>5
  <2> HIDE DEF b, q
  <2> QED BY <1>0, <1>1, <2>1, <2>2, <2>3, PassNote DEF b, d
<1>7. ASSUME NEW b \in Buffers \ {m.buf}
      PROVE  /\ T0.docs[b].text # Garbled /\ ChainFits(T0.docs[b], Tail(q), b)
             /\ \A e : Leads(T0.docs[b], q, b, e) => Leads(T0.docs[b], Tail(q), b, e)
  <2>1. T0.docs[b].text # Garbled /\ ChainFits(T0.docs[b], q, b)
    BY <1>2 DEF Told
  <2> QED BY <1>0, <1>1, <1>5, <2>1, PassOther
<1> HIDE DEF d2, m, q
<1>8. /\ T \in Task /\ T.key = T0.key /\ T.phase = "serve" /\ T.queue = Tail(q)
      /\ T.docs = [T0.docs EXCEPT ![m.buf] = d2]
  <2>1. [T0.docs EXCEPT ![m.buf] = d2] \in [Buffers -> Copy]
    BY <1>0, <1>4, <1>6
  <2> HIDE DEF Copy, Msg
  <2> QED BY <1>0, <1>1, <1>3, <2>1 DEF Task
<1>9. T.docs[m.buf] = d2 /\ \A b \in Buffers \ {m.buf} : T.docs[b] = T0.docs[b]
  BY <1>0, <1>4, <1>8
<1> HIDE DEF T
<1>10. \A b \in Buffers :
         /\ Told(T, b)
         /\ \A e : Leads(T0.docs[b], q, b, e) => Leads(T.docs[b], T.queue, b, e)
  BY <1>6, <1>7, <1>8, <1>9 DEF Told
<1> QED BY <1>1, <1>8, <1>10, TaskStep DEF T0, q

LEMMA EndStep ==
  ASSUME SyncInv, NEW t \in DOMAIN tasks, tasks' = EndTask(t),
         UNCHANGED <<ed, text, jrn, saves, doc, servers>>
  PROVE  SyncInv'
<1> DEFINE T == [NewTask(tasks[t].key) EXCEPT !.phase = "ended"]
<1>0. tasks[t].key \in Keys
  BY TasksTyped DEF SyncInv
<1>1. NewTask(tasks[t].key) \in Task /\ NewTask(tasks[t].key).key = tasks[t].key
      /\ NewTask(tasks[t].key).queue = <<>> /\ NewTask(tasks[t].key).docs = Nothing
  BY <1>0, NewTaskTyped
<1>2. T \in Task /\ T.key = tasks[t].key /\ T.queue = <<>> /\ T.docs = Nothing
  <2> DEFINE N == NewTask(tasks[t].key)
  <2> HIDE DEF N, Msg, Copy
  <2>1. N \in Task /\ N.key = tasks[t].key /\ N.queue = <<>> /\ N.docs = Nothing
    BY <1>1 DEF N
  <2>2. T = [N EXCEPT !.phase = "ended"]
    BY DEF N
  <2> HIDE DEF T
  <2> QED BY <2>1, <2>2 DEF Task
<1>3. tasks' = [tasks EXCEPT ![t] = T]
  BY DEF EndTask
<1> HIDE DEF T
<1>4. \A b \in Buffers : Told(T, b) /\ \A e : Leads(T.docs[b], T.queue, b, e)
  BY <1>2, GoneTask
<1> QED BY <1>2, <1>3, <1>4, TaskStep

LEMMA FailStep ==
  ASSUME SyncInv, NEW t \in DOMAIN tasks, Fail(t) PROVE SyncInv'
<1>1. UNCHANGED <<ed, text, jrn, saves, doc, servers>>
  BY DEF Fail, content
<1>2. PICK n \in 1..(tasks[t].failures + 1) :
        tasks' = IF servers[tasks[t].key] # t \/ n >= GiveUp THEN EndTask(t)
                 ELSE [tasks EXCEPT ![t].phase = "backoff", ![t].queue = <<>>,
                                    ![t].docs = Nothing, ![t].failures = n]
  BY DEF Fail
<1>3. CASE tasks' = EndTask(t)
  BY <1>1, <1>3, EndStep
<1>4. CASE tasks' = [tasks EXCEPT ![t].phase = "backoff", ![t].queue = <<>>,
                                  ![t].docs = Nothing, ![t].failures = n]
  <2> DEFINE T0 == tasks[t]
             T  == [T0 EXCEPT !.phase = "backoff", !.queue = <<>>, !.docs = Nothing,
                              !.failures = n]
  <2>1. tasks' = [tasks EXCEPT ![t] = T]
    BY <1>4
  <2>2. T0 \in Task /\ T0.failures \in Nat
    BY TasksTyped, TaskTyped DEF SyncInv
  <2>3. n \in Nat
    BY <2>2
  <2>4. Nothing \in [Buffers -> Copy] /\ <<>> \in Seq(Msg)
    BY DEF Nothing, Copy, Texts
  <2> HIDE DEF T0
  <2>5. T \in Task /\ T.key = T0.key /\ T.queue = <<>> /\ T.docs = Nothing /\ T.phase = "backoff"
    <3> HIDE DEF Copy, Msg
    <3> QED BY <2>2, <2>3, <2>4 DEF Task
  <2> HIDE DEF T
  <2>6. \A b \in Buffers : Told(T, b) /\ \A e : Leads(T.docs[b], T.queue, b, e)
    BY <2>5, GoneTask
  <2> QED BY <1>1, <2>1, <2>5, <2>6, TaskStep DEF T0
<1> QED BY <1>2, <1>3, <1>4

-----------------------------------------------------------------------------
(* The theorem. *)

LEMMA InitSync == Init => SyncInv
<1> SUFFICES ASSUME Init PROVE SyncInv
  OBVIOUS
<1>1. NoDoc \in Doc /\ ~NoDoc.opened
  BY DEF NoDoc, Doc
<1>2. /\ ed = [cur |-> CHOOSE b \in Buffers : TRUE, open |-> Buffers,
               runtime |-> {}, ensured |-> {}]
      /\ text = [b \in Buffers |-> 0] /\ saves = [b \in Buffers |-> 0]
      /\ jrn = [b \in Buffers |-> [from |-> 0, resync |-> FALSE]]
      /\ doc = [b \in Buffers |-> [k \in Keys |-> NoDoc]]
      /\ servers = [k \in Keys |-> 0] /\ tasks = <<>>
  BY DEF Init
<1>3. (CHOOSE b \in Buffers : TRUE) \in Buffers
  BY DocSyncAssumption
<1>4. tasks \in Seq(Task) /\ DOMAIN tasks = {}
  BY <1>2
<1>5. TypeInv
  BY <1>1, <1>2, <1>3, <1>4 DEF TypeInv
<1>6. JournalInv
  BY <1>1, <1>2 DEF JournalInv
<1>7. EndedInv /\ CopyInv
  BY <1>4 DEF EndedInv, CopyInv
<1> QED BY <1>5, <1>6, <1>7 DEF SyncInv

LEMMA IdleStep == SyncInv /\ UNCHANGED vars => SyncInv'
BY DEF vars, SyncInv, TypeInv, JournalInv, EndedInv, Ended, CopyInv

LEMMA NextStep == SyncInv /\ [Next]_vars => SyncInv'
<1> SUFFICES ASSUME SyncInv, [Next]_vars PROVE SyncInv'
  OBVIOUS
<1>1. CASE Editor
  BY <1>1, StartStep, EditStep, WriteStep, SwitchStep, DeleteStep, ReopenStep, MoveStep,
     WorkspaceEditStep, StopStep, RestartStep, ReconnectStep, SyncStep DEF Editor
<1>2. ASSUME NEW k \in Keys, Handle(k) PROVE SyncInv'
  BY <1>2, OnInitializedStep, OnExitedStep DEF Handle
<1>3. ASSUME NEW t \in DOMAIN tasks, Proceed(t) \/ Fail(t) PROVE SyncInv'
  <2>1. ASSUME ShutDown(t) PROVE SyncInv'
    BY <2>1, EndStep DEF ShutDown, content
  <2> QED BY <1>3, <2>1, PhaseStep, DeliverStep, FailStep DEF Proceed
<1>4. CASE UNCHANGED vars
  BY <1>4, IdleStep
<1> QED BY <1>1, <1>2, <1>3, <1>4 DEF Next

\* However edits, redraws, crashes, stops and restarts interleave, what is on its
\* way to a server fits what the server holds and leads to what the editor keeps
\* of it (sync_lsp, sync_lsp_buffer, the serve loop of manager.rs).
THEOREM SyncAlways == Spec => []SyncInv
BY InitSync, NextStep, PTL DEF Spec

\* No server is ever told of a change, a version or a write that does not fit the
\* text it holds (sync_lsp drains one journal for all the servers of a buffer).
THEOREM DeltasAlwaysFit == Spec => []DeltasFit
<1>1. SyncInv => DeltasFit
  BY DEF SyncInv, CopyInv, Told, DeltasFit
<1> QED BY <1>1, SyncAlways, PTL

=============================================================================
