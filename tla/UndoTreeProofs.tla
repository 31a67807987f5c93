-------------------------- MODULE UndoTreeProofs --------------------------
(***************************************************************************)
(* That leaving a state of the text never loses it, that a buffer which    *)
(* reads as clean holds what its file holds, that travel goes where its    *)
(* direction says, and that the steps are the documented changes: for      *)
(* every value of 'undolevels', every count and any number of changes and  *)
(* writes, where every edit opens a group (RubOut, which opens none, is    *)
(* not in Next).                                                           *)
(***************************************************************************)
EXTENDS UndoTree, FiniteSetTheorems, WellFoundedInduction, TLAPS

-----------------------------------------------------------------------------
(* Least and greatest members. *)

\* A nonempty set of numbers has a least member, and Min is it.
LEMMA MinIn ==
  ASSUME NEW S, S \subseteq Nat, S # {}
  PROVE  Min(S) \in S /\ \A y \in S : Min(S) <= y
<1>1. PICK x \in S : \A y \in S : ~ (<<y, x>> \in OpToRel(<, Nat))
  BY NatLessThanWellFounded, WFMin
<1>2. OpToRel(<, Nat) = {ss \in Nat \X Nat : ss[1] < ss[2]}
  BY DEF OpToRel
<1>3. \A y \in S : x <= y
  <2> SUFFICES ASSUME NEW y \in S, y < x PROVE FALSE
    OBVIOUS
  <2>1. <<y, x>> \in {ss \in Nat \X Nat : ss[1] < ss[2]}
    OBVIOUS
  <2> QED BY <2>1, <1>1, <1>2
<1> QED BY <1>3 DEF Min

\* A nonempty set of numbers below a bound has a greatest member.
LEMMA MaxIn ==
  ASSUME NEW S, NEW k \in Nat, S \subseteq 0 .. k, S # {}
  PROVE  Max(S) \in S /\ \A y \in S : Max(S) >= y
<1> DEFINE T == {k - s : s \in S}
<1>1. \A s \in S : s \in Nat /\ k - s \in Nat
  OBVIOUS
<1>2. T \subseteq Nat /\ T # {}
  BY <1>1
<1> HIDE DEF T
<1>3. Min(T) \in T /\ \A y \in T : Min(T) <= y
  BY <1>2, MinIn
<1>4. PICK m \in S : Min(T) = k - m
  BY <1>3 DEF T
<1>5. \A y \in S : m >= y
  <2> SUFFICES ASSUME NEW y \in S PROVE m >= y
    OBVIOUS
  <2>1. k - y \in T
    BY DEF T
  <2>2. k - m <= k - y
    BY <2>1, <1>3, <1>4
  <2> QED BY <2>2, <1>1
<1> QED BY <1>5 DEF Max

-----------------------------------------------------------------------------
(* The tree. *)

\* The shape of the tree: the current state is in it, and every node's path
\* leads through nodes of the tree, in the order they were made.
TreeOK(t) ==
  /\ t \in Tree
  /\ t.cur \in Seqs(t)
  /\ \A s \in Seqs(t) :
       /\ s < t.next
       /\ s \in t.nodes[s].path /\ t.nodes[s].path \subseteq Seqs(t)
       /\ \A a \in t.nodes[s].path : a <= s
       /\ t.nodes[s].save <= t.saveLast

\* What the live text tick says is nowhere in the tree is in an open group.
Recorded(t, text, tick) ==
  /\ t.dirty => t.dirtyTick <= tick
  /\ ~Pending(t, tick) => t.nodes[t.cur].text = text

\* The state last read from or written to the file, while the tree holds it,
\* is what the file holds.
SavedOK(t, saved, file) ==
  /\ saved < t.next
  /\ saved \in Seqs(t) => t.nodes[saved].text = file

Core ==
  /\ buf \in Buf /\ disk \in Nat /\ TreeOK(tree)
  /\ Recorded(tree, buf.text, buf.tick)
  /\ SavedOK(tree, buf.saved, disk)
  /\ CleanIsOnDisk

Rest ==
  /\ levels \in Levels /\ mode \in {"normal", "insert"} /\ oneShot \in BOOLEAN
  /\ taken \in BOOLEAN /\ typing \in Typing /\ fresh \in BOOLEAN
  /\ refused \in BOOLEAN /\ landed \in Landings

\* The inductive invariant: the two properties need the tree's shape (a move
\* lands on a node), the opened groups (an edit outside one is lost) and
\* what saved_seq stands for.
UndoInv == Core /\ Rest

\* An arena is a function from a set of numbers to nodes.
LEMMA ArenaDef ==
  ASSUME NEW n
  PROVE  n \in Arena <=> DOMAIN n \subseteq Nat /\ n \in [DOMAIN n -> Node]
BY DEF Arena

\* The fields of a tree and of its nodes.
LEMMA TreeFields ==
  ASSUME NEW t \in Tree
  PROVE  /\ t.nodes \in Arena /\ t.cur \in Nat /\ t.next \in Nat
         /\ t.dirty \in BOOLEAN /\ t.dirtyTick \in Nat /\ t.saveLast \in Nat
         /\ Seqs(t) \subseteq Nat
         /\ \A s \in Seqs(t) : /\ t.nodes[s].path \subseteq Nat
                               /\ t.nodes[s].text \in Nat
                               /\ t.nodes[s].save \in Nat
<1>1. t.nodes \in Arena /\ t.cur \in Nat /\ t.next \in Nat
      /\ t.dirty \in BOOLEAN /\ t.dirtyTick \in Nat /\ t.saveLast \in Nat
  BY DEF Tree
<1>2. Seqs(t) \subseteq Nat /\ t.nodes \in [Seqs(t) -> Node]
  BY <1>1, ArenaDef DEF Seqs
<1> QED BY <1>1, <1>2 DEF Node

\* A fresh tree is well formed and holds the text it was made of.
LEMMA NewTreeOK ==
  ASSUME NEW x \in Nat
  PROVE  /\ TreeOK(NewTree(x)) /\ Seqs(NewTree(x)) = {0}
         /\ NewTree(x).nodes[0].text = x /\ NewTree(x).cur = 0
         /\ NewTree(x).next = 1 /\ ~NewTree(x).dirty
<1> DEFINE n == [path |-> {0}, text |-> x, save |-> 0]
           a == [s \in {0} |-> n]
<1>1. n \in Node
  BY DEF Node
<1>2. a \in Arena
  <2>1. a \in [{0} -> Node] /\ DOMAIN a = {0}
    BY <1>1
  <2> HIDE DEF a
  <2> QED BY <2>1, ArenaDef
<1>3. DOMAIN a = {0} /\ a[0] = n /\ n.path = {0} /\ n.text = x /\ n.save = 0
  OBVIOUS
<1>4. NewTree(x) = [nodes |-> a, cur |-> 0, next |-> 1, dirty |-> FALSE,
                    dirtyTick |-> 0, saveLast |-> 0]
  BY DEF NewTree
<1> HIDE DEF a, n
<1>5. NewTree(x) \in Tree
  BY <1>2, <1>4 DEF Tree
<1>6. /\ NewTree(x).nodes = a /\ NewTree(x).cur = 0 /\ NewTree(x).next = 1
      /\ ~NewTree(x).dirty /\ NewTree(x).saveLast = 0
  BY <1>4
<1>7. Seqs(NewTree(x)) = {0}
  BY <1>3, <1>6 DEF Seqs
<1>8. TreeOK(NewTree(x))
  BY <1>3, <1>5, <1>6, <1>7 DEF TreeOK
<1> QED BY <1>3, <1>6, <1>7, <1>8

\* A group that opens, or stays open, changes nothing of the states.
LEMMA MarkDirtyOK ==
  ASSUME NEW t, TreeOK(t), NEW k \in Nat
  PROVE  /\ TreeOK(MarkDirty(t, k)) /\ MarkDirty(t, k).dirty
         /\ MarkDirty(t, k).nodes = t.nodes /\ MarkDirty(t, k).cur = t.cur
         /\ MarkDirty(t, k).next = t.next /\ MarkDirty(t, k).saveLast = t.saveLast
         /\ MarkDirty(t, k).dirtyTick = (IF t.dirty THEN t.dirtyTick ELSE k)
<1>1. t \in Tree
  BY DEF TreeOK
<1>2. MarkDirty(t, k) \in Tree
  BY <1>1 DEF MarkDirty, Tree
<1>3. /\ MarkDirty(t, k).nodes = t.nodes /\ MarkDirty(t, k).cur = t.cur
      /\ MarkDirty(t, k).next = t.next /\ MarkDirty(t, k).saveLast = t.saveLast
      /\ MarkDirty(t, k).dirtyTick = (IF t.dirty THEN t.dirtyTick ELSE k)
      /\ MarkDirty(t, k).dirty
  BY <1>1 DEF MarkDirty, Tree
<1> QED BY <1>2, <1>3 DEF TreeOK, Seqs

\* The commit of the live text: one node more, and nothing lies below it.
Grown(t, x, g) ==
  /\ TreeOK(g) /\ ~g.dirty /\ g.cur = t.next /\ g.next = t.next + 1
  /\ g.saveLast = t.saveLast
  /\ Seqs(g) = Seqs(t) \cup {t.next} /\ t.next \notin Seqs(t)
  /\ g.nodes[t.next].text = x /\ g.nodes[t.next].save = 0
  /\ \A s \in Seqs(t) : g.nodes[s] = t.nodes[s]
  /\ Below(g, g.cur) = {g.cur}

LEMMA GrowOK ==
  ASSUME NEW t, TreeOK(t), NEW x \in Nat
  PROVE  Grown(t, x, Grow(t, x))
<1> DEFINE g == Grow(t, x)
           n == [path |-> t.nodes[t.cur].path \cup {t.next}, text |-> x, save |-> 0]
           a == [s \in Seqs(t) \cup {t.next} |->
                   IF s = t.next
                   THEN [path |-> t.nodes[t.cur].path \cup {s}, text |-> x, save |-> 0]
                   ELSE t.nodes[s]]
<1>1. t \in Tree /\ t.cur \in Seqs(t)
  BY DEF TreeOK
<1>2. t.next \in Nat /\ t.saveLast \in Nat /\ Seqs(t) \subseteq Nat
      /\ t.nodes \in [Seqs(t) -> Node]
  BY <1>1, TreeFields, ArenaDef DEF Seqs
<1>3. t.next \notin Seqs(t)
  BY <1>2 DEF TreeOK
<1>4. n \in Node
  BY <1>1, <1>2, TreeFields DEF Node
<1>5. /\ DOMAIN a = Seqs(t) \cup {t.next} /\ a[t.next] = n
      /\ \A s \in Seqs(t) : a[s] = t.nodes[s]
  BY <1>3
<1>6. \A s \in Seqs(t) \cup {t.next} : a[s] \in Node
  BY <1>2, <1>4, <1>5
<1>7. a \in Arena
  <2>1. a \in [DOMAIN a -> Node]
    BY <1>5, <1>6
  <2> QED BY <2>1, <1>2, <1>5, ArenaDef
<1>8. g = [t EXCEPT !.nodes = a, !.cur = t.next, !.next = t.next + 1,
                    !.dirty = FALSE]
  BY DEF Grow
<1> HIDE DEF g, a
<1>9. /\ g.nodes = a /\ g.cur = t.next /\ g.next = t.next + 1 /\ g.dirty = FALSE
      /\ g.saveLast = t.saveLast /\ g \in Tree
  <2>1. t.next + 1 \in Nat
    BY <1>2
  <2>2. /\ g.nodes = a /\ g.cur = t.next /\ g.next = t.next + 1 /\ g.dirty = FALSE
        /\ g.saveLast = t.saveLast
    BY <1>1, <1>8 DEF Tree
  <2>3. g \in Tree
    BY <1>1, <1>2, <1>7, <1>8, <2>1 DEF Tree
  <2> QED BY <2>2, <2>3
<1>10. Seqs(g) = Seqs(t) \cup {t.next}
  BY <1>5, <1>9 DEF Seqs
<1>11. n.path = t.nodes[t.cur].path \cup {t.next} /\ n.text = x /\ n.save = 0
  OBVIOUS
<1> HIDE DEF n
<1>12. TreeOK(g)
  <2>1. g \in Tree /\ g.cur \in Seqs(g)
    BY <1>9, <1>10
  <2>2. ASSUME NEW s \in Seqs(g)
        PROVE  /\ s < g.next
               /\ s \in g.nodes[s].path /\ g.nodes[s].path \subseteq Seqs(g)
               /\ \A b \in g.nodes[s].path : b <= s
               /\ g.nodes[s].save <= g.saveLast
    <3>1. CASE s = t.next
      <4>0. t.next < t.next + 1 /\ t.next \in n.path /\ n.path \subseteq Seqs(g)
        <5>1. t.nodes[t.cur].path \subseteq Seqs(t)
          BY <1>1 DEF TreeOK
        <5> QED BY <5>1, <1>2, <1>10, <1>11
      <4>1. g.nodes[s] = n
        BY <3>1, <1>5, <1>9
      <4>2. t.nodes[t.cur].path \subseteq Seqs(t)
        BY <1>1 DEF TreeOK
      <4>3. \A b \in Seqs(t) : b < t.next
        BY DEF TreeOK
      <4>4. \A b \in n.path : b <= s
        BY <3>1, <4>2, <4>3, <1>11, <1>2
      <4>5. n.save <= g.saveLast
        BY <1>2, <1>9, <1>11
      <4> QED BY <3>1, <4>0, <4>1, <4>4, <4>5, <1>9
    <3>2. CASE s \in Seqs(t)
      <4>1. g.nodes[s] = t.nodes[s]
        BY <3>2, <1>5, <1>9
      <4>2. /\ s < t.next
            /\ s \in t.nodes[s].path /\ t.nodes[s].path \subseteq Seqs(t)
            /\ \A b \in t.nodes[s].path : b <= s
            /\ t.nodes[s].save <= t.saveLast
        BY <3>2 DEF TreeOK
      <4>3. s < t.next + 1
        BY <4>2, <3>2, <1>2
      <4> QED BY <4>1, <4>2, <4>3, <1>9, <1>10
    <3> QED BY <3>1, <3>2, <1>10
  <2> QED BY <2>1, <2>2 DEF TreeOK
<1>13. \A s \in Seqs(t) : g.nodes[s] = t.nodes[s]
  BY <1>5, <1>9
<1>14. g.nodes[t.next] = n
  BY <1>5, <1>9
<1>15. Below(g, g.cur) = {g.cur}
  <2>1. \A s \in Seqs(t) : t.nodes[s].path \subseteq Seqs(t)
    BY DEF TreeOK
  <2>2. \A s \in Seqs(t) : t.next \notin g.nodes[s].path
    BY <2>1, <1>3, <1>13
  <2>3. t.next \in g.nodes[t.next].path
    BY <1>11, <1>14
  <2> QED BY <2>2, <2>3, <1>9, <1>10 DEF Below
<1> QED BY <1>3, <1>9, <1>10, <1>11, <1>12, <1>13, <1>14, <1>15 DEF g, Grown

\* Promoting a state on the path to cur keeps cur, and the states it keeps
\* as they were.
LEMMA RerootOK ==
  ASSUME NEW t, TreeOK(t), NEW heir \in t.nodes[t.cur].path
  PROVE  LET r == Reroot(t, heir) IN
         /\ TreeOK(r) /\ r.cur = t.cur /\ r.next = t.next /\ r.dirty = t.dirty
         /\ r.saveLast = t.saveLast /\ Seqs(r) \subseteq Seqs(t)
         /\ \A s \in Seqs(r) : /\ r.nodes[s].text = t.nodes[s].text
                               /\ r.nodes[s].save = t.nodes[s].save
<1> DEFINE r == Reroot(t, heir)
           b == Below(t, heir)
           a == [s \in b |-> [t.nodes[s] EXCEPT !.path = @ \cap b]]
<1>1. t \in Tree /\ t.cur \in Seqs(t)
  BY DEF TreeOK
<1>2. Seqs(t) \subseteq Nat /\ t.nodes \in [Seqs(t) -> Node]
  BY <1>1, TreeFields, ArenaDef DEF Seqs
<1>3. b \subseteq Seqs(t) /\ t.cur \in b
  BY <1>1 DEF Below
<1>4. \A s \in b : heir \in t.nodes[s].path
  BY DEF Below
<1>5. r = [t EXCEPT !.nodes = a]
  BY DEF Reroot
<1> HIDE DEF b, r
<1>6. \A s \in b : /\ a[s] \in Node
                   /\ a[s].path = t.nodes[s].path \cap b
                   /\ a[s].text = t.nodes[s].text /\ a[s].save = t.nodes[s].save
  <2> SUFFICES ASSUME NEW s \in b
               PROVE  /\ a[s] \in Node
                      /\ a[s].path = t.nodes[s].path \cap b
                      /\ a[s].text = t.nodes[s].text /\ a[s].save = t.nodes[s].save
    OBVIOUS
  <2>1. t.nodes[s] \in Node
    BY <1>2, <1>3
  <2>2. a[s] = [t.nodes[s] EXCEPT !.path = @ \cap b]
    OBVIOUS
  <2> QED BY <2>1, <2>2 DEF Node
<1>7. a \in Arena /\ DOMAIN a = b
  <2>1. a \in [b -> Node] /\ DOMAIN a = b
    BY <1>6
  <2> QED BY <2>1, <1>2, <1>3, ArenaDef
<1> HIDE DEF a
<1>8. /\ r \in Tree /\ r.nodes = a /\ r.cur = t.cur /\ r.next = t.next
      /\ r.dirty = t.dirty /\ r.saveLast = t.saveLast
  BY <1>1, <1>5, <1>7 DEF Tree
<1>9. Seqs(r) = b
  BY <1>7, <1>8 DEF Seqs
<1>10. ASSUME NEW s \in b
       PROVE  /\ s < r.next
              /\ s \in r.nodes[s].path /\ r.nodes[s].path \subseteq Seqs(r)
              /\ \A x \in r.nodes[s].path : x <= s
              /\ r.nodes[s].save <= r.saveLast
  <2>1. /\ s < t.next /\ s \in t.nodes[s].path
        /\ \A x \in t.nodes[s].path : x <= s
        /\ t.nodes[s].save <= t.saveLast
    BY <1>3 DEF TreeOK
  <2> QED BY <2>1, <1>6, <1>8, <1>9
<1>11. TreeOK(r)
  BY <1>3, <1>8, <1>9, <1>10 DEF TreeOK
<1> QED BY <1>3, <1>6, <1>8, <1>9, <1>11 DEF r

\* Pruning right after a commit keeps the state that was committed.
LEMMA PruneOK ==
  ASSUME NEW t, TreeOK(t), Below(t, t.cur) = {t.cur}, NEW keep \in Nat
  PROVE  LET p == Prune(t, keep) IN
         /\ TreeOK(p) /\ p.cur = t.cur /\ p.next = t.next /\ p.dirty = t.dirty
         /\ p.saveLast = t.saveLast /\ Seqs(p) \subseteq Seqs(t)
         /\ \A s \in Seqs(p) : /\ p.nodes[s].text = t.nodes[s].text
                               /\ p.nodes[s].save = t.nodes[s].save
<1> DEFINE S == {a \in t.nodes[t.cur].path : Cardinality(Below(t, a)) <= keep + 1}
<1>1. t \in Tree /\ t.cur \in Seqs(t) /\ t.cur \in t.nodes[t.cur].path
  BY DEF TreeOK
<1>2. Cardinality(Below(t, t.cur)) = 1
  BY FS_Singleton
<1>3. t.cur \in S
  BY <1>1, <1>2
<1>4. S \subseteq Nat
  BY <1>1, TreeFields
<1>5. Min(S) \in S
  BY <1>3, <1>4, MinIn
<1>6. Min(S) \in t.nodes[t.cur].path
  BY <1>5
<1>7. Prune(t, keep) = Reroot(t, Min(S))
  BY DEF Prune
<1> HIDE DEF S
<1> QED BY <1>6, <1>7, RerootOK

\* What every tree on the way from one state to the next says of the live
\* text and of the file; with a group open in it; and with none.
Holds(t) ==
  TreeOK(t) /\ Recorded(t, buf.text, buf.tick) /\ SavedOK(t, buf.saved, disk)

Opened(t) == Holds(t) /\ t.dirty

Closed(t) ==
  /\ TreeOK(t) /\ ~t.dirty /\ t.nodes[t.cur].text = buf.text
  /\ SavedOK(t, buf.saved, disk)

\* A commit closes the group, and then the tree holds the live text at cur;
\* what the tree says of the file stays true.
LEMMA CommitOK ==
  ASSUME UndoInv, NEW t, Holds(t)
  PROVE  Closed(Commit(t))
<1>1. TreeOK(t) /\ t \in Tree /\ buf.text \in Nat /\ buf.tick \in Nat
      /\ levels \in Int /\ buf.saved \in Nat
  BY UndoAssumption DEF UndoInv, Core, Rest, Buf, Holds, TreeOK
<1>2. Recorded(t, buf.text, buf.tick) /\ SavedOK(t, buf.saved, disk)
  BY DEF Holds
<1>3. CASE Pending(t, buf.tick)
  <2> DEFINE g == Grow(t, buf.text)
             k == Keep(levels)
             c == Commit(t)
  <2>1. k \in Nat
    BY <1>1 DEF Keep
  <2>2. c = Prune(g, k)
    BY <1>3 DEF Commit
  <2>0. TreeOK(t) /\ buf.text \in Nat
    BY <1>1
  <2>g. Grown(t, buf.text, g)
    BY <2>0, GrowOK
  <2> HIDE DEF g, k, c
  <2>3. /\ TreeOK(g) /\ ~g.dirty /\ g.cur = t.next /\ g.next = t.next + 1
        /\ g.saveLast = t.saveLast
        /\ Seqs(g) = Seqs(t) \cup {t.next} /\ t.next \notin Seqs(t)
        /\ g.nodes[t.next].text = buf.text
        /\ \A s \in Seqs(t) : g.nodes[s] = t.nodes[s]
        /\ Below(g, g.cur) = {g.cur}
    BY <2>g DEF Grown
  <2>4. /\ TreeOK(c) /\ c.cur = g.cur /\ c.next = g.next /\ c.dirty = g.dirty
        /\ c.saveLast = g.saveLast /\ Seqs(c) \subseteq Seqs(g)
        /\ \A s \in Seqs(c) : c.nodes[s].text = g.nodes[s].text
    BY <2>1, <2>2, <2>3, PruneOK
  <2>5. c.nodes[c.cur].text = buf.text
    BY <2>3, <2>4 DEF TreeOK
  <2>6. SavedOK(c, buf.saved, disk)
    <3>1. t.next \in Nat
      BY <1>1, TreeFields
    <3>2. buf.saved < c.next /\ buf.saved # t.next
      BY <3>1, <1>1, <1>2, <2>3, <2>4 DEF SavedOK
    <3>3. ASSUME buf.saved \in Seqs(c) PROVE c.nodes[buf.saved].text = disk
      <4>1. buf.saved \in Seqs(t)
        BY <3>2, <3>3, <2>3, <2>4
      <4> QED BY <4>1, <3>3, <1>2, <2>3, <2>4 DEF SavedOK
    <3> QED BY <3>2, <3>3 DEF SavedOK
  <2> QED BY <2>3, <2>4, <2>5, <2>6 DEF c, Closed
<1>4. CASE ~Pending(t, buf.tick)
  <2> DEFINE c == Commit(t)
  <2>1. c = [t EXCEPT !.dirty = FALSE]
    BY <1>4 DEF Commit
  <2> HIDE DEF c
  <2>2. /\ c \in Tree /\ c.nodes = t.nodes /\ c.cur = t.cur
        /\ c.next = t.next /\ c.saveLast = t.saveLast /\ c.dirty = FALSE
    BY <1>1, <2>1 DEF Tree
  <2>3. TreeOK(c)
    BY <1>1, <2>2 DEF TreeOK, Seqs
  <2>4. c.nodes[c.cur].text = buf.text
    BY <1>2, <1>4, <2>2 DEF Recorded
  <2>5. SavedOK(c, buf.saved, disk)
    BY <1>2, <2>2 DEF SavedOK, Seqs
  <2> QED BY <2>2, <2>3, <2>4, <2>5 DEF c, Closed
<1> QED BY <1>3, <1>4

\* Every way to begin an edit opens a group and loses nothing.
LEMMA OpenedOK ==
  ASSUME UndoInv, NEW t, Holds(t)
  PROVE  /\ Opened(MarkDirty(t, buf.tick))
         /\ Opened(BreakStep(t))
<1>1. buf.tick \in Nat /\ TreeOK(t) /\ Recorded(t, buf.text, buf.tick)
      /\ SavedOK(t, buf.saved, disk)
  BY DEF UndoInv, Core, Buf, Holds
<1>2. Opened(MarkDirty(t, buf.tick))
  <2> DEFINE m == MarkDirty(t, buf.tick)
  <2>1. /\ TreeOK(m) /\ m.dirty /\ m.nodes = t.nodes /\ m.cur = t.cur
        /\ m.next = t.next
        /\ m.dirtyTick = (IF t.dirty THEN t.dirtyTick ELSE buf.tick)
    BY <1>1, MarkDirtyOK
  <2> HIDE DEF m
  <2>2. m.dirtyTick <= buf.tick
    BY <1>1, <2>1 DEF Recorded
  <2>3. ~Pending(m, buf.tick) => ~Pending(t, buf.tick)
    BY <2>1 DEF Pending
  <2>4. Recorded(m, buf.text, buf.tick)
    BY <1>1, <2>1, <2>2, <2>3 DEF Recorded
  <2>5. SavedOK(m, buf.saved, disk)
    BY <1>1, <2>1 DEF SavedOK, Seqs
  <2> QED BY <2>1, <2>4, <2>5 DEF Opened, Holds, m
<1>3. Opened(BreakStep(t))
  <2> DEFINE c == Commit(t)
             m == MarkDirty(c, buf.tick)
  <2>0. Closed(c)
    BY CommitOK
  <2> HIDE DEF c
  <2>1. /\ TreeOK(c) /\ ~c.dirty /\ c.nodes[c.cur].text = buf.text
        /\ SavedOK(c, buf.saved, disk)
    BY <2>0 DEF Closed
  <2>2. /\ TreeOK(m) /\ m.dirty /\ m.nodes = c.nodes /\ m.cur = c.cur
        /\ m.next = c.next /\ m.dirtyTick = buf.tick
    BY <1>1, <2>1, MarkDirtyOK
  <2> HIDE DEF m
  <2>3. Recorded(m, buf.text, buf.tick)
    BY <1>1, <2>1, <2>2 DEF Recorded
  <2>4. SavedOK(m, buf.saved, disk)
    BY <2>1, <2>2 DEF SavedOK, Seqs
  <2> QED BY <2>2, <2>3, <2>4 DEF Opened, Holds, BreakStep, m, c
<1> QED BY <1>2, <1>3

\* push_undo opens a group, and break_undo_step after it the next one.
LEMMA PushUndoOK ==
  ASSUME UndoInv
  PROVE  Opened(PushUndo) /\ Opened(BreakStep(PushUndo)) /\ Opened(BreakStep(tree))
         /\ Closed(Commit(tree))
<1>1. Holds(tree)
  BY DEF UndoInv, Core, Holds
<1>2. Opened(MarkDirty(tree, buf.tick)) /\ Opened(BreakStep(tree))
  BY <1>1, OpenedOK
<1>3. Opened(PushUndo)
  BY <1>2 DEF PushUndo, BreakStep
<1>4. Opened(BreakStep(PushUndo))
  BY <1>3, OpenedOK DEF Opened
<1> QED BY <1>1, <1>2, <1>3, <1>4, CommitOK

-----------------------------------------------------------------------------
(* Where a move may land. *)

\* Any set of states has a first and a last one.
LEMMA SeqsExtremes ==
  ASSUME NEW t, TreeOK(t), NEW S \in SUBSET Seqs(t), S # {}
  PROVE  /\ Min(S) \in S /\ \A n \in S : Min(S) <= n
         /\ Max(S) \in S /\ \A n \in S : Max(S) >= n
<1>1. t \in Tree
  BY DEF TreeOK
<1>2. Seqs(t) \subseteq Nat /\ t.next \in Nat
  BY <1>1, TreeFields
<1>3. S \subseteq Nat /\ S \subseteq 0 .. t.next
  BY <1>2 DEF TreeOK
<1> QED BY <1>2, <1>3, MinIn, MaxIn

\* The ends of a tree are states of it, on either side of the current one.
LEMMA EndNodeIn ==
  ASSUME NEW t, TreeOK(t), NEW back \in BOOLEAN
  PROVE  /\ EndNode(t, back) \in Seqs(t)
         /\ EndNode(t, TRUE) <= t.cur /\ EndNode(t, FALSE) >= t.cur
<1>1. t.cur \in Seqs(t)
  BY DEF TreeOK
<1> QED BY <1>1, SeqsExtremes DEF EndNode

\* g- and g+ and their counts land on a state of the tree.
LEMMA NearSeqIn ==
  ASSUME NEW t, TreeOK(t), NEW target \in Nat, NEW back \in BOOLEAN
  PROVE  NearSeq(t, target, back) \in Seqs(t)
<1> DEFINE side == OnTravelSide(t, back)
           hit == {n \in side : IF back THEN n <= target ELSE n >= target}
           Off(n) == IF n < target THEN target - n ELSE n - target
<1>1. t \in Tree /\ t.cur \in Seqs(t)
  BY DEF TreeOK
<1>2. Seqs(t) \subseteq Nat /\ t.next \in Nat
  BY <1>1, TreeFields
<1>3. Seqs(t) \subseteq 0 .. t.next
  BY <1>2 DEF TreeOK
<1>4. side \subseteq Seqs(t)
  BY DEF OnTravelSide
<1> HIDE DEF side
<1>5. hit \subseteq Seqs(t)
  BY <1>4
<1>6. hit # {} => Max(hit) \in hit /\ Min(hit) \in hit
  <2> HIDE DEF hit
  <2>1. hit \subseteq Nat /\ hit \subseteq 0 .. t.next
    BY <1>2, <1>3, <1>5
  <2> QED BY <2>1, <1>2, MinIn, MaxIn
<1>7. side # {} => \E n \in side : \A m \in side : Off(n) <= Off(m)
  <2> SUFFICES ASSUME side # {} PROVE \E n \in side : \A m \in side : Off(n) <= Off(m)
    OBVIOUS
  <2> DEFINE D == {Off(n) : n \in side}
  <2>1. \A n \in side : Off(n) \in Nat
    BY <1>2, <1>4
  <2> HIDE DEF Off
  <2>2. D \subseteq Nat /\ D # {}
    BY <2>1
  <2> HIDE DEF D
  <2>3. Min(D) \in D /\ \A y \in D : Min(D) <= y
    BY <2>2, MinIn
  <2>4. PICK n \in side : Min(D) = Off(n)
    BY <2>3 DEF D
  <2>5. \A m \in side : Off(m) \in D
    BY DEF D
  <2> QED BY <2>3, <2>4, <2>5
<1>8. NearSeq(t, target, back) =
        IF hit # {} THEN IF back THEN Max(hit) ELSE Min(hit)
        ELSE IF side = {} THEN t.cur
        ELSE CHOOSE n \in side : \A m \in side : Off(n) <= Off(m)
  BY DEF NearSeq, side
<1> HIDE DEF hit, Off
<1>9. CASE hit # {}
  BY <1>5, <1>6, <1>8, <1>9
<1>10. CASE hit = {} /\ side = {}
  BY <1>1, <1>8, <1>10
<1>11. CASE hit = {} /\ side # {}
  <2>1. (CHOOSE n \in side : \A m \in side : Off(n) <= Off(m)) \in side
    BY <1>7, <1>11
  <2> QED BY <2>1, <1>4, <1>8, <1>11
<1> QED BY <1>9, <1>10, <1>11

\* The written states that :earlier {N}f or :later {N}f may lead to.
SaveHits(t, target, back) ==
  {n \in OnTravelSide(t, back) :
     /\ t.nodes[n].save # 0
     /\ IF back THEN t.nodes[n].save <= target ELSE t.nodes[n].save >= target}

\* node_near_save picks the write nearest to the target on the travel's side,
\* and an end of the tree when there is none.
LEMMA NearSaveBest ==
  ASSUME NEW t, TreeOK(t), NEW target \in Int, NEW back \in BOOLEAN
  PROVE  LET hit == SaveHits(t, target, back)
             n   == NearSave(t, target, back)
         IN /\ target <= 0 => n = EndNode(t, TRUE)
            /\ ~(target <= 0) /\ hit = {} => n = EndNode(t, back)
            /\ ~(target <= 0) /\ hit # {} =>
                 /\ n \in hit
                 /\ back => \A m \in hit : t.nodes[m].save <= t.nodes[n].save
<1> DEFINE hit == SaveHits(t, target, back)
           Best(n) == \A m \in hit : IF back THEN t.nodes[m].save <= t.nodes[n].save
                                    ELSE t.nodes[m].save >= t.nodes[n].save
           D == {t.nodes[n].save : n \in hit}
<1>1. t \in Tree
  BY DEF TreeOK
<1>2. t.saveLast \in Nat /\ \A s \in Seqs(t) : t.nodes[s].save \in 0 .. t.saveLast
  BY <1>1, TreeFields DEF TreeOK
<1>3. hit \subseteq Seqs(t)
  BY DEF OnTravelSide, SaveHits
<1>4. NearSave(t, target, back) =
        IF target <= 0 THEN EndNode(t, TRUE)
        ELSE IF hit = {} THEN EndNode(t, back)
        ELSE CHOOSE n \in hit : Best(n)
  BY DEF NearSave, SaveHits
<1>5. ASSUME hit # {} PROVE \E n \in hit : Best(n)
  <2> HIDE DEF hit
  <2>1. D \subseteq 0 .. t.saveLast /\ D # {}
    BY <1>2, <1>3, <1>5
  <2>2. D \subseteq Nat
    BY <2>1
  <2> HIDE DEF D
  <2>3. /\ Min(D) \in D /\ \A y \in D : Min(D) <= y
        /\ Max(D) \in D /\ \A y \in D : Max(D) >= y
    BY <2>1, <2>2, <1>2, MinIn, MaxIn
  <2>4. PICK lo \in hit : Min(D) = t.nodes[lo].save
    BY <2>3 DEF D
  <2>5. PICK hi \in hit : Max(D) = t.nodes[hi].save
    BY <2>3 DEF D
  <2>6. \A m \in hit : t.nodes[m].save \in D
    BY DEF D
  <2>7. \A m \in hit : /\ t.nodes[lo].save <= t.nodes[m].save
                       /\ t.nodes[hi].save >= t.nodes[m].save
    BY <2>3, <2>4, <2>5, <2>6
  <2>8. \A m \in hit : /\ t.nodes[m].save >= t.nodes[lo].save
                       /\ t.nodes[m].save <= t.nodes[hi].save
    BY <2>7, <1>2, <1>3
  <2> QED BY <2>4, <2>5, <2>8
<1>6. CASE target <= 0
  BY <1>4, <1>6
<1>7. CASE ~(target <= 0) /\ hit = {}
  BY <1>4, <1>7
<1>8. CASE ~(target <= 0) /\ hit # {}
  <2> DEFINE n == CHOOSE n \in hit : Best(n)
  <2>1. n \in hit /\ Best(n)
    BY <1>5, <1>8
  <2>2. NearSave(t, target, back) = n
    BY <1>4, <1>8
  <2> HIDE DEF n
  <2> QED BY <1>8, <2>1, <2>2
<1> QED BY <1>6, <1>7, <1>8

\* :earlier {N}f and :later {N}f land on a state of the tree.
LEMMA NearSaveIn ==
  ASSUME NEW t, TreeOK(t), NEW target \in Int, NEW back \in BOOLEAN
  PROVE  NearSave(t, target, back) \in Seqs(t)
<1>1. SaveHits(t, target, back) \subseteq Seqs(t)
  BY DEF OnTravelSide, SaveHits
<1> QED BY <1>1, NearSaveBest, EndNodeIn

\* The write this state comes from, if any, is the newest on its path.
LEMMA WrittenAboveIn ==
  ASSUME NEW t, TreeOK(t)
  PROVE  /\ WrittenAbove(t) \subseteq Seqs(t) /\ SaveAtOrAboveCur(t) \in Nat
         /\ WrittenAbove(t) # {} =>
              /\ Max(WrittenAbove(t)) \in WrittenAbove(t)
              /\ \A a \in WrittenAbove(t) : Max(WrittenAbove(t)) >= a
<1>1. t \in Tree /\ t.cur \in Seqs(t)
  BY DEF TreeOK
<1>2. WrittenAbove(t) \subseteq Seqs(t)
  BY <1>1 DEF WrittenAbove, TreeOK
<1>3. WrittenAbove(t) # {} =>
        /\ Max(WrittenAbove(t)) \in WrittenAbove(t)
        /\ \A a \in WrittenAbove(t) : Max(WrittenAbove(t)) >= a
  BY <1>2, SeqsExtremes
<1> QED BY <1>1, <1>2, <1>3, TreeFields DEF SaveAtOrAboveCur

\* u, CTRL-R, :undo {N}, g-, g+, :earlier and :later land on a state of the
\* tree they move through.
LEMMA MovesLandIn ==
  ASSUME NEW t, TreeOK(t)
  PROVE  /\ Ancestors(t, t.cur) # {} => Max(Ancestors(t, t.cur)) \in Seqs(t)
         /\ Children(t, t.cur) # {} => Max(Children(t, t.cur)) \in Seqs(t)
         /\ \A count \in Counts, back \in BOOLEAN :
              /\ TravelTarget(t, count, back) \in Seqs(t)
              /\ FileTarget(t, count, back) \in Seqs(t)
<1>1. t \in Tree /\ t.cur \in Seqs(t)
  BY DEF TreeOK
<1>2. Seqs(t) \subseteq Nat /\ t.next \in Nat /\ t.cur \in Nat
  BY <1>1, TreeFields
<1>3. Seqs(t) \subseteq 0 .. t.next /\ 0 <= t.next - 1
  BY <1>1, <1>2 DEF TreeOK
<1>4. Ancestors(t, t.cur) \subseteq Seqs(t)
  BY <1>1 DEF Ancestors, TreeOK
<1>5. Children(t, t.cur) \subseteq Seqs(t)
  BY DEF Children
<1>6. \A S \in SUBSET Seqs(t) : S # {} => Max(S) \in S /\ Min(S) \in S
  BY SeqsExtremes
<1>7. ASSUME NEW count \in Counts, NEW back \in BOOLEAN
      PROVE  TravelTarget(t, count, back) \in Seqs(t)
  <2>1. count \in Nat
    BY UndoAssumption
  <2>2. Max({0, t.cur - count}) \in Nat
    <3>1. CASE count <= t.cur
      <4>1. t.cur - count \in Nat
        BY <3>1, <2>1, <1>2
      <4>2. {0, t.cur - count} \subseteq 0 .. t.cur
        BY <4>1, <2>1, <1>2
      <4>3. Max({0, t.cur - count}) \in {0, t.cur - count}
        BY <4>2, <1>2, MaxIn
      <4> QED BY <4>1, <4>3
    <3>2. CASE ~(count <= t.cur)
      <4>1. \E x \in {0, t.cur - count} : \A y \in {0, t.cur - count} : x >= y
        BY <3>2, <2>1, <1>2
      <4>2. /\ Max({0, t.cur - count}) \in {0, t.cur - count}
            /\ Max({0, t.cur - count}) >= 0
        BY <4>1 DEF Max
      <4>3. t.cur - count < 0 /\ t.cur - count \in Int
        BY <3>2, <2>1, <1>2
      <4> QED BY <4>2, <4>3
    <3> QED BY <3>1, <3>2
  <2>3. Min({t.next - 1, t.cur + count}) \in Nat
    <3>1. {t.next - 1, t.cur + count} \subseteq Nat
      BY <2>1, <1>2, <1>3
    <3>2. Min({t.next - 1, t.cur + count}) \in {t.next - 1, t.cur + count}
      BY <3>1, MinIn
    <3> QED BY <3>1, <3>2
  <2>4. (IF back THEN Max({0, t.cur - count}) ELSE Min({t.next - 1, t.cur + count}))
          \in Nat
    BY <2>2, <2>3
  <2> QED BY <2>4, NearSeqIn DEF TravelTarget
<1>8. ASSUME NEW count \in Counts, NEW back \in BOOLEAN
      PROVE  FileTarget(t, count, back) \in Seqs(t)
  <2> DEFINE step == IF t.nodes[t.cur].save # 0 THEN count ELSE count - 1
             base == SaveAtOrAboveCur(t)
  <2>1. step \in Int /\ count \in Nat
    BY UndoAssumption
  <2>2. base \in Nat
    BY WrittenAboveIn
  <2> HIDE DEF base
  <2>3. base + (IF back THEN -step ELSE count) \in Int
    BY <2>1, <2>2
  <2> QED BY <2>3, NearSaveIn DEF FileTarget, base
<1> QED BY <1>4, <1>5, <1>6, <1>7, <1>8

-----------------------------------------------------------------------------
(* The steps. *)

\* The fields of the buffer.
LEMMA BufFields ==
  ASSUME Core
  PROVE  /\ buf \in Buf /\ buf.text \in Nat /\ buf.tick \in Nat
         /\ buf.modified \in BOOLEAN /\ buf.saved \in Nat /\ disk \in Nat
BY DEF Core, Buf

\* An edit inside an open group.
LEMMA EditOK ==
  ASSUME Core, NEW t, Opened(t), tree' = t, NewText, UNCHANGED disk
  PROVE  Core'
<1>1. /\ buf' = [buf EXCEPT !.text = buf.tick + 1, !.tick = @ + 1,
                            !.modified = TRUE]
      /\ buf.tick + 1 \in Nat
  BY BufFields DEF NewText
<1>2. /\ buf' \in Buf /\ buf'.text = buf.tick + 1 /\ buf'.tick = buf.tick + 1
      /\ buf'.modified = TRUE /\ buf'.saved = buf.saved
  BY <1>1, BufFields DEF Buf
<1>3. TreeOK(t) /\ t.dirty /\ t.dirtyTick <= buf.tick /\ t.dirtyTick \in Nat
  BY TreeFields DEF Opened, Holds, Recorded, TreeOK
<1>4. Pending(t, buf.tick + 1) /\ t.dirtyTick <= buf.tick + 1
  BY <1>3, BufFields DEF Pending
<1>5. Recorded(t, buf'.text, buf'.tick)
  BY <1>2, <1>4 DEF Recorded
<1>6. SavedOK(t, buf'.saved, disk)
  BY <1>2 DEF Opened, Holds
<1> QED BY <1>2, <1>3, <1>5, <1>6, BufFields DEF Core, CleanIsOnDisk

\* A group that opens and nothing else.
LEMMA OpenOK ==
  ASSUME Core, NEW t, Opened(t), tree' = t, UNCHANGED <<buf, disk>>
  PROVE  Core'
BY DEF Core, Opened, Holds, CleanIsOnDisk

\* A move through the tree.
LEMMA MoveOK ==
  ASSUME UndoInv, NEW n \in Seqs(Commit(tree)), Move(n)
  PROVE  Core'
<1> DEFINE c == Commit(tree)
<1>1. /\ TreeOK(c) /\ ~c.dirty /\ c.nodes[c.cur].text = buf.text
      /\ SavedOK(c, buf.saved, disk)
  BY PushUndoOK DEF Closed
<1>2. Core /\ c \in Tree
  BY <1>1 DEF UndoInv, TreeOK
<1>3. CASE n = c.cur /\ tree' = c /\ UNCHANGED buf
  <2>1. disk' = disk
    BY DEF Move
  <2> HIDE DEF c
  <2>2. Recorded(c, buf.text, buf.tick)
    BY <1>1 DEF Recorded
  <2> QED BY <1>1, <1>2, <1>3, <2>1, <2>2 DEF Core, CleanIsOnDisk
<1>4. CASE Restore(c, n)
  <2>0. disk' = disk /\ n \in Seqs(c)
    BY DEF Move
  <2>1. /\ tree' = [c EXCEPT !.cur = n]
        /\ buf' = [buf EXCEPT !.text = c.nodes[n].text, !.tick = @ + 1,
                              !.modified = (buf.saved # n)]
    BY <1>4 DEF Restore
  <2> HIDE DEF c
  <2>2. n \in Nat /\ c.nodes[n].text \in Nat /\ buf.tick + 1 \in Nat
    BY <2>0, <1>2, TreeFields, BufFields
  <2>3. /\ tree' \in Tree /\ tree'.nodes = c.nodes /\ tree'.cur = n
        /\ tree'.next = c.next /\ tree'.dirty = c.dirty
        /\ tree'.saveLast = c.saveLast
    BY <2>1, <2>2, <1>2 DEF Tree
  <2>4. /\ buf' \in Buf /\ buf'.text = c.nodes[n].text
        /\ buf'.modified = (buf.saved # n) /\ buf'.saved = buf.saved
        /\ buf'.tick = buf.tick + 1
    BY <2>1, <2>2, <1>2, BufFields DEF Buf
  <2>5. TreeOK(tree')
    BY <1>1, <2>0, <2>3 DEF TreeOK, Seqs
  <2>6. Recorded(tree', buf'.text, buf'.tick)
    BY <1>1, <2>3, <2>4 DEF Recorded
  <2>7. SavedOK(tree', buf'.saved, disk')
    BY <1>1, <2>0, <2>3, <2>4 DEF SavedOK, Seqs
  <2>8. CleanIsOnDisk'
    BY <1>1, <2>0, <2>4 DEF SavedOK, CleanIsOnDisk
  <2> QED BY <2>0, <2>4, <2>5, <2>6, <2>7, <2>8, <1>2, BufFields DEF Core
<1> QED BY <1>3, <1>4 DEF Move

\* A write, and the stamp it leaves.
LEMMA SaveOK ==
  ASSUME UndoInv, Save
  PROVE  Core'
<1> DEFINE c == Commit(tree)
           nr == c.saveLast + 1
           a == [c.nodes EXCEPT ![c.cur].save = nr]
<1>1. /\ TreeOK(c) /\ ~c.dirty /\ c.nodes[c.cur].text = buf.text
      /\ SavedOK(c, buf.saved, disk)
  BY PushUndoOK DEF Closed
<1>2. Core /\ c \in Tree /\ c.cur \in Seqs(c)
  BY <1>1 DEF UndoInv, TreeOK
<1>3. /\ tree' = [c EXCEPT !.saveLast = @ + 1, !.nodes[c.cur].save = c.saveLast + 1]
      /\ buf' = [buf EXCEPT !.modified = FALSE, !.saved = c.cur]
      /\ disk' = buf.text
  BY DEF Save
<1> HIDE DEF c
<1>4. c.saveLast \in Nat /\ c.cur \in Nat /\ Seqs(c) \subseteq Nat /\ nr \in Nat
      /\ c.nodes \in [Seqs(c) -> Node] /\ c.saveLast <= nr
  BY <1>2, TreeFields, ArenaDef DEF Seqs
<1> HIDE DEF nr
<1>5. DOMAIN a = Seqs(c) /\ a \in [Seqs(c) -> Node]
      /\ \A s \in Seqs(c) : /\ a[s].path = c.nodes[s].path
                            /\ a[s].text = c.nodes[s].text
                            /\ a[s].save = (IF s = c.cur THEN nr ELSE c.nodes[s].save)
  <2>1. DOMAIN a = Seqs(c)
    BY DEF Seqs
  <2>2. ASSUME NEW s \in Seqs(c)
        PROVE  /\ a[s] \in Node /\ a[s].path = c.nodes[s].path
               /\ a[s].text = c.nodes[s].text
               /\ a[s].save = (IF s = c.cur THEN nr ELSE c.nodes[s].save)
    <3>1. c.nodes[s] \in Node
      BY <1>4
    <3>2. a[s] = IF s = c.cur THEN [c.nodes[s] EXCEPT !.save = nr] ELSE c.nodes[s]
      BY <1>2, <1>4
    <3> HIDE DEF a
    <3> QED BY <3>1, <3>2, <1>4 DEF Node
  <2>3. a = [s \in Seqs(c) |-> a[s]]
    BY <1>2, <1>4
  <2> HIDE DEF a
  <2> QED BY <2>1, <2>2, <2>3
<1>6. tree' = [c EXCEPT !.saveLast = nr, !.nodes = a]
  BY <1>2, <1>3 DEF nr, Tree
<1> HIDE DEF a
<1>7. a \in Arena
  BY <1>4, <1>5, ArenaDef
<1>8. /\ tree' \in Tree /\ tree'.nodes = a /\ tree'.cur = c.cur
      /\ tree'.next = c.next /\ tree'.dirty = c.dirty /\ tree'.saveLast = nr
  BY <1>2, <1>4, <1>6, <1>7 DEF Tree
<1>9. /\ buf' \in Buf /\ buf'.text = buf.text /\ buf'.modified = FALSE
      /\ buf'.saved = c.cur /\ buf'.tick = buf.tick
  BY <1>2, <1>3, <1>4, BufFields DEF Buf
<1>10. Seqs(tree') = Seqs(c)
  BY <1>5, <1>8 DEF Seqs
<1>11. ASSUME NEW s \in Seqs(c)
       PROVE  /\ s < tree'.next
              /\ s \in a[s].path /\ a[s].path \subseteq Seqs(c)
              /\ \A x \in a[s].path : x <= s
              /\ a[s].save <= nr
  <2>1. /\ s < c.next /\ s \in c.nodes[s].path /\ c.nodes[s].path \subseteq Seqs(c)
        /\ \A x \in c.nodes[s].path : x <= s
        /\ c.nodes[s].save <= c.saveLast /\ c.nodes[s].save \in Nat
    BY <1>1, <1>2, TreeFields DEF TreeOK
  <2>2. c.nodes[s].save <= nr /\ nr <= nr
    BY <2>1, <1>4
  <2> QED BY <2>1, <2>2, <1>5, <1>8
<1>12. TreeOK(tree')
  BY <1>2, <1>8, <1>10, <1>11 DEF TreeOK
<1>13. tree'.nodes[tree'.cur].text = buf.text
  BY <1>1, <1>2, <1>5, <1>8
<1>14. Recorded(tree', buf'.text, buf'.tick)
  BY <1>1, <1>8, <1>9, <1>13 DEF Recorded
<1>15. SavedOK(tree', buf'.saved, disk')
  BY <1>1, <1>2, <1>3, <1>8, <1>9, <1>13 DEF SavedOK, TreeOK
<1>16. CleanIsOnDisk'
  BY <1>3, <1>9 DEF CleanIsOnDisk
<1> QED BY <1>3, <1>9, <1>12, <1>14, <1>15, <1>16, <1>2, BufFields DEF Core

\* A reload: a tree of its own, and a buffer that is its root.
LEMMA ReloadOK ==
  ASSUME Core, Reload
  PROVE  Core'
<1> DEFINE x == buf.tick + 1
<1>1. /\ x \in Nat /\ disk' = x /\ tree' = NewTree(x)
      /\ buf' = [text |-> x, tick |-> x, modified |-> FALSE, saved |-> 0]
  BY BufFields DEF Reload
<1> HIDE DEF x
<1>2. /\ buf' \in Buf /\ buf'.text = x /\ buf'.tick = x /\ buf'.saved = 0
      /\ buf'.modified = FALSE
  BY <1>1 DEF Buf
<1>3. /\ TreeOK(tree') /\ Seqs(tree') = {0} /\ tree'.nodes[0].text = x
      /\ tree'.cur = 0 /\ tree'.next = 1 /\ ~tree'.dirty
  BY <1>1, NewTreeOK
<1>4. Recorded(tree', buf'.text, buf'.tick) /\ SavedOK(tree', buf'.saved, disk')
  BY <1>1, <1>2, <1>3 DEF Recorded, SavedOK
<1> QED BY <1>1, <1>2, <1>3, <1>4 DEF Core, CleanIsOnDisk

\* Every action keeps the text, the tree and the file in step.
LEMMA CoreStep == UndoInv /\ [Next \/ Leave]_vars => Core'
<1> SUFFICES ASSUME UndoInv, [Next \/ Leave]_vars PROVE Core'
  OBVIOUS
<1>0. /\ Core /\ Opened(PushUndo) /\ Opened(BreakStep(PushUndo))
      /\ Opened(BreakStep(tree)) /\ TreeOK(Commit(tree))
  BY PushUndoOK DEF UndoInv, Closed
<1>a. UNCHANGED <<tree, buf, disk>> => Core'
  BY <1>0 DEF Core, CleanIsOnDisk
<1>1. CASE Change
  BY <1>0, <1>1, EditOK DEF Change
<1>2. CASE Batch
  BY <1>0, <1>2, EditOK DEF Batch, BreakStep
<1>3. CASE EnterInsert
  BY <1>0, <1>3, OpenOK DEF EnterInsert
<1>4. CASE ChangeInsert
  BY <1>0, <1>4, EditOK DEF ChangeInsert
<1>5. CASE TypeKey
  <2>1. PICK kind \in {"ins", "del"}, ch \in {"word", "sep", "nl", "none"},
             gap \in BOOLEAN, hits \in BOOLEAN : Type(kind, ch, gap, hits)
    BY <1>5 DEF TypeKey
  <2>2. Opened(tree')
    BY <2>1, <1>0 DEF Type
  <2>3. CASE NewText
    BY <2>1, <2>2, <2>3, <1>0, EditOK DEF Type
  <2>4. CASE UNCHANGED buf
    BY <2>1, <2>2, <2>4, <1>0, OpenOK DEF Type
  <2> QED BY <2>1, <2>3, <2>4 DEF Type
<1>6. CASE Paste
  BY <1>0, <1>6, EditOK DEF Paste, EndedStep
<1>7. CASE CtrlG \/ CtrlO
  BY <1>0, <1>7, OpenOK DEF CtrlG, CtrlO, EndStep, EndedStep
<1>8. CASE Escape \/ Leave \/ SetLevels
  BY <1>8, <1>a DEF Escape, Leave, SetLevels
<1>9. CASE Undo
  <2>1. PICK n \in Seqs(Commit(tree)) : Move(n)
    BY <1>0, <1>9, MovesLandIn DEF Undo, TreeOK
  <2> QED BY <2>1, MoveOK
<1>10. CASE Redo
  <2>1. PICK n \in Seqs(Commit(tree)) : Move(n)
    BY <1>0, <1>10, MovesLandIn DEF Redo, TreeOK
  <2> QED BY <2>1, MoveOK
<1>11. CASE UndoToSeq
  <2>1. PICK n \in Seqs(Commit(tree)) : Move(n)
    BY <1>0, <1>11 DEF UndoToSeq, TreeOK
  <2> QED BY <2>1, MoveOK
<1>12. CASE Travel
  <2>1. PICK n \in Seqs(Commit(tree)) : Move(n)
    BY <1>0, <1>12, MovesLandIn DEF Travel
  <2> QED BY <2>1, MoveOK
<1>13. CASE TravelFile
  <2>1. PICK n \in Seqs(Commit(tree)) : Move(n)
    BY <1>0, <1>13, MovesLandIn DEF TravelFile
  <2> QED BY <2>1, MoveOK
<1>14. CASE Save
  BY <1>14, SaveOK
<1>15. CASE Reload
  BY <1>0, <1>15, ReloadOK
<1>16. CASE UNCHANGED vars
  BY <1>16, <1>a DEF vars
<1> QED
  BY <1>1, <1>2, <1>3, <1>4, <1>5, <1>6, <1>7, <1>8, <1>9, <1>10, <1>11, <1>12,
     <1>13, <1>14, <1>15, <1>16 DEF Next

\* Every action keeps the types of what the keys change.
LEMMA RestStep == UndoInv /\ [Next \/ Leave]_vars => Rest'
<1> SUFFICES ASSUME UndoInv, [Next \/ Leave]_vars PROVE Rest'
  OBVIOUS
<1>0. Rest /\ buf.tick \in Nat
  BY BufFields DEF UndoInv
<1>1. NoTyping \in Typing /\ [NoTyping EXCEPT !.tick = 0] \in Typing
  BY <1>0 DEF NoTyping, Typing
<1>2. Resumed => mode' \in {"normal", "insert"} /\ oneShot' \in BOOLEAN
  BY DEF Resumed
<1>3. \A t, new : Landed(t, new) => landed' \in Landings
  BY DEF Landed, Landing, Landings
<1>c. Anew \/ GoesOn => fresh' \in BOOLEAN /\ refused' \in BOOLEAN
  BY DEF Anew, GoesOn
<1>a. typing.tick \in Nat
  BY <1>0 DEF Rest, Typing
<1>b. \A k \in Nat : [typing EXCEPT !.tick = k, !.force = TRUE] \in Typing
  BY <1>0 DEF Rest, Typing
<1>4. CASE Change \/ Batch \/ EnterInsert
  BY <1>0, <1>1, <1>2, <1>3, <1>4, <1>c DEF Change, Batch, EnterInsert, Rest
<1>5. CASE ChangeInsert
  <2>1. buf'.tick \in Nat
    <3>1. buf' = [buf EXCEPT !.text = buf.tick + 1, !.tick = @ + 1, !.modified = TRUE]
      BY <1>5 DEF ChangeInsert, NewText
    <3>2. buf \in Buf
      BY BufFields DEF UndoInv
    <3>3. buf'.tick = buf.tick + 1
      BY <3>1, <3>2 DEF Buf
    <3> QED BY <3>3, <1>0
  <2>2. [NoTyping EXCEPT !.tick = buf'.tick] \in Typing
    BY <2>1, <1>0 DEF NoTyping, Typing
  <2> QED BY <2>2, <1>0, <1>3, <1>5, <1>c DEF ChangeInsert, Rest
<1>6. CASE TypeKey
  <2>1. PICK kind \in {"ins", "del"}, ch \in {"word", "sep", "nl", "none"},
             gap \in BOOLEAN, hits \in BOOLEAN : Type(kind, ch, gap, hits)
    BY <1>6 DEF TypeKey
  <2>2. typing' \in Typing
    BY <2>1, <1>0, <1>a DEF Type, Typing
  <2>3. landed' \in Landings
    BY <2>1, <1>0, <1>3 DEF Type, Rest
  <2>4. fresh' \in BOOLEAN /\ refused' \in BOOLEAN
    BY <2>1, <1>0, <1>c DEF Type, Rest, Boundary
  <2> QED BY <2>1, <2>2, <2>3, <2>4, <1>0 DEF Type, Rest
<1>7. CASE Paste
  <2>1. EndedTick \in Nat
    BY <1>0, <1>a DEF EndedTick
  <2> QED BY <2>1, <1>0, <1>3, <1>7, <1>b, <1>c DEF Paste, Rest
<1>8. CASE CtrlG \/ CtrlO
  <2>1. EndedTick \in Nat
    BY <1>0, <1>a DEF EndedTick
  <2> QED BY <2>1, <1>0, <1>8, <1>b DEF CtrlG, CtrlO, EndStep, Rest
<1>9. CASE Escape \/ Leave
  BY <1>0, <1>1, <1>9, <1>c DEF Escape, Leave, Rest
<1>10. CASE Undo \/ Redo \/ UndoToSeq \/ Travel \/ TravelFile
  <2>1. PICK n : Move(n)
    BY <1>10 DEF Undo, Redo, UndoToSeq, Travel, TravelFile
  <2> QED BY <2>1, <1>0, <1>2, <1>c DEF Move, Rest
<1>11. CASE Save \/ Reload
  BY <1>0, <1>2, <1>11, <1>c DEF Save, Reload, Rest
<1>12. CASE SetLevels
  BY <1>0, <1>2, <1>12 DEF SetLevels, Rest
<1>13. CASE UNCHANGED vars
  BY <1>0, <1>13 DEF vars, Rest
<1> QED
  BY <1>4, <1>5, <1>6, <1>7, <1>8, <1>9, <1>10, <1>11, <1>12, <1>13 DEF Next

\* The buffer as it was opened: its text is the root's and the file's.
LEMMA InitInv == Init => UndoInv
<1> SUFFICES ASSUME Init PROVE UndoInv
  OBVIOUS
<1>1. TreeOK(tree) /\ Seqs(tree) = {0} /\ tree.nodes[0].text = 0
      /\ tree.cur = 0 /\ tree.next = 1 /\ ~tree.dirty
  BY NewTreeOK DEF Init
<1>2. buf \in Buf /\ buf.text = 0 /\ buf.tick = 0 /\ buf.saved = 0 /\ disk = 0
  BY DEF Init, Buf
<1>3. Core
  BY <1>1, <1>2 DEF Core, Recorded, SavedOK, CleanIsOnDisk
<1>4. typing \in Typing
  BY <1>2 DEF Init, NoTyping, Typing
<1> QED BY <1>3, <1>4 DEF Init, Rest, UndoInv, Landings

LEMMA Inductive == Spec => []UndoInv
BY InitInv, CoreStep, RestStep, PTL DEF Spec, UndoInv

-----------------------------------------------------------------------------
(* The theorems. *)

\* The tree, the buffer and the session keep their types.
THEOREM UndoTypeCorrect == Spec => []TypeOK
<1>1. UndoInv => TypeOK
  BY DEF UndoInv, Core, Rest, TypeOK, TreeOK
<1> QED BY <1>1, Inductive, PTL

\* Without i_CTRL-W, i_CTRL-U and accepted completions, which edit without
\* push_undo, a text that no group is open for is a state of the tree, even
\* when the focus leaves Insert for another window: undo can come back to it.
THEOREM NothingIsLost ==
  ASSUME "rubout" \notin Extras
  PROVE  FullSpec => []NothingUnrecorded
<1>1. UndoInv => NothingUnrecorded
  BY DEF UndoInv, Core, Recorded, NothingUnrecorded
<1>2. ~RubOut
  BY DEF RubOut
<1>3. UndoInv /\ [Next \/ Leave \/ RubOut]_vars => UndoInv'
  <2> SUFFICES ASSUME UndoInv, [Next \/ Leave \/ RubOut]_vars PROVE UndoInv'
    OBVIOUS
  <2>1. [Next \/ Leave]_vars
    BY <1>2
  <2> QED BY <2>1, CoreStep, RestStep DEF UndoInv
<1> QED BY <1>1, <1>3, InitInv, PTL DEF FullSpec

\* A buffer that reads as clean holds what its file holds, however it came
\* back there and whatever was pruned meanwhile (restore_snapshot).
THEOREM CleanHoldsTheFile == Spec => []CleanIsOnDisk
<1>1. UndoInv => CleanIsOnDisk
  BY DEF UndoInv, Core
<1> QED BY <1>1, Inductive, PTL

-----------------------------------------------------------------------------
(* Where g-, g+, :earlier and :later lead. *)

\* The greatest and the least of two numbers.
LEMMA OfTwo ==
  ASSUME NEW x \in Int, NEW y \in Int
  PROVE  /\ x <= y => Max({x, y}) = y /\ Min({x, y}) = x
         /\ y <= x => Max({x, y}) = x /\ Min({x, y}) = y
<1>1. \E m \in {x, y} : \A z \in {x, y} : m >= z
  OBVIOUS
<1>2. \E m \in {x, y} : \A z \in {x, y} : m <= z
  OBVIOUS
<1>3. Max({x, y}) \in {x, y} /\ \A z \in {x, y} : Max({x, y}) >= z
  BY <1>1 DEF Max
<1>4. Min({x, y}) \in {x, y} /\ \A z \in {x, y} : Min({x, y}) <= z
  BY <1>2 DEF Min
<1> QED BY <1>3, <1>4

\* One step of g- is to the state made before this one.
LEMMA TravelBack ==
  ASSUME NEW t, TreeOK(t)
  PROVE  LET older == {n \in Seqs(t) : n < t.cur}
         IN TravelTarget(t, 1, TRUE) = (IF older = {} THEN t.cur ELSE Max(older))
<1> DEFINE older  == {n \in Seqs(t) : n < t.cur}
           target == Max({0, t.cur - 1})
           side   == OnTravelSide(t, TRUE)
           hit    == {n \in side : n <= target}
           Off(n) == IF n < target THEN target - n ELSE n - target
           near   == CHOOSE n \in side : \A m \in side : Off(n) <= Off(m)
<1>1. t \in Tree /\ t.cur \in Seqs(t)
  BY DEF TreeOK
<1>2. Seqs(t) \subseteq Nat /\ t.cur \in Nat
  BY <1>1, TreeFields
<1>3. target = (IF t.cur = 0 THEN 0 ELSE t.cur - 1)
  BY <1>2, OfTwo
<1>4. TravelTarget(t, 1, TRUE) =
        IF hit # {} THEN Max(hit) ELSE IF side = {} THEN t.cur ELSE near
  BY DEF TravelTarget, NearSeq
<1>5. side = {n \in Seqs(t) : n <= t.cur}
  BY DEF OnTravelSide
<1> HIDE DEF target, side, near
<1>6. CASE t.cur = 0
  <2>1. hit = {0} /\ older = {}
    BY <1>1, <1>2, <1>3, <1>5, <1>6
  <2>2. Max(hit) \in hit
    BY <1>1, <1>5, <2>1, SeqsExtremes
  <2> QED BY <1>4, <1>6, <2>1, <2>2
<1>7. CASE t.cur # 0
  <2>1. hit = older
    BY <1>2, <1>3, <1>5, <1>7
  <2>2. CASE older # {}
    BY <1>4, <2>1, <2>2
  <2>3. CASE older = {}
    <3>1. side = {t.cur}
      BY <1>1, <1>2, <1>5, <2>3
    <3>2. near = t.cur
      BY <3>1 DEF near
    <3> QED BY <1>4, <2>1, <2>3, <3>2
  <2> QED BY <2>2, <2>3
<1> QED BY <1>6, <1>7

\* One step of g+ is to the state made after this one.
LEMMA TravelOn ==
  ASSUME NEW t, TreeOK(t)
  PROVE  LET newer == {n \in Seqs(t) : n > t.cur}
         IN TravelTarget(t, 1, FALSE) = (IF newer = {} THEN t.cur ELSE Min(newer))
<1> DEFINE newer  == {n \in Seqs(t) : n > t.cur}
           target == Min({t.next - 1, t.cur + 1})
           side   == OnTravelSide(t, FALSE)
           hit    == {n \in side : n >= target}
           Off(n) == IF n < target THEN target - n ELSE n - target
           near   == CHOOSE n \in side : \A m \in side : Off(n) <= Off(m)
<1>1. t \in Tree /\ t.cur \in Seqs(t) /\ \A n \in Seqs(t) : n < t.next
  BY DEF TreeOK
<1>2. Seqs(t) \subseteq Nat /\ t.cur \in Nat /\ t.next \in Nat
  BY <1>1, TreeFields
<1>3. target = (IF t.cur = t.next - 1 THEN t.cur ELSE t.cur + 1)
  <2> DEFINE x == t.next - 1
             y == t.cur + 1
  <2>1. x \in Int /\ y \in Int /\ t.cur <= x
    BY <1>1, <1>2
  <2>2. (x <= y => Min({x, y}) = x) /\ (y <= x => Min({x, y}) = y)
    BY <2>1, OfTwo
  <2>3. t.cur = x => x <= y /\ x = t.cur
    BY <1>2
  <2>4. t.cur # x => y <= x
    BY <1>2, <2>1
  <2> QED BY <2>2, <2>3, <2>4
<1>4. TravelTarget(t, 1, FALSE) =
        IF hit # {} THEN Min(hit) ELSE IF side = {} THEN t.cur ELSE near
  BY DEF TravelTarget, NearSeq
<1>5. side = newer
  BY DEF OnTravelSide
<1> HIDE DEF target, side, near
<1>6. hit = newer
  BY <1>2, <1>3, <1>5
<1> QED BY <1>4, <1>5, <1>6

(***************************************************************************)
(* g- and g+ go to the state made just before and just after this one:     *)
(* neither the clamping of undo_travel nor the nearest-number search of    *)
(* node_near_seq, which covers for pruned numbers, skips a state that is   *)
(* there or moves when there is none.                                      *)
(***************************************************************************)
THEOREM TravelGoesInOrder == Spec => []TravelInOrder
<1>1. UndoInv => TravelInOrder
  BY TravelBack, TravelOn DEF UndoInv, Core, TravelInOrder
<1> QED BY <1>1, Inductive, PTL

-----------------------------------------------------------------------------
(* The stamps of the writes. *)

\* No two states carry the number of one write.
Stamped(t) ==
  \A s, u \in Seqs(t) :
    t.nodes[s].save # 0 /\ t.nodes[s].save = t.nodes[u].save => s = u

\* A commit stamps nothing and moves no stamp.
LEMMA CommitStamps ==
  ASSUME UndoInv, NEW t, TreeOK(t), Stamped(t)
  PROVE  Stamped(Commit(t)) /\ Commit(t).saveLast = t.saveLast
<1>1. t \in Tree /\ buf.text \in Nat /\ levels \in Int
  BY UndoAssumption DEF UndoInv, Core, Rest, Buf, TreeOK
<1>2. CASE Pending(t, buf.tick)
  <2> DEFINE g == Grow(t, buf.text)
             k == Keep(levels)
             c == Commit(t)
  <2>1. k \in Nat
    BY <1>1 DEF Keep
  <2>2. c = Prune(g, k)
    BY <1>2 DEF Commit
  <2>3. Grown(t, buf.text, g)
    BY <1>1, GrowOK
  <2> HIDE DEF g, k, c
  <2>4. /\ TreeOK(g) /\ g.saveLast = t.saveLast
        /\ Seqs(g) = Seqs(t) \cup {t.next} /\ g.nodes[t.next].save = 0
        /\ \A s \in Seqs(t) : g.nodes[s] = t.nodes[s]
        /\ Below(g, g.cur) = {g.cur}
    BY <2>3 DEF Grown
  <2>5. Stamped(g)
    BY <2>4 DEF Stamped
  <2>6. /\ c.saveLast = g.saveLast /\ Seqs(c) \subseteq Seqs(g)
        /\ \A s \in Seqs(c) : c.nodes[s].save = g.nodes[s].save
    BY <2>1, <2>2, <2>4, PruneOK
  <2>7. Stamped(c)
    BY <2>5, <2>6 DEF Stamped
  <2> QED BY <2>4, <2>6, <2>7 DEF c
<1>3. CASE ~Pending(t, buf.tick)
  <2>1. /\ Commit(t).nodes = t.nodes /\ Commit(t).saveLast = t.saveLast
    BY <1>1, <1>3 DEF Commit, Tree
  <2> QED BY <2>1 DEF Stamped, Seqs
<1> QED BY <1>2, <1>3

\* Opening a group leaves the states as they are.
LEMMA OpenStamps ==
  ASSUME UndoInv, NEW t, Holds(t), Stamped(t)
  PROVE  Stamped(MarkDirty(t, buf.tick)) /\ Stamped(BreakStep(t))
<1>1. ASSUME NEW u, TreeOK(u), Stamped(u) PROVE Stamped(MarkDirty(u, buf.tick))
  <2>1. buf.tick \in Nat
    BY DEF UndoInv, Core, Buf
  <2>2. MarkDirty(u, buf.tick).nodes = u.nodes
    BY <1>1, <2>1, MarkDirtyOK
  <2> QED BY <1>1, <2>2 DEF Stamped, Seqs
<1>2. TreeOK(t) /\ TreeOK(Commit(t)) /\ Stamped(Commit(t))
  BY CommitOK, CommitStamps DEF Holds, Closed
<1> QED BY <1>1, <1>2 DEF BreakStep

\* push_undo, break_undo_step after it, and a commit alone.
LEMMA PushUndoStamps ==
  ASSUME UndoInv, Stamped(tree)
  PROVE  /\ Stamped(PushUndo) /\ Stamped(BreakStep(PushUndo))
         /\ Stamped(BreakStep(tree)) /\ Stamped(Commit(tree))
<1>1. Holds(tree) /\ TreeOK(tree)
  BY DEF UndoInv, Core, Holds
<1>2. Stamped(PushUndo)
  BY <1>1, OpenStamps DEF PushUndo, BreakStep
<1>3. Holds(PushUndo)
  BY PushUndoOK DEF Opened
<1> QED BY <1>1, <1>2, <1>3, OpenStamps, CommitStamps

\* Every action keeps the numbers of the writes apart.
LEMMA StampStep ==
  ASSUME UndoInv, Stamped(tree), [Next]_vars
  PROVE  Stamped(tree')
<1>0. /\ Stamped(PushUndo) /\ Stamped(BreakStep(PushUndo))
      /\ Stamped(BreakStep(tree)) /\ Stamped(Commit(tree))
  BY PushUndoStamps
<1>1. CASE \/ Change \/ Batch \/ EnterInsert \/ ChangeInsert
           \/ TypeKey \/ Paste \/ CtrlG \/ CtrlO
  <2>1. tree' \in {PushUndo, BreakStep(PushUndo), BreakStep(tree)}
    BY <1>1 DEF Change, Batch, EnterInsert, ChangeInsert, TypeKey, Type, Paste,
                CtrlG, CtrlO, EndStep, EndedStep, BreakStep
  <2> QED BY <1>0, <2>1
<1>2. CASE Escape \/ SetLevels \/ UNCHANGED vars
  BY <1>2 DEF Escape, SetLevels, vars
<1>3. CASE Undo \/ Redo \/ UndoToSeq \/ Travel \/ TravelFile
  <2>1. PICK n : Move(n)
    BY <1>3 DEF Undo, Redo, UndoToSeq, Travel, TravelFile
  <2> DEFINE c == Commit(tree)
  <2>2. c \in Tree
    BY PushUndoOK DEF Closed, TreeOK
  <2>3. tree' = c \/ tree' = [c EXCEPT !.cur = n]
    BY <2>1 DEF Move, Restore
  <2> HIDE DEF c
  <2>4. tree'.nodes = c.nodes
    BY <2>2, <2>3 DEF Tree
  <2>5. Stamped(c)
    BY <1>0 DEF c
  <2> QED BY <2>4, <2>5 DEF Stamped, Seqs
<1>4. CASE Save
  <2> DEFINE c  == Commit(tree)
             nr == c.saveLast + 1
  <2>1. TreeOK(c) /\ c \in Tree /\ c.cur \in Seqs(c) /\ Stamped(c)
    BY <1>0, PushUndoOK DEF Closed, TreeOK
  <2>2. tree' = [c EXCEPT !.saveLast = @ + 1, !.nodes[c.cur].save = c.saveLast + 1]
    BY <1>4 DEF Save
  <2> HIDE DEF c
  <2>3. /\ c.nodes \in [Seqs(c) -> Node] /\ c.saveLast \in Nat
        /\ \A s \in Seqs(c) : c.nodes[s].save \in Nat /\ c.nodes[s].save < nr
    BY <2>1, TreeFields, ArenaDef DEF Seqs, TreeOK
  <2>4. tree'.nodes = [c.nodes EXCEPT ![c.cur].save = nr]
    BY <2>1, <2>2 DEF Tree
  <2> HIDE DEF nr
  <2>5. /\ Seqs(tree') = Seqs(c)
        /\ \A s \in Seqs(c) : tree'.nodes[s].save =
             (IF s = c.cur THEN nr ELSE c.nodes[s].save)
    BY <2>1, <2>3, <2>4 DEF Seqs, Node
  <2> QED BY <2>1, <2>3, <2>5 DEF Stamped
<1>5. CASE Reload
  <2>1. tree' = NewTree(buf.tick + 1) /\ buf.tick + 1 \in Nat
    BY <1>5 DEF Reload, UndoInv, Core, Buf
  <2>2. Seqs(tree') = {0}
    BY <2>1, NewTreeOK
  <2> QED BY <2>2 DEF Stamped
<1> QED BY <1>1, <1>2, <1>3, <1>4, <1>5 DEF Next

LEMMA StampsApart == Spec => [](UndoInv /\ Stamped(tree))
<1>1. Init => Stamped(tree)
  <2> SUFFICES ASSUME Init PROVE Stamped(tree)
    OBVIOUS
  <2>1. Seqs(tree) = {0}
    BY NewTreeOK DEF Init
  <2> QED BY <2>1 DEF Stamped
<1>2. UndoInv /\ Stamped(tree) /\ [Next]_vars => Stamped(tree)'
  BY StampStep DEF Stamped
<1>3. Init => UndoInv
  BY InitInv
<1>4. UndoInv /\ [Next]_vars => UndoInv'
  BY CoreStep, RestStep DEF UndoInv
<1> QED BY <1>1, <1>2, <1>3, <1>4, PTL DEF Spec

\* :earlier {N}f stays on or before this state, :later {N}f on or after it.
LEMMA FileTravelSides ==
  ASSUME NEW t, TreeOK(t), NEW count \in Counts
  PROVE  FileTarget(t, count, TRUE) <= t.cur /\ FileTarget(t, count, FALSE) >= t.cur
<1> DEFINE base == SaveAtOrAboveCur(t)
           step == IF t.nodes[t.cur].save # 0 THEN count ELSE count - 1
<1>1. base \in Nat /\ count \in Nat \ {0} /\ step \in Int
  BY WrittenAboveIn, UndoAssumption
<1>2. t.cur \in Nat /\ Seqs(t) \subseteq Nat
  BY TreeFields DEF TreeOK
<1>3. /\ FileTarget(t, count, TRUE) = NearSave(t, base + (-step), TRUE)
      /\ FileTarget(t, count, FALSE) = NearSave(t, base + count, FALSE)
  BY DEF FileTarget
<1> HIDE DEF base, step
<1>4. ASSUME NEW target \in Int PROVE NearSave(t, target, TRUE) <= t.cur
  <2>1. EndNode(t, TRUE) <= t.cur
    BY EndNodeIn
  <2>2. \A n \in SaveHits(t, target, TRUE) : n <= t.cur
    BY DEF SaveHits, OnTravelSide
  <2> QED BY <2>1, <2>2, NearSaveBest
<1>5. ASSUME NEW target \in Int, target > 0 PROVE NearSave(t, target, FALSE) >= t.cur
  <2>1. EndNode(t, FALSE) >= t.cur
    BY EndNodeIn
  <2>2. \A n \in SaveHits(t, target, FALSE) : n >= t.cur
    BY <1>2 DEF SaveHits, OnTravelSide
  <2>3. ~(target <= 0)
    BY <1>5
  <2> QED BY <2>1, <2>2, <2>3, NearSaveBest
<1>6. base + (-step) \in Int /\ base + count \in Int /\ base + count > 0
  BY <1>1
<1> QED BY <1>3, <1>4, <1>5, <1>6

\* Off a write, the first step of :earlier 1f is to the write it comes from.
LEMMA BackToTheWrite ==
  ASSUME NEW t, TreeOK(t), Stamped(t),
         t.nodes[t.cur].save = 0, WrittenAbove(t) # {}
  PROVE  FileTarget(t, 1, TRUE) = Max(WrittenAbove(t))
<1> DEFINE a   == Max(WrittenAbove(t))
           nr  == t.nodes[a].save
           hit == SaveHits(t, nr, TRUE)
           n   == NearSave(t, nr, TRUE)
<1>1. a \in WrittenAbove(t) /\ a \in Seqs(t)
  BY WrittenAboveIn
<1>2. t \in Tree /\ t.cur \in Seqs(t) /\ a <= t.cur
  BY <1>1 DEF TreeOK, WrittenAbove
<1>3. nr \in Nat /\ nr # 0 /\ \A s \in Seqs(t) : t.nodes[s].save \in Nat
  BY <1>1, <1>2, TreeFields DEF WrittenAbove
<1>4. FileTarget(t, 1, TRUE) = n
  <2>1. SaveAtOrAboveCur(t) = nr
    BY DEF SaveAtOrAboveCur
  <2>2. FileTarget(t, 1, TRUE) = NearSave(t, SaveAtOrAboveCur(t) + (-(1 - 1)), TRUE)
    BY DEF FileTarget
  <2>3. nr + (-(1 - 1)) = nr
    BY <1>3
  <2> HIDE DEF nr
  <2> QED BY <2>1, <2>2, <2>3
<1> HIDE DEF a
<1>5. a \in hit
  BY <1>1, <1>2, <1>3 DEF SaveHits, OnTravelSide, WrittenAbove
<1> HIDE DEF nr
<1>6. ~(nr <= 0) /\ nr \in Int
  BY <1>3
<1>7. n \in hit /\ \A m \in hit : t.nodes[m].save <= t.nodes[n].save
  BY <1>5, <1>6, NearSaveBest
<1>8. n \in Seqs(t) /\ t.nodes[n].save # 0 /\ t.nodes[n].save <= nr
  BY <1>7 DEF SaveHits, OnTravelSide
<1> HIDE DEF n, hit
<1>9. t.nodes[n].save = t.nodes[a].save
  <2>1. t.nodes[a].save = nr
    BY DEF nr
  <2> QED BY <1>3, <1>5, <1>7, <1>8, <2>1
<1>10. n = a
  BY <1>1, <1>8, <1>9 DEF Stamped
<1> QED BY <1>4, <1>10 DEF n, a

(***************************************************************************)
(* :earlier {N}f never goes forward and :later {N}f never back, wherever   *)
(* in the tree the writes are, and :earlier 1f off a write reaches the     *)
(* write this state comes from (node_near_save, save_at_or_above_cur).     *)
(***************************************************************************)
THEOREM WritesGoInOrder == Spec => []WritesInOrder
<1>1. UndoInv /\ Stamped(tree) => WritesInOrder
  BY FileTravelSides, BackToTheWrite DEF UndoInv, Core, WritesInOrder
<1> QED BY <1>1, StampsApart, PTL

-----------------------------------------------------------------------------
(* The steps of typing. *)

\* What the four pieces of state say of each other between two keys: while a
\* session holds its group open and no break of it was refused, `fresh` is that
\* nothing is pending in it, or that a step is owed and the tick has moved on
\* since it began.
Session ==
  /\ StepPerChange
  /\ mode = "insert" => ~oneShot
  /\ mode = "normal" /\ taken => oneShot
  /\ oneShot => typing.force
  /\ typing.tick <= buf.tick
  /\ mode = "normal" /\ ~taken => fresh
  /\ refused => fresh
  /\ typing.force /\ buf.tick # typing.tick => fresh
  /\ taken /\ ~refused =>
       \/ fresh <=> ~Pending(tree, buf.tick)
       \/ mode = "insert" /\ fresh /\ typing.force /\ buf.tick # typing.tick

\* An edit lands well, or in one of the two ways StepPerChange names.
LEMMA LandedWell ==
  ASSUME NEW t, NEW new \in BOOLEAN, Landed(t, new),
         \/ new = ~Pending(t, buf.tick)
         \/ new /\ refused
         \/ ~new /\ mode = "insert" /\ ~taken
  PROVE  StepPerChange'
<1> DEFINE p == Pending(t, buf.tick)
<1>1. p \in BOOLEAN
  BY DEF Pending
<1>2. landed' = Landing(t, new)
  BY DEF Landed
<1> QED BY <1>1, <1>2 DEF Landing, StepPerChange

\* A group that push_undo opens is empty; one that the session has stays as it
\* is; a break always leaves an empty one.
LEMMA GroupsPending ==
  ASSUME UndoInv
  PROVE  /\ taken => (Pending(PushUndo, buf.tick) <=> Pending(tree, buf.tick))
         /\ ~taken => ~Pending(PushUndo, buf.tick)
         /\ ~Pending(BreakStep(PushUndo), buf.tick)
         /\ ~Pending(BreakStep(tree), buf.tick)
         /\ ~Commit(tree).dirty
<1>1. buf.tick \in Nat /\ TreeOK(tree) /\ Holds(PushUndo)
  BY PushUndoOK DEF UndoInv, Core, Buf, Opened
<1>2. Closed(Commit(tree)) /\ Closed(Commit(PushUndo))
  BY <1>1, PushUndoOK, CommitOK
<1>3. \A t : Closed(t) => ~Pending(MarkDirty(t, buf.tick), buf.tick)
  BY <1>1, MarkDirtyOK DEF Closed, Pending
<1>4. Pending(MarkDirty(tree, buf.tick), buf.tick) <=> Pending(tree, buf.tick)
  BY <1>1, MarkDirtyOK DEF Pending
<1> QED BY <1>2, <1>3, <1>4 DEF PushUndo, BreakStep, Closed

\* An edit makes its group pending.
LEMMA EditPending ==
  ASSUME UndoInv, NEW t, Opened(t), NewText
  PROVE  Pending(t, buf'.tick) /\ buf'.tick = buf.tick + 1 /\ buf.tick \in Nat
<1>1. buf \in Buf /\ buf.tick \in Nat
  BY DEF UndoInv, Core, Buf
<1>2. buf'.tick = buf.tick + 1
  BY <1>1 DEF NewText, Buf
<1>3. t.dirty /\ t.dirtyTick \in Nat /\ t.dirtyTick <= buf.tick
  BY TreeFields DEF Opened, Holds, Recorded, TreeOK
<1> QED BY <1>1, <1>2, <1>3 DEF Pending

\* A command in Normal mode, or as the one command of i_CTRL-O, after which the
\* tree has nothing pending or the change stands in an owed step.
LEMMA CommandSession ==
  ASSUME UndoInv, Session, mode = "normal", Resumed, Anew, StepPerChange',
         typing' = typing, taken' \in BOOLEAN, taken' => taken,
         buf'.tick \in Nat, buf'.tick >= buf.tick,
         buf'.tick # buf.tick \/ ~Pending(tree', buf'.tick)
  PROVE  Session'
<1>1. buf.tick \in Nat /\ typing.tick \in Nat
  BY DEF UndoInv, Core, Buf, Rest, Typing
<1>2. typing.tick <= buf.tick /\ (oneShot => typing.force) /\ (taken => oneShot)
  BY DEF Session
<1>3. typing.tick <= buf'.tick
  BY <1>1, <1>2
<1>4. ~Pending(tree', buf'.tick) \/ buf'.tick # typing.tick
  BY <1>1, <1>2
<1>5. /\ mode' = (IF oneShot THEN "insert" ELSE "normal") /\ ~oneShot'
      /\ typing' = typing /\ fresh' /\ ~refused'
  BY DEF Resumed, Anew
<1>6. mode' = "insert" => oneShot
  BY <1>5
<1>7. taken' => mode' = "insert" /\ typing'.force
  BY <1>2, <1>5
<1> QED BY <1>2, <1>3, <1>4, <1>5, <1>6, <1>7 DEF Session, Pending

\* A typed key lands where the documented boundaries say.
LEMMA TypeSession ==
  ASSUME UndoInv, Session, NEW kind, NEW ch, NEW gap \in BOOLEAN,
         NEW hits \in BOOLEAN, Type(kind, ch, gap, hits)
  PROVE  Session'
<1> DEFINE open   == PushUndo
           breaks == /\ buf.tick # typing.tick
                     /\ typing.force \/ Boundary(kind, ch, gap)
           t      == IF breaks THEN BreakStep(open) ELSE open
           new    == fresh \/ (buf.tick # typing.tick /\ Boundary(kind, ch, gap))
<1>1. /\ fresh \in BOOLEAN /\ typing \in Typing /\ buf.tick \in Nat
      /\ typing.tick \in Nat
  BY DEF UndoInv, Core, Rest, Buf, Typing
<1>2. /\ mode = "insert" /\ tree' = t
      /\ typing' = [kind |-> kind, last |-> ch, force |-> FALSE,
                    tick |-> IF breaks THEN buf.tick ELSE typing.tick]
      /\ \/ hits /\ NewText /\ Landed(t, new) /\ GoesOn
         \/ ~hits /\ fresh' = new /\ UNCHANGED <<buf, refused, landed>>
      /\ UNCHANGED <<mode, oneShot, taken>>
  BY DEF Type
<1>3. /\ StepPerChange /\ ~oneShot /\ typing.tick <= buf.tick
      /\ typing.force /\ buf.tick # typing.tick => fresh
      /\ refused => fresh
      /\ taken /\ ~refused =>
           \/ fresh <=> ~Pending(tree, buf.tick)
           \/ fresh /\ typing.force /\ buf.tick # typing.tick
  BY <1>2 DEF Session
<1>4. Opened(t)
  BY PushUndoOK
<1>5. /\ new \in BOOLEAN /\ (refused => new)
      /\ taken /\ ~refused => (new <=> ~Pending(t, buf.tick))
      /\ ~taken => ~Pending(t, buf.tick)
  <2> DEFINE B == Boundary(kind, ch, gap)
  <2>0. B \in BOOLEAN
    BY DEF Boundary
  <2>1. /\ taken => (Pending(open, buf.tick) <=> Pending(tree, buf.tick))
        /\ ~taken => ~Pending(open, buf.tick)
        /\ ~Pending(BreakStep(open), buf.tick)
    BY <1>3, GroupsPending
  <2> HIDE DEF B, open
  <2>2. CASE breaks
    BY <1>1, <1>3, <2>0, <2>1, <2>2 DEF B
  <2>3. CASE ~breaks
    BY <1>1, <1>3, <2>0, <2>1, <2>3 DEF B
  <2> QED BY <2>2, <2>3
<1>6. typing'.force = FALSE /\ typing'.tick \in Nat /\ typing'.tick <= buf.tick
  BY <1>1, <1>2, <1>3
<1> HIDE DEF t, new, breaks
<1>7. CASE hits
  <2>1. NewText /\ Landed(t, new) /\ ~fresh' /\ ~refused'
    BY <1>2, <1>7 DEF GoesOn
  <2>2. StepPerChange'
    <3>1. \/ new = ~Pending(t, buf.tick)
          \/ new /\ refused
          \/ ~new /\ mode = "insert" /\ ~taken
      <4>1. Pending(t, buf.tick) \in BOOLEAN
        BY DEF Pending
      <4> QED BY <1>2, <1>5, <4>1
    <3> QED BY <1>5, <2>1, <3>1, LandedWell
  <2>3. Pending(t, buf'.tick) /\ buf'.tick = buf.tick + 1
    BY <1>4, <2>1, EditPending
  <2>4. Pending(tree', buf'.tick) /\ typing'.tick <= buf'.tick
    BY <1>1, <1>2, <1>6, <2>3
  <2> QED BY <1>2, <1>3, <1>6, <2>1, <2>2, <2>4 DEF Session, Pending
<1>8. CASE ~hits
  <2>1. fresh' = new /\ buf' = buf /\ landed' = landed /\ refused' = refused
    BY <1>2, <1>8
  <2>2. taken' /\ ~refused' => (fresh' <=> ~Pending(tree', buf'.tick))
    BY <1>2, <1>5, <2>1
  <2>3. (refused' => fresh') /\ StepPerChange'
    BY <1>3, <1>5, <2>1 DEF StepPerChange
  <2> QED BY <1>2, <1>3, <1>6, <2>1, <2>2, <2>3 DEF Session, Pending
<1> QED BY <1>7, <1>8

\* end_typing_step leaves an empty group if the tick moved since the last step
\* began, and else the session's.
LEMMA EndedPending ==
  ASSUME UndoInv, Session, mode = "insert"
  PROVE  /\ Opened(EndedStep)
         /\ taken /\ ~refused =>
              (fresh \/ buf.tick # typing.tick <=> ~Pending(EndedStep, buf.tick))
         /\ ~taken \/ buf.tick # typing.tick => ~Pending(EndedStep, buf.tick)
         /\ EndedTick = buf.tick
<1>1. buf.tick \in Nat /\ typing.tick \in Nat
  BY DEF UndoInv, Core, Buf, Rest, Typing
<1>2. Opened(EndedStep)
  BY PushUndoOK DEF EndedStep
<1>3. CASE buf.tick # typing.tick
  BY <1>2, <1>3, GroupsPending DEF EndedStep, EndedTick
<1>4. CASE buf.tick = typing.tick
  <2>1. taken /\ ~refused => (fresh <=> ~Pending(tree, buf.tick))
    BY <1>1, <1>4 DEF Session
  <2>2. EndedStep = PushUndo /\ EndedTick = buf.tick
    BY <1>4 DEF EndedStep, EndedTick
  <2>3. /\ taken => (Pending(PushUndo, buf.tick) <=> Pending(tree, buf.tick))
        /\ ~taken => ~Pending(PushUndo, buf.tick)
    BY <1>1, GroupsPending
  <2> QED BY <1>2, <1>4, <2>1, <2>2, <2>3
<1> QED BY <1>3, <1>4

LEMMA PasteSession ==
  ASSUME UndoInv, Session, Paste
  PROVE  Session'
<1>1. /\ mode = "insert" /\ tree' = EndedStep /\ NewText /\ Anew
      /\ Landed(EndedStep, fresh \/ buf.tick # typing.tick)
      /\ typing' = [typing EXCEPT !.tick = EndedTick, !.force = TRUE]
      /\ UNCHANGED <<mode, oneShot, taken>>
  BY DEF Paste
<1>2. /\ Opened(EndedStep) /\ EndedTick = buf.tick
      /\ taken /\ ~refused =>
           (fresh \/ buf.tick # typing.tick <=> ~Pending(EndedStep, buf.tick))
      /\ ~taken \/ buf.tick # typing.tick => ~Pending(EndedStep, buf.tick)
  BY <1>1, EndedPending
<1>3. /\ fresh \in BOOLEAN /\ typing \in Typing /\ buf.tick \in Nat
      /\ taken \in BOOLEAN /\ refused \in BOOLEAN
  BY DEF UndoInv, Core, Rest, Buf
<1>4. buf'.tick = buf.tick + 1
  BY <1>1, <1>2, EditPending
<1>5. StepPerChange'
  <2> DEFINE new == fresh \/ buf.tick # typing.tick
             p   == Pending(EndedStep, buf.tick)
  <2>1. new \in BOOLEAN /\ p \in BOOLEAN
    BY <1>3 DEF Pending
  <2>2. refused => fresh
    BY DEF Session
  <2>3. \/ new = ~p \/ (new /\ refused) \/ (~new /\ mode = "insert" /\ ~taken)
    BY <1>1, <1>2, <1>3, <2>1, <2>2
  <2>4. Landed(EndedStep, new)
    BY <1>1
  <2> QED BY <2>1, <2>3, <2>4, LandedWell
<1>6. typing'.force /\ typing'.tick = buf.tick
  BY <1>1, <1>2, <1>3 DEF Typing
<1>7. typing'.tick <= buf'.tick /\ buf'.tick # typing'.tick
  BY <1>3, <1>4, <1>6
<1>8. ~oneShot
  BY <1>1 DEF Session
<1> QED BY <1>1, <1>5, <1>6, <1>7, <1>8 DEF Session, Pending, Anew

\* i_CTRL-G u, and i_CTRL-O, whose command finds the session's group.
LEMMA EndStepSession ==
  ASSUME UndoInv, Session, CtrlG \/ CtrlO
  PROVE  Session'
<1>1. /\ mode = "insert" /\ tree' = EndedStep
      /\ typing' = [typing EXCEPT !.tick = EndedTick, !.force = TRUE]
      /\ fresh' = TRUE
      /\ refused' = ((refused \/ ~fresh) /\ buf.tick = typing.tick)
      /\ UNCHANGED <<buf, taken, landed>>
      /\ \/ UNCHANGED <<mode, oneShot>>
         \/ mode' = "normal" /\ oneShot' = TRUE
  BY DEF CtrlG, CtrlO, EndStep
<1>2. /\ EndedTick = buf.tick
      /\ taken /\ ~refused =>
           (fresh \/ buf.tick # typing.tick <=> ~Pending(EndedStep, buf.tick))
      /\ ~taken \/ buf.tick # typing.tick => ~Pending(EndedStep, buf.tick)
  BY <1>1, EndedPending
<1>3. typing \in Typing /\ buf.tick \in Nat
  BY DEF UndoInv, Core, Rest, Buf
<1>4. typing'.force /\ typing'.tick = buf'.tick
  BY <1>1, <1>2, <1>3 DEF Typing
<1>5. taken' /\ ~refused' => ~Pending(tree', buf'.tick)
  BY <1>1, <1>2
<1>6. StepPerChange' /\ ~oneShot
  BY <1>1 DEF Session, StepPerChange
<1>7. buf'.tick \in Nat
  BY <1>1, <1>3
<1> QED BY <1>1, <1>4, <1>5, <1>6, <1>7 DEF Session, Pending

\* i, a, o and c, s: the session begins with a group of its own, or goes on
\* with the one i_CTRL-O left.
LEMMA EnterSession ==
  ASSUME UndoInv, Session, EnterInsert \/ ChangeInsert
  PROVE  Session'
<1>1. /\ mode = "normal" /\ tree' = PushUndo /\ taken' = TRUE
      /\ mode' = "insert" /\ oneShot' = FALSE
  BY DEF EnterInsert, ChangeInsert
<1>2. /\ StepPerChange /\ (~taken => fresh) /\ (refused => fresh)
      /\ taken /\ ~refused => (fresh <=> ~Pending(tree, buf.tick))
  BY <1>1 DEF Session
<1>3. fresh \in BOOLEAN /\ taken \in BOOLEAN /\ refused \in BOOLEAN /\ buf.tick \in Nat
  BY DEF UndoInv, Core, Rest, Buf
<1>4. refused \/ (fresh <=> ~Pending(PushUndo, buf.tick))
  BY <1>2, <1>3, GroupsPending
<1>5. CASE EnterInsert
  <2>1. typing' = NoTyping /\ UNCHANGED <<buf, fresh, refused, landed>>
    BY <1>5 DEF EnterInsert
  <2>2. typing'.tick = buf'.tick /\ ~typing'.force
    BY <2>1 DEF NoTyping
  <2>3. StepPerChange'
    BY <1>2, <2>1 DEF StepPerChange
  <2> QED BY <1>1, <1>2, <1>3, <1>4, <2>1, <2>2, <2>3 DEF Session, Pending
<1>6. CASE ChangeInsert
  <2>1. /\ NewText /\ Landed(PushUndo, fresh) /\ ~fresh' /\ ~refused'
        /\ typing' = [NoTyping EXCEPT !.tick = buf'.tick]
    BY <1>6 DEF ChangeInsert, GoesOn
  <2>2. Pending(PushUndo, buf'.tick) /\ buf'.tick = buf.tick + 1
    BY <2>1, PushUndoOK, EditPending
  <2>3. typing'.tick = buf'.tick /\ ~typing'.force
    BY <2>1 DEF NoTyping
  <2>4. StepPerChange'
    <3>1. Pending(PushUndo, buf.tick) \in BOOLEAN
      BY DEF Pending
    <3>2. fresh = ~Pending(PushUndo, buf.tick) \/ (fresh /\ refused)
      BY <1>2, <1>3, <1>4, <3>1
    <3> QED BY <1>3, <2>1, <3>2, LandedWell
  <2>5. Pending(tree', buf'.tick)
    BY <1>1, <2>2
  <2>6. buf'.tick \in Nat
    BY <1>3, <2>2
  <2> QED BY <1>1, <2>1, <2>3, <2>4, <2>5, <2>6 DEF Session, Pending
<1> QED BY <1>5, <1>6

\* x, dd, p and :g: a change in the step that is open for it.
LEMMA ChangeSession ==
  ASSUME UndoInv, Session, Change \/ Batch
  PROVE  Session'
<1> DEFINE b == MarkDirty(Commit(tree), buf.tick)
<1>1. mode = "normal" /\ NewText /\ Anew /\ Resumed /\ typing' = typing
  BY DEF Change, Batch
<1>2. /\ (~taken => fresh) /\ (refused => fresh)
      /\ taken /\ ~refused => (fresh <=> ~Pending(tree, buf.tick))
  BY <1>1 DEF Session
<1>3. fresh \in BOOLEAN /\ taken \in BOOLEAN /\ refused \in BOOLEAN
  BY DEF UndoInv, Rest
<1>4. refused \/ (fresh <=> ~Pending(PushUndo, buf.tick))
  BY <1>2, <1>3, GroupsPending
<1>5. ~Pending(b, buf.tick)
  BY GroupsPending DEF BreakStep
<1>6. StepPerChange' /\ taken' \in BOOLEAN /\ (taken' => taken)
  <2>1. CASE Change
    <3>1. Landed(PushUndo, fresh) /\ taken' = taken
      BY <2>1 DEF Change
    <3>2. Pending(PushUndo, buf.tick) \in BOOLEAN
      BY DEF Pending
    <3>3. fresh = ~Pending(PushUndo, buf.tick) \/ (fresh /\ refused)
      BY <1>2, <1>3, <1>4, <3>2
    <3> QED BY <1>3, <3>1, <3>3, LandedWell
  <2>2. CASE Batch
    <3>1. Landed(b, TRUE) /\ taken' = FALSE
      BY <2>2 DEF Batch
    <3>2. TRUE = ~Pending(b, buf.tick)
      BY <1>5
    <3> QED BY <3>1, <3>2, LandedWell
  <2> QED BY <1>1, <2>1, <2>2
<1>7. buf'.tick = buf.tick + 1 /\ buf.tick \in Nat
  BY <1>1, PushUndoOK, EditPending
<1>8. buf'.tick \in Nat /\ buf'.tick >= buf.tick /\ buf'.tick # buf.tick
  BY <1>7
<1> QED BY <1>1, <1>6, <1>8, CommandSession

\* u, CTRL-R, :undo, g-, g+, :earlier, :later commit what is pending first.
LEMMA MoveSession ==
  ASSUME UndoInv, Session, NEW n, Move(n)
  PROVE  Session'
<1> DEFINE c == Commit(tree)
<1>1. /\ mode = "normal" /\ Resumed /\ Anew
      /\ UNCHANGED <<taken, typing, landed>>
      /\ \/ tree' = [c EXCEPT !.cur = n]
            /\ buf' = [buf EXCEPT !.text = c.nodes[n].text, !.tick = @ + 1,
                                  !.modified = (buf.saved # n)]
         \/ tree' = c /\ UNCHANGED buf
  BY DEF Move, Restore
<1>2. c \in Tree /\ ~c.dirty
  BY PushUndoOK DEF Closed, TreeOK
<1> HIDE DEF c
<1>3. ~tree'.dirty
  BY <1>1, <1>2 DEF Tree
<1>4. buf \in Buf /\ buf.tick \in Nat
  BY DEF UndoInv, Core, Buf
<1>5. buf'.tick \in Nat /\ buf'.tick >= buf.tick
  <2>1. buf'.tick = buf.tick + 1 \/ buf' = buf
    BY <1>1, <1>4 DEF Buf
  <2> QED BY <1>4, <2>1
<1>6. StepPerChange' /\ ~Pending(tree', buf'.tick) /\ taken' \in BOOLEAN
  BY <1>1, <1>3 DEF Pending, Session, StepPerChange, UndoInv, Rest
<1> QED BY <1>1, <1>5, <1>6, CommandSession

\* A write or a reload leaves no group open, in a command or during a session.
LEMMA FileSession ==
  ASSUME UndoInv, Session, Save \/ Reload
  PROVE  Session'
<1>1. /\ Anew /\ UNCHANGED <<taken, typing, landed>>
      /\ (mode = "normal" /\ Resumed) \/ UNCHANGED <<mode, oneShot>>
  BY DEF Save, Reload
<1>2. buf \in Buf /\ buf.tick \in Nat /\ typing.tick \in Nat
  BY DEF UndoInv, Core, Buf, Rest, Typing
<1>3. ~tree'.dirty /\ buf'.tick \in Nat /\ buf'.tick >= buf.tick
  <2>1. CASE Save
    <3> DEFINE c == Commit(tree)
    <3>1. c \in Tree /\ ~c.dirty
      BY PushUndoOK DEF Closed, TreeOK
    <3>2. /\ tree' = [c EXCEPT !.saveLast = @ + 1, !.nodes[c.cur].save = c.saveLast + 1]
          /\ buf' = [buf EXCEPT !.modified = FALSE, !.saved = c.cur]
      BY <2>1 DEF Save
    <3> HIDE DEF c
    <3>3. ~tree'.dirty
      BY <3>1, <3>2 DEF Tree
    <3>4. buf'.tick = buf.tick
      BY <1>2, <3>2 DEF Buf
    <3> QED BY <1>2, <3>3, <3>4
  <2>2. CASE Reload
    <3>1. tree' = NewTree(buf.tick + 1) /\ buf'.tick = buf.tick + 1
      BY <2>2 DEF Reload
    <3>2. ~tree'.dirty
      BY <1>2, <3>1, NewTreeOK
    <3> QED BY <1>2, <3>1, <3>2
  <2> QED BY <2>1, <2>2
<1>4. StepPerChange' /\ ~Pending(tree', buf'.tick) /\ taken' \in BOOLEAN
  BY <1>1, <1>3 DEF Pending, Session, StepPerChange, UndoInv, Rest
<1>5. CASE mode = "normal" /\ Resumed
  BY <1>1, <1>3, <1>4, <1>5, CommandSession
<1>6. CASE UNCHANGED <<mode, oneShot>>
  <2>1. typing'.tick <= buf'.tick
    BY <1>1, <1>2, <1>3 DEF Session
  <2> QED BY <1>1, <1>4, <1>6, <2>1 DEF Session, Pending, Anew
<1> QED BY <1>1, <1>5, <1>6

\* Every key and command keeps the session's invariant.
LEMMA SessionStep ==
  ASSUME UndoInv, Session, [Next]_vars
  PROVE  Session'
<1>1. CASE TypeKey
  <2>1. PICK kind \in {"ins", "del"}, ch \in {"word", "sep", "nl", "none"},
             gap \in BOOLEAN, hits \in BOOLEAN : Type(kind, ch, gap, hits)
    BY <1>1 DEF TypeKey
  <2> QED BY <2>1, TypeSession
<1>2. CASE Escape
  <2>1. /\ mode = "insert" /\ mode' = "normal" /\ taken' = FALSE /\ fresh' /\ ~refused'
        /\ typing' = [NoTyping EXCEPT !.tick = 0]
        /\ UNCHANGED <<tree, buf, oneShot, landed>>
    BY <1>2 DEF Escape, Anew
  <2>2. typing'.tick = 0 /\ ~typing'.force
    BY <2>1 DEF NoTyping
  <2>3. buf'.tick \in Nat
    BY <2>1 DEF UndoInv, Core, Buf
  <2>4. StepPerChange' /\ ~oneShot
    BY <2>1 DEF Session, StepPerChange
  <2> QED BY <2>1, <2>2, <2>3, <2>4 DEF Session, Pending
<1>3. CASE Undo \/ Redo \/ UndoToSeq \/ Travel \/ TravelFile
  <2>1. PICK n : Move(n)
    BY <1>3 DEF Undo, Redo, UndoToSeq, Travel, TravelFile
  <2> QED BY <2>1, MoveSession
<1>4. CASE SetLevels
  <2>1. /\ mode = "normal" /\ Resumed
        /\ UNCHANGED <<tree, buf, taken, typing, fresh, refused, landed>>
    BY <1>4 DEF SetLevels
  <2>2. /\ mode' = (IF oneShot THEN "insert" ELSE "normal") /\ ~oneShot'
    BY <2>1 DEF Resumed
  <2>3. /\ taken /\ ~refused => (fresh <=> ~Pending(tree, buf.tick))
        /\ ~taken => fresh
    BY <2>1 DEF Session
  <2>4. StepPerChange'
    BY <2>1 DEF Session, StepPerChange
  <2> QED BY <2>1, <2>2, <2>3, <2>4 DEF Session, Pending
<1>5. CASE UNCHANGED vars
  BY <1>5 DEF vars, Session, Pending, StepPerChange
<1> QED
  BY <1>1, <1>2, <1>3, <1>4, <1>5, ChangeSession, EnterSession, PasteSession,
     EndStepSession, FileSession DEF Next

(***************************************************************************)
(* Undo steps are the documented changes: an edit that begins a change     *)
(* finds its step empty, one that goes on with a change finds it pending,  *)
(* whatever keys, pastes, one-shot commands, saves and reloads came in     *)
(* between (push_undo, before_typed_edit, end_typing_step).  Two edits are *)
(* excepted, and by name: the first after a break that came between the    *)
(* deletion of a c command and what it types, and a key of a session that  *)
(* a one-shot :g or ranged :normal ran in.  There the code does not cut    *)
(* the steps that docs/features/undo.md lists.                             *)
(***************************************************************************)
THEOREM StepsAreChanges == Spec => []StepPerChange
<1>1. Init => UndoInv /\ Session
  <2>1. Init => Session
    BY DEF Init, Session, NoTyping, StepPerChange
  <2> QED BY <2>1, InitInv
<1>2. UndoInv /\ Session /\ [Next]_vars => UndoInv' /\ Session'
  BY CoreStep, RestStep, SessionStep DEF UndoInv
<1>3. Session => StepPerChange
  BY DEF Session
<1> QED BY <1>1, <1>2, <1>3, PTL DEF Spec

=============================================================================
