----------------------------- MODULE UndoTree -----------------------------
(***************************************************************************)
(* The branching undo history of a buffer and how typing and commands are  *)
(* cut into its steps (crates/bemtvi-core/src/editor/undo.rs, with the     *)
(* insert session of insert.rs and mod.rs and the saves and reloads of     *)
(* buffers.rs).                                                            *)
(*                                                                         *)
(* The editor is one thread; an action is one key or command.  What makes  *)
(* it hard is that a step is committed lazily, by whatever leaves the      *)
(* state next, from four pieces of state that different commands reset:    *)
(* the tree's open group, the editor-wide snapshot_taken, the changedtick, *)
(* and the typing state of the insert session.                             *)
(*                                                                         *)
(* A text is the tick that made it.  The arena of nodes is a function over *)
(* seqs (its indices are only positions in that order), and a node holds   *)
(* the seqs on its way down from the root instead of a parent's index: the *)
(* parent is the newest of the others, and the newest child the newest     *)
(* node whose parent is this one.                                          *)
(***************************************************************************)
EXTENDS Integers, FiniteSetsExt

CONSTANTS
  MaxTick,  \* bound on changedtick: changes, restores, reloads
  MaxSaves, \* bound on the writes
  Levels,   \* the values :set undolevels may give
  Counts,   \* the counts of g-, g+, :earlier and :later
  Extras    \* what FullSpec adds:
            \* "leave":  the focus leaves Insert for another window;
            \* "rubout": <C-w>, <C-u> or a completion accepted in Insert

ASSUME UndoAssumption ==
  /\ MaxTick \in Nat /\ MaxSaves \in Nat
  /\ Levels \subseteq Int /\ Levels # {} /\ Counts \subseteq Nat \ {0}
  /\ Extras \subseteq {"leave", "rubout"}

VARIABLES
  tree,    \* the buffer's UndoTree
  buf,     \* its live text, changedtick, modified flag and saved_seq
  disk,    \* the text of its file
  levels,  \* 'undolevels'
  mode,    \* "normal" or "insert"
  oneShot, \* insert_normal: Insert resumes after this command
  taken,   \* snapshot_taken
  typing,  \* TypingUndo: kind and class of the last key, tick, force
  fresh,   \* history: the next edit begins a change of its own
  refused, \* history: as i_CTRL-O or i_CTRL-G u asked, with only the deletion of
           \* a c command in the step, and the code ended no step
  landed   \* history: how the last edit landed, see Landing

vars == <<tree, buf, disk, levels, mode, oneShot, taken, typing, fresh, refused,
          landed>>

Landings == {"right", "refused", "split", "wrong"}

Node == [path : SUBSET Nat, text : Nat, save : Nat]

Arena == UNION {[S -> Node] : S \in SUBSET Nat}

Tree == [nodes : Arena, cur : Nat, next : Nat, dirty : BOOLEAN, dirtyTick : Nat,
         saveLast : Nat]

Buf == [text : Nat, tick : Nat, modified : BOOLEAN, saved : Nat]

Typing == [kind : {"none", "ins", "del"}, last : {"none", "word", "sep", "nl"},
           tick : Nat, force : BOOLEAN]

TypeOK ==
  /\ tree \in Tree /\ buf \in Buf /\ disk \in Nat /\ levels \in Levels
  /\ mode \in {"normal", "insert"} /\ oneShot \in BOOLEAN
  /\ taken \in BOOLEAN /\ typing \in Typing
  /\ fresh \in BOOLEAN /\ refused \in BOOLEAN /\ landed \in Landings

-----------------------------------------------------------------------------
(* The tree. *)

(* UndoTree::new: the only node is the text as it was loaded. *)
NewTree(text) ==
  [nodes |-> [s \in {0} |-> [path |-> {0}, text |-> text, save |-> 0]],
   cur |-> 0, next |-> 1, dirty |-> FALSE, dirtyTick |-> 0, saveLast |-> 0]

Seqs(t) == DOMAIN t.nodes

Ancestors(t, s) == t.nodes[s].path \ {s}

Children(t, s) == {c \in Seqs(t) : Ancestors(t, c) # {} /\ Max(Ancestors(t, c)) = s}

Below(t, s) == {n \in Seqs(t) : s \in t.nodes[n].path}

(* UndoTree::pending: an open group that changed nothing is not a state. *)
Pending(t, tick) == t.dirty /\ tick # t.dirtyTick

MarkDirty(t, tick) ==
  IF t.dirty THEN t ELSE [t EXCEPT !.dirty = TRUE, !.dirtyTick = tick]

(* UndoTree::commit: the live text becomes the newest child of cur. *)
Grow(t, text) ==
  [t EXCEPT !.nodes = [s \in Seqs(t) \cup {t.next} |->
                         IF s = t.next
                         THEN [path |-> t.nodes[t.cur].path \cup {s},
                               text |-> text, save |-> 0]
                         ELSE t.nodes[s]],
            !.cur = t.next, !.next = t.next + 1, !.dirty = FALSE]

(* reroot: only heir's subtree stays, and it keeps its seqs. *)
Reroot(t, heir) ==
  [t EXCEPT !.nodes = [s \in Below(t, heir) |->
     [t.nodes[s] EXCEPT !.path = @ \cap Below(t, heir)]]]

(* prune: the root gives way to its child towards cur until at most keep    *)
(* states are left below it.                                                *)
Prune(t, keep) ==
  Reroot(t, Min({a \in t.nodes[t.cur].path : Cardinality(Below(t, a)) <= keep + 1}))

(* undo_levels_to_keep. *)
Keep(n) == IF n < 0 THEN 0 ELSE IF n = 0 THEN 1 ELSE n

(* commit_undo, for the live buffer. *)
Commit(t) ==
  IF Pending(t, buf.tick) THEN Prune(Grow(t, buf.text), Keep(levels))
  ELSE [t EXCEPT !.dirty = FALSE]

(* Mutant: a session's group counts as open whatever closed it. *)
PushUndoUnopened ==
  IF taken THEN tree ELSE MarkDirty(Commit(tree), buf.tick)

(* push_undo: begin a change group, unless the session has one open. *)
PushUndo ==
  IF taken THEN MarkDirty(tree, buf.tick)
  ELSE MarkDirty(Commit(tree), buf.tick)

(* break_undo_step. *)
BreakStep(t) == MarkDirty(Commit(t), buf.tick)

-----------------------------------------------------------------------------
(* Where a travel lands: node_near_seq, node_near_save and end_node. *)

OnTravelSide(t, back) ==
  {n \in Seqs(t) : IF back THEN n <= t.cur ELSE n > t.cur}

EndNode(t, back) == IF back THEN Min(Seqs(t)) ELSE Max(Seqs(t))

(* Mutant: a number that pruning took is nowhere to go. *)
NearSeqExact(t, target, back) ==
  IF target \in OnTravelSide(t, back) THEN target ELSE t.cur

NearSeq(t, target, back) ==
  LET side == OnTravelSide(t, back)
      hit  == {n \in side : IF back THEN n <= target ELSE n >= target}
      Off(n) == IF n < target THEN target - n ELSE n - target
  IN IF hit # {} THEN IF back THEN Max(hit) ELSE Min(hit)
     ELSE IF side = {} THEN t.cur
     ELSE CHOOSE n \in side : \A m \in side : Off(n) <= Off(m)

(* undo_travel: the target is clamped to the seqs ever given out. *)
TravelTarget(t, count, back) ==
  NearSeq(t, IF back THEN Max({0, t.cur - count})
             ELSE Min({t.next - 1, t.cur + count}), back)

(* The written states among cur and its ancestors. *)
WrittenAbove(t) == {a \in t.nodes[t.cur].path : t.nodes[a].save # 0}

SaveAtOrAboveCur(t) ==
  IF WrittenAbove(t) = {} THEN 0 ELSE t.nodes[Max(WrittenAbove(t))].save

(* Mutant: the write's number alone decides. *)
NearSaveAnySide(t, target, back) ==
  LET hit == {n \in Seqs(t) :
                /\ t.nodes[n].save # 0
                /\ IF back THEN t.nodes[n].save <= target
                   ELSE t.nodes[n].save >= target}
  IN IF target <= 0 THEN EndNode(t, TRUE)
     ELSE IF hit = {} THEN EndNode(t, back)
     ELSE CHOOSE n \in hit : \A m \in hit :
            IF back THEN t.nodes[m].save <= t.nodes[n].save
            ELSE t.nodes[m].save >= t.nodes[n].save

NearSave(t, target, back) ==
  LET hit == {n \in OnTravelSide(t, back) :
                /\ t.nodes[n].save # 0
                /\ IF back THEN t.nodes[n].save <= target
                   ELSE t.nodes[n].save >= target}
  IN IF target <= 0 THEN EndNode(t, TRUE)
     ELSE IF hit = {} THEN EndNode(t, back)
     ELSE CHOOSE n \in hit : \A m \in hit :
            IF back THEN t.nodes[m].save <= t.nodes[n].save
            ELSE t.nodes[m].save >= t.nodes[n].save

(* undo_travel_file: off a write, the first step back reaches the last one. *)
FileTarget(t, count, back) ==
  LET step == IF t.nodes[t.cur].save # 0 THEN count ELSE count - 1
  IN NearSave(t, SaveAtOrAboveCur(t) + (IF back THEN -step ELSE count), back)

-----------------------------------------------------------------------------
(* Edits.  A step that an edit lands in is empty when nothing is pending:   *)
(* the edit that begins a change must find it so, one that goes on with a   *)
(* change must not.  Two ways to miss that have a name: the step before it  *)
(* was to end and was not (refused), and a one-shot :g closed the session's *)
(* group, so that every key after it opens one (split).                     *)

NewText == /\ buf.tick < MaxTick
           /\ buf' = [buf EXCEPT !.text = buf.tick + 1, !.tick = @ + 1,
                                 !.modified = TRUE]

Landing(t, new) ==
  CASE new = ~Pending(t, buf.tick) -> "right"
    [] new /\ refused -> "refused"
    [] ~new /\ mode = "insert" /\ ~taken -> "split"
    [] OTHER -> "wrong"

Landed(t, new) == landed' = Landing(t, new)

(* The next edit begins a change, and nothing keeps it from it. *)
Anew == fresh' = TRUE /\ refused' = FALSE

(* The next edit goes on with the change this one is in. *)
GoesOn == fresh' = FALSE /\ refused' = FALSE

(* A command is over: resume_insert_normal. *)
Resumed == /\ mode' = (IF oneShot THEN "insert" ELSE "normal")
           /\ oneShot' = FALSE

NoTyping == [kind |-> "none", last |-> "none", tick |-> buf.tick, force |-> FALSE]

(* A Normal command that changes the text, once: x, dd, p, a workspace edit. *)
Change ==
  /\ mode = "normal"
  /\ tree' = PushUndo /\ NewText /\ Landed(PushUndo, fresh) /\ Anew
  /\ Resumed
  /\ UNCHANGED <<disk, levels, taken, typing>>

(* :g and a ranged :normal: a group of their own, whatever the session has. *)
Batch ==
  LET t == MarkDirty(Commit(tree), buf.tick) IN
  /\ mode = "normal"
  /\ tree' = t /\ NewText /\ Landed(t, TRUE) /\ Anew
  /\ taken' = FALSE
  /\ Resumed
  /\ UNCHANGED <<disk, levels, typing>>

(* i, a, o: the session opens its group; begin_insert_session. *)
EnterInsert ==
  /\ mode = "normal"
  /\ tree' = PushUndo /\ taken' = TRUE /\ typing' = NoTyping
  /\ mode' = "insert" /\ oneShot' = FALSE
  /\ UNCHANGED <<buf, disk, levels, fresh, refused, landed>>

(* c, s and their kin delete first, in the step of what is typed next. *)
ChangeInsert ==
  /\ mode = "normal"
  /\ tree' = PushUndo /\ NewText /\ Landed(PushUndo, fresh) /\ GoesOn
  /\ taken' = TRUE /\ typing' = [NoTyping EXCEPT !.tick = buf'.tick]
  /\ mode' = "insert" /\ oneShot' = FALSE
  /\ UNCHANGED <<disk, levels>>

(* starts_typing_step. *)
StartsTypingStep(last, ch) == last = "nl" \/ (last = "word" /\ ch = "sep")

(* The documented boundaries between two typed keys; gap is a pause or a    *)
(* cursor that moved.  Keys that changed nothing are not told apart.        *)
Boundary(kind, ch, gap) ==
  /\ typing.kind # "none"
  /\ \/ gap \/ typing.kind # kind
     \/ kind = "ins" /\ StartsTypingStep(typing.last, ch)

(* A typed key and before_typed_edit; a deletion may find nothing to delete. *)
Type(kind, ch, gap, hits) ==
  LET open   == PushUndo
      breaks == /\ buf.tick # typing.tick
                /\ typing.force \/ Boundary(kind, ch, gap)
      t      == IF breaks THEN BreakStep(open) ELSE open
      new    == fresh \/ (buf.tick # typing.tick /\ Boundary(kind, ch, gap))
  IN
  /\ mode = "insert"
  /\ tree' = t
  /\ typing' = [kind |-> kind, last |-> ch, force |-> FALSE,
                tick |-> IF breaks THEN buf.tick ELSE typing.tick]
  /\ \/ hits /\ NewText /\ Landed(t, new) /\ GoesOn
     \/ ~hits /\ fresh' = new /\ UNCHANGED <<buf, refused, landed>>
  /\ UNCHANGED <<disk, levels, mode, oneShot, taken>>

TypeKey ==
  \E gap \in BOOLEAN :
    \/ \E ch \in {"word", "sep", "nl"} : Type("ins", ch, gap, TRUE)
    \/ \E hits \in BOOLEAN : Type("del", "none", gap, hits)

(* end_typing_step in Insert: the tree it leaves, and the typing tick. *)
EndedStep == IF buf.tick # typing.tick THEN BreakStep(PushUndo) ELSE PushUndo
EndedTick == IF buf.tick # typing.tick THEN buf.tick ELSE typing.tick

(* Mutant: the typing after a paste joins it. *)
PasteOwesNothing ==
  /\ mode = "insert"
  /\ tree' = EndedStep /\ NewText /\ Anew
  /\ Landed(EndedStep, fresh \/ buf.tick # typing.tick)
  /\ typing' = [typing EXCEPT !.tick = EndedTick]
  /\ UNCHANGED <<disk, levels, mode, oneShot, taken>>

(* A paste, a register or a mapping's output is a step of its own, and so   *)
(* is the typing after it (owe_typing_step); right after a c command it is  *)
(* what the command types.                                                  *)
Paste ==
  /\ mode = "insert"
  /\ tree' = EndedStep /\ NewText /\ Anew
  /\ Landed(EndedStep, fresh \/ buf.tick # typing.tick)
  /\ typing' = [typing EXCEPT !.tick = EndedTick, !.force = TRUE]
  /\ UNCHANGED <<disk, levels, mode, oneShot, taken>>

(* i_CTRL-G u, and the start of i_CTRL-O: what comes next is a step of its  *)
(* own.  A group that holds what a c command deleted, and no key typed yet, *)
(* is not ended.                                                            *)
EndStep ==
  /\ mode = "insert"
  /\ tree' = EndedStep
  /\ typing' = [typing EXCEPT !.tick = EndedTick, !.force = TRUE]
  /\ fresh' = TRUE
  /\ refused' = ((refused \/ ~fresh) /\ buf.tick = typing.tick)
  /\ UNCHANGED <<buf, disk, levels, taken, landed>>

CtrlG == EndStep /\ UNCHANGED <<mode, oneShot>>

CtrlO == EndStep /\ mode' = "normal" /\ oneShot' = TRUE

(* <Esc> ends the session and its group; the next one resets typing, and    *)
(* nothing reads it before.                                                 *)
Escape ==
  /\ mode = "insert" /\ mode' = "normal" /\ taken' = FALSE /\ Anew
  /\ typing' = [NoTyping EXCEPT !.tick = 0]
  /\ UNCHANGED <<tree, buf, disk, levels, oneShot, landed>>

(* enter_window: Normal, with snapshot_taken as it is. *)
Leave ==
  /\ "leave" \in Extras
  /\ mode = "insert" /\ mode' = "normal" /\ Anew
  /\ UNCHANGED <<tree, buf, disk, levels, oneShot, taken, typing, landed>>

(* insert_delete_before and complete_accept_with change the text without    *)
(* opening a group.                                                         *)
RubOut ==
  /\ "rubout" \in Extras
  /\ mode = "insert" /\ NewText
  /\ UNCHANGED <<tree, disk, levels, mode, oneShot, taken, typing, fresh, refused,
                 landed>>

-----------------------------------------------------------------------------
(* Saves, reloads and moves through the tree. *)

(* restore_snapshot: what is landed on is clean if it is the saved state. *)
Restore(t, n) ==
  /\ buf.tick < MaxTick
  /\ tree' = [t EXCEPT !.cur = n]
  /\ buf' = [buf EXCEPT !.text = t.nodes[n].text, !.tick = @ + 1,
                        !.modified = (buf.saved # n)]

(* A move commits what is pending, and restores if it leads anywhere. *)
Move(n) ==
  LET t == Commit(tree) IN
  /\ mode = "normal"
  /\ \/ n # t.cur /\ Restore(t, n)
     \/ n = t.cur /\ tree' = t /\ UNCHANGED buf
  /\ Resumed /\ Anew
  /\ UNCHANGED <<disk, levels, taken, typing, landed>>

Undo ==
  LET t == Commit(tree) IN
  Move(IF Ancestors(t, t.cur) = {} THEN t.cur ELSE Max(Ancestors(t, t.cur)))

Redo ==
  LET t == Commit(tree) IN
  Move(IF Children(t, t.cur) = {} THEN t.cur ELSE Max(Children(t, t.cur)))

(* :undo {N}; a number no state has leaves the text alone. *)
UndoToSeq ==
  LET t == Commit(tree) IN
  \E n \in 0 .. t.next : Move(IF n \in Seqs(t) THEN n ELSE t.cur)

(* g-, g+, :earlier {N}, :later {N}. *)
Travel ==
  \E count \in Counts, back \in BOOLEAN :
    Move(TravelTarget(Commit(tree), count, back))

(* :earlier {N}f, :later {N}f. *)
TravelFile ==
  \E count \in Counts, back \in BOOLEAN :
    Move(FileTarget(Commit(tree), count, back))

(* Mutant: the write is stamped on the state before the open change. *)
SaveUncommitted ==
  /\ tree.saveLast < MaxSaves
  /\ tree' = [tree EXCEPT !.saveLast = @ + 1,
                          !.nodes[tree.cur].save = tree.saveLast + 1]
  /\ buf' = [buf EXCEPT !.modified = FALSE, !.saved = tree.cur]
  /\ disk' = buf.text
  /\ \/ mode = "normal" /\ Resumed
     \/ UNCHANGED <<mode, oneShot>>
  /\ Anew
  /\ UNCHANGED <<levels, taken, typing, landed>>

(* mark_undo_saved, from :w, or in Insert from a handler or the answer to a *)
(* write whose text is still the buffer's.                                  *)
Save ==
  LET t == Commit(tree) IN
  /\ t.saveLast < MaxSaves
  /\ tree' = [t EXCEPT !.saveLast = @ + 1,
                       !.nodes[t.cur].save = t.saveLast + 1]
  /\ buf' = [buf EXCEPT !.modified = FALSE, !.saved = t.cur]
  /\ disk' = buf.text
  /\ \/ mode = "normal" /\ Resumed
     \/ UNCHANGED <<mode, oneShot>>
  /\ Anew
  /\ UNCHANGED <<levels, taken, typing, landed>>

(* :e! and autoread: the text on disk, by now somebody else's, and a tree   *)
(* rooted at it.                                                            *)
Reload ==
  /\ buf.tick < MaxTick
  /\ disk' = buf.tick + 1
  /\ tree' = NewTree(buf.tick + 1)
  /\ buf' = [text |-> buf.tick + 1, tick |-> buf.tick + 1, modified |-> FALSE,
             saved |-> 0]
  /\ Anew
  /\ \/ mode = "normal" /\ Resumed
     \/ UNCHANGED <<mode, oneShot>>
  /\ UNCHANGED <<levels, taken, typing, landed>>

(* :setlocal undolevels: it governs the commits to come. *)
SetLevels ==
  /\ mode = "normal" /\ \E n \in Levels \ {levels} : levels' = n
  /\ Resumed
  /\ UNCHANGED <<tree, buf, disk, taken, typing, fresh, refused, landed>>

Init ==
  /\ tree = NewTree(0)
  /\ buf = [text |-> 0, tick |-> 0, modified |-> FALSE, saved |-> 0]
  /\ disk = 0 /\ levels \in Levels
  /\ mode = "normal" /\ oneShot = FALSE /\ taken = FALSE
  /\ typing = NoTyping
  /\ fresh = TRUE /\ refused = FALSE /\ landed = "right"

Next ==
  \/ Change \/ Batch \/ EnterInsert \/ ChangeInsert
  \/ TypeKey \/ Paste \/ CtrlG \/ CtrlO \/ Escape
  \/ Undo \/ Redo \/ UndoToSeq \/ Travel \/ TravelFile
  \/ Save \/ Reload \/ SetLevels

Spec == Init /\ [][Next]_vars

(* With the actions that Extras adds. *)
FullSpec == Init /\ [][Next \/ Leave \/ RubOut]_vars

-----------------------------------------------------------------------------
(* Properties. *)

(* Undo steps are the changes docs/features/undo.md lists: an edit that     *)
(* begins a change lands in an empty step, and one that goes on with a      *)
(* change in the step the change is in (push_undo, before_typed_edit) - but *)
(* for two edits, which miss it: the first after an i_CTRL-O or i_CTRL-G u  *)
(* that came between a c command's deletion and what it types, and a key    *)
(* typed in a session in which a :g or a ranged :normal ran as a one-shot   *)
(* command.                                                                 *)
StepPerChange == landed # "wrong"

(* The first exception is not what docs/features/undo.md says: what an      *)
(* i_CTRL-O command changes is a step of its own (end_typing_step).         *)
OneShotIsAStep == [][oneShot /\ Change => ~Pending(tree', buf.tick)]_vars

(* A buffer that reads as unmodified holds what its file holds, through     *)
(* undo, redo, travel, pruning and open groups (mark_undo_saved,            *)
(* restore_snapshot).                                                       *)
CleanIsOnDisk == ~buf.modified => buf.text = disk

(* Every text that is not an open change is the text of a node: leaving it  *)
(* loses nothing (push_undo: "edits made then would belong to no group").   *)
NothingUnrecorded ==
  ~Pending(tree, buf.tick) => buf.text = tree.nodes[tree.cur].text

(* g- and g+ go to the state made before and after this one, wherever it is *)
(* in the tree and whatever was pruned (node_near_seq).                     *)
TravelInOrder ==
  LET older == {n \in Seqs(tree) : n < tree.cur}
      newer == {n \in Seqs(tree) : n > tree.cur}
  IN /\ TravelTarget(tree, 1, TRUE) = (IF older = {} THEN tree.cur ELSE Max(older))
     /\ TravelTarget(tree, 1, FALSE) = (IF newer = {} THEN tree.cur ELSE Min(newer))

(* :earlier {N}f never goes forward, :later {N}f never back, and            *)
(* :earlier 1f off a write reaches the write this state comes from          *)
(* (node_near_save, save_at_or_above_cur).                                  *)
WritesInOrder ==
  /\ \A count \in Counts : /\ FileTarget(tree, count, TRUE) <= tree.cur
                           /\ FileTarget(tree, count, FALSE) >= tree.cur
  /\ tree.nodes[tree.cur].save = 0 /\ WrittenAbove(tree) # {} =>
       FileTarget(tree, 1, TRUE) = Max(WrittenAbove(tree))

=============================================================================
