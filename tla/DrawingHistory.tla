---------------------------- MODULE DrawingHistory ----------------------------
(***************************************************************************)
(* The shapes of a page and its undo and redo stacks, the edits that write *)
(* them, pointer drags that change shapes first and record them at their   *)
(* release, and a restart that restores a page from its session            *)
(* (src/draw/frame/, input/state/core/selection_actions/,                  *)
(* input/state/mouse/, session/snapshot/history.rs).                       *)
(*                                                                         *)
(* A shape is its identity, where it is and whether it is locked; a move   *)
(* or a resize toggles between two places.  An entry of a stack is the     *)
(* sequence of the basic actions of a compound, or of one.  Positions in   *)
(* sequences count from one.  Delayed playback of a stack is a sequence of *)
(* undo or redo steps at any time.                                         *)
(***************************************************************************)
EXTENDS Naturals, FiniteSets, Sequences, SequencesExt
CONSTANTS HistoryLimit,  \* undo_stack_limit
          PersistLimit,  \* max_persisted_undo_depth
          MaxShapes,     \* max_shapes_per_frame
          MaxSelected,   \* bound: shapes selected together
          MaxEdits       \* bound: edits, drags and restarts together

ASSUME DrawingAssumption ==
  HistoryLimit \in Nat \ {0} /\ PersistLimit \in Nat \ {0} /\ MaxShapes \in Nat \ {0}
  /\ MaxSelected \in Nat /\ MaxEdits \in Nat

VARIABLES
  dwShapes,   \* the page's shapes, back to front
  dwUndo, dwRedo,
  dwNext,     \* next_shape_id
  dwDrag,     \* the drag in progress, or NoDrag
  dwEdits,    \* bounded counter
  dwPast,     \* history: the page before each entry of dwUndo
  dwFuture,   \* history: the page after each entry of dwRedo
  dwExact,    \* history: no edit fell into a drag and no restart dropped anything
  dwShuffled  \* history: a change of the stacking order has been undone or redone

dwStackVars == <<dwUndo, dwRedo, dwPast, dwFuture>>
dwVars == <<dwShapes, dwStackVars, dwNext, dwDrag, dwEdits, dwExact, dwShuffled>>

NoDrag == [kind |-> "none", selected |-> <<>>, before |-> <<>>, moved |-> FALSE]
Dragging == dwDrag.kind # "none"

DrawingInit ==
  /\ dwShapes = <<>> /\ dwUndo = <<>> /\ dwRedo = <<>> /\ dwNext = 1 /\ dwDrag = NoDrag
  /\ dwEdits = 0 /\ dwPast = <<>> /\ dwFuture = <<>> /\ dwExact = TRUE /\ dwShuffled = FALSE

-----------------------------------------------------------------------------
(* Pages and entries. *)

IdsOf(shapes) == {shapes[i].id : i \in DOMAIN shapes}
IndexOf(shapes, id) == CHOOSE i \in DOMAIN shapes : shapes[i].id = id
ShapeOf(shapes, id) == shapes[IndexOf(shapes, id)]
Least(a, b) == IF a < b THEN a ELSE b

\* The shapes with those of the given snapshots set to them.
SetTo(shapes, snapshots) ==
  [i \in DOMAIN shapes |->
     IF shapes[i].id \in IdsOf(snapshots) THEN ShapeOf(snapshots, shapes[i].id) ELSE shapes[i]]

Without(shapes, ids) == SelectSeq(shapes, LAMBDA s : s.id \notin ids)

\* Recorded shapes go back to their recorded positions, lowest first.
Restored(shapes, items) ==
  FoldLeft(LAMBDA page, it : InsertAt(page, Least(it.index, Len(page) + 1), it.shape), shapes, items)

\* Frame::move_shape: the position is corrected for the removal of the shape
\* from below it.
MoveShape(shapes, from, to) ==
  IF from = to THEN shapes
  ELSE InsertAt(RemoveAt(shapes, from), IF from < to THEN to - 1 ELSE to, shapes[from])

\* move_shape_to, which the history uses, corrects in the same way.
MoveShapeTo(shapes, id, target) ==
  IF id \notin IdsOf(shapes) \/ IndexOf(shapes, id) = target THEN shapes
  ELSE LET from == IndexOf(shapes, id)
           to == Least(target, Len(shapes))
       IN InsertAt(RemoveAt(shapes, from), IF from < to THEN to - 1 ELSE to, shapes[from])

\* The basic actions.
Items(shapes, ids) ==
  SelectSeq([i \in DOMAIN shapes |-> [index |-> i, shape |-> shapes[i]]],
            LAMBDA it : it.shape.id \in ids)
Create(shapes, ids) == [kind |-> "create", items |-> Items(shapes, ids)]
Delete(shapes, ids) == [kind |-> "delete", items |-> Items(shapes, ids)]
Modify(before, after) == [kind |-> "modify", before |-> before, after |-> after]
Reorder(id, from, to) == [kind |-> "reorder", id |-> id, from |-> from, to |-> to]

ItemIds(action) == {action.items[i].shape.id : i \in DOMAIN action.items}
ActionIds(action) ==
  CASE action.kind \in {"create", "delete"} -> ItemIds(action)
    [] action.kind = "modify" -> {action.before.id}
    [] action.kind = "reorder" -> {action.id}

Apply(shapes, action) ==
  CASE action.kind = "create" -> Restored(shapes, action.items)
    [] action.kind = "delete" -> Without(shapes, ItemIds(action))
    [] action.kind = "modify" -> SetTo(shapes, <<action.after>>)
    [] action.kind = "reorder" -> MoveShapeTo(shapes, action.id, action.to)
ApplyInverse(shapes, action) ==
  CASE action.kind = "create" -> Without(shapes, ItemIds(action))
    [] action.kind = "delete" -> Restored(shapes, action.items)
    [] action.kind = "modify" -> SetTo(shapes, <<action.before>>)
    [] action.kind = "reorder" -> MoveShapeTo(shapes, action.id, action.from)

Redone(shapes, entry) == FoldLeft(Apply, shapes, entry)
Undone(shapes, entry) == FoldLeft(ApplyInverse, shapes, Reverse(entry))

IsReorder(entry) == \E i \in DOMAIN entry : entry[i].kind = "reorder"

-----------------------------------------------------------------------------
(* Recording. *)

\* The newest limit elements of a stack.
Newest(stack, limit) == SubSeq(stack, 1 + Len(stack) - Least(limit, Len(stack)), Len(stack))

\* Mutant: the redo stack outlives a new entry.
PushedKeepingRedo(entries, befores) ==
  /\ dwUndo' = Newest(dwUndo \o entries, HistoryLimit)
  /\ dwPast' = Newest(dwPast \o befores, HistoryLimit)
  /\ UNCHANGED <<dwRedo, dwFuture>>

\* push_undo_action, once per entry; befores are the pages before them.
Pushed(entries, befores) ==
  /\ dwUndo' = Newest(dwUndo \o entries, HistoryLimit)
  /\ dwPast' = Newest(dwPast \o befores, HistoryLimit)
  /\ dwRedo' = <<>> /\ dwFuture' = <<>>

\* An edit made now.  One made from the keyboard while a drag is in progress
\* leaves the drag as it is.
Edit ==
  /\ dwEdits < MaxEdits /\ dwEdits' = dwEdits + 1
  /\ dwExact' = (dwExact /\ ~Dragging)

\* What the user may have selected: anything, or what the drag began with.
InOrder(ids) == SelectSeq([id \in 1..(dwNext - 1) |-> id], LAMBDA id : id \in ids)
Selections ==
  IF Dragging THEN {dwDrag.selected}
  ELSE LET chosen == {ids \in SUBSET IdsOf(dwShapes) : Cardinality(ids) \in 1..MaxSelected}
       IN {InOrder(ids) : ids \in chosen} \cup {Reverse(InOrder(ids)) : ids \in chosen}
Unlocked(selected) ==
  SelectSeq(selected, LAMBDA id : id \in IdsOf(dwShapes) /\ ~ShapeOf(dwShapes, id).locked)
Snapshots(ids) == [i \in DOMAIN ids |-> ShapeOf(dwShapes, ids[i])]
Moved(s) == [s EXCEPT !.at = 1 - @]

\* The entry that records what became of the snapshots' shapes.
Changes(before, shapes) ==
  [i \in DOMAIN before |-> Modify(before[i], ShapeOf(shapes, before[i].id))]

-----------------------------------------------------------------------------
(* Edits. *)

\* finish_drawing: the new shape is the front one.
DwDraw ==
  /\ ~Dragging /\ Len(dwShapes) < MaxShapes /\ Edit
  /\ dwShapes' = Append(dwShapes, [id |-> dwNext, at |-> 0, locked |-> FALSE])
  /\ dwNext' = dwNext + 1
  /\ Pushed(<< <<Create(dwShapes', {dwNext})>> >>, <<dwShapes>>)
  /\ UNCHANGED <<dwDrag, dwShuffled>>

\* delete_selection, and clear_all for the selection of all: locked shapes stay.
DwDelete(selected) ==
  LET ids == ToSet(Unlocked(selected)) IN
  /\ ids # {} /\ Edit
  /\ dwShapes' = Without(dwShapes, ids)
  /\ Pushed(<< <<Delete(dwShapes, ids)>> >>, <<dwShapes>>)
  /\ dwDrag' = [dwDrag EXCEPT !.selected = <<>>]
  /\ UNCHANGED <<dwNext, dwShuffled>>

\* duplicate_selection ignores the bound on shapes and selects the duplicates.
DwDuplicate(selected) ==
  LET originals == Snapshots(Unlocked(selected))
      copies == [i \in DOMAIN originals |-> [Moved(originals[i]) EXCEPT !.id = dwNext + i - 1]]
  IN /\ originals # <<>> /\ Edit
     /\ dwShapes' = dwShapes \o copies
     /\ dwNext' = dwNext + Len(copies)
     /\ Pushed(<< <<Create(dwShapes', IdsOf(copies))>> >>, <<dwShapes>>)
     /\ dwDrag' = IF Dragging THEN [dwDrag EXCEPT !.selected = [i \in DOMAIN copies |-> copies[i].id]]
                  ELSE dwDrag
     /\ UNCHANGED dwShuffled

\* set_selection_locked, from a menu.
DwLock(selected, lock) ==
  LET ids == SelectSeq(selected, LAMBDA id : ShapeOf(dwShapes, id).locked # lock)
      before == Snapshots(ids)
  IN /\ ~Dragging /\ ids # <<>> /\ Edit
     /\ dwShapes' = SetTo(dwShapes, [i \in DOMAIN before |-> [before[i] EXCEPT !.locked = lock]])
     /\ Pushed(<<Changes(before, dwShapes')>>, <<dwShapes>>)
     /\ UNCHANGED <<dwNext, dwDrag, dwShuffled>>

\* translate_selection_with_undo.
DwNudge(selected) ==
  LET before == Snapshots(Unlocked(selected)) IN
  /\ before # <<>> /\ Edit
  /\ dwShapes' = SetTo(dwShapes, [i \in DOMAIN before |-> Moved(before[i])])
  /\ Pushed(<<Changes(before, dwShapes')>>, <<dwShapes>>)
  /\ UNCHANGED <<dwNext, dwDrag, dwShuffled>>

\* reorder_selection: the selected shapes one after the other, also locked ones.
DwReorder(selected, front) ==
  LET target == IF front THEN Len(dwShapes) ELSE 1
      step(acc, id) ==
        IF id \notin IdsOf(acc.page) \/ IndexOf(acc.page, id) = target THEN acc
        ELSE [page |-> MoveShape(acc.page, IndexOf(acc.page, id), target),
              entry |-> Append(acc.entry, Reorder(id, IndexOf(acc.page, id), target))]
      done == FoldLeft(step, [page |-> dwShapes, entry |-> <<>>], selected)
  IN /\ done.entry # <<>> /\ Edit
     /\ dwShapes' = done.page
     /\ Pushed(<<done.entry>>, <<dwShapes>>)
     /\ UNCHANGED <<dwNext, dwDrag, dwShuffled>>

\* undo_last and redo_last, whose side effects clear the selection.
DwUndo ==
  /\ dwUndo # <<>>
  /\ dwShapes' = Undone(dwShapes, Last(dwUndo))
  /\ dwUndo' = Front(dwUndo) /\ dwPast' = Front(dwPast)
  /\ dwRedo' = Append(dwRedo, Last(dwUndo)) /\ dwFuture' = Append(dwFuture, dwShapes)
  /\ dwShuffled' = (dwShuffled \/ IsReorder(Last(dwUndo)))
  /\ dwExact' = (dwExact /\ ~Dragging)
  /\ dwDrag' = [dwDrag EXCEPT !.selected = <<>>]
  /\ UNCHANGED <<dwNext, dwEdits>>
DwRedo ==
  /\ dwRedo # <<>>
  /\ dwShapes' = Redone(dwShapes, Last(dwRedo))
  /\ dwRedo' = Front(dwRedo) /\ dwFuture' = Front(dwFuture)
  /\ dwUndo' = Append(dwUndo, Last(dwRedo)) /\ dwPast' = Append(dwPast, dwShapes)
  /\ dwShuffled' = (dwShuffled \/ IsReorder(Last(dwRedo)))
  /\ dwExact' = (dwExact /\ ~Dragging)
  /\ dwDrag' = [dwDrag EXCEPT !.selected = <<>>]
  /\ UNCHANGED <<dwNext, dwEdits>>

-----------------------------------------------------------------------------
(* Drags. *)

\* The pointer grabs the selection, to move it or by a handle to resize it.
DwGrab(kind, selected) ==
  /\ ~Dragging /\ Unlocked(selected) # <<>> /\ dwEdits < MaxEdits /\ dwEdits' = dwEdits + 1
  /\ dwDrag' = [kind |-> kind, selected |-> selected, before |-> Snapshots(Unlocked(selected)),
                moved |-> FALSE]
  /\ UNCHANGED <<dwShapes, dwStackVars, dwNext, dwExact, dwShuffled>>

\* A shape that was grabbed, where it was then or scaled from there.
Scaled(s, scaled) ==
  IF s.id \notin IdsOf(dwDrag.before) THEN s
  ELSE LET grabbed == ShapeOf(dwDrag.before, s.id).at
       IN [s EXCEPT !.at = IF scaled THEN 1 - grabbed ELSE grabbed]

\* A motion moves what is selected now, or scales what was grabbed.
DwDragTo ==
  LET selected == Snapshots(Unlocked(dwDrag.selected)) IN
  /\ Dragging
  /\ \/ /\ dwDrag.kind = "move" /\ selected # <<>>
        /\ dwShapes' = SetTo(dwShapes, [i \in DOMAIN selected |-> Moved(selected[i])])
        /\ dwDrag' = [dwDrag EXCEPT !.moved = TRUE]
     \/ /\ dwDrag.kind = "resize" /\ UNCHANGED dwDrag
        /\ \E scaled \in BOOLEAN :
             dwShapes' = [i \in DOMAIN dwShapes |-> Scaled(dwShapes[i], scaled)]
  /\ UNCHANGED <<dwStackVars, dwNext, dwEdits, dwExact, dwShuffled>>

\* finish_moving_selection: one entry for what is left of the shapes grabbed.
DwDropMoved ==
  LET left == SelectSeq(dwDrag.before, LAMBDA s : s.id \in IdsOf(dwShapes)) IN
  /\ dwDrag.kind = "move" /\ dwDrag' = NoDrag
  /\ IF dwDrag.moved /\ left # <<>>
     THEN Pushed(<<Changes(left, dwShapes)>>, <<SetTo(dwShapes, left)>>)
     ELSE UNCHANGED dwStackVars
  /\ UNCHANGED <<dwShapes, dwNext, dwEdits, dwExact, dwShuffled>>

\* finish_selection_resize: an entry for each shape whose bounds have changed.
DwDropResized ==
  LET changed == SelectSeq(dwDrag.before, LAMBDA s : s.id \in IdsOf(dwShapes)
                                                     /\ ShapeOf(dwShapes, s.id).at # s.at)
  IN /\ dwDrag.kind = "resize" /\ dwDrag' = NoDrag
     /\ IF changed # <<>>
        THEN Pushed([i \in DOMAIN changed |-> Changes(<<changed[i]>>, dwShapes)],
                    [i \in DOMAIN changed |-> SetTo(dwShapes, SubSeq(changed, i, Len(changed)))])
        ELSE UNCHANGED dwStackVars
     /\ UNCHANGED <<dwShapes, dwNext, dwEdits, dwExact, dwShuffled>>

\* cancel_active_interaction.
DwCancel ==
  /\ Dragging /\ dwDrag' = NoDrag
  /\ dwShapes' = SetTo(dwShapes, dwDrag.before)
  /\ UNCHANGED <<dwStackVars, dwNext, dwEdits, dwExact, dwShuffled>>

-----------------------------------------------------------------------------
(* Sessions. *)

\* What is left of a stack: the entries of which something is left.
Pruned(stack) == SelectSeq(stack, LAMBDA entry : entry # <<>>)

\* prune_removed_shapes: nothing of the given shapes remains.
WithoutShapes(stack, ids) ==
  LET left(action) == IF action.kind \in {"create", "delete"}
                      THEN [action EXCEPT !.items = SelectSeq(@, LAMBDA it : it.shape.id \notin ids)]
                      ELSE action
      entry(actions) == SelectSeq([i \in DOMAIN actions |-> left(actions[i])],
                                  LAMBDA action : ActionIds(action) \notin SUBSET ids)
  IN Pruned([i \in DOMAIN stack |-> entry(stack[i])])

\* validate_against_shapes: modifications and moves of shapes of ids remain.
ValidFor(stack, ids) ==
  LET valid(action) == action.kind \in {"create", "delete"} \/ ActionIds(action) \subseteq ids
  IN Pruned([i \in DOMAIN stack |-> SelectSeq(stack[i], valid)])

StackIds(stack) == UNION {UNION {ActionIds(stack[i][j]) : j \in DOMAIN stack[i]} : i \in DOMAIN stack}

\* rebuild_next_id.
RebuiltNextId(shapes, undo, redo) ==
  1 + CHOOSE n \in {0} \cup IdsOf(shapes) \cup StackIds(undo) \cup StackIds(redo) :
        \A m \in IdsOf(shapes) \cup StackIds(undo) \cup StackIds(redo) : m <= n

\* The page is saved, as if the drag in progress were cancelled, with the newest
\* entries.  The next run restores the shapes from the back up to the limit, and
\* drops from the history what refers to the shapes it cut off, then the entries it
\* finds no shape for; a page without shapes is validated against its own history.
DwRestart ==
  LET saved == IF Dragging THEN SetTo(dwShapes, dwDrag.before) ELSE dwShapes
      shapes == SubSeq(saved, 1, Least(Len(saved), MaxShapes))
      undo == Newest(dwUndo, PersistLimit)
      redo == Newest(dwRedo, PersistLimit)
      kept(stack) == WithoutShapes(stack, IdsOf(saved) \ IdsOf(shapes))
      ids == IF shapes # <<>> THEN IdsOf(shapes) ELSE StackIds(kept(undo)) \cup StackIds(kept(redo))
  IN /\ dwEdits < MaxEdits /\ dwEdits' = dwEdits + 1
     /\ dwShapes' = shapes /\ dwDrag' = NoDrag
     /\ dwUndo' = ValidFor(kept(undo), ids) /\ dwRedo' = ValidFor(kept(redo), ids)
     /\ dwNext' = RebuiltNextId(saved, undo, redo)
     /\ dwExact' = (dwExact /\ shapes = saved /\ dwUndo' = undo /\ dwRedo' = redo)
     /\ dwPast' = Newest(dwPast, Len(dwUndo')) /\ dwFuture' = Newest(dwFuture, Len(dwRedo'))
     /\ UNCHANGED dwShuffled

-----------------------------------------------------------------------------
DrawingNext ==
  \/ DwDraw \/ DwUndo \/ DwRedo \/ DwDragTo \/ DwDropMoved \/ DwDropResized \/ DwCancel \/ DwRestart
  \/ \E selected \in Selections :
       \/ DwDuplicate(selected) \/ DwReorder(selected, TRUE) \/ DwReorder(selected, FALSE)
       \/ \E kind \in {"move", "resize"} : DwGrab(kind, selected)
       \/ DwDelete(selected) \/ DwNudge(selected) \/ \E lock \in BOOLEAN : DwLock(selected, lock)
DrawingSpec == DrawingInit /\ [][DrawingNext]_dwVars

-----------------------------------------------------------------------------
\* Types of the variables.
DrawingTypeOK ==
  /\ \A i \in DOMAIN dwShapes : dwShapes[i] \in [id : 1..(dwNext - 1), at : 0..1, locked : BOOLEAN]
  /\ Cardinality(IdsOf(dwShapes)) = Len(dwShapes)
  /\ Len(dwUndo) <= HistoryLimit /\ Len(dwPast) = Len(dwUndo) /\ Len(dwFuture) = Len(dwRedo)
  /\ dwDrag.kind \in {"none", "move", "resize"} /\ dwEdits \in 0..MaxEdits

Agree(page, other, entry) ==
  IF dwShuffled \/ IsReorder(entry) THEN ToSet(page) = ToSet(other) ELSE page = other

\* Undo gives back the page as it was before the edit, and redo the page as it
\* was after it: every shape with its place, its lock and its position in the
\* stack, over any sequence of edits, drags, cancelled drags, redone and undone
\* steps, entries lost at the limit and restarts.  Three things are excepted.  The
\* order is not claimed once a change of the order has been undone or redone;
\* nothing is claimed after an edit that fell into a drag, or after a restart that
\* dropped entries or shapes.
HistoryExact ==
  dwExact /\ ~Dragging =>
    /\ dwUndo # <<>> => Agree(Undone(dwShapes, Last(dwUndo)), Last(dwPast), Last(dwUndo))
    /\ dwRedo # <<>> => Agree(Redone(dwShapes, Last(dwRedo)), Last(dwFuture), Last(dwRedo))

\* Bringing one shape to the front makes it the front one.
BroughtToFront ==
  [][\A id \in IdsOf(dwShapes) : DwReorder(<<id>>, TRUE) => Last(dwShapes').id = id]_dwVars
=============================================================================
