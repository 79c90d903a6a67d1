---------------------------- MODULE BalancedTree ----------------------------
(***************************************************************************)
(* The array TREE of lab6/control_node.c (structures/balanced_tree.c) and  *)
(* the chain of commands `remove' makes of it.                             *)
(*                                                                         *)
(* The array is a heap: the children of position k (counted from 1) are at *)
(* 2k and 2k+1.  Position 1 holds the control node, whose id is -1; the    *)
(* code uses the same -1 for "no such node" and for an empty child slot,   *)
(* and so do we: NoId.  An element of the array is its id; the pid and the *)
(* two addresses stored next to it are looked up by id (Cluster!proc).     *)
(***************************************************************************)
EXTENDS Naturals, Sequences

CONSTANTS Ids,     \* ids the user gives to compute nodes
          NoId     \* the id -1

ASSUME IdsAssumption == NoId \notin Ids

AnyId == Ids \cup {NoId}

TreeHas(t, id) == \E k \in 1..Len(t) : t[k] = id

\* Where btree_find's loop stops: the first element with this id.
TreeIndex(t, id) ==
  CHOOSE k \in 1..Len(t) : t[k] = id /\ \A j \in 1..(k - 1) : t[j] # id

TreeAdd(t, id) == Append(t, id)

TreeLast(t) == t[Len(t)]

\* buf[(size-2)/2]: only defined when the array holds more than the control.
TreeLastParent(t) == t[Len(t) \div 2]

TreeParent(t, id) ==
  LET k == TreeIndex(t, id)
  IN  IF TreeHas(t, id) /\ k > 1 THEN t[k \div 2] ELSE NoId

TreeLeft(t, id) ==
  LET k == TreeIndex(t, id)
  IN  IF TreeHas(t, id) /\ 2 * k <= Len(t) THEN t[2 * k] ELSE NoId

TreeRight(t, id) ==
  LET k == TreeIndex(t, id)
  IN  IF TreeHas(t, id) /\ 2 * k + 1 <= Len(t) THEN t[2 * k + 1] ELSE NoId

\* Variant: the place of the removed element is not filled.
TreeRemoveUnfilled(t, id) == [k \in 1..(Len(t) - 1) |-> t[k]]

\* The last element takes the place of the removed one, and the size goes
\* down by one even when no element has this id.
TreeRemove(t, id) ==
  [k \in 1..(Len(t) - 1) |->
     IF TreeHas(t, id) /\ k = TreeIndex(t, id) THEN TreeLast(t) ELSE t[k]]

\* Variant: half the size, rounded down.
TreeLeavesRoundedDown(t) == Len(t) \div 2

\* (TREE.size+1)/2, the number of leaves: how many "Not found" answers a
\* broadcast can bring back.
TreeLeaves(t) == (Len(t) + 1) \div 2

\* The connections the array stands for.
TreeEdges(t) == {<<t[k \div 2], t[k]>> : k \in 2..Len(t)}

-----------------------------------------------------------------------------
(* The chain of commands of a removal.                                     *)

Command(cmd, id, parent) == [cmd |-> cmd, id |-> id, parent |-> parent]

\* Variant: the last node takes its new place before the removed one has left.
RemoveCommandsArrayConnectsFirst(t, id) ==
  LET last == TreeLast(t)
  IN  IF last = id
      THEN << Command("remove", id, NoId), Command("disconnect", id, NoId) >>
      ELSE << Command("ping", id, NoId),
              Command("disconnect", last, NoId),
              Command("connect", last, TreeParent(t, id)),
              Command("remove", id, NoId),
              Command("disconnect", id, NoId),
              Command("connect", TreeLeft(t, id), last),
              Command("connect", TreeRight(t, id), last) >>

\* Variant: the removed node stays connected to its parent.
RemoveCommandsArrayKeepsSlot(t, id) ==
  LET last == TreeLast(t)
  IN  IF last = id
      THEN << Command("remove", id, NoId), Command("ping", TreeParent(t, id), NoId) >>
      ELSE << Command("ping", id, NoId),
              Command("disconnect", last, NoId),
              Command("remove", id, NoId),
              Command("ping", TreeParent(t, id), NoId),
              Command("connect", last, TreeParent(t, id)),
              Command("connect", TreeLeft(t, id), last),
              Command("connect", TreeRight(t, id), last) >>

\* The array `commands' of cmd_remove, of which only the first
\* number_commands entries are ever sent.
RemoveCommandsArray(t, id) ==
  LET last == TreeLast(t)
  IN  IF last = id
      THEN << Command("remove", id, NoId), Command("disconnect", id, NoId) >>
      ELSE << Command("ping", id, NoId),
              Command("disconnect", last, NoId),
              Command("remove", id, NoId),
              Command("disconnect", id, NoId),
              Command("connect", last, TreeParent(t, id)),
              Command("connect", TreeLeft(t, id), last),
              Command("connect", TreeRight(t, id), last) >>

\* Variant: the last node counts as a child to take over.
NumberCommandsWithLast(t, id) ==
  LET Moves(child) == IF child # NoId THEN 1 ELSE 0
  IN  IF TreeLast(t) = id
      THEN 2
      ELSE 5 + Moves(TreeLeft(t, id)) + Moves(TreeRight(t, id))

\* 2, or 5 and one more for each child of the removed node that is not the
\* last node itself.
NumberCommands(t, id) ==
  LET Moves(child) == IF child # TreeLast(t) /\ child # NoId THEN 1 ELSE 0
  IN  IF TreeLast(t) = id
      THEN 2
      ELSE 5 + Moves(TreeLeft(t, id)) + Moves(TreeRight(t, id))

RemoveCommands(t, id) ==
  SubSeq(RemoveCommandsArray(t, id), 1, NumberCommands(t, id))
=============================================================================
