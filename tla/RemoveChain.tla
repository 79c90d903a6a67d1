----------------------------- MODULE RemoveChain -----------------------------
(***************************************************************************)
(* What the cluster of lab6 promises to a user who waits for each answer:  *)
(* commands that change the topology take effect one at a time, `create'   *)
(* by one connection and `remove' by the chain of commands cmd_remove      *)
(* computed before it started, and when a command has been answered the    *)
(* processes are connected exactly as the array TREE says.                 *)
(*                                                                         *)
(* No message, thread or answer count appears here: a command of the chain *)
(* is one step.  Cluster is the detailed system, and implements this one.  *)
(***************************************************************************)
EXTENDS BalancedTree

CONSTANT Trees   \* what the array may be in the beginning: what creations have left

ASSUME TreesAssumption ==
  \A t \in Trees :
    /\ t \in Seq(AnyId) /\ Len(t) > 0 /\ t[1] = NoId
    /\ \A j, k \in 1..Len(t) : t[j] = t[k] => j = k

VARIABLES
  tree,     \* the array TREE
  edges,    \* the pairs <<parent, child>> of connected sockets
  op,       \* what runs: "none", "create", "remove", or "stop" when the
            \* control node ends
  target,   \* the id it is about, NoId when op = "none"
  done      \* how many commands of its chain have taken effect

vars == <<tree, edges, op, target, done>>

Init == /\ tree \in Trees
        /\ edges = TreeEdges(tree)
        /\ op = "none"
        /\ target = NoId
        /\ done = 0

\* The commands of the operation under way.
Plan == CASE op = "create" -> << Command("connect", target, TreeLastParent(tree)) >>
          [] op = "remove" -> RemoveCommands(tree, target)
          [] OTHER         -> << >>

\* A node has two sockets for children.  mqn_connect silently does nothing
\* when both are taken.
Full(node) == \E a, b \in AnyId : a # b /\ {<<node, a>>, <<node, b>>} \subseteq edges

\* What a command does to the connections once it reaches its node.
Effect(c) ==
  CASE c.cmd = "connect"    -> IF Full(c.parent)
                               THEN edges
                               ELSE edges \cup {<<c.parent, c.id>>}
    [] c.cmd = "disconnect" -> {e \in edges : e[2] # c.id}
    [] c.cmd = "remove"     -> {e \in edges : e[1] # c.id}
    [] c.cmd = "ping"       -> edges

\* Variant: an id may be created again.
CreateUnchecked(id) == /\ op = "none"
                       /\ tree' = TreeAdd(tree, id)
                       /\ op' = "create"
                       /\ target' = id
                       /\ UNCHANGED <<edges, done>>

Create(id) == /\ op = "none"
              /\ ~TreeHas(tree, id)
              /\ tree' = TreeAdd(tree, id)
              /\ op' = "create"
              /\ target' = id
              /\ UNCHANGED <<edges, done>>

Remove(id) == /\ op = "none"
              /\ TreeHas(tree, id)
              /\ op' = "remove"
              /\ target' = id
              /\ UNCHANGED <<tree, edges, done>>

\* The one command of a creation, and a command of a chain.
Attach == /\ op = "create"
          /\ edges' = Effect(Plan[1])
          /\ op' = "none"
          /\ target' = NoId
          /\ UNCHANGED <<tree, done>>

Step == /\ op = "remove"
        /\ done < Len(Plan)
        /\ edges' = Effect(Plan[done + 1])
        /\ done' = done + 1
        /\ UNCHANGED <<tree, op, target>>

\* The whole chain has been answered and the process has been reaped.
Finish == /\ op = "remove"
          /\ done = Len(Plan)
          /\ tree' = TreeRemove(tree, target)
          /\ op' = "none"
          /\ target' = NoId
          /\ done' = 0
          /\ UNCHANGED edges

\* The end of the input: all processes are killed.
Stop == /\ op = "none"
        /\ op' = "stop"
        /\ edges' = {}
        /\ UNCHANGED <<tree, target, done>>

Next == \/ \E id \in Ids : Create(id) \/ Remove(id)
        \/ Attach
        \/ Step
        \/ Finish
        \/ Stop

Spec == Init /\ [][Next]_vars

-----------------------------------------------------------------------------
\* The array holds the control node first and no id twice, so that looking a
\* node up by its id finds the node (btree_find stops at the first match).
TreeWellFormed ==
  /\ tree \in Seq(AnyId)
  /\ Len(tree) > 0
  /\ tree[1] = NoId
  /\ \A j, k \in 1..Len(tree) : tree[j] = tree[k] => j = k

ChainTypeOK ==
  /\ TreeWellFormed
  /\ edges \subseteq AnyId \X AnyId
  /\ op \in {"none", "create", "remove", "stop"}
  /\ target \in AnyId
  /\ done \in 0..7

\* Between two commands the processes are connected as the array says: the
\* chain cmd_remove computed moves the last node, and the children it takes
\* over, to the place btree_remove puts it in (control_node.c:238-266).
TopologyMatchesTree == op = "none" => edges = TreeEdges(tree)

\* No "connect" of a chain finds both child sockets of its node taken, where
\* mqn_connect would ignore it and the node would be lost (mq_node.c:23-41).
ConnectFindsSlot ==
  done < Len(Plan) /\ Plan[done + 1].cmd = "connect" => ~Full(Plan[done + 1].parent)
=============================================================================
