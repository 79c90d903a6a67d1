-------------------------- MODULE RemoveChainProofs --------------------------
(***************************************************************************)
(* Proofs about RemoveChain, for every set of ids and arrays of any size.  *)
(* The invariant the prover needs says what the connections are after each *)
(* command of a chain.                                                     *)
(***************************************************************************)
EXTENDS RemoveChain, TreeProofs

Stage ==
  \/ /\ op = "none"
     /\ target = NoId
     /\ done = 0
     /\ edges = TreeEdges(tree)
  \/ /\ op = "create"
     /\ Len(tree) > 1
     /\ target = TreeLast(tree)
     /\ done = 0
     /\ edges = {e \in TreeEdges(tree) : e[2] # target}
  \/ /\ op = "remove"
     /\ target \in Ids
     /\ TreeHas(tree, target)
     /\ done \in 0..NumberCommands(tree, target)
     /\ edges = ChainEdges(tree, target, done)
  \/ /\ op = "stop"
     /\ target = NoId
     /\ done = 0
     /\ edges = {}

IInv == WellFormed(tree) /\ Stage

-----------------------------------------------------------------------------
(* A command takes effect on the connections as they are.                  *)

LEMMA FullIs == \A a : Full(a) <=> FullIn(edges, a)
BY DEF Full, FullIn

LEMMA EffectIs == \A c : Effect(c) = EffectOn(edges, c)
BY FullIs DEF Effect, EffectOn

-----------------------------------------------------------------------------
(* The invariant.                                                          *)

LEMMA InitInvariant == Init => IInv
<1> SUFFICES ASSUME Init
             PROVE  IInv
  OBVIOUS
<1>1. WellFormed(tree)
  <2>1. /\ tree \in Seq(AnyId) /\ Len(tree) > 0 /\ tree[1] = NoId
        /\ \A j, k \in 1..Len(tree) : tree[j] = tree[k] => j = k
    BY TreesAssumption DEF Init
  <2>2. \A k \in 2..Len(tree) : tree[k] \in Ids
    BY <2>1 DEF AnyId
  <2> QED BY <2>1, <2>2 DEF WellFormed
<1> QED BY <1>1 DEF IInv, Init, Stage

LEMMA CreateInvariant ==
  ASSUME IInv, NEW id \in Ids, Create(id)
  PROVE  IInv'
<1>1. /\ op = "none" /\ done = 0 /\ edges = TreeEdges(tree) /\ WellFormed(tree)
      /\ tree' = Append(tree, id) /\ op' = "create" /\ target' = id
      /\ edges' = edges /\ done' = done
      /\ ~TreeHas(tree, id)
  BY DEF IInv, Stage, Create, TreeAdd
<1>2. /\ Len(tree') = Len(tree) + 1 /\ Len(tree) \in Nat /\ Len(tree') > 1
      /\ \A k \in 1..Len(tree) : tree'[k] = tree[k]
      /\ tree'[Len(tree')] = id
      /\ tree' \in Seq(AnyId)
  BY <1>1 DEF WellFormed, AnyId
<1>3. WellFormed(tree')
  BY <1>1, AddedTree DEF TreeAdd
<1>4. target' = TreeLast(tree')
  BY <1>1, <1>2 DEF TreeLast
<1>5. TreeEdges(tree) = {e \in TreeEdges(tree') : e[2] # TreeLast(tree')}
  <2>1. tree \in Seq(AnyId) /\ Len(tree) = Len(tree') - 1
    BY <1>1, <1>2 DEF WellFormed
  <2>2. \A k \in 1..Len(tree) : tree[k] = tree'[k]
    BY <1>2
  <2> QED BY <1>2, <1>3, <2>1, <2>2, CutLast
<1>6. Stage'
  BY <1>1, <1>2, <1>4, <1>5, Zenon DEF Stage
<1>7. WellFormed(tree)'
  BY <1>3 DEF WellFormed
<1> QED BY <1>6, <1>7 DEF IInv

LEMMA RemoveInvariant ==
  ASSUME IInv, NEW id \in Ids, Remove(id)
  PROVE  IInv'
<1>1. /\ done = 0 /\ edges = TreeEdges(tree) /\ WellFormed(tree) /\ TreeHas(tree, id)
      /\ tree' = tree /\ op' = "remove" /\ target' = id /\ edges' = edges /\ done' = done
  BY DEF IInv, Stage, Remove
<1>2. ChainEdges(tree, id, 0) = TreeEdges(tree)
  BY DEF ChainEdges
<1>3. 0 \in 0..NumberCommands(tree, id)
  <2>1. PICK i \in 2..Len(tree) : tree[i] = id
    BY <1>1, IdsAssumption DEF TreeHas, WellFormed
  <2>2. CASE i = Len(tree)
    BY <2>1, <2>2, LastCommands DEF TreeLast
  <2>3. CASE i # Len(tree)
    <3>1. i \in 2..(Len(tree) - 1) /\ Len(tree) \in Nat
      BY <1>1, <2>1, <2>3 DEF WellFormed
    <3> QED BY <1>1, <2>1, <3>1, PlanIs
  <2> QED BY <2>2, <2>3
<1> QED BY <1>1, <1>2, <1>3 DEF IInv, Stage, WellFormed

LEMMA AttachInvariant ==
  ASSUME IInv, Attach
  PROVE  IInv'
<1>1. /\ WellFormed(tree) /\ op = "create" /\ edges' = Effect(Plan[1])
      /\ tree' = tree /\ op' = "none" /\ target' = NoId /\ done' = done
  BY DEF IInv, Attach
<1>2. /\ Plan = << Command("connect", target, TreeLastParent(tree)) >>
      /\ Len(tree) > 1 /\ target = TreeLast(tree)
      /\ done = 0 /\ edges = {e \in TreeEdges(tree) : e[2] # target}
  BY <1>1 DEF Plan, IInv, Stage
<1> DEFINE s == [k \in 1..(Len(tree) - 1) |-> tree[k]]
<1>3. s \in Seq(AnyId) /\ Len(s) = Len(tree) - 1 /\ \A k \in 1..Len(s) : s[k] = tree[k]
  BY <1>1, <1>2 DEF WellFormed
<1>4. edges = TreeEdges(s)
  BY <1>1, <1>2, <1>3, CutLast
<1>5. TreeEdges(tree) = edges \cup {<<TreeLastParent(tree), TreeLast(tree)>>}
  BY <1>1, <1>2, <1>3, <1>4, CutLast
<1>6. ~Full(TreeLastParent(tree))
  BY <1>1, <1>2, CreateFindsSlot, FullIs
<1>7. edges' = TreeEdges(tree)
  BY <1>1, <1>2, <1>5, <1>6 DEF Effect, Command
<1>8. Stage'
  BY <1>1, <1>2, <1>7 DEF Stage
<1> QED BY <1>1, <1>8 DEF IInv, WellFormed

LEMMA StepInvariant ==
  ASSUME IInv, Step
  PROVE  IInv'
<1>1. /\ WellFormed(tree) /\ op = "remove" /\ done < Len(Plan) /\ edges' = Effect(Plan[done + 1])
      /\ done' = done + 1 /\ tree' = tree /\ op' = op /\ target' = target
  BY DEF IInv, Step
<1>2. /\ target \in Ids /\ TreeHas(tree, target)
      /\ done \in 0..NumberCommands(tree, target)
      /\ edges = ChainEdges(tree, target, done)
  BY <1>1 DEF IInv, Stage
<1>3. /\ done + 1 \in 0..NumberCommands(tree, target)
      /\ Effect(Plan[done + 1]) = ChainEdges(tree, target, done + 1)
  <2>1. Plan = RemoveCommands(tree, target)
    BY <1>1 DEF Plan
  <2> QED BY <1>1, <1>2, <2>1, ChainStep, EffectIs
<1>4. Stage'
  BY <1>1, <1>2, <1>3 DEF Stage
<1> QED BY <1>1, <1>4 DEF IInv, WellFormed

LEMMA FinishInvariant ==
  ASSUME IInv, Finish
  PROVE  IInv'
<1>1. /\ WellFormed(tree) /\ op = "remove" /\ done = Len(Plan)
      /\ tree' = TreeRemove(tree, target)
      /\ op' = "none" /\ target' = NoId /\ done' = 0 /\ edges' = edges
  BY DEF IInv, Finish
<1>2. /\ target \in Ids /\ TreeHas(tree, target) /\ edges = ChainEdges(tree, target, done)
      /\ Plan = RemoveCommands(tree, target) /\ Len(tree) \in Nat
  BY <1>1 DEF IInv, Stage, Plan, WellFormed
<1>3. PICK i \in 2..Len(tree) : target = tree[i]
  BY <1>1, <1>2, IdsAssumption DEF TreeHas, WellFormed
<1>4. WellFormed(TreeRemove(tree, target)) /\ Len(TreeRemove(tree, target)) = Len(tree) - 1
  BY <1>1, <1>3, Removed
<1>5. edges = TreeEdges(TreeRemove(tree, target))
  <2>1. CASE i = Len(tree)
    <3>1. target = TreeLast(tree) /\ done = 2
      BY <1>1, <1>2, <1>3, <2>1, LastCommands DEF TreeLast
    <3>2. edges = {e \in TreeEdges(tree) : e[2] # TreeLast(tree)}
      BY <1>2, <3>1 DEF ChainEdges
    <3>3. \A k \in 1..Len(TreeRemove(tree, target)) : TreeRemove(tree, target)[k] = tree[k]
      <4>1. \A k \in 1..(Len(tree) - 1) : TreeRemove(tree, tree[i])[k]
                                         = IF k = i THEN tree[Len(tree)] ELSE tree[k]
        BY <1>1, <1>3, Removed
      <4>2. \A k \in 1..(Len(tree) - 1) : k # i
        BY <1>2, <2>1
      <4> QED BY <1>3, <1>4, <4>1, <4>2
    <3>4. TreeRemove(tree, target) \in Seq(AnyId) /\ Len(tree) > 1
      BY <1>2, <1>3, <1>4 DEF WellFormed
    <3> DEFINE r == TreeRemove(tree, target)
    <3>5. /\ WellFormed(tree) /\ Len(tree) > 1 /\ r \in Seq(AnyId)
          /\ Len(r) = Len(tree) - 1 /\ \A k \in 1..Len(r) : r[k] = tree[k]
      BY <1>1, <1>4, <3>3, <3>4
    <3> HIDE DEF r
    <3>6. TreeEdges(r) = {e \in TreeEdges(tree) : e[2] # TreeLast(tree)}
      BY <3>5, CutLast, SMTT(60)
    <3> QED BY <3>2, <3>6 DEF r
  <2>2. CASE i # Len(tree)
    <3>1. i \in 2..(Len(tree) - 1)
      BY <1>2, <1>3, <2>2
    <3>2. done = NumberCommands(tree, target)
      BY <1>1, <1>2, <1>3, <3>1, PlanIs
    <3> QED BY <1>1, <1>2, <1>3, <3>1, <3>2, ChainEnds
  <2> QED BY <2>1, <2>2
<1>6. WellFormed(tree)'
  BY <1>1, <1>4 DEF WellFormed
<1>7. Stage'
  BY <1>1, <1>5 DEF Stage
<1> QED BY <1>6, <1>7 DEF IInv

\* The invariant holds of every behaviour.
THEOREM Invariant == Spec => []IInv
<1>1. Init => IInv
  BY InitInvariant
<1>2. IInv /\ [Next]_vars => IInv'
  <2> SUFFICES ASSUME IInv, [Next]_vars
               PROVE  IInv'
    OBVIOUS
  <2>1. CASE \E id \in Ids : Create(id) \/ Remove(id)
    BY <2>1, CreateInvariant, RemoveInvariant
  <2>2. CASE Attach
    BY <2>2, AttachInvariant
  <2>3. CASE Step
    BY <2>3, StepInvariant
  <2>4. CASE Finish
    BY <2>4, FinishInvariant
  <2>5. CASE Stop
    BY <2>5 DEF IInv, Stage, WellFormed, Stop
  <2>6. CASE UNCHANGED vars
    BY <2>6 DEF IInv, Stage, WellFormed, vars
  <2> QED BY <2>1, <2>2, <2>3, <2>4, <2>5, <2>6 DEF Next
<1> QED BY <1>1, <1>2, PTL DEF Spec

-----------------------------------------------------------------------------
(* The results.                                                            *)

\* The variables keep their types: the array never loses the control node and
\* never holds an id twice, and a chain has at most seven commands, the size of
\* the array cmd_remove fills.
THEOREM TypeCorrect == Spec => []ChainTypeOK
<1>1. IInv => ChainTypeOK
  <2> SUFFICES ASSUME IInv
               PROVE  ChainTypeOK
    OBVIOUS
  <2>1. WellFormed(tree) /\ Stage /\ NoId \in AnyId /\ Ids \subseteq AnyId
    BY DEF IInv, AnyId
  <2>2. TreeEdges(tree) \subseteq AnyId \X AnyId
    BY <2>1, EdgesTyped
  <2>3. CASE op = "none"
    BY <2>1, <2>2, <2>3 DEF Stage, ChainTypeOK, TreeWellFormed, WellFormed
  <2>4. CASE op = "create"
    <3>1. TreeLast(tree) \in AnyId
      BY <2>1 DEF WellFormed, TreeLast
    <3> QED BY <2>1, <2>2, <2>4, <3>1 DEF Stage, ChainTypeOK, TreeWellFormed, WellFormed
  <2>5. CASE op = "remove"
    <3>1. PICK i \in 2..Len(tree) : target = tree[i]
      BY <2>1, <2>5, IdsAssumption DEF Stage, TreeHas, WellFormed
    <3>2. NumberCommands(tree, target) \in 2..7
      <4>1. CASE i = Len(tree)
        BY <3>1, <4>1, LastCommands DEF TreeLast
      <4>2. CASE i # Len(tree)
        <5>1. i \in 2..(Len(tree) - 1) /\ Len(tree) \in Nat
          BY <2>1, <3>1, <4>2 DEF WellFormed
        <5>2. NumberCommands(tree, tree[i]) = 5 + (IF 2 * i < Len(tree) THEN 1 ELSE 0)
                                                + (IF 2 * i + 1 < Len(tree) THEN 1 ELSE 0)
          BY <2>1, <5>1, PlanIs
        <5>3. NumberCommands(tree, tree[i]) \in 2..7
          BY <5>1, <5>2
        <5> QED BY <3>1, <5>3
      <4> QED BY <4>1, <4>2
    <3>3. done \in 0..7 /\ edges = ChainEdges(tree, target, done) /\ target \in Ids
      BY <2>1, <2>5, <3>2 DEF Stage
    <3>4. edges \subseteq AnyId \X AnyId
      BY <2>1, <3>1, <3>3, EdgesTyped
    <3> QED BY <2>1, <2>5, <3>3, <3>4 DEF ChainTypeOK, TreeWellFormed, WellFormed
  <2>6. CASE op = "stop"
    BY <2>1, <2>6 DEF Stage, ChainTypeOK, TreeWellFormed, WellFormed
  <2> QED BY <2>1, <2>3, <2>4, <2>5, <2>6 DEF Stage
<1> QED BY <1>1, Invariant, PTL

\* For any number of nodes, the chain computed before a removal leaves the
\* processes connected as the array says after it.
THEOREM TopologyCorrect == Spec => []TopologyMatchesTree
<1>1. IInv => TopologyMatchesTree
  BY DEF IInv, Stage, TopologyMatchesTree
<1> QED BY <1>1, Invariant, PTL

\* No command of a chain, nor of a creation, loses a node to a full parent.
THEOREM SlotsCorrect == Spec => []ConnectFindsSlot
<1>1. IInv => ConnectFindsSlot
  <2> SUFFICES ASSUME IInv, done < Len(Plan), Plan[done + 1].cmd = "connect"
               PROVE  ~Full(Plan[done + 1].parent)
    BY DEF ConnectFindsSlot
  <2>1. WellFormed(tree) /\ Stage
    BY DEF IInv
  <2>2. CASE op = "none"
    BY <2>1, <2>2 DEF Stage, Plan
  <2>3. CASE op = "create"
    <3>1. /\ Plan = << Command("connect", target, TreeLastParent(tree)) >>
          /\ Len(tree) > 1 /\ target = TreeLast(tree)
          /\ done = 0 /\ edges = {e \in TreeEdges(tree) : e[2] # TreeLast(tree)}
      BY <2>1, <2>3 DEF Plan, Stage
    <3>2. Plan[done + 1].parent = TreeLastParent(tree)
      BY <3>1 DEF Command
    <3>3. ~Full(TreeLastParent(tree))
      BY <2>1, <3>1, CreateFindsSlot, FullIs
    <3> QED BY <3>2, <3>3
  <2>4. CASE op = "remove"
    <3>1. Plan = RemoveCommands(tree, target)
      BY <2>4 DEF Plan
    <3>2. RemoveCommands(tree, target)[done + 1].cmd = "connect"
            => ~FullIn(edges, RemoveCommands(tree, target)[done + 1].parent)
      BY <2>1, <2>4, <3>1, ChainStep DEF Stage
    <3> QED BY <3>1, <3>2, FullIs
  <2>5. CASE op = "stop"
    BY <2>1, <2>5 DEF Stage, Plan
  <2> QED BY <2>1, <2>2, <2>3, <2>4, <2>5 DEF Stage
<1> QED BY <1>1, Invariant, PTL
=============================================================================
