------------------------------ MODULE TreeProofs ------------------------------
(***************************************************************************)
(* Facts about the array of lab6 and the chain of commands of a removal,   *)
(* for every set of ids and arrays of any size.  The heart of the matter   *)
(* is ChainEnds: after the last command of the chain the connections are   *)
(* those of the array btree_remove leaves.                                 *)
(***************************************************************************)
EXTENDS BalancedTree, SequenceTheorems, WellFoundedInduction, TLAPS

\* The control node first, no id twice.
WellFormed(t) == /\ t \in Seq(AnyId) /\ Len(t) > 0
                 /\ t[1] = NoId /\ \A k \in 2..Len(t) : t[k] \in Ids
                 /\ \A j, k \in 1..Len(t) : t[j] = t[k] => j = k

\* The connections after k commands of the removal of x from t.
ChainEdges(t, x, k) ==
  LET last      == TreeLast(t)
      cut       == {e \in TreeEdges(t) : e[2] # last}
      orphaned  == {e \in cut : e[1] # x}
      isolated  == {e \in orphaned : e[2] # x}
      replaced  == isolated \cup {<<TreeParent(t, x), last>>}
      left      == replaced \cup {<<last, TreeLeft(t, x)>>}
      right     == left \cup {<<last, TreeRight(t, x)>>}
  IN  IF last = x
      THEN IF k = 2 THEN cut ELSE TreeEdges(t)
      ELSE CASE k <= 1 -> TreeEdges(t)
             [] k = 2  -> cut
             [] k = 3  -> orphaned
             [] k = 4  -> isolated
             [] k = 5  -> replaced
             [] k = 6  -> left
             [] OTHER  -> right

\* What a command does to the connections E (Effect of RemoveChain).
FullIn(E, a) == \E b, c \in AnyId : b # c /\ {<<a, b>>, <<a, c>>} \subseteq E

EffectOn(E, c) ==
  CASE c.cmd = "connect"    -> IF FullIn(E, c.parent) THEN E ELSE E \cup {<<c.parent, c.id>>}
    [] c.cmd = "disconnect" -> {e \in E : e[2] # c.id}
    [] c.cmd = "remove"     -> {e \in E : e[1] # c.id}
    [] c.cmd = "ping"       -> E

-----------------------------------------------------------------------------
(* The array.                                                              *)

LEMMA LeastExists ==
  ASSUME NEW S \in SUBSET Nat, S # {}
  PROVE  \E x \in S : \A y \in S : x <= y
<1> DEFINE R == OpToRel(<, Nat)
<1>1. PICK x \in S : \A y \in S : ~ (<<y, x>> \in R)
  <2>1. IsWellFoundedOn(R, Nat)
    BY NatLessThanWellFounded
  <2> HIDE DEF R
  <2> QED BY <2>1, WFMin
<1>2. ASSUME NEW y \in S PROVE x <= y
  <2>1. <<y, x>> \in Nat \X Nat
    OBVIOUS
  <2> QED BY <1>1, <2>1 DEF OpToRel
<1> QED BY <1>2

LEMMA IndexOf ==
  ASSUME NEW t, WellFormed(t), NEW id \in Ids, TreeHas(t, id)
  PROVE  /\ TreeIndex(t, id) \in 2..Len(t) /\ t[TreeIndex(t, id)] = id
         /\ \A k \in 1..Len(t) : t[k] = id => k = TreeIndex(t, id)
<1>1. Len(t) \in Nat
  BY DEF WellFormed
<1>2. PICK k \in 1..Len(t) : t[k] = id
  BY DEF TreeHas
<1>3. \A j \in 1..Len(t) : t[j] = id => j = k
  BY <1>2 DEF WellFormed
<1>4. k # 1
  BY <1>2, IdsAssumption DEF WellFormed
<1>5. TreeIndex(t, id) = k
  BY <1>1, <1>2, <1>3 DEF TreeIndex
<1> QED BY <1>1, <1>2, <1>3, <1>4, <1>5

\* The ids of the array by place.
LEMMA ArrayIds ==
  ASSUME NEW t, WellFormed(t)
  PROVE  /\ Len(t) \in Nat /\ TreeLeaves(t) \in Nat \ {0}
         /\ \A k \in 1..Len(t) : t[k] \in AnyId
         /\ \A k \in 2..Len(t) : TreeHas(t, t[k]) /\ t[k] \in Ids
<1>1. Len(t) \in Nat /\ Len(t) > 0
  BY DEF WellFormed
<1>2. TreeLeaves(t) \in Nat \ {0}
  BY <1>1 DEF TreeLeaves
<1> QED BY <1>1, <1>2 DEF WellFormed, TreeHas, AnyId

LEMMA AddedTree ==
  ASSUME NEW t, WellFormed(t), NEW id \in Ids, ~TreeHas(t, id)
  PROVE  /\ WellFormed(TreeAdd(t, id))
         /\ \A x : TreeHas(TreeAdd(t, id), x) <=> TreeHas(t, x) \/ x = id
<1> DEFINE r == TreeAdd(t, id)
<1>1. t \in Seq(AnyId) /\ Len(t) \in Nat /\ Len(t) > 0 /\ id \in AnyId
  BY DEF WellFormed, AnyId
<1>2. /\ r \in Seq(AnyId) /\ Len(r) = Len(t) + 1
      /\ \A k \in 1..Len(t) : r[k] = t[k]
      /\ r[Len(t) + 1] = id
  BY <1>1 DEF TreeAdd
<1> HIDE DEF r
<1>3. \A k \in 1..Len(r) : k = Len(t) + 1 \/ k \in 1..Len(t)
  BY <1>1, <1>2
<1>4. \A k \in 1..Len(t) : t[k] # id
  BY DEF TreeHas
<1>5. WellFormed(r)
  <2>1. r[1] = NoId /\ \A k \in 2..Len(r) : r[k] \in Ids
    BY <1>1, <1>2, <1>3 DEF WellFormed
  <2>2. \A j, k \in 1..Len(r) : r[j] = r[k] => j = k
    BY <1>2, <1>3, <1>4 DEF WellFormed
  <2> QED BY <1>1, <1>2, <2>1, <2>2 DEF WellFormed
<1>6. \A x : TreeHas(r, x) <=> TreeHas(t, x) \/ x = id
  <2>1. Len(t) + 1 \in 1..Len(r) /\ \A k \in 1..Len(t) : k \in 1..Len(r)
    BY <1>1, <1>2
  <2> QED BY <1>2, <1>3, <2>1 DEF TreeHas
<1> QED BY <1>5, <1>6 DEF r

LEMMA RemovedTree ==
  ASSUME NEW t, WellFormed(t), NEW id \in Ids, TreeHas(t, id)
  PROVE  /\ WellFormed(TreeRemove(t, id))
         /\ \A x : TreeHas(TreeRemove(t, id), x) <=> TreeHas(t, x) /\ x # id
<1> DEFINE i == TreeIndex(t, id)
           n == Len(t)
           r == TreeRemove(t, id)
<1>1. /\ i \in 2..n /\ t[i] = id /\ n \in Nat
      /\ \A k \in 1..n : t[k] = id => k = i
  BY IndexOf, ArrayIds
<1>2. r = [k \in 1..(n - 1) |-> IF k = i THEN t[n] ELSE t[k]]
  BY DEF TreeRemove, TreeLast
<1>3. t \in Seq(AnyId) /\ t[1] = NoId /\ \A j, k \in 1..n : t[j] = t[k] => j = k
  BY DEF WellFormed
<1>4. \A k \in 2..n : t[k] \in Ids
  BY DEF WellFormed
<1> HIDE DEF i
<1>5. r \in Seq(AnyId) /\ Len(r) = n - 1
  BY <1>1, <1>2, <1>3
<1>6. WellFormed(r)
  <2>1. r[1] = NoId /\ \A k \in 2..(n - 1) : r[k] \in Ids
    BY <1>1, <1>2, <1>3, <1>4
  <2>2. \A j, k \in 1..(n - 1) : r[j] = r[k] => j = k
    BY <1>1, <1>2, <1>3
  <2>3. Len(r) > 0
    BY <1>1, <1>5
  <2> HIDE DEF r
  <2> QED BY <1>5, <2>1, <2>2, <2>3 DEF WellFormed
<1>7. ASSUME NEW x PROVE TreeHas(r, x) <=> TreeHas(t, x) /\ x # id
  <2>1. ASSUME NEW k \in 1..(n - 1) PROVE \E j \in 1..n : t[j] = r[k] /\ r[k] # id
    <3>1. CASE k = i
      BY <1>1, <1>2, <3>1
    <3>2. CASE k # i
      BY <1>1, <1>2, <3>2
    <3> QED BY <3>1, <3>2
  <2>2. ASSUME NEW k \in 1..n, t[k] # id PROVE \E j \in 1..(n - 1) : r[j] = t[k]
    <3>1. CASE k = n
      BY <1>1, <1>2, <2>2, <3>1
    <3>2. CASE k # n
      BY <1>1, <1>2, <2>2, <3>2
    <3> QED BY <3>1, <3>2
  <2> HIDE DEF r
  <2> QED BY <1>5, <2>1, <2>2, ZenonT(60) DEF TreeHas
<1> QED BY <1>6, <1>7

\* The neighbours of an id of the array, and whether the children take part in
\* the chain of its removal.
LEMMA NeighboursOf ==
  ASSUME NEW t, WellFormed(t), NEW id \in Ids, TreeHas(t, id)
  PROVE  /\ TreeLast(t) \in Ids /\ TreeHas(t, TreeLast(t))
         /\ TreeLeft(t, id) # NoId => TreeHas(t, TreeLeft(t, id))
         /\ TreeRight(t, id) # NoId => TreeHas(t, TreeRight(t, id))
         /\ TreeParent(t, id) \in AnyId /\ TreeLeft(t, id) \in AnyId /\ TreeRight(t, id) \in AnyId
         /\ TreeRight(t, id) # NoId => TreeLeft(t, id) # NoId /\ TreeLeft(t, id) # TreeLast(t)
<1> DEFINE k == TreeIndex(t, id)
           n == Len(t)
<1>1. k \in 2..n /\ n \in Nat
  BY IndexOf, ArrayIds
<1>2. \A j \in 1..n : t[j] \in AnyId
  BY ArrayIds
<1>3. \A j \in 2..n : t[j] \in Ids
  BY ArrayIds
<1> HIDE DEF k
<1>4. k \div 2 \in 1..n
  BY <1>1
<1>5. /\ TreeParent(t, id) = t[k \div 2]
      /\ TreeLeft(t, id) = IF 2 * k <= n THEN t[2 * k] ELSE NoId
      /\ TreeRight(t, id) = IF 2 * k + 1 <= n THEN t[2 * k + 1] ELSE NoId
  BY <1>1 DEF TreeParent, TreeLeft, TreeRight, k
<1>6. NoId \in AnyId
  BY DEF AnyId
<1>7. ASSUME 2 * k + 1 <= n
      PROVE  TreeLeft(t, id) # NoId /\ TreeLeft(t, id) # t[n]
  <2>1. 2 * k \in 2..n /\ 2 * k # n /\ n \in 1..n /\ 2 * k \in 1..n
    BY <1>1, <1>7
  <2>2. t[2 * k] \in Ids
    BY <1>3, <2>1
  <2>3. t[2 * k] # t[n]
    BY <2>1 DEF WellFormed
  <2> QED BY <1>5, <2>1, <2>2, <2>3, IdsAssumption
<1>8. 2 * k <= n => 2 * k \in 1..n
  BY <1>1
<1>9. 2 * k + 1 <= n => 2 * k + 1 \in 1..n
  BY <1>1
<1>10. t[n] \in Ids
  BY <1>1, <1>3
<1>11. /\ TreeHas(t, t[n])
       /\ TreeLeft(t, id) # NoId => TreeHas(t, TreeLeft(t, id))
       /\ TreeRight(t, id) # NoId => TreeHas(t, TreeRight(t, id))
  <2>1. n \in 1..n
    BY <1>1
  <2> QED BY <1>5, <1>8, <1>9, <2>1 DEF TreeHas
<1> QED BY <1>2, <1>4, <1>5, <1>6, <1>7, <1>8, <1>9, <1>10, <1>11 DEF TreeLast

-----------------------------------------------------------------------------
(* Positions of a heap.                                                    *)

LEMMA Halves ==
  ASSUME NEW k \in Nat
  PROVE  /\ k \div 2 \in Nat
         /\ k = 2 * (k \div 2) \/ k = 2 * (k \div 2) + 1
  OBVIOUS

\* In an array without duplicates an id is found at its own position.
LEMMA Index ==
  ASSUME NEW t, WellFormed(t), NEW k \in 1..Len(t)
  PROVE  TreeHas(t, t[k]) /\ TreeIndex(t, t[k]) = k
<1>1. t[k] = t[k] /\ \A j \in 1..(k - 1) : t[j] # t[k]
  BY DEF WellFormed
<1>2. \A i \in 1..Len(t) :
        t[i] = t[k] /\ (\A j \in 1..(i - 1) : t[j] # t[k]) => i = k
  BY DEF WellFormed
<1> QED BY <1>1, <1>2 DEF TreeHas, TreeIndex

\* The neighbours of the node at position k.
LEMMA Neighbours ==
  ASSUME NEW t, WellFormed(t), NEW k \in 2..Len(t)
  PROVE  /\ k \div 2 \in 1..(k - 1)
         /\ TreeParent(t, t[k]) = t[k \div 2]
         /\ TreeLeft(t, t[k]) = IF 2 * k <= Len(t) THEN t[2 * k] ELSE NoId
         /\ TreeRight(t, t[k]) = IF 2 * k + 1 <= Len(t) THEN t[2 * k + 1] ELSE NoId
<1>0. k \in 1..Len(t) /\ Len(t) \in Nat
  BY DEF WellFormed
<1>1. TreeHas(t, t[k]) /\ TreeIndex(t, t[k]) = k
  BY <1>0, Index
<1> QED BY <1>0, <1>1, Halves DEF TreeParent, TreeLeft, TreeRight

\* Only the control node, at position 1, has the id NoId.
LEMMA OnlyRootIsNoId ==
  ASSUME NEW t, WellFormed(t), NEW k \in 2..Len(t)
  PROVE  t[k] \in Ids
BY DEF WellFormed, AnyId

-----------------------------------------------------------------------------
(* The commands of a chain.                                                *)

\* What is sent for the k-th command when the removed node is not the last
\* one, and how many there are.
LEMMA PlanIs ==
  ASSUME NEW t, WellFormed(t), NEW i \in 2..(Len(t) - 1)
  PROVE  /\ TreeLast(t) # t[i]
         /\ NumberCommands(t, t[i]) = 5 + (IF 2 * i < Len(t) THEN 1 ELSE 0)
                                        + (IF 2 * i + 1 < Len(t) THEN 1 ELSE 0)
         /\ Len(RemoveCommands(t, t[i])) = NumberCommands(t, t[i])
         /\ \A k \in 1..NumberCommands(t, t[i]) :
              RemoveCommands(t, t[i])[k] = RemoveCommandsArray(t, t[i])[k]
<1> DEFINE x == t[i]
<1>0. Len(t) \in Nat /\ i \in 2..Len(t) /\ i \in 1..Len(t) /\ Len(t) \in 2..Len(t)
  BY DEF WellFormed
<1>1. TreeLast(t) # x
  BY <1>0 DEF WellFormed, TreeLast
<1>2. /\ TreeLeft(t, x) = IF 2 * i <= Len(t) THEN t[2 * i] ELSE NoId
      /\ TreeRight(t, x) = IF 2 * i + 1 <= Len(t) THEN t[2 * i + 1] ELSE NoId
  BY <1>0, Neighbours
<1>3. ASSUME NEW k \in 2..Len(t)
      PROVE  t[k] # NoId /\ (t[k] = t[Len(t)] <=> k = Len(t))
  <2>1. t[k] \in Ids
    BY OnlyRootIsNoId
  <2>2. t[k] # NoId
    BY <2>1, IdsAssumption
  <2>3. k \in 1..Len(t) /\ Len(t) \in 1..Len(t)
    BY <1>0
  <2>4. t[k] = t[Len(t)] => k = Len(t)
    BY <2>3 DEF WellFormed
  <2> QED BY <2>2, <2>4
<1>4. ASSUME NEW k \in 2..(2 * Len(t) + 1), NEW n,
             n = IF k <= Len(t) THEN t[k] ELSE NoId
      PROVE  n # TreeLast(t) /\ n # NoId <=> k < Len(t)
  <2>1. CASE k > Len(t)
    <3>1. ~ (k <= Len(t)) /\ ~ (k < Len(t))
      BY <1>0, <2>1
    <3> QED BY <1>4, <3>1
  <2>2. CASE k <= Len(t)
    <3>1. k \in 2..Len(t) /\ n = t[k] /\ (k < Len(t) <=> k # Len(t))
      BY <1>0, <1>4, <2>2
    <3> QED BY <1>3, <3>1 DEF TreeLast
  <2> QED BY <1>0, <2>1, <2>2
<1>10. 2 * i \in 2..(2 * Len(t) + 1) /\ 2 * i + 1 \in 2..(2 * Len(t) + 1)
  BY <1>0
<1>11. TreeLeft(t, x) # TreeLast(t) /\ TreeLeft(t, x) # NoId <=> 2 * i < Len(t)
  BY <1>2, <1>4, <1>10
<1>12. TreeRight(t, x) # TreeLast(t) /\ TreeRight(t, x) # NoId <=> 2 * i + 1 < Len(t)
  BY <1>2, <1>4, <1>10
<1>5. NumberCommands(t, x) = 5 + (IF 2 * i < Len(t) THEN 1 ELSE 0)
                               + (IF 2 * i + 1 < Len(t) THEN 1 ELSE 0)
  BY <1>1, <1>11, <1>12 DEF NumberCommands
<1>6. NumberCommands(t, x) \in 5..7
  BY <1>5, <1>0
<1> DEFINE A == RemoveCommandsArray(t, x)
<1>7. Len(A) = 7
  BY <1>1 DEF RemoveCommandsArray
<1>8. RemoveCommands(t, x) = [k \in 1..NumberCommands(t, x) |-> A[k]]
  BY <1>6 DEF RemoveCommands
<1>9. Len(RemoveCommands(t, x)) = NumberCommands(t, x)
  BY <1>6, <1>8
<1> QED BY <1>1, <1>5, <1>8, <1>9

-----------------------------------------------------------------------------
(* The end of a chain.                                                     *)

\* Where btree_remove puts things: the last element at the position of the
\* removed one.
LEMMA Removed ==
  ASSUME NEW t, WellFormed(t), NEW i \in 2..Len(t)
  PROVE  /\ WellFormed(TreeRemove(t, t[i]))
         /\ Len(TreeRemove(t, t[i])) = Len(t) - 1
         /\ \A k \in 1..(Len(t) - 1) :
              TreeRemove(t, t[i])[k] = IF k = i THEN t[Len(t)] ELSE t[k]
<1> DEFINE r == TreeRemove(t, t[i])
<1>0. Len(t) \in Nat /\ Len(t) > 1 /\ i \in 1..Len(t)
  BY DEF WellFormed
<1>1. TreeHas(t, t[i]) /\ TreeIndex(t, t[i]) = i
  BY <1>0, Index
<1>2. r = [k \in 1..(Len(t) - 1) |-> IF k = i THEN t[Len(t)] ELSE t[k]]
  BY <1>1 DEF TreeRemove, TreeLast
<1>3. \A k \in 1..Len(t) : t[k] \in AnyId
  BY DEF WellFormed
<1>4. r \in Seq(AnyId) /\ Len(r) = Len(t) - 1
  BY <1>0, <1>2, <1>3
<1>5. r[1] = NoId
  BY <1>0, <1>2 DEF WellFormed
<1>6. \A j, k \in 1..Len(r) : r[j] = r[k] => j = k
  BY <1>0, <1>2, <1>4, SMTT(60) DEF WellFormed
<1>8. \A k \in 2..Len(r) : r[k] \in Ids
  BY <1>0, <1>2, <1>4 DEF WellFormed
<1>9. Len(r) > 0
  BY <1>0, <1>4
<1> HIDE DEF r
<1>7. WellFormed(r)
  BY <1>4, <1>5, <1>6, <1>8, <1>9 DEF WellFormed
<1> QED BY <1>2, <1>4, <1>7 DEF r

\* What is left once the last node and the removed one are cut off: the
\* connections of the array in which neither takes part.
LEMMA Isolated ==
  ASSUME NEW t, WellFormed(t), NEW i \in 2..(Len(t) - 1)
  PROVE  {e \in TreeEdges(t) : e[2] # t[Len(t)] /\ e[1] # t[i] /\ e[2] # t[i]}
         = {<<t[k \div 2], t[k]>> : k \in {h \in 2..(Len(t) - 1) : h # i /\ h \div 2 # i}}
<1>0. Len(t) \in Nat /\ i \in 1..Len(t) /\ Len(t) \in 1..Len(t)
  BY DEF WellFormed
<1>1. ASSUME NEW k \in 2..Len(t)
      PROVE  /\ k \div 2 \in 1..Len(t)
             /\ t[k] # t[Len(t)] <=> k # Len(t)
             /\ t[k \div 2] # t[i] <=> k \div 2 # i
             /\ t[k] # t[i] <=> k # i
  BY <1>0, Halves DEF WellFormed
<1>2. ASSUME NEW k \in 2..Len(t)
      PROVE  t[k] # t[Len(t)] /\ t[k \div 2] # t[i] /\ t[k] # t[i]
             <=> k \in {h \in 2..(Len(t) - 1) : h # i /\ h \div 2 # i}
  BY <1>0, <1>1
<1>3. {h \in 2..(Len(t) - 1) : h # i /\ h \div 2 # i} \subseteq 2..Len(t)
  BY <1>0
<1> DEFINE P(k) == t[k] # t[Len(t)] /\ t[k \div 2] # t[i] /\ t[k] # t[i]
<1>4. {e \in TreeEdges(t) : e[2] # t[Len(t)] /\ e[1] # t[i] /\ e[2] # t[i]}
      = {<<t[k \div 2], t[k]>> : k \in {h \in 2..Len(t) : P(h)}}
  BY SMTT(60) DEF TreeEdges
<1>5. {h \in 2..Len(t) : P(h)} = {h \in 2..(Len(t) - 1) : h # i /\ h \div 2 # i}
  BY <1>2, <1>3
<1> QED BY <1>4, <1>5

\* After the last command of the chain the processes are connected as the
\* array says once btree_remove has run.
THEOREM ChainEnds ==
  ASSUME NEW t, WellFormed(t), NEW i \in 2..(Len(t) - 1)
  PROVE  ChainEdges(t, t[i], NumberCommands(t, t[i])) = TreeEdges(TreeRemove(t, t[i]))
<1> DEFINE x    == t[i]
           n    == Len(t)
           last == t[n]
           r    == TreeRemove(t, x)
           rest == {<<t[k \div 2], t[k]>> : k \in {h \in 2..(n - 1) : h # i /\ h \div 2 # i}}
<1>0. n \in Nat /\ i \in 2..n /\ i \in 1..n /\ 2 * i \in Nat
  BY DEF WellFormed
<1>1. /\ Len(r) = n - 1
      /\ \A k \in 1..(n - 1) : r[k] = IF k = i THEN last ELSE t[k]
  BY <1>0, Removed
<1>2. i \div 2 \in 1..(i - 1) /\ TreeParent(t, x) = t[i \div 2]
  BY <1>0, Neighbours
<1>3. /\ 2 * i < n => TreeLeft(t, x) = t[2 * i]
      /\ 2 * i + 1 < n => TreeRight(t, x) = t[2 * i + 1]
  BY <1>0, Neighbours
<1>4. \A k \in 2..(n - 1) : k \div 2 \in 1..(n - 1)
  BY <1>0, Halves
<1>5. \A k \in 2..(n - 1) : k \div 2 = i <=> k = 2 * i \/ k = 2 * i + 1
  BY <1>0, Halves
<1> DEFINE new(k) == <<r[k \div 2], r[k]>>
<1>6. \A k \in 2..(n - 1) :
        new(k) = IF k = i THEN <<t[i \div 2], last>>
                 ELSE IF k \div 2 = i THEN <<last, t[k]>>
                 ELSE <<t[k \div 2], t[k]>>
  <2> TAKE k \in 2..(n - 1)
  <2>1. k \in 1..(n - 1) /\ k \div 2 \in 1..(n - 1)
    BY <1>0, <1>4
  <2>2. r[k] = IF k = i THEN last ELSE t[k]
    BY <1>1, <2>1
  <2>3. r[k \div 2] = IF k \div 2 = i THEN last ELSE t[k \div 2]
    BY <1>1, <2>1
  <2>4. k = i => k \div 2 # i
    BY <1>0, <1>2
  <2> QED BY <2>2, <2>3, <2>4
<1>7. TreeEdges(r) = {new(k) : k \in 2..(n - 1)}
  BY <1>1 DEF TreeEdges
<1> HIDE DEF new
<1>8. TreeEdges(r) = rest \cup {<<t[i \div 2], last>>}
                          \cup {<<last, t[k]>> : k \in {h \in 2..(n - 1) : h \div 2 = i}}
  <2>1. i \in 2..(n - 1) /\ ~(i \div 2 = i)
    BY <1>0, <1>2
  <2> QED BY <1>6, <1>7, <2>1
<1>9. {<<last, t[k]>> : k \in {h \in 2..(n - 1) : h \div 2 = i}}
      = (IF 2 * i < n THEN {<<last, t[2 * i]>>} ELSE {})
        \cup (IF 2 * i + 1 < n THEN {<<last, t[2 * i + 1]>>} ELSE {})
  <2>1. {h \in 2..(n - 1) : h \div 2 = i}
        = (IF 2 * i < n THEN {2 * i} ELSE {}) \cup (IF 2 * i + 1 < n THEN {2 * i + 1} ELSE {})
    BY <1>0, <1>5, SMTT(60)
  <2> QED BY <2>1
<1> DEFINE isolated == {e \in {f \in {g \in TreeEdges(t) : g[2] # last} : f[1] # x} : e[2] # x}
<1>10. isolated = rest
  BY Isolated, SMTT(60)
<1>11. /\ last # x
       /\ NumberCommands(t, x) = 5 + (IF 2 * i < n THEN 1 ELSE 0)
                                    + (IF 2 * i + 1 < n THEN 1 ELSE 0)
  BY PlanIs DEF TreeLast
<1> HIDE DEF isolated, rest
<1>12. CASE 2 * i + 1 < n
  <2>1. ChainEdges(t, x, NumberCommands(t, x))
        = ((isolated \cup {<<TreeParent(t, x), last>>}) \cup {<<last, TreeLeft(t, x)>>})
            \cup {<<last, TreeRight(t, x)>>}
    BY <1>0, <1>11, <1>12 DEF ChainEdges, TreeLast, isolated
  <2> QED BY <1>0, <1>2, <1>3, <1>8, <1>9, <1>10, <1>12, <2>1, SMTT(60)
<1>13. CASE 2 * i < n /\ ~(2 * i + 1 < n)
  <2>1. ChainEdges(t, x, NumberCommands(t, x))
        = (isolated \cup {<<TreeParent(t, x), last>>}) \cup {<<last, TreeLeft(t, x)>>}
    BY <1>0, <1>11, <1>13 DEF ChainEdges, TreeLast, isolated
  <2> QED BY <1>0, <1>2, <1>3, <1>8, <1>9, <1>10, <1>13, <2>1
<1>14. CASE ~(2 * i < n)
  <2>1. ~(2 * i + 1 < n)
    BY <1>0, <1>14
  <2>2. ChainEdges(t, x, NumberCommands(t, x)) = isolated \cup {<<TreeParent(t, x), last>>}
    BY <1>0, <1>11, <1>14, <2>1 DEF ChainEdges, TreeLast, isolated
  <2> QED BY <1>0, <1>2, <1>8, <1>9, <1>10, <1>14, <2>1, <2>2
<1> QED BY <1>0, <1>12, <1>13, <1>14

-----------------------------------------------------------------------------
(* Adding and removing the last element, and child sockets.                *)

\* Without the last node's connection the array is one element shorter.
LEMMA CutLast ==
  ASSUME NEW t, WellFormed(t), Len(t) > 1, NEW s, s \in Seq(AnyId), Len(s) = Len(t) - 1,
         \A k \in 1..Len(s) : s[k] = t[k]
  PROVE  /\ TreeEdges(s) = {e \in TreeEdges(t) : e[2] # TreeLast(t)}
         /\ TreeEdges(t) = TreeEdges(s) \cup {<<TreeLastParent(t), TreeLast(t)>>}
         /\ {e \in TreeEdges(t) : e[1] # TreeLast(t)} = TreeEdges(t)
<1> DEFINE n == Len(t)
<1>0. n \in Nat /\ n \in 2..n /\ n \in 1..n /\ 2..n = (2..(n - 1)) \cup {n}
  BY DEF WellFormed
<1>1. \A k \in 2..n : k \div 2 \in 1..(n - 1)
  BY <1>0, Halves
<1>2. TreeEdges(s) = {<<t[k \div 2], t[k]>> : k \in 2..(n - 1)}
  <2>1. ASSUME NEW k \in 2..(n - 1)
        PROVE  s[k] = t[k] /\ s[k \div 2] = t[k \div 2]
    <3>1. k \in 1..Len(s) /\ k \in 2..n
      BY <1>0
    <3>2. k \div 2 \in 1..Len(s)
      BY <1>0, <1>1, <3>1
    <3> QED BY <3>1, <3>2
  <2> QED BY <2>1 DEF TreeEdges
<1>3. \A k \in 2..n : t[k] # t[n] <=> k \in 2..(n - 1)
  BY <1>0 DEF WellFormed
<1>4. \A k \in 2..n : t[k \div 2] # t[n]
  BY <1>0, <1>1 DEF WellFormed
<1>5. TreeEdges(t) = {<<t[k \div 2], t[k]>> : k \in 2..n}
  BY DEF TreeEdges
<1>6. {e \in TreeEdges(t) : e[2] # t[n]} = {<<t[k \div 2], t[k]>> : k \in 2..(n - 1)}
  BY <1>0, <1>3, <1>5, SMTT(60)
<1>7. TreeEdges(t) = {<<t[k \div 2], t[k]>> : k \in 2..(n - 1)} \cup {<<t[n \div 2], t[n]>>}
  BY <1>0, <1>5
<1> QED BY <1>2, <1>4, <1>5, <1>6, <1>7, SMTT(60) DEF TreeLast, TreeLastParent

\* When the chain connects the last node to the removed node's parent, and
\* the removed node's children to the last one, a child socket is free.
LEMMA SlotsFree ==
  ASSUME NEW t, WellFormed(t), NEW i \in 2..(Len(t) - 1),
         NEW a \in AnyId, NEW b \in AnyId, a # b
  PROVE  LET x    == t[i]
             par  == TreeParent(t, x)
             last == TreeLast(t)
         IN  /\ ~({<<par, a>>, <<par, b>>} \subseteq ChainEdges(t, x, 4))
             /\ ~({<<last, a>>, <<last, b>>} \subseteq ChainEdges(t, x, 5))
             /\ ~({<<last, a>>, <<last, b>>} \subseteq ChainEdges(t, x, 6))
<1> DEFINE x    == t[i]
           n    == Len(t)
           last == t[n]
           par  == TreeParent(t, x)
           rest == {<<t[k \div 2], t[k]>> : k \in {h \in 2..(n - 1) : h # i /\ h \div 2 # i}}
<1>0. n \in Nat /\ i \in 2..n /\ i \in 1..n /\ n \in 1..n
  BY DEF WellFormed
<1>1. i \div 2 \in 1..(i - 1) /\ par = t[i \div 2]
  BY <1>0, Neighbours
<1>2. last # x /\ last # par
  BY <1>0, <1>1 DEF WellFormed
<1>3. ChainEdges(t, x, 4) = rest
  BY <1>2, Isolated DEF ChainEdges, TreeLast
<1>4. ChainEdges(t, x, 5) = rest \cup {<<par, last>>}
  BY <1>2, Isolated DEF ChainEdges, TreeLast
<1>5. ChainEdges(t, x, 6) = rest \cup {<<par, last>>} \cup {<<last, TreeLeft(t, x)>>}
  BY <1>2, Isolated DEF ChainEdges, TreeLast
<1>6. \A k \in 2..(n - 1) : k \div 2 \in 1..(n - 1)
  BY <1>0, Halves
<1>7. ASSUME <<par, a>> \in rest, <<par, b>> \in rest
      PROVE  FALSE
  <2>1. PICK j \in 2..(n - 1) : j # i /\ par = t[j \div 2] /\ a = t[j]
    BY <1>7
  <2>2. PICK k \in 2..(n - 1) : k # i /\ par = t[k \div 2] /\ b = t[k]
    BY <1>7
  <2>3. j \div 2 \in 1..n /\ k \div 2 \in 1..n /\ i \div 2 \in 1..n
    BY <1>0, <1>1, <1>6, SMTT(60)
  <2>5. j \div 2 = i \div 2 /\ k \div 2 = i \div 2
    BY <1>1, <2>1, <2>2, <2>3 DEF WellFormed
  <2>4. j = k
    BY <1>0, <2>1, <2>2, <2>5, Halves
  <2> QED BY <2>1, <2>2, <2>4
<1>8. \A c : <<last, c>> \notin rest
  <2>1. \A k \in 2..(n - 1) : t[k \div 2] # last
    BY <1>0, <1>6, SMTT(60) DEF WellFormed
  <2> QED BY <2>1
<1> HIDE DEF rest
<1>9. ~({<<par, a>>, <<par, b>>} \subseteq ChainEdges(t, x, 4))
  BY <1>3, <1>7
<1>10. ~({<<last, a>>, <<last, b>>} \subseteq ChainEdges(t, x, 5))
  BY <1>2, <1>4, <1>8
<1>11. ~({<<last, a>>, <<last, b>>} \subseteq ChainEdges(t, x, 6))
  <2> SUFFICES ASSUME <<last, a>> \in ChainEdges(t, x, 6), <<last, b>> \in ChainEdges(t, x, 6)
               PROVE  FALSE
    OBVIOUS
  <2>1. a = TreeLeft(t, x)
    BY <1>2, <1>5, <1>8
  <2>2. b = TreeLeft(t, x)
    BY <1>2, <1>5, <1>8
  <2> QED BY <2>1, <2>2
<1> QED BY <1>9, <1>10, <1>11 DEF TreeLast

-----------------------------------------------------------------------------
(* The steps.                                                              *)

\* The commands sent when the removed node is the last one.
LEMMA LastCommands ==
  ASSUME NEW t, NEW x, x = TreeLast(t)
  PROVE  /\ NumberCommands(t, x) = 2
         /\ RemoveCommands(t, x)
              = << Command("remove", x, NoId), Command("disconnect", x, NoId) >>
<1> DEFINE two == << Command("remove", x, NoId), Command("disconnect", x, NoId) >>
<1>1. NumberCommands(t, x) = 2
  BY DEF NumberCommands
<1>2. RemoveCommandsArray(t, x) = two
  BY DEF RemoveCommandsArray
<1>3. SubSeq(two, 1, 2) = two
  <2>1. two \in Seq({two[1], two[2]}) /\ Len(two) = 2
    OBVIOUS
  <2> HIDE DEF two
  <2> QED BY <2>1, SubSeqFull
<1> QED BY <1>1, <1>2, <1>3 DEF RemoveCommands

\* Every pair of a chain is a pair of ids.
LEMMA EdgesTyped ==
  ASSUME NEW t, WellFormed(t)
  PROVE  /\ TreeEdges(t) \subseteq AnyId \X AnyId
         /\ \A i \in 2..Len(t), k \in 0..7 :
              ChainEdges(t, t[i], k) \subseteq AnyId \X AnyId
<1>0. Len(t) \in Nat /\ \A k \in 1..Len(t) : t[k] \in AnyId
  BY DEF WellFormed
<1>1. \A k \in 2..Len(t) : k \div 2 \in 1..Len(t) /\ k \in 1..Len(t)
  BY <1>0, Halves
<1>2. TreeEdges(t) \subseteq AnyId \X AnyId
  BY <1>0, <1>1 DEF TreeEdges
<1>3. ASSUME NEW i \in 2..Len(t)
      PROVE  {TreeLast(t), TreeParent(t, t[i]), TreeLeft(t, t[i]), TreeRight(t, t[i])} \subseteq AnyId
  <2>1. 2 * i <= Len(t) => 2 * i \in 1..Len(t)
    BY <1>0
  <2>2. 2 * i + 1 <= Len(t) => 2 * i + 1 \in 1..Len(t)
    BY <1>0
  <2>3. NoId \in AnyId
    BY DEF AnyId
  <2>4. TreeLast(t) \in AnyId
    BY <1>0 DEF TreeLast
  <2>5. i \div 2 \in 1..Len(t)
    BY <1>1
  <2>6. TreeParent(t, t[i]) \in AnyId
    BY <1>0, <2>5, Neighbours
  <2>7. TreeLeft(t, t[i]) \in AnyId
    BY <1>0, <2>1, <2>3, Neighbours
  <2>8. TreeRight(t, t[i]) \in AnyId
    BY <1>0, <2>2, <2>3, Neighbours
  <2> QED BY <2>4, <2>6, <2>7, <2>8
<1>4. ASSUME NEW i \in 2..Len(t), NEW k \in 0..7
      PROVE  ChainEdges(t, t[i], k) \subseteq AnyId \X AnyId
  BY <1>2, <1>3 DEF ChainEdges
<1> QED BY <1>2, <1>4

\* The parent a new node is given has a child socket free: the array holds at
\* most one other child of that position.
LEMMA CreateFindsSlot ==
  ASSUME NEW t, WellFormed(t), Len(t) > 1,
         NEW E, E = {e \in TreeEdges(t) : e[2] # TreeLast(t)}
  PROVE  ~FullIn(E, TreeLastParent(t))
<1> SUFFICES ASSUME NEW a \in AnyId, NEW b \in AnyId, a # b,
                    <<TreeLastParent(t), a>> \in E,
                    <<TreeLastParent(t), b>> \in E
             PROVE  FALSE
  BY DEF FullIn
<1>0. Len(t) \in Nat /\ Len(t) \div 2 \in 1..Len(t)
  BY Halves DEF WellFormed
<1>1. PICK j \in 2..Len(t) : TreeLastParent(t) = t[j \div 2] /\ a = t[j]
  BY DEF TreeEdges
<1>2. PICK k \in 2..Len(t) : TreeLastParent(t) = t[k \div 2] /\ b = t[k]
  BY DEF TreeEdges
<1>3. j # Len(t) /\ k # Len(t)
  BY <1>1, <1>2 DEF TreeLast
<1>4. j \div 2 \in 1..Len(t) /\ k \div 2 \in 1..Len(t)
  BY <1>0, Halves
<1>5. j \div 2 = Len(t) \div 2 /\ k \div 2 = Len(t) \div 2
  BY <1>0, <1>1, <1>2, <1>4 DEF WellFormed, TreeLastParent
<1>6. j = k
  BY <1>0, <1>3, <1>5, Halves
<1> QED BY <1>1, <1>2, <1>6

\* One command of a chain, whatever the size of the array.
LEMMA ChainStep ==
  ASSUME NEW t, WellFormed(t), NEW x \in Ids, TreeHas(t, x),
         NEW done \in 0..NumberCommands(t, x), done < Len(RemoveCommands(t, x)),
         NEW E, E = ChainEdges(t, x, done)
  PROVE  /\ done + 1 \in 0..NumberCommands(t, x)
         /\ EffectOn(E, RemoveCommands(t, x)[done + 1]) = ChainEdges(t, x, done + 1)
         /\ RemoveCommands(t, x)[done + 1].cmd = "connect" => ~FullIn(E, RemoveCommands(t, x)[done + 1].parent)
<1>0. Len(t) \in Nat
  BY DEF WellFormed
<1>1. PICK i \in 2..Len(t) : x = t[i]
  BY <1>0, IdsAssumption DEF TreeHas, WellFormed
<1>2. CASE i = Len(t)
  <2>1. x = TreeLast(t)
    BY <1>1, <1>2 DEF TreeLast
  <2>2. /\ NumberCommands(t, x) = 2
        /\ RemoveCommands(t, x) = << Command("remove", x, NoId), Command("disconnect", x, NoId) >>
    BY <1>0, <2>1, LastCommands
  <2>3. {e \in TreeEdges(t) : e[1] # TreeLast(t)} = TreeEdges(t)
    <3> DEFINE s == [k \in 1..(Len(t) - 1) |-> t[k]]
    <3>1. s \in Seq(AnyId) /\ Len(s) = Len(t) - 1 /\ Len(t) > 1
      BY <1>0, <1>1 DEF WellFormed
    <3> QED BY <3>1, CutLast
  <2>4. CASE done = 0
    BY <2>1, <2>2, <2>3, <2>4 DEF EffectOn, Command, ChainEdges
  <2>5. CASE done = 1
    BY <2>1, <2>2, <2>5 DEF EffectOn, Command, ChainEdges
  <2> QED BY <2>2, <2>4, <2>5
<1>3. CASE i # Len(t)
  <2>0. i \in 2..(Len(t) - 1)
    BY <1>0, <1>1, <1>3
  <2> DEFINE A == RemoveCommandsArray(t, x)
  <2>1. /\ TreeLast(t) # x
        /\ NumberCommands(t, x) \in 5..7
        /\ Len(RemoveCommands(t, x)) = NumberCommands(t, x)
        /\ \A k \in 1..NumberCommands(t, x) : RemoveCommands(t, x)[k] = A[k]
    <3>1. /\ TreeLast(t) # t[i]
          /\ Len(RemoveCommands(t, t[i])) = NumberCommands(t, t[i])
          /\ \A k \in 1..NumberCommands(t, t[i]) :
               RemoveCommands(t, t[i])[k] = RemoveCommandsArray(t, t[i])[k]
      BY <2>0, PlanIs
    <3>2. NumberCommands(t, t[i]) = 5 + (IF 2 * i < Len(t) THEN 1 ELSE 0)
                                            + (IF 2 * i + 1 < Len(t) THEN 1 ELSE 0)
      BY <2>0, PlanIs
    <3>3. NumberCommands(t, t[i]) \in 5..7
      BY <1>0, <3>2
    <3> QED BY <1>0, <1>1, <3>1, <3>3
  <2>2. done + 1 \in 1..NumberCommands(t, x) /\ RemoveCommands(t, x)[done + 1] = A[done + 1]
    BY <2>1
  <2>3. \A a, b \in AnyId : a # b =>
          /\ done = 4 => ~({<<TreeParent(t, x), a>>, <<TreeParent(t, x), b>>} \subseteq E)
          /\ done = 5 \/ done = 6 => ~({<<TreeLast(t), a>>, <<TreeLast(t), b>>} \subseteq E)
    BY <1>1, <2>0, SlotsFree
  <2>4. CASE done \in 0..3
    <3>1. /\ A[1] = Command("ping", x, NoId)
          /\ A[2] = Command("disconnect", TreeLast(t), NoId)
          /\ A[3] = Command("remove", x, NoId)
          /\ A[4] = Command("disconnect", x, NoId)
      BY <2>1 DEF RemoveCommandsArray
    <3>2. CASE done = 0
      BY <2>1, <2>2, <3>1, <3>2 DEF EffectOn, Command, ChainEdges
    <3>3. CASE done = 1
      BY <2>1, <2>2, <3>1, <3>3 DEF EffectOn, Command, ChainEdges
    <3>4. CASE done = 2
      BY <2>1, <2>2, <3>1, <3>4 DEF EffectOn, Command, ChainEdges
    <3>5. CASE done = 3
      BY <2>1, <2>2, <3>1, <3>5 DEF EffectOn, Command, ChainEdges
    <3> QED BY <2>4, <3>2, <3>3, <3>4, <3>5
  <2>5. CASE done = 4
    <3>1. A[5] = Command("connect", TreeLast(t), TreeParent(t, x))
      BY <2>1 DEF RemoveCommandsArray
    <3>2. ~FullIn(E, TreeParent(t, x))
      BY <2>3, <2>5 DEF FullIn
    <3>3. EffectOn(E, Command("connect", TreeLast(t), TreeParent(t, x))) = E \cup {<<TreeParent(t, x), TreeLast(t)>>}
      BY <3>2 DEF EffectOn, Command
    <3>4. ChainEdges(t, x, 5) = ChainEdges(t, x, 4) \cup {<<TreeParent(t, x), TreeLast(t)>>}
      BY <2>1 DEF ChainEdges
    <3>5. A[5].parent = TreeParent(t, x)
      BY <3>1 DEF Command
    <3>6. done + 1 = 5 /\ RemoveCommands(t, x)[done + 1] = A[5]
      BY <2>2, <2>5
    <3>7. EffectOn(E, RemoveCommands(t, x)[done + 1]) = ChainEdges(t, x, done + 1)
      BY <3>1, <3>3, <3>4, <3>6, <2>5
    <3>8. done + 1 \in 0..NumberCommands(t, x)
      BY <2>1, <2>2
    <3> QED BY <3>2, <3>5, <3>6, <3>7, <3>8
  <2>6. CASE done = 5
    <3>1. A[6] = Command("connect", TreeLeft(t, x), TreeLast(t))
      BY <2>1 DEF RemoveCommandsArray
    <3>2. ~FullIn(E, TreeLast(t))
      BY <2>3, <2>6 DEF FullIn
    <3>3. EffectOn(E, Command("connect", TreeLeft(t, x), TreeLast(t))) = E \cup {<<TreeLast(t), TreeLeft(t, x)>>}
      BY <3>2 DEF EffectOn, Command
    <3>4. ChainEdges(t, x, 6) = ChainEdges(t, x, 5) \cup {<<TreeLast(t), TreeLeft(t, x)>>}
      BY <2>1 DEF ChainEdges
    <3>5. A[6].parent = TreeLast(t)
      BY <3>1 DEF Command
    <3>6. done + 1 = 6 /\ RemoveCommands(t, x)[done + 1] = A[6]
      BY <2>2, <2>6
    <3>7. EffectOn(E, RemoveCommands(t, x)[done + 1]) = ChainEdges(t, x, done + 1)
      BY <3>1, <3>3, <3>4, <3>6, <2>6
    <3>8. done + 1 \in 0..NumberCommands(t, x)
      BY <2>1, <2>2
    <3> QED BY <3>2, <3>5, <3>6, <3>7, <3>8
  <2>7. CASE done = 6
    <3>1. A[7] = Command("connect", TreeRight(t, x), TreeLast(t))
      BY <2>1 DEF RemoveCommandsArray
    <3>2. ~FullIn(E, TreeLast(t))
      BY <2>3, <2>7 DEF FullIn
    <3>3. EffectOn(E, Command("connect", TreeRight(t, x), TreeLast(t))) = E \cup {<<TreeLast(t), TreeRight(t, x)>>}
      BY <3>2 DEF EffectOn, Command
    <3>4. ChainEdges(t, x, 7) = ChainEdges(t, x, 6) \cup {<<TreeLast(t), TreeRight(t, x)>>}
      BY <2>1 DEF ChainEdges
    <3>5. A[7].parent = TreeLast(t)
      BY <3>1 DEF Command
    <3>6. done + 1 = 7 /\ RemoveCommands(t, x)[done + 1] = A[7]
      BY <2>2, <2>7
    <3>7. EffectOn(E, RemoveCommands(t, x)[done + 1]) = ChainEdges(t, x, done + 1)
      BY <3>1, <3>3, <3>4, <3>6, <2>7
    <3>8. done + 1 \in 0..NumberCommands(t, x)
      BY <2>1, <2>2
    <3> QED BY <3>2, <3>5, <3>6, <3>7, <3>8
  <2> QED BY <2>1, <2>2, <2>4, <2>5, <2>6, <2>7
<1> QED BY <1>2, <1>3

-----------------------------------------------------------------------------
(* How a command of a chain finds the connections.                         *)

\* Which command of the chain ends the removed process.
Place(t, x) == IF TreeLast(t) = x THEN 1 ELSE 3

\* The node a command is for.
Addressee(t, c) ==
  IF c.cmd \in {"create", "connect"} THEN c.parent
  ELSE IF c.cmd = "disconnect" THEN TreeParent(t, c.id)
  ELSE c.id

\* The node is connected to the control node, directly or through others.
Rooted(E, a) ==
  \A S : a \in S /\ (\A e \in E : e[2] \in S /\ e[1] # NoId => e[1] \in S)
           => \E e \in E : e[2] \in S /\ e[1] = NoId

\* The connection of the node at position k to its parent.
Edge(t, k) == <<t[k \div 2], t[k]>>

LEMMA RootedUp ==
  ASSUME NEW t, WellFormed(t), NEW i \in 2..Len(t), NEW E,
         \A k \in 2..i : Edge(t, k) \in E
  PROVE  Rooted(E, t[i])
<1> SUFFICES ASSUME NEW S, t[i] \in S, \A e \in E : e[2] \in S /\ e[1] # NoId => e[1] \in S
             PROVE  \E e \in E : e[2] \in S /\ e[1] = NoId
  BY DEF Rooted
<1> DEFINE P == {k \in 2..i : t[k] \in S}
<1>1. P \in SUBSET Nat /\ i \in P
  BY DEF WellFormed
<1>2. PICK k \in P : \A j \in P : k <= j
  <2> HIDE DEF P
  <2> QED BY <1>1, LeastExists
<1>3. k \in 2..i /\ t[k] \in S /\ Edge(t, k) \in E /\ Edge(t, k)[1] = t[k \div 2] /\ Edge(t, k)[2] = t[k]
  BY <1>2 DEF Edge
<1>4. k \div 2 \in 1..(k - 1)
  BY <1>3, Halves
<1>5. CASE k \div 2 = 1
  <2>1. t[k \div 2] = NoId
    BY <1>5 DEF WellFormed
  <2> QED BY <1>3, <2>1
<1>6. CASE k \div 2 # 1
  <2>1. k \div 2 \in 2..i
    BY <1>3, <1>4, <1>6
  <2>2. t[k \div 2] # NoId
    <3>1. k \div 2 \in 2..Len(t)
      BY <2>1 DEF WellFormed
    <3> QED BY <3>1, OnlyRootIsNoId, IdsAssumption
  <2>3. t[k \div 2] \in S
    BY <1>3, <2>2
  <2>4. k \div 2 \in P /\ ~(k <= k \div 2)
    BY <1>3, <1>4, <2>1, <2>3
  <2> QED BY <1>2, <2>4
<1> QED BY <1>5, <1>6

LEMMA RootedBelow ==
  ASSUME NEW E, NEW a, NEW b, a # NoId, Rooted(E, a), <<a, b>> \in E
  PROVE  Rooted(E, b)
<1> SUFFICES ASSUME NEW S, b \in S, \A e \in E : e[2] \in S /\ e[1] # NoId => e[1] \in S
             PROVE  \E e \in E : e[2] \in S /\ e[1] = NoId
  BY DEF Rooted
<1>1. a \in S
  <2>1. <<a, b>>[1] = a /\ <<a, b>>[2] = b
    OBVIOUS
  <2> QED BY <2>1
<1> QED BY <1>1 DEF Rooted

\* The connections after each command, when the removed node is not the last.
LEMMA StageEdges ==
  ASSUME NEW t, WellFormed(t), NEW i \in 2..(Len(t) - 1)
  PROVE  LET n == Len(t)
             E(k) == ChainEdges(t, t[i], k)
         IN  /\ E(0) = {Edge(t, h) : h \in 2..n}
             /\ E(1) = {Edge(t, h) : h \in 2..n}
             /\ E(2) = {Edge(t, h) : h \in 2..(n - 1)}
             /\ E(3) = {Edge(t, h) : h \in {g \in 2..(n - 1) : g \div 2 # i}}
             /\ E(4) = {Edge(t, h) : h \in {g \in 2..(n - 1) : g # i /\ g \div 2 # i}}
             /\ E(5) = E(4) \cup {<<t[i \div 2], t[n]>>}
             /\ 2 * i < n => E(6) = E(5) \cup {<<t[n], t[2 * i]>>}
<1> DEFINE n == Len(t)
           x == t[i]
<1>0. n \in Nat /\ i \in 2..n /\ i \in 1..n /\ n \in 1..n
  BY DEF WellFormed
<1>1. TreeLast(t) = t[n] /\ TreeLast(t) # x
  BY PlanIs DEF TreeLast
<1>2. TreeParent(t, x) = t[i \div 2] /\ (2 * i < n => TreeLeft(t, x) = t[2 * i])
  BY <1>0, Neighbours
<1>3. TreeEdges(t) = {Edge(t, h) : h \in 2..n}
  BY DEF TreeEdges, Edge
<1>4. ASSUME NEW h \in 2..n
      PROVE  /\ t[h] # t[n] <=> h # n
             /\ t[h \div 2] # x <=> h \div 2 # i
             /\ t[h] # x <=> h # i
  <2>1. h \in 1..n /\ h \div 2 \in 1..n
    BY <1>0, Halves
  <2> QED BY <1>0, <2>1 DEF WellFormed
<1>5. \A h : Edge(t, h)[1] = t[h \div 2] /\ Edge(t, h)[2] = t[h]
  BY DEF Edge
<1>6. 2..(n - 1) = {h \in 2..n : h # n}
  BY <1>0
<1> DEFINE cut == {e \in TreeEdges(t) : e[2] # t[n]}
           orphaned == {e \in cut : e[1] # x}
           isolated == {e \in orphaned : e[2] # x}
<1>7. cut = {Edge(t, h) : h \in 2..(n - 1)}
  <2>1. cut = {Edge(t, h) : h \in {g \in 2..n : t[g] # t[n]}}
    BY <1>3, <1>5, ZenonT(60)
  <2>2. {g \in 2..n : t[g] # t[n]} = 2..(n - 1)
    BY <1>4, <1>6
  <2> QED BY <2>1, <2>2
<1>8. orphaned = {Edge(t, h) : h \in {g \in 2..(n - 1) : g \div 2 # i}}
  <2> HIDE DEF cut
  <2>1. orphaned = {Edge(t, h) : h \in {g \in 2..(n - 1) : t[g \div 2] # x}}
    BY <1>5, <1>7, ZenonT(60)
  <2>2. {g \in 2..(n - 1) : t[g \div 2] # x} = {g \in 2..(n - 1) : g \div 2 # i}
    BY <1>4, <1>6
  <2> QED BY <2>1, <2>2
<1>9. isolated = {Edge(t, h) : h \in {g \in 2..(n - 1) : g # i /\ g \div 2 # i}}
  <2> HIDE DEF orphaned
  <2>1. isolated = {Edge(t, h) : h \in {g \in {f \in 2..(n - 1) : f \div 2 # i} : t[g] # x}}
    BY <1>5, <1>8, ZenonT(60)
  <2>2. {g \in {f \in 2..(n - 1) : f \div 2 # i} : t[g] # x}
        = {g \in 2..(n - 1) : g # i /\ g \div 2 # i}
    BY <1>4, <1>6
  <2> QED BY <2>1, <2>2
<1>10. /\ ChainEdges(t, x, 0) = TreeEdges(t) /\ ChainEdges(t, x, 1) = TreeEdges(t)
       /\ ChainEdges(t, x, 2) = cut /\ ChainEdges(t, x, 3) = orphaned
       /\ ChainEdges(t, x, 4) = isolated
       /\ ChainEdges(t, x, 5) = isolated \cup {<<TreeParent(t, x), t[n]>>}
       /\ ChainEdges(t, x, 6) = (isolated \cup {<<TreeParent(t, x), t[n]>>}) \cup {<<t[n], TreeLeft(t, x)>>}
  BY <1>1 DEF ChainEdges
<1> HIDE DEF cut, orphaned, isolated
<1> QED BY <1>2, <1>3, <1>7, <1>8, <1>9, <1>10

LEMMA StageFour ==
  ASSUME NEW t, WellFormed(t), NEW i \in 2..(Len(t) - 1)
  PROVE  ChainEdges(t, t[i], 4)
         = {Edge(t, h) : h \in {g \in 2..(Len(t) - 1) : g # i /\ g \div 2 # i}}
<1>1. TreeLast(t) # t[i]
  BY PlanIs
<1>2. ChainEdges(t, t[i], 4)
      = {e \in TreeEdges(t) : e[2] # t[Len(t)] /\ e[1] # t[i] /\ e[2] # t[i]}
  BY <1>1 DEF ChainEdges, TreeLast
<1>3. {Edge(t, h) : h \in {g \in 2..(Len(t) - 1) : g # i /\ g \div 2 # i}}
      = {<<t[k \div 2], t[k]>> : k \in {h \in 2..(Len(t) - 1) : h # i /\ h \div 2 # i}}
  BY DEF Edge
<1> QED BY <1>2, <1>3, Isolated, ZenonT(60)

\* What a command of a chain is, when it is the next one: the node it is for is
\* connected to the control node, a node to be connected is not, a node to be
\* disconnected is, and the removed node takes part until it is disconnected.
NextCommand(t, x, k, c, E) ==
  /\ c.cmd \in {"ping", "disconnect", "remove", "connect"}
  /\ c.id \in Ids /\ TreeHas(t, c.id)
  /\ c.cmd = "ping" => k = 0 /\ c.id = x
  /\ c.cmd = "remove" <=> k + 1 = Place(t, x)
  /\ c.cmd = "remove" => c.id = x
  /\ c.cmd = "connect" => c.id # x /\ \A a : <<a, c.id>> \notin E
  /\ c.cmd = "disconnect" => <<Addressee(t, c), c.id>> \in E
  /\ k >= Place(t, x) /\ (\E a : <<a, x>> \in E) => c.cmd = "disconnect" /\ c.id = x
  /\ Addressee(t, c) \in AnyId /\ TreeHas(t, Addressee(t, c))
  /\ Addressee(t, c) = x => k < Place(t, x)
  /\ Addressee(t, c) = NoId \/ Rooted(E, Addressee(t, c))
  /\ Addressee(t, c) = NoId => k # 0

LEMMA LastNext ==
  ASSUME NEW t, WellFormed(t), NEW x \in Ids, TreeHas(t, x), x = TreeLast(t), NEW k \in 0..1
  PROVE  NextCommand(t, x, k, RemoveCommands(t, x)[k + 1], ChainEdges(t, x, k))
<1> DEFINE n == Len(t)
           c == RemoveCommands(t, x)[k + 1]
           E == ChainEdges(t, x, k)
<1>1. n \in Nat /\ n > 1 /\ x = t[n] /\ n \in 2..n
  <2>1. TreeIndex(t, x) \in 2..n /\ n \in Nat
    BY IndexOf, ArrayIds
  <2> QED BY <2>1 DEF TreeLast
<1>2. RemoveCommands(t, x) = << Command("remove", x, NoId), Command("disconnect", x, NoId) >>
  BY <1>1, LastCommands
<1>3. E = {Edge(t, h) : h \in 2..n} /\ Place(t, x) = 1
  BY DEF ChainEdges, TreeEdges, Edge, Place
<1>4. TreeParent(t, x) = t[n \div 2] /\ n \div 2 \in 1..(n - 1)
  BY <1>1, Neighbours
<1>5. Edge(t, n) \in E /\ Edge(t, n) = <<TreeParent(t, x), x>>
  BY <1>1, <1>3, <1>4 DEF Edge
<1>6. ASSUME NEW i \in 2..n PROVE Rooted(E, t[i])
  <2>1. \A h \in 2..i : Edge(t, h) \in E
    BY <1>1, <1>3
  <2> QED BY <2>1, RootedUp
<1>7. TreeHas(t, t[n \div 2]) /\ t[n \div 2] \in AnyId /\ t[n \div 2] # x
  BY <1>1, <1>4, ArrayIds DEF TreeHas, WellFormed
<1>8. t[n \div 2] = NoId \/ Rooted(E, t[n \div 2])
  BY <1>1, <1>4, <1>6 DEF WellFormed
<1>9. x # NoId /\ x \in AnyId
  BY IdsAssumption DEF AnyId
<1> HIDE DEF E
<1>10. CASE k = 0
  <2>1. c = Command("remove", x, NoId)
    BY <1>2, <1>10
  <2>2. c.cmd = "remove" /\ c.id = x /\ Addressee(t, c) = x
    BY <2>1 DEF Command, Addressee
  <2>3. Rooted(E, x)
    BY <1>1, <1>6
  <2> HIDE DEF c
  <2>4. NextCommand(t, x, k, c, E)
    BY <1>3, <1>9, <1>10, <2>2, <2>3 DEF NextCommand
  <2> QED BY <2>4 DEF c, E
<1>11. CASE k = 1
  <2>1. c = Command("disconnect", x, NoId)
    BY <1>2, <1>11
  <2>2. c.cmd = "disconnect" /\ c.id = x /\ Addressee(t, c) = t[n \div 2]
    BY <1>4, <2>1 DEF Command, Addressee
  <2>3. <<Addressee(t, c), x>> \in E
    BY <1>4, <1>5, <2>2
  <2> HIDE DEF c
  <2>4. NextCommand(t, x, k, c, E)
    BY <1>3, <1>7, <1>8, <1>11, <2>2, <2>3 DEF NextCommand
  <2> QED BY <2>4 DEF c, E
<1> QED BY <1>10, <1>11

LEMMA InnerNext ==
  ASSUME NEW t, WellFormed(t), NEW i \in 2..(Len(t) - 1),
         NEW k \in 0..(NumberCommands(t, t[i]) - 1)
  PROVE  NextCommand(t, t[i], k, RemoveCommands(t, t[i])[k + 1], ChainEdges(t, t[i], k))
<1> DEFINE n == Len(t)
           x == t[i]
           c == RemoveCommands(t, x)[k + 1]
           E == ChainEdges(t, x, k)
           A == RemoveCommandsArray(t, x)
<1>0. n \in Nat /\ i \in 2..n /\ i \in 1..n /\ n \in 1..n /\ n \in 2..n
  BY DEF WellFormed
<1>1. TreeLast(t) = t[n] /\ t[n] # x /\ Place(t, x) = 3
  BY PlanIs DEF TreeLast, Place
<1>2. /\ NumberCommands(t, x) = 5 + (IF 2 * i < n THEN 1 ELSE 0) + (IF 2 * i + 1 < n THEN 1 ELSE 0)
      /\ \A j \in 1..NumberCommands(t, x) : RemoveCommands(t, x)[j] = A[j]
  BY PlanIs
<1>3. /\ k \in 0..6 /\ (k = 5 => 2 * i < n) /\ (k = 6 => 2 * i + 1 < n)
      /\ k + 1 \in 1..NumberCommands(t, x)
  BY <1>0, <1>2, SMTT(60)
<1>4. c = A[k + 1]
  BY <1>2, <1>3
<1>5. /\ TreeParent(t, x) = t[i \div 2] /\ i \div 2 \in 1..(i - 1)
      /\ TreeParent(t, t[n]) = t[n \div 2] /\ n \div 2 \in 1..(n - 1)
      /\ 2 * i < n => TreeLeft(t, x) = t[2 * i]
      /\ 2 * i + 1 < n => TreeRight(t, x) = t[2 * i + 1]
  BY <1>0, Neighbours, SMTT(60)
<1>6. /\ A[1] = Command("ping", x, NoId)
      /\ A[2] = Command("disconnect", t[n], NoId)
      /\ A[3] = Command("remove", x, NoId)
      /\ A[4] = Command("disconnect", x, NoId)
      /\ A[5] = Command("connect", t[n], t[i \div 2])
      /\ A[6] = Command("connect", TreeLeft(t, x), t[n])
      /\ A[7] = Command("connect", TreeRight(t, x), t[n])
  BY <1>1, <1>5 DEF RemoveCommandsArray
<1>7. ASSUME NEW h \in 1..n PROVE TreeHas(t, t[h]) /\ t[h] \in AnyId /\ (h # 1 => t[h] \in Ids)
  BY <1>0, ArrayIds DEF TreeHas
<1>8. \A g, h \in 1..n : t[g] = t[h] => g = h
  BY DEF WellFormed
<1>9. \A h : Edge(t, h)[1] = t[h \div 2] /\ Edge(t, h)[2] = t[h]
  BY DEF Edge
<1>10. t[1] = NoId /\ \A h \in 2..n : t[h] # NoId
  BY <1>7, IdsAssumption DEF WellFormed
<1> HIDE DEF A
<1>20. CASE k = 0
  <2>1. c.cmd = "ping" /\ c.id = x /\ Addressee(t, c) = x
    BY <1>4, <1>6, <1>20, SMTT(60) DEF Command, Addressee
  <2>2. E = {Edge(t, h) : h \in 2..n}
    BY <1>20, StageEdges, ZenonT(60)
  <2>3. Rooted(E, x)
    <3>1. \A h \in 2..i : Edge(t, h) \in E
      BY <1>0, <2>2
    <3> QED BY <1>0, <3>1, RootedUp
  <2>4. x \in Ids /\ TreeHas(t, x) /\ x \in AnyId /\ x # NoId
    BY <1>0, <1>7, <1>10
  <2> HIDE DEF c, E
  <2>5. NextCommand(t, x, k, c, E)
    BY <1>1, <1>20, <2>1, <2>3, <2>4 DEF NextCommand
  <2> QED BY <2>5 DEF c, E
<1>21. CASE k = 1
  <2>1. c.cmd = "disconnect" /\ c.id = t[n] /\ Addressee(t, c) = t[n \div 2]
    BY <1>4, <1>5, <1>6, <1>21, SMTT(60) DEF Command, Addressee
  <2>2. E = {Edge(t, h) : h \in 2..n}
    BY <1>21, StageEdges, ZenonT(60)
  <2>3. n \div 2 = 1 \/ Rooted(E, t[n \div 2])
    <3>1. \A h \in 2..(n \div 2) : Edge(t, h) \in E
      BY <1>0, <1>5, <2>2, SMTT(60)
    <3>2. n \div 2 # 1 => n \div 2 \in 2..n
      BY <1>0, <1>5, SMTT(60)
    <3> QED BY <3>1, <3>2, RootedUp
  <2>4. Edge(t, n) \in E /\ Edge(t, n) = <<t[n \div 2], t[n]>>
    BY <1>0, <2>2 DEF Edge
  <2>5. t[n] \in Ids /\ TreeHas(t, t[n]) /\ TreeHas(t, t[n \div 2]) /\ t[n \div 2] \in AnyId
    BY <1>0, <1>5, <1>7, SMTT(60)
  <2> HIDE DEF c, E
  <2>6. NextCommand(t, x, k, c, E)
    BY <1>1, <1>10, <1>21, <2>1, <2>3, <2>4, <2>5 DEF NextCommand
  <2> QED BY <2>6 DEF c, E
<1>22. CASE k = 2
  <2>1. c.cmd = "remove" /\ c.id = x /\ Addressee(t, c) = x
    BY <1>4, <1>6, <1>22, SMTT(60) DEF Command, Addressee
  <2>2. E = {Edge(t, h) : h \in 2..(n - 1)}
    BY <1>22, StageEdges, ZenonT(60)
  <2>3. Rooted(E, x)
    <3>1. \A h \in 2..i : Edge(t, h) \in E
      BY <1>0, <2>2
    <3> QED BY <1>0, <3>1, RootedUp
  <2>4. x \in Ids /\ TreeHas(t, x) /\ x \in AnyId /\ x # NoId
    BY <1>0, <1>7, <1>10
  <2> HIDE DEF c, E
  <2>5. NextCommand(t, x, k, c, E)
    BY <1>1, <1>22, <2>1, <2>3, <2>4 DEF NextCommand
  <2> QED BY <2>5 DEF c, E
<1>30. ASSUME NEW h \in 2..(i \div 2)
       PROVE  h \in 2..(n - 1) /\ h # i /\ h \div 2 # i
  BY <1>0, <1>5, Halves, SMTT(60)
<1>31. i \div 2 # 1 => i \div 2 \in 2..n
  BY <1>0, <1>5
<1>32. TreeHas(t, t[i \div 2]) /\ t[i \div 2] \in AnyId /\ t[i \div 2] # x
  BY <1>0, <1>5, <1>7, <1>8, SMTT(60)
<1>23. CASE k = 3
  <2>1. c.cmd = "disconnect" /\ c.id = x /\ Addressee(t, c) = t[i \div 2]
    BY <1>4, <1>5, <1>6, <1>23, SMTT(60) DEF Command, Addressee
  <2>2. E = {Edge(t, h) : h \in {g \in 2..(n - 1) : g \div 2 # i}}
    BY <1>23, StageEdges, ZenonT(60)
  <2>3. i \div 2 = 1 \/ Rooted(E, t[i \div 2])
    <3>1. \A h \in 2..(i \div 2) : Edge(t, h) \in E
      BY <1>30, <2>2
    <3> QED BY <1>31, <3>1, RootedUp
  <2>4. Edge(t, i) \in E /\ Edge(t, i) = <<t[i \div 2], x>>
    <3>1. i \in {g \in 2..(n - 1) : g \div 2 # i}
      BY <1>0, <1>5
    <3>2. Edge(t, i) \in E
      BY <2>2, <3>1
    <3> QED BY <3>2 DEF Edge
  <2>5. x \in Ids /\ TreeHas(t, x)
    BY <1>0, <1>7
  <2> HIDE DEF c, E
  <2>6. NextCommand(t, x, k, c, E)
    BY <1>1, <1>10, <1>23, <1>32, <2>1, <2>3, <2>4, <2>5 DEF NextCommand
  <2> QED BY <2>6 DEF c, E
<1> DEFINE rest == {Edge(t, h) : h \in {g \in 2..(n - 1) : g # i /\ g \div 2 # i}}
<1>33. ChainEdges(t, x, 4) = rest
  BY StageFour
<1>34. i \div 2 = 1 \/ Rooted(rest, t[i \div 2])
  <2>1. \A h \in 2..(i \div 2) : Edge(t, h) \in rest
    BY <1>30
  <2> HIDE DEF rest
  <2> QED BY <1>31, <2>1, RootedUp
<1>35. ASSUME NEW h \in 2..n, h = i \/ h = n \/ h \div 2 = i, NEW a PROVE <<a, t[h]>> \notin rest
  <2> SUFFICES ASSUME NEW g \in 2..(n - 1), g # i, g \div 2 # i, <<a, t[h]>> = Edge(t, g)
               PROVE  FALSE
    OBVIOUS
  <2>1. t[h] = t[g]
    BY DEF Edge
  <2>2. g \in 1..n /\ h \in 1..n /\ g # n
    BY <1>0
  <2> QED BY <1>8, <1>35, <2>1, <2>2
<1>24. CASE k = 4
  <2>1. c.cmd = "connect" /\ c.id = t[n] /\ Addressee(t, c) = t[i \div 2]
    BY <1>4, <1>6, <1>24, SMTT(60) DEF Command, Addressee
  <2>2. E = rest
    BY <1>24, <1>33
  <2>3. \A a : <<a, t[n]>> \notin E /\ <<a, x>> \notin E
    BY <1>0, <1>35, <2>2
  <2>5. t[n] \in Ids /\ TreeHas(t, t[n])
    BY <1>0, <1>7
  <2> HIDE DEF c, E, rest
  <2>7. Addressee(t, c) = NoId \/ Rooted(E, Addressee(t, c))
    BY <1>10, <1>34, <2>1, <2>2
  <2>6. NextCommand(t, x, k, c, E)
    <3>1. /\ k + 1 # Place(t, x) /\ k # 0 /\ c.cmd # "remove" /\ c.cmd # "ping" /\ c.cmd # "disconnect"
          /\ c.id # x
          /\ c.id \in Ids /\ TreeHas(t, c.id) /\ Addressee(t, c) # x
          /\ Addressee(t, c) \in AnyId /\ TreeHas(t, Addressee(t, c))
      BY <1>1, <1>24, <1>32, <2>1, <2>5
    <3>2. \A a : <<a, c.id>> \notin E /\ <<a, x>> \notin E
      BY <2>1, <2>3
    <3> QED BY <2>1, <2>7, <3>1, <3>2, Zenon DEF NextCommand
  <2> QED BY <2>6 DEF c, E
<1>36. ChainEdges(t, x, 5) = rest \cup {<<t[i \div 2], t[n]>>}
  BY <1>33, StageEdges
<1>37. ASSUME NEW F, rest \cup {<<t[i \div 2], t[n]>>} \subseteq F,
              \A e \in F : e[2] = t[n] => e[1] = t[i \div 2]
       PROVE  Rooted(F, t[n])
  <2> SUFFICES ASSUME NEW S, t[n] \in S, \A e \in F : e[2] \in S /\ e[1] # NoId => e[1] \in S
               PROVE  \E e \in F : e[2] \in S /\ e[1] = NoId
    BY DEF Rooted
  <2>1. <<t[i \div 2], t[n]>> \in F /\ <<t[i \div 2], t[n]>>[1] = t[i \div 2]
        /\ <<t[i \div 2], t[n]>>[2] = t[n]
    BY <1>37
  <2>2. CASE i \div 2 = 1
    BY <1>10, <2>1, <2>2
  <2>3. CASE i \div 2 # 1
    <3>1. \A h \in 2..(i \div 2) : Edge(t, h) \in F
      BY <1>30, <1>37
    <3>2. Rooted(F, t[i \div 2])
      BY <1>31, <2>3, <3>1, RootedUp
    <3>3. t[i \div 2] \in S
      BY <1>10, <1>31, <2>1, <2>3
    <3> QED BY <3>2, <3>3 DEF Rooted
  <2> QED BY <2>2, <2>3
<1>38. ASSUME NEW a PROVE <<a, t[n]>> \notin rest
  BY <1>0, <1>35
<1>25. CASE k = 5
  <2>0. 2 * i < n /\ 2 * i \in 2..n /\ 2 * i \in 1..n /\ (2 * i) \div 2 = i /\ 2 * i # n /\ 2 * i # i
    BY <1>0, <1>3, <1>25
  <2>1. c.cmd = "connect" /\ c.id = t[2 * i] /\ Addressee(t, c) = t[n]
    BY <1>4, <1>5, <1>6, <1>25, <2>0, SMTT(60) DEF Command, Addressee
  <2>2. E = rest \cup {<<t[i \div 2], t[n]>>}
    BY <1>25, <1>36
  <2>3. t[n] # t[2 * i] /\ t[n] # x /\ t[2 * i] # x
    BY <1>0, <1>8, <2>0
  <2>4. ASSUME NEW a PROVE <<a, t[2 * i]>> \notin E /\ <<a, x>> \notin E
    <3>1. <<a, t[2 * i]>> \notin rest /\ <<a, x>> \notin rest
      BY <1>0, <1>35, <2>0
    <3> HIDE DEF rest, E
    <3> QED BY <2>2, <2>3, <3>1
  <2>5. t[n] \in Ids /\ TreeHas(t, t[n]) /\ t[n] \in AnyId /\ t[2 * i] \in Ids /\ TreeHas(t, t[2 * i])
    BY <1>0, <1>7, <2>0
  <2>7. \A e \in E : e[2] = t[n] => e[1] = t[i \div 2]
    <3>1. \A e \in rest : e = <<e[1], e[2]>>
      BY DEF Edge
    <3> HIDE DEF rest, E
    <3> QED BY <1>38, <2>2, <3>1
  <2> HIDE DEF c, E, rest
  <2>8. Rooted(E, t[n])
    BY <1>37, <2>2, <2>7
  <2>6. NextCommand(t, x, k, c, E)
    <3>1. \A a : <<a, c.id>> \notin E /\ <<a, x>> \notin E
      BY <2>1, <2>4
    <3>2. Rooted(E, Addressee(t, c)) /\ Addressee(t, c) # x
      BY <1>1, <2>1, <2>8
    <3>3. /\ k + 1 # Place(t, x) /\ k # 0 /\ c.cmd # "remove" /\ c.cmd # "ping" /\ c.cmd # "disconnect"
          /\ c.id # x
          /\ c.id \in Ids /\ TreeHas(t, c.id)
          /\ Addressee(t, c) \in AnyId /\ TreeHas(t, Addressee(t, c))
      BY <1>1, <1>25, <2>1, <2>3, <2>5
    <3> QED BY <2>1, <3>1, <3>2, <3>3, Zenon DEF NextCommand
  <2> QED BY <2>6 DEF c, E
<1>26. CASE k = 6
  <2>0. /\ 2 * i + 1 < n /\ 2 * i < n /\ 2 * i + 1 \in 2..n /\ 2 * i + 1 \in 1..n /\ 2 * i \in 1..n
        /\ (2 * i + 1) \div 2 = i /\ 2 * i + 1 # n /\ 2 * i # n /\ 2 * i # i /\ 2 * i + 1 # i
    BY <1>0, <1>3, <1>26
  <2>1. c.cmd = "connect" /\ c.id = t[2 * i + 1] /\ Addressee(t, c) = t[n]
    BY <1>4, <1>5, <1>6, <1>26, <2>0, SMTT(60) DEF Command, Addressee
  <2>2. E = (rest \cup {<<t[i \div 2], t[n]>>}) \cup {<<t[n], t[2 * i]>>}
    <3>1. E = ChainEdges(t, x, 5) \cup {<<t[n], t[2 * i]>>}
      BY <1>26, <2>0, StageEdges
    <3> QED BY <1>36, <3>1
  <2>3. t[n] # t[2 * i + 1] /\ t[n] # x /\ t[2 * i] # t[2 * i + 1] /\ t[2 * i] # x /\ t[2 * i] # t[n] /\ t[2 * i + 1] # x
    BY <1>0, <1>8, <2>0, SMTT(60)
  <2>4. ASSUME NEW a PROVE <<a, t[2 * i + 1]>> \notin E /\ <<a, x>> \notin E
    <3>1. <<a, t[2 * i + 1]>> \notin rest /\ <<a, x>> \notin rest
      BY <1>0, <1>35, <2>0
    <3> HIDE DEF rest, E
    <3> QED BY <2>2, <2>3, <3>1
  <2>5. t[n] \in Ids /\ TreeHas(t, t[n]) /\ t[n] \in AnyId /\ t[2 * i + 1] \in Ids /\ TreeHas(t, t[2 * i + 1])
    BY <1>0, <1>7, <2>0, SMTT(60)
  <2>7. \A e \in E : e[2] = t[n] => e[1] = t[i \div 2]
    <3>1. \A e \in rest : e = <<e[1], e[2]>>
      BY DEF Edge
    <3> HIDE DEF rest, E
    <3> QED BY <1>38, <2>2, <2>3, <3>1
  <2> HIDE DEF c, E, rest
  <2>8. Rooted(E, t[n])
    BY <1>37, <2>2, <2>7
  <2>6. NextCommand(t, x, k, c, E)
    <3>1. \A a : <<a, c.id>> \notin E /\ <<a, x>> \notin E
      BY <2>1, <2>4
    <3>2. Rooted(E, Addressee(t, c)) /\ Addressee(t, c) # x
      BY <1>1, <2>1, <2>8
    <3>3. /\ k + 1 # Place(t, x) /\ k # 0 /\ c.cmd # "remove" /\ c.cmd # "ping" /\ c.cmd # "disconnect"
          /\ c.id # x
          /\ c.id \in Ids /\ TreeHas(t, c.id)
          /\ Addressee(t, c) \in AnyId /\ TreeHas(t, Addressee(t, c))
      BY <1>1, <1>26, <2>1, <2>3, <2>5
    <3> QED BY <2>1, <3>1, <3>2, <3>3, Zenon DEF NextCommand
  <2> QED BY <2>6 DEF c, E
<1> QED BY <1>3, <1>20, <1>21, <1>22, <1>23, <1>24, <1>25, <1>26

LEMMA PlanNext ==
  ASSUME NEW t, WellFormed(t), NEW x \in Ids, TreeHas(t, x),
         NEW k \in Nat, k < Len(RemoveCommands(t, x))
  PROVE  NextCommand(t, x, k, RemoveCommands(t, x)[k + 1], ChainEdges(t, x, k))
<1>1. TreeIndex(t, x) \in 2..Len(t) /\ t[TreeIndex(t, x)] = x /\ Len(t) \in Nat
  BY IndexOf, ArrayIds
<1>2. PICK i \in 2..Len(t) : x = t[i]
  BY <1>1
<1>3. CASE i = Len(t)
  <2>1. x = TreeLast(t)
    BY <1>2, <1>3 DEF TreeLast
  <2>2. Len(RemoveCommands(t, x)) = 2
    BY <1>1, <2>1, LastCommands
  <2> QED BY <2>1, <2>2, LastNext
<1>4. CASE i # Len(t)
  <2>1. i \in 2..(Len(t) - 1)
    BY <1>1, <1>4
  <2>2. Len(RemoveCommands(t, t[i])) = NumberCommands(t, t[i])
        /\ NumberCommands(t, t[i]) = 5 + (IF 2 * i < Len(t) THEN 1 ELSE 0)
                                        + (IF 2 * i + 1 < Len(t) THEN 1 ELSE 0)
    BY <2>1, PlanIs
  <2>3. k \in 0..(NumberCommands(t, t[i]) - 1)
    BY <1>1, <1>2, <2>2
  <2> QED BY <1>2, <2>1, <2>3, InnerNext
<1> QED BY <1>3, <1>4

LEMMA PlanStep ==
  ASSUME NEW t, WellFormed(t), NEW x \in Ids, TreeHas(t, x),
         NEW k \in Nat, k < Len(RemoveCommands(t, x))
  PROVE  LET E == ChainEdges(t, x, k)
             c == RemoveCommands(t, x)[k + 1]
         IN  /\ EffectOn(E, c) = ChainEdges(t, x, k + 1)
             /\ c.cmd = "connect" => ~FullIn(E, c.parent)
<1>1. TreeIndex(t, x) \in 2..Len(t) /\ t[TreeIndex(t, x)] = x /\ Len(t) \in Nat
  BY IndexOf, ArrayIds
<1>2. PICK i \in 2..Len(t) : x = t[i]
  BY <1>1
<1>3. k \in 0..NumberCommands(t, x)
  <2>1. CASE i = Len(t)
    <3>1. x = TreeLast(t)
      BY <1>2, <2>1 DEF TreeLast
    <3>2. Len(RemoveCommands(t, x)) = 2 /\ NumberCommands(t, x) = 2
      BY <3>1, LastCommands
    <3> QED BY <3>2
  <2>2. CASE i # Len(t)
    <3>1. i \in 2..(Len(t) - 1)
      BY <1>1, <2>2
    <3>2. Len(RemoveCommands(t, t[i])) = NumberCommands(t, t[i])
          /\ NumberCommands(t, t[i]) = 5 + (IF 2 * i < Len(t) THEN 1 ELSE 0)
                                          + (IF 2 * i + 1 < Len(t) THEN 1 ELSE 0)
      BY <3>1, PlanIs
    <3> QED BY <1>1, <1>2, <3>2
  <2> QED BY <2>1, <2>2
<1> QED BY <1>3, ChainStep

LEMMA PlanEnds ==
  ASSUME NEW t, WellFormed(t), NEW x \in Ids, TreeHas(t, x)
  PROVE  ChainEdges(t, x, Len(RemoveCommands(t, x))) = TreeEdges(TreeRemove(t, x))
<1>1. TreeIndex(t, x) \in 2..Len(t) /\ t[TreeIndex(t, x)] = x /\ Len(t) \in Nat
  BY IndexOf, ArrayIds
<1>2. PICK i \in 2..Len(t) : x = t[i]
  BY <1>1
<1>3. CASE i = Len(t)
  <2> DEFINE r == TreeRemove(t, x)
  <2>1. x = TreeLast(t) /\ Len(RemoveCommands(t, x)) = 2
    <3>1. x = TreeLast(t)
      BY <1>2, <1>3 DEF TreeLast
    <3>2. RemoveCommands(t, x) = << Command("remove", x, NoId), Command("disconnect", x, NoId) >>
      BY <3>1, LastCommands
    <3> QED BY <3>1, <3>2
  <2>2. ChainEdges(t, x, 2) = {e \in TreeEdges(t) : e[2] # TreeLast(t)}
    BY <2>1 DEF ChainEdges
  <2>3. /\ WellFormed(r) /\ Len(r) = Len(t) - 1
        /\ \A k \in 1..(Len(t) - 1) : r[k] = IF k = i THEN t[Len(t)] ELSE t[k]
    BY <1>2, Removed
  <2> HIDE DEF r
  <2>4. r \in Seq(AnyId) /\ Len(t) > 1 /\ \A k \in 1..Len(r) : r[k] = t[k]
    BY <1>1, <1>2, <1>3, <2>3 DEF WellFormed
  <2>5. TreeEdges(r) = {e \in TreeEdges(t) : e[2] # TreeLast(t)}
    BY <2>3, <2>4, CutLast
  <2> QED BY <2>1, <2>2, <2>5 DEF r
<1>4. CASE i # Len(t)
  <2>1. i \in 2..(Len(t) - 1)
    BY <1>1, <1>4
  <2> QED BY <1>2, <2>1, PlanIs, ChainEnds
<1> QED BY <1>3, <1>4

-----------------------------------------------------------------------------
(* How a creation finds the connections.                                   *)

Cut(t) == {e \in TreeEdges(t) : e[2] # TreeLast(t)}

LEMMA EdgeEnds ==
  ASSUME NEW t, WellFormed(t)
  PROVE  /\ \A a, b : <<a, b>> \in TreeEdges(t) => b \in Ids /\ TreeHas(t, b)
         /\ \A b \in Ids : TreeHas(t, b) => <<TreeParent(t, b), b>> \in TreeEdges(t)
<1>1. ASSUME NEW a, NEW b, <<a, b>> \in TreeEdges(t) PROVE b \in Ids /\ TreeHas(t, b)
  <2>1. PICK k \in 2..Len(t) : b = t[k]
    BY <1>1 DEF TreeEdges
  <2> QED BY <2>1, ArrayIds
<1>2. ASSUME NEW b \in Ids, TreeHas(t, b) PROVE <<TreeParent(t, b), b>> \in TreeEdges(t)
  <2>1. TreeIndex(t, b) \in 2..Len(t) /\ t[TreeIndex(t, b)] = b
    BY <1>2, IndexOf
  <2>2. PICK k \in 2..Len(t) : b = t[k]
    BY <2>1
  <2> QED BY <2>2, Neighbours DEF TreeEdges
<1> QED BY <1>1, <1>2

LEMMA AddedEdges ==
  ASSUME NEW t, WellFormed(t), NEW id \in Ids, ~TreeHas(t, id)
  PROVE  /\ TreeLast(TreeAdd(t, id)) = id /\ Len(TreeAdd(t, id)) > 1
         /\ Cut(TreeAdd(t, id)) = TreeEdges(t)
<1> DEFINE r == TreeAdd(t, id)
<1>1. WellFormed(r)
  BY AddedTree
<1>2. t \in Seq(AnyId) /\ Len(t) \in Nat /\ Len(t) > 0 /\ id \in AnyId
  BY DEF WellFormed, AnyId
<1>3. /\ Len(r) = Len(t) + 1 /\ r[Len(r)] = id
      /\ \A k \in 1..Len(t) : r[k] = t[k]
  BY <1>2 DEF TreeAdd
<1> HIDE DEF r
<1>4. TreeEdges(t) = {e \in TreeEdges(r) : e[2] # TreeLast(r)}
  <2>1. Len(r) > 1 /\ Len(t) = Len(r) - 1 /\ \A k \in 1..Len(t) : t[k] = r[k]
    BY <1>2, <1>3
  <2> QED BY <1>1, <1>2, <2>1, CutLast
<1> QED BY <1>2, <1>3, <1>4 DEF r, Cut, TreeLast

LEMMA CutFacts ==
  ASSUME NEW t, WellFormed(t), Len(t) > 1
  PROVE  LET last == TreeLast(t)
             par  == TreeLastParent(t)
         IN  /\ last \in Ids /\ TreeHas(t, last)
             /\ par \in AnyId /\ TreeHas(t, par) /\ par # last
             /\ par = NoId \/ Rooted(Cut(t), par)
             /\ \A a : <<a, last>> \notin Cut(t)
             /\ ~FullIn(Cut(t), par)
             /\ Cut(t) \cup {<<par, last>>} = TreeEdges(t)
<1> DEFINE n == Len(t)
<1>1. n \in Nat /\ n \in 2..n /\ n \in 1..n /\ n \div 2 \in 1..(n - 1)
  BY Halves DEF WellFormed
<1>2. TreeLast(t) = t[n] /\ TreeLastParent(t) = t[n \div 2]
  BY DEF TreeLast, TreeLastParent
<1>3. t[n] \in Ids /\ TreeHas(t, t[n])
  BY <1>1, ArrayIds
<1>4. t[n \div 2] \in AnyId /\ TreeHas(t, t[n \div 2]) /\ t[n \div 2] # t[n]
  BY <1>1, ArrayIds DEF TreeHas, WellFormed
<1>5. t[n \div 2] = NoId \/ Rooted(Cut(t), t[n \div 2])
  <2>1. CASE n \div 2 = 1
    BY <2>1 DEF WellFormed
  <2>2. CASE n \div 2 # 1
    <3>1. n \div 2 \in 2..n
      BY <1>1, <2>2
    <3>2. ASSUME NEW k \in 2..(n \div 2) PROVE Edge(t, k) \in Cut(t)
      <4>1. k \in 2..n /\ k \in 1..n /\ k # n
        BY <1>1
      <4>2. t[k] # t[n]
        BY <1>1, <4>1 DEF WellFormed
      <4>3. Edge(t, k) \in TreeEdges(t) /\ Edge(t, k)[2] = t[k]
        BY <4>1 DEF TreeEdges, Edge
      <4> QED BY <1>2, <4>2, <4>3 DEF Cut
    <3> QED BY <3>1, <3>2, RootedUp
  <2> QED BY <2>1, <2>2
<1>6. \A a : <<a, t[n]>> \notin Cut(t)
  BY <1>2 DEF Cut
<1>7. ~FullIn(Cut(t), TreeLastParent(t))
  BY CreateFindsSlot DEF Cut
<1>8. Cut(t) \cup {<<TreeLastParent(t), TreeLast(t)>>} = TreeEdges(t)
  <2> DEFINE s == [k \in 1..(n - 1) |-> t[k]]
  <2>1. s \in Seq(AnyId) /\ Len(s) = n - 1 /\ \A k \in 1..Len(s) : s[k] = t[k]
    BY <1>1, ArrayIds
  <2> HIDE DEF s
  <2> QED BY <2>1, CutLast DEF Cut
<1> QED BY <1>2, <1>3, <1>4, <1>5, <1>6, <1>7, <1>8
=============================================================================
