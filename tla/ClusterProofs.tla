---------------------------- MODULE ClusterProofs ----------------------------
(***************************************************************************)
(* The control node keeps its books, with any number of nodes, commands    *)
(* and crashes, and removals that overlap: its lists agree with each other *)
(* (RecordsMatchAwaited), and the array with the processes                 *)
(* (ReapFindsNode, NothingLeftRunning).                                    *)
(*                                                                         *)
(* None of this depends on which node is connected to which: what is used  *)
(* of the nodes is that they pass on what they get, make up answers to     *)
(* messages they have, and answer `remove' once.                           *)
(***************************************************************************)
EXTENDS Cluster, TreeProofs, FiniteSetTheorems

-----------------------------------------------------------------------------
(* The invariant.                                                          *)

\* Where the `remove' of a chain is.
RemovePlace(rec) == IF Len(rec.cmds) = 2 THEN 1 ELSE 3

\* A chain as cmd_remove plans it.
Planned(rec) ==
  /\ rec.target \in Ids
  /\ Len(rec.cmds) \in {2, 5, 6, 7}
  /\ \A k \in 1..Len(rec.cmds) :
       /\ rec.cmds[k].cmd \in ChainCommands
       /\ rec.cmds[k].id \in Ids
       /\ rec.cmds[k].cmd = "remove" <=> k = RemovePlace(rec)
  /\ rec.cmds[RemovePlace(rec)].id = rec.target

\* A chain with a command to be answered.
Unfinished(rec) == Planned(rec) /\ rec.now < Len(rec.cmds)

Chains ==
  /\ \A i \in 1..Len(rmlist) : Unfinished(rmlist[i])
  /\ rcv.at = "push" => Unfinished(rcv.rec)
  /\ rcv.at = "wait" => rcv.rec.target \in Ids
  /\ main.at = "remove" => main.c.cmd \in ChainCommands /\ main.c.id \in Ids
  /\ main.at = "create" => main.c.cmd = "create" /\ main.c.id \in Ids
  /\ main.i > 0

\* A broadcast awaited is known by its number; what is under way with this
\* number is the broadcast, or an answer to it.
AwaitedAreKnown ==
  /\ IsFiniteSet(outstanding)
  /\ \A e \in outstanding : e.uuid < nextUuid /\ e.id \in Ids
  /\ \A e, f \in outstanding : e.uuid = f.uuid => e = f

Traced(m) ==
  m.uuid < nextUuid /\ \A e \in outstanding : e.uuid = m.uuid => e.cmd = m.cmd /\ e.id = m.id

Traffic ==
  \A p \in Procs : /\ \A i \in 1..Len(down[p]) : Traced(down[p][i])
                   /\ \A i \in 1..Len(up[p]) : Traced(up[p][i])

\* A process that has not been waited for is in the array, and what is in the
\* array is the process last forked for the id.
Kept ==
  /\ \A p \in Procs : status[p] \notin {"unborn", "reaped"} =>
       node[p] \in Ids /\ TreeHas(tree, node[p]) /\ proc[node[p]] = p
  /\ \A id \in Ids : TreeHas(tree, id) =>
       proc[id] \in Procs /\ status[proc[id]] # "unborn" /\ node[proc[id]] = id

\* The three stages of the removal of a process that has answered `remove':
\* its answer is under way, a chain has gone past this command, or the
\* receiver waits for the process.
IsAck(r, id) == r.cmd = "remove" /\ r.id = id /\ r.code = "OK"
HasAck(id) == \E p \in Procs : \E i \in 1..Len(up[p]) : IsAck(up[p][i], id)

IsPast(rec, id) == rec.target = id /\ rec.now >= RemovePlace(rec)
HasPast(id) == \E i \in 1..Len(rmlist) : IsPast(rmlist[i], id)

Reaping(id) == rcv.at = "wait" /\ rcv.rec.target = id

AcksOnce(id) == \A p, q \in Procs : \A i \in 1..Len(up[p]), j \in 1..Len(up[q]) :
                  IsAck(up[p][i], id) /\ IsAck(up[q][j], id) => p = q /\ i = j

PastOnce(id) == \A i, j \in 1..Len(rmlist) :
                  IsPast(rmlist[i], id) /\ IsPast(rmlist[j], id) => i = j

\* At most one of them is there, once, and only for a process in the array that
\* does not run.
RemovedOnce(id) ==
  /\ AcksOnce(id) /\ PastOnce(id)
  /\ HasAck(id) => ~HasPast(id) /\ ~Reaping(id)
  /\ HasPast(id) => ~Reaping(id)
  /\ HasAck(id) \/ HasPast(id) \/ Reaping(id) => TreeHas(tree, id) /\ status[proc[id]] # "run"

\* No socket, message or chain has the address of this process.
LinksClean(x) == /\ \A q \in AllProcs, s \in SlotNames : slots[q][s].pid # x
                 /\ \A c \in Procs : \A i \in 1..Len(down[c]) : down[c][i].pid # x
                 /\ down[x] = <<>>

NotIn(cmds, x) == \A k \in 1..Len(cmds) : cmds[k].pid # x

Unused(x) == /\ LinksClean(x)
             /\ \A i \in 1..Len(rmlist) : NotIn(rmlist[i].cmds, x)
             /\ rcv.at = "push" => NotIn(rcv.rec.cmds, x)
             /\ main.at = "remove" => main.c.pid # x

\* So a process that has just been forked cannot be removed before it has been
\* connected, and push_create finds an array with the new node.
Unmarked(id) == ~HasAck(id) /\ ~HasPast(id) /\ ~Reaping(id)

Forked(x, id) == Unused(x) /\ TreeHas(tree, id) /\ proc[id] = x /\ Unmarked(id)

Fresh ==
  /\ \A p \in Procs : status[p] = "unborn" => Unused(p)
  /\ main.at = "create" => main.c.pid \in Procs /\ Forked(main.c.pid, main.c.id)

\* With a user who waits for creations and removals, nothing changes the array
\* any more when the input has ended; the elements the loop has passed are
\* reaped.
Calm ==
  Patience # "none" /\ main.at \in {"kill", "wait", "exit"} =>
    /\ rmlist = <<>> /\ rcv = RcvIdle
    /\ \A k \in 2..Len(tree) : k <= main.i => status[proc[tree[k]]] = "reaped"
    /\ main.at = "exit" => main.i >= Len(tree)

IInv == /\ TypeOK /\ WellFormed(tree) /\ Chains /\ AwaitedAreKnown /\ Traffic
        /\ RecordsMatchAwaited /\ Kept /\ (\A id \in Ids : RemovedOnce(id))
        /\ Fresh /\ Calm

-----------------------------------------------------------------------------
(* Sequences, and how many of their elements wait for a command.           *)

LEMMA TailIs ==
  ASSUME NEW S, NEW s \in Seq(S), s # <<>>
  PROVE  /\ Head(s) \in S /\ Head(s) = s[1] /\ 1 \in 1..Len(s)
         /\ Tail(s) \in Seq(S) /\ Len(Tail(s)) = Len(s) - 1
         /\ \A i \in 1..Len(Tail(s)) : i + 1 \in 1..Len(s) /\ Tail(s)[i] = s[i + 1]
OBVIOUS

LEMMA AppendIs ==
  ASSUME NEW S, NEW s \in Seq(S), NEW e \in S
  PROVE  /\ Append(s, e) \in Seq(S) /\ Len(Append(s, e)) = Len(s) + 1
         /\ \A i \in 1..Len(s) : Append(s, e)[i] = s[i]
         /\ Append(s, e)[Len(s) + 1] = e
OBVIOUS

LEMMA FrontIs ==
  ASSUME NEW S, NEW l \in Seq(S), NEW e \in S
  PROVE  /\ ListInsertFront(l, e) \in Seq(S)
         /\ Len(ListInsertFront(l, e)) = Len(l) + 1
         /\ ListInsertFront(l, e)[1] = e
         /\ \A i \in 1..Len(l) : ListInsertFront(l, e)[i + 1] = l[i]
<1>1. <<e>> \in Seq(S) /\ Len(<<e>>) = 1 /\ <<e>>[1] = e
  OBVIOUS
<1> QED BY <1>1, ConcatProperties DEF ListInsertFront

\* The other elements keep their order.
LEMMA RemovedIs ==
  ASSUME NEW S, NEW l \in Seq(S), NEW i \in 1..Len(l)
  PROVE  /\ ListRemove(l, i) \in Seq(S)
         /\ Len(ListRemove(l, i)) = Len(l) - 1
         /\ \A j \in 1..(Len(l) - 1) : ListRemove(l, i)[j] = IF j < i THEN l[j] ELSE l[j + 1]
<1> DEFINE a == SubSeq(l, 1, i - 1)
           b == SubSeq(l, i + 1, Len(l))
<1>1. Len(l) \in Nat /\ i \in Nat /\ \A j \in 1..Len(l) : l[j] \in S
  OBVIOUS
<1>2. /\ a \in Seq(S) /\ Len(a) = i - 1
      /\ \A j \in 1..(i - 1) : a[j] = l[j]
  <2>1. \A j \in 1..(i - 1) : l[j] \in S
    BY <1>1
  <2>2. i - 1 \in Int /\ 1 \in Int
    BY <1>1
  <2> QED BY <1>1, <2>1, <2>2, SubSeqProperties
<1>3. /\ b \in Seq(S) /\ Len(b) = Len(l) - i
      /\ \A j \in 1..(Len(l) - i) : b[j] = l[i + j]
  <2>1. \A j \in (i + 1)..Len(l) : l[j] \in S
    BY <1>1
  <2>2. i + 1 \in Int /\ Len(l) \in Int
    BY <1>1
  <2>3. /\ b \in Seq(S) /\ Len(b) = (IF i + 1 <= Len(l) THEN Len(l) - (i + 1) + 1 ELSE 0)
        /\ \A j \in 1..(Len(l) - (i + 1) + 1) : b[j] = l[(i + 1) + j - 1]
    BY <2>1, <2>2, SubSeqProperties
  <2> QED BY <1>1, <2>3
<1> HIDE DEF a, b
<1>4. /\ a \o b \in Seq(S) /\ Len(a \o b) = Len(l) - 1
      /\ \A j \in 1..(Len(l) - 1) : (a \o b)[j] = IF j <= i - 1 THEN a[j] ELSE b[j - (i - 1)]
  BY <1>1, <1>2, <1>3, ConcatProperties, SMTT(60)
<1>5. ASSUME NEW j \in 1..(Len(l) - 1)
      PROVE  (a \o b)[j] = IF j < i THEN l[j] ELSE l[j + 1]
  <2>1. CASE j < i
    <3>1. j \in 1..(i - 1) /\ j <= i - 1
      BY <1>1, <2>1
    <3> QED BY <1>2, <1>4, <2>1, <3>1
  <2>2. CASE ~(j < i)
    <3>1. ~(j <= i - 1) /\ j - (i - 1) \in 1..(Len(l) - i) /\ i + (j - (i - 1)) = j + 1
      BY <1>1, <2>2
    <3> QED BY <1>3, <1>4, <2>2, <3>1
  <2> QED BY <2>1, <2>2
<1>6. ListRemove(l, i) = a \o b
  BY DEF ListRemove, SeqExt!RemoveAt, a, b
<1> QED BY <1>4, <1>5, <1>6, SMTT(60)

Num(b) == IF b THEN 1 ELSE 0
Is(c, cmd, id) == c.cmd = cmd /\ c.id = id
Wanting(l, cmd, id) == {i \in 1..Len(l) : Is(Current(l[i]), cmd, id)}

LEMMA WantingFinite ==
  ASSUME NEW S, NEW l \in Seq(S), NEW cmd, NEW id
  PROVE  /\ IsFiniteSet(Wanting(l, cmd, id)) /\ Cardinality(Wanting(l, cmd, id)) \in Nat
         /\ Wanting(l, cmd, id) \subseteq 1..Len(l)
<1>1. IsFiniteSet(1..Len(l))
  <2>1. 1 \in Int /\ Len(l) \in Int
    OBVIOUS
  <2> QED BY <2>1, FS_Interval
<1>2. Wanting(l, cmd, id) \in SUBSET (1..Len(l))
  BY DEF Wanting
<1> QED BY <1>1, <1>2, FS_Subset, FS_CardinalityType

LEMMA WantingFront ==
  ASSUME NEW S, NEW l \in Seq(S), NEW rec \in S, NEW cmd, NEW id
  PROVE  Cardinality(Wanting(ListInsertFront(l, rec), cmd, id))
           = Cardinality(Wanting(l, cmd, id)) + Num(Is(Current(rec), cmd, id))
<1> DEFINE A == Wanting(l, cmd, id)
           n == ListInsertFront(l, rec)
           B == Wanting(n, cmd, id)
           C == {i + 1 : i \in A}
           f == [i \in A |-> i + 1]
<1>1. /\ Len(l) \in Nat /\ n[1] = rec /\ Len(n) = Len(l) + 1
      /\ \A i \in 1..Len(l) : n[i + 1] = l[i]
  <2>1. Len(l) \in Nat
    OBVIOUS
  <2> QED BY <2>1, FrontIs
<1>2. A \subseteq 1..Len(l) /\ IsFiniteSet(A) /\ Cardinality(A) \in Nat
  BY WantingFinite
<1>3. B = C \cup (IF Is(Current(rec), cmd, id) THEN {1} ELSE {})
  <2>1. ASSUME NEW i \in 1..(Len(l) + 1)
        PROVE  i = 1 \/ \E j \in 1..Len(l) : i = j + 1
    <3>1. i # 1 => i - 1 \in 1..Len(l) /\ i = (i - 1) + 1
      BY <1>1
    <3> QED BY <3>1
  <2>2. ASSUME NEW j \in 1..Len(l)
        PROVE  j + 1 \in 1..Len(n) /\ (j + 1 \in B <=> j \in A) /\ j + 1 # 1
    BY <1>1 DEF Wanting
  <2>3. 1 \in B <=> Is(Current(rec), cmd, id)
    BY <1>1 DEF Wanting
  <2>4. B \subseteq 1..(Len(l) + 1)
    BY <1>1 DEF Wanting
  <2>5. \A j \in 1..Len(l) : j + 1 \in C <=> j \in A
    BY <1>2
  <2> HIDE DEF A, B, n
  <2> QED BY <1>2, <2>1, <2>2, <2>3, <2>4, <2>5, ZenonT(60)
<1>4. IsFiniteSet(C) /\ Cardinality(C) = Cardinality(A)
  <2> HIDE DEF A
  <2>1. f \in Bijection(A, C)
    <3>1. f \in Surjection(A, C)
      BY <1>2 DEF Surjection
    <3>2. f \in Injection(A, C)
      BY <1>2 DEF Injection, IsInjective
    <3> QED BY <3>1, <3>2 DEF Bijection
  <2> QED BY <1>2, <2>1, FS_Bijection DEF ExistsBijection
<1>5. 1 \notin C
  BY <1>2
<1> HIDE DEF A, B, C, n
<1>6. Cardinality(B) = Cardinality(A) + Num(Is(Current(rec), cmd, id))
  <2>1. CASE Is(Current(rec), cmd, id)
    <3>1. B = C \cup {1}
      BY <1>3, <2>1
    <3>2. Cardinality(B) = Cardinality(C) + 1
      BY <1>4, <1>5, <3>1, FS_AddElement
    <3> QED BY <1>4, <2>1, <3>2 DEF Num
  <2>2. CASE ~Is(Current(rec), cmd, id)
    <3>1. B = C
      BY <1>3, <2>2
    <3> QED BY <1>2, <1>4, <2>2, <3>1 DEF Num
  <2> QED BY <2>1, <2>2
<1> QED BY <1>6 DEF A, B, n

LEMMA WantingRemoved ==
  ASSUME NEW S, NEW l \in Seq(S), NEW i \in 1..Len(l), NEW cmd, NEW id
  PROVE  Cardinality(Wanting(ListRemove(l, i), cmd, id))
           = Cardinality(Wanting(l, cmd, id)) - Num(Is(Current(l[i]), cmd, id))
<1> DEFINE A == Wanting(l, cmd, id) \ {i}
           n == ListRemove(l, i)
           B == Wanting(n, cmd, id)
           f == [j \in B |-> IF j < i THEN j ELSE j + 1]
<1>1. /\ Len(l) \in Nat /\ i \in Nat /\ Len(n) = Len(l) - 1
      /\ \A j \in 1..(Len(l) - 1) : n[j] = IF j < i THEN l[j] ELSE l[j + 1]
  <2>1. Len(l) \in Nat /\ i \in Nat
    OBVIOUS
  <2> QED BY <2>1, RemovedIs
<1>2. /\ Wanting(l, cmd, id) \subseteq 1..Len(l) /\ IsFiniteSet(Wanting(l, cmd, id))
      /\ Cardinality(Wanting(l, cmd, id)) \in Nat
  BY WantingFinite
<1>3. IsFiniteSet(A) /\ Cardinality(A) = Cardinality(Wanting(l, cmd, id)) - Num(Is(Current(l[i]), cmd, id))
  <2>1. i \in Wanting(l, cmd, id) <=> Is(Current(l[i]), cmd, id)
    BY DEF Wanting
  <2> QED BY <1>2, <2>1, FS_RemoveElement DEF Num
<1>4. B \subseteq 1..(Len(l) - 1)
  BY <1>1 DEF Wanting
<1>5. \A j \in 1..(Len(l) - 1) : j \in B <=> IF j < i THEN j \in A ELSE j + 1 \in A
  BY <1>1 DEF Wanting
<1>6. f \in Bijection(B, A)
  <2> HIDE DEF A, B
  <2>0. A \subseteq 1..Len(l) /\ i \notin A
    BY <1>2 DEF A
  <2>1. f \in [B -> A]
    BY <1>1, <1>4, <1>5
  <2>2. \A x, y \in B : f[x] = f[y] => x = y
    BY <1>1, <1>4
  <2>3. ASSUME NEW a \in A PROVE \E b \in B : f[b] = a
    <3>1. CASE a < i
      <4>1. a \in 1..(Len(l) - 1)
        BY <1>1, <2>0, <3>1
      <4>2. a \in B
        BY <1>5, <3>1, <4>1
      <4> QED BY <3>1, <4>2
    <3>2. CASE ~(a < i)
      <4>1. a # i /\ a \in 1..Len(l)
        BY <2>0
      <4>2. a - 1 \in 1..(Len(l) - 1) /\ ~(a - 1 < i) /\ (a - 1) + 1 = a
        BY <1>1, <3>2, <4>1
      <4>3. a - 1 \in B
        BY <1>5, <4>2
      <4> QED BY <4>2, <4>3
    <3> QED BY <3>1, <3>2
  <2> QED BY <2>1, <2>2, <2>3 DEF Bijection, Injection, IsInjective, Surjection
<1>7. IsFiniteSet(B) /\ Cardinality(A) = Cardinality(B)
  <2>1. IsFiniteSet(B)
    <3>1. B \in SUBSET (1..(Len(l) - 1)) /\ 1 \in Int /\ Len(l) - 1 \in Int
      BY <1>1, <1>4
    <3> QED BY <3>1, FS_Interval, FS_Subset
  <2> HIDE DEF A, B, f
  <2> QED BY <1>6, <2>1, FS_Bijection DEF ExistsBijection
<1> QED BY <1>3, <1>7

LEMMA WantingReplaced ==
  ASSUME NEW S, NEW l \in Seq(S), NEW i \in 1..Len(l), NEW rec \in S, NEW cmd, NEW id
  PROVE  Cardinality(Wanting([l EXCEPT ![i] = rec], cmd, id))
           = Cardinality(Wanting(l, cmd, id)) - Num(Is(Current(l[i]), cmd, id))
             + Num(Is(Current(rec), cmd, id))
<1> DEFINE A == Wanting(l, cmd, id)
           n == [l EXCEPT ![i] = rec]
           B == Wanting(n, cmd, id)
<1>1. /\ Len(n) = Len(l)
      /\ \A j \in 1..Len(l) : n[j] = IF j = i THEN rec ELSE l[j]
  BY ExceptSeq
<1>2. A \subseteq 1..Len(l) /\ IsFiniteSet(A) /\ Cardinality(A) \in Nat
  BY WantingFinite
<1>3. i \in A <=> Is(Current(l[i]), cmd, id)
  BY DEF Wanting
<1>4. B = (A \ {i}) \cup (IF Is(Current(rec), cmd, id) THEN {i} ELSE {})
  BY <1>1 DEF Wanting
<1>5. IsFiniteSet(A \ {i}) /\ Cardinality(A \ {i}) = Cardinality(A) - Num(Is(Current(l[i]), cmd, id))
  <2> HIDE DEF A
  <2> QED BY <1>2, <1>3, FS_RemoveElement DEF Num
<1> HIDE DEF A, B, n
<1>6. CASE Is(Current(rec), cmd, id)
  <2>1. B = (A \ {i}) \cup {i}
    BY <1>4, <1>6
  <2>2. Cardinality(B) = Cardinality(A \ {i}) + 1
    <3>1. i \notin A \ {i}
      OBVIOUS
    <3> QED BY <1>5, <2>1, <3>1, FS_AddElement
  <2>3. Cardinality(B) = Cardinality(A) - Num(Is(Current(l[i]), cmd, id)) + Num(Is(Current(rec), cmd, id))
    BY <1>5, <1>6, <2>2 DEF Num
  <2> QED BY <2>3 DEF A, B, n
<1>7. CASE ~Is(Current(rec), cmd, id)
  <2>1. B = A \ {i}
    BY <1>4, <1>7
  <2>2. Cardinality(B) = Cardinality(A) - Num(Is(Current(l[i]), cmd, id)) + Num(Is(Current(rec), cmd, id))
    BY <1>2, <1>5, <1>7, <2>1 DEF Num
  <2> QED BY <2>2 DEF A, B, n
<1> QED BY <1>6, <1>7

-----------------------------------------------------------------------------
(* The array, and what is planned from it.                                 *)

LEMMA PlanOf ==
  ASSUME NEW t, WellFormed(t), NEW id \in Ids, TreeHas(t, id),
         NEW cs, cs = RemoveCommands(t, id)
  PROVE  /\ Len(cs) \in {2, 5, 6, 7}
         /\ \A k \in 1..Len(cs) :
              /\ cs[k].cmd \in ChainCommands /\ cs[k].id \in Ids /\ cs[k].parent \in AnyId
              /\ TreeHas(t, cs[k].id)
              /\ cs[k].cmd = "remove" <=> k = IF Len(cs) = 2 THEN 1 ELSE 3
         /\ cs[IF Len(cs) = 2 THEN 1 ELSE 3].id = id
<1> DEFINE last == TreeLast(t)
           left == TreeLeft(t, id)
           right == TreeRight(t, id)
           A == RemoveCommandsArray(t, id)
           N == NumberCommands(t, id)
<1>1. TreeHas(t, last) /\ last \in Ids /\ NoId \in AnyId /\ last \in AnyId /\ TreeParent(t, id) \in AnyId
  BY NeighboursOf DEF AnyId
<1>2. CASE last = id
  <2>1. N = 2 /\ A = << Command("remove", id, NoId), Command("disconnect", id, NoId) >>
    BY <1>2 DEF NumberCommands, RemoveCommandsArray
  <2> HIDE DEF A, N
  <2>2. Len(A) = 2 /\ A[1] = Command("remove", id, NoId) /\ A[2] = Command("disconnect", id, NoId)
    BY <2>1
  <2>3. cs = [k \in 1..2 |-> A[k]]
    BY <2>1, <2>2 DEF RemoveCommands, A, N
  <2>4. Len(cs) = 2 /\ cs[1] = Command("remove", id, NoId) /\ cs[2] = Command("disconnect", id, NoId)
    BY <2>2, <2>3
  <2> QED BY <1>1, <2>4 DEF Command, ChainCommands
<1>3. CASE last # id
  <2>1. /\ left \in AnyId /\ right \in AnyId /\ (right # NoId => left # NoId /\ left # last)
        /\ (left # NoId => TreeHas(t, left)) /\ (right # NoId => TreeHas(t, right))
    BY NeighboursOf
  <2>2. N = 5 + (IF left # last /\ left # NoId THEN 1 ELSE 0)
              + (IF right # last /\ right # NoId THEN 1 ELSE 0)
    BY <1>3 DEF NumberCommands
  <2>3. N \in 5..7 /\ (N >= 6 => left \in Ids /\ TreeHas(t, left)) /\ (N = 7 => right \in Ids /\ TreeHas(t, right))
    BY <2>1, IdsAssumption, <2>2 DEF AnyId
  <2>4. /\ Len(A) = 7
        /\ A[1] = Command("ping", id, NoId) /\ A[2] = Command("disconnect", last, NoId)
        /\ A[3] = Command("remove", id, NoId) /\ A[4] = Command("disconnect", id, NoId)
        /\ A[5] = Command("connect", last, TreeParent(t, id))
        /\ A[6] = Command("connect", left, last) /\ A[7] = Command("connect", right, last)
    BY <1>3 DEF RemoveCommandsArray
  <2> HIDE DEF A, N
  <2>5. cs = [k \in 1..N |-> A[k]]
    BY <2>3, <2>4 DEF RemoveCommands, A, N
  <2>6. Len(cs) = N /\ N \in {5, 6, 7}
    BY <2>3, <2>5
  <2>7. \A k \in 1..N : cs[k] = A[k] /\ k \in 1..7
    BY <2>3, <2>5
  <2>8. ASSUME NEW k \in 1..N
        PROVE  /\ cs[k].cmd \in ChainCommands /\ cs[k].id \in Ids /\ cs[k].parent \in AnyId
               /\ TreeHas(t, cs[k].id)
               /\ cs[k].cmd = "remove" <=> k = 3
    <3>1. k \in {1, 2, 3, 4, 5, 6, 7}
      BY <2>7
    <3>2. CASE k = 6
      <4>1. left \in Ids /\ TreeHas(t, left)
        BY <2>3, <3>2
      <4> QED BY <1>1, <2>4, <2>7, <3>2, <4>1 DEF Command, ChainCommands
    <3>3. CASE k = 7
      <4>1. right \in Ids /\ TreeHas(t, right)
        BY <2>3, <3>3
      <4> QED BY <1>1, <2>4, <2>7, <3>3, <4>1 DEF Command, ChainCommands
    <3>4. CASE k \in {1, 2, 3, 4, 5}
      BY <1>1, <2>4, <2>7, <3>4 DEF Command, ChainCommands
    <3> QED BY <3>1, <3>2, <3>3, <3>4
  <2>9. cs[3].id = id
    BY <2>3, <2>4, <2>7 DEF Command
  <2> QED BY <2>6, <2>8, <2>9
<1> QED BY <1>2, <1>3

-----------------------------------------------------------------------------
(* The sockets: what a step of a node can do to the messages and answers   *)
(* under way.                                                              *)

Slot == [id : AnyId, pid : AllProcs]
Links == [AllProcs -> [SlotNames -> Slot]]
Queues(S) == [Procs -> Seq(S)]

\* From the answers u to v: some are dropped, and a may be written by p.
Shortened(u, v) ==
  \A c \in Procs : \E k \in Nat : \A i \in 1..Len(v[c]) :
    i + k \in 1..Len(u[c]) /\ v[c][i] = u[c][i + k]

AnswerAdded(u, v, p, a) ==
  \A c \in Procs : \E k \in Nat : \A i \in 1..Len(v[c]) :
    \/ i + k \in 1..Len(u[c]) /\ v[c][i] = u[c][i + k]
    \/ c = p /\ i = Len(v[c]) /\ v[c][i] = a

\* From the messages q to v: some are dropped, some are copied.
Copied(q, v) ==
  \A c \in Procs : \A i \in 1..Len(v[c]) : \E d \in Procs : \E j \in 1..Len(q[d]) : v[c][i] = q[d][j]

LEMMA PeersType ==
  ASSUME NEW sl \in Links, peer \in [Procs -> AllProcs \cup {NoPeer}]
  PROVE  PeersOf(sl) \in [Procs -> AllProcs \cup {NoPeer}]
<1>1. ASSUME NEW c \in Procs,
             NEW claims, claims = {q \in AllProcs : \E s \in SlotNames : sl[q][s].pid = c}
      PROVE  (IF peer[c] \in claims THEN peer[c]
              ELSE IF claims = {} THEN NoPeer
              ELSE CHOOSE q \in claims : TRUE) \in AllProcs \cup {NoPeer}
  <2>1. claims \subseteq AllProcs
    BY <1>1
  <2>2. claims # {} => (CHOOSE q \in claims : TRUE) \in claims
    OBVIOUS
  <2> QED BY <2>1, <2>2
<1> QED BY <1>1, ZenonT(60) DEF PeersOf

LEMMA RewireIs ==
  ASSUME peer \in [Procs -> AllProcs \cup {NoPeer}],
         NEW sl \in Links, NEW queue \in Queues(Reply), Rewire(sl, queue)
  PROVE  /\ slots' \in Links /\ peer' \in [Procs -> AllProcs \cup {NoPeer}]
         /\ up' \in Queues(Reply)
         /\ \A c \in Procs : up'[c] = queue[c] \/ up'[c] = <<>>
<1>1. slots' = sl /\ peer' = PeersOf(sl)
      /\ up' = [c \in Procs |-> IF PeersOf(sl)[c] = peer[c] THEN queue[c] ELSE <<>>]
  BY DEF Rewire
<1>2. <<>> \in Seq(Reply)
  OBVIOUS
<1>3. \A c \in Procs : queue[c] \in Seq(Reply)
  BY DEF Queues
<1>4. up' \in Queues(Reply)
  BY <1>1, <1>2, <1>3, Zenon DEF Queues
<1>5. \A c \in Procs : up'[c] = queue[c] \/ up'[c] = <<>>
  BY <1>1, Zenon
<1> QED BY <1>1, <1>4, <1>5, PeersType

\* Nothing more is dropped by Rewire than whole queues.
LEMMA RewireAdds ==
  ASSUME NEW u, NEW q, NEW v, NEW p, NEW a, AnswerAdded(u, q, p, a),
         \A c \in Procs : v[c] = q[c] \/ v[c] = <<>>
  PROVE  AnswerAdded(u, v, p, a)
<1> SUFFICES ASSUME NEW c \in Procs
             PROVE  \E k \in Nat : \A i \in 1..Len(v[c]) :
                      \/ i + k \in 1..Len(u[c]) /\ v[c][i] = u[c][i + k]
                      \/ c = p /\ i = Len(v[c]) /\ v[c][i] = a
  BY DEF AnswerAdded
<1>1. CASE v[c] = q[c]
  <2>1. \E k \in Nat : \A i \in 1..Len(q[c]) :
          \/ i + k \in 1..Len(u[c]) /\ q[c][i] = u[c][i + k]
          \/ c = p /\ i = Len(q[c]) /\ q[c][i] = a
    BY Zenon DEF AnswerAdded
  <2> QED BY <1>1, <2>1, Zenon
<1>2. CASE v[c] = <<>>
  <2>1. 1..Len(v[c]) = {}
    BY <1>2
  <2> QED BY <2>1
<1> QED BY <1>1, <1>2

LEMMA RewireShortens ==
  ASSUME NEW u, NEW q, NEW v, Shortened(u, q), \A c \in Procs : v[c] = q[c] \/ v[c] = <<>>
  PROVE  Shortened(u, v)
<1> SUFFICES ASSUME NEW c \in Procs
             PROVE  \E k \in Nat : \A i \in 1..Len(v[c]) :
                      i + k \in 1..Len(u[c]) /\ v[c][i] = u[c][i + k]
  BY DEF Shortened
<1>1. CASE v[c] = q[c]
  BY <1>1, ZenonT(60) DEF Shortened
<1>2. CASE v[c] = <<>>
  <2>1. 1..Len(v[c]) = {}
    BY <1>2
  <2> QED BY <2>1
<1> QED BY <1>1, <1>2

LEMMA RestIs ==
  ASSUME down \in Queues(Message), NEW p \in Procs, down[p] # <<>>
  PROVE  /\ Taken(p) \in Message /\ 1 \in 1..Len(down[p]) /\ Taken(p) = down[p][1]
         /\ Rest(p) \in Queues(Message)
         /\ Copied(down, Rest(p))
         /\ \A x \in Procs : down[x] = <<>> => Rest(p)[x] = <<>>
<1>1. down[p] \in Seq(Message)
  BY DEF Queues
<1>2. /\ Head(down[p]) \in Message /\ Head(down[p]) = down[p][1] /\ 1 \in 1..Len(down[p])
      /\ Tail(down[p]) \in Seq(Message)
      /\ \A i \in 1..Len(Tail(down[p])) : i + 1 \in 1..Len(down[p]) /\ Tail(down[p])[i] = down[p][i + 1]
  BY <1>1, TailIs
<1>3. Rest(p) \in Queues(Message)
  BY <1>2 DEF Rest, Queues
<1>4. \A c \in Procs : Rest(p)[c] = IF c = p THEN Tail(down[p]) ELSE down[c]
  BY DEF Rest, Queues
<1>5. Copied(down, Rest(p))
  BY <1>2, <1>4, ZenonT(60) DEF Copied
<1>6. \A x \in Procs : down[x] = <<>> => Rest(p)[x] = <<>>
  BY <1>4
<1> QED BY <1>2, <1>3, <1>5, <1>6 DEF Taken

LEMMA PushedIs ==
  ASSUME NEW q \in Queues(Message), NEW p, NEW m \in Message
  PROVE  /\ Pushed(q, p, m) \in Queues(Message)
         /\ \A c \in Procs : \A i \in 1..Len(Pushed(q, p, m)[c]) :
              (i \in 1..Len(q[c]) /\ Pushed(q, p, m)[c][i] = q[c][i]) \/ Pushed(q, p, m)[c][i] = m
         /\ \A c \in Procs : c \notin ChildPids(p) => Pushed(q, p, m)[c] = q[c]
<1>1. \A c \in Procs : q[c] \in Seq(Message)
  BY DEF Queues
<1>2. \A c \in Procs : Append(q[c], m) \in Seq(Message)
  BY <1>1
<1>3. Pushed(q, p, m) \in Queues(Message)
  BY <1>1, <1>2, Zenon DEF Pushed, Queues
<1>4. ASSUME NEW c \in Procs
      PROVE  Pushed(q, p, m)[c] = Append(q[c], m) \/ Pushed(q, p, m)[c] = q[c]
  BY Zenon DEF Pushed
<1>5. ASSUME NEW c \in Procs, NEW i \in 1..Len(Pushed(q, p, m)[c])
      PROVE  (i \in 1..Len(q[c]) /\ Pushed(q, p, m)[c][i] = q[c][i]) \/ Pushed(q, p, m)[c][i] = m
  <2>1. CASE Pushed(q, p, m)[c] = q[c]
    BY <1>5, <2>1
  <2>2. CASE Pushed(q, p, m)[c] = Append(q[c], m)
    <3>1. /\ Len(Append(q[c], m)) = Len(q[c]) + 1 /\ Append(q[c], m)[Len(q[c]) + 1] = m
          /\ \A j \in 1..Len(q[c]) : Append(q[c], m)[j] = q[c][j]
      BY <1>1
    <3>2. Len(q[c]) \in Nat
      BY <1>1
    <3>3. i \in 1..Len(q[c]) \/ i = Len(q[c]) + 1
      BY <1>5, <2>2, <3>1, <3>2
    <3> QED BY <2>2, <3>1, <3>3
  <2> QED BY <1>4, <2>1, <2>2
<1>6. \A c \in Procs : c \notin ChildPids(p) => Pushed(q, p, m)[c] = q[c]
  BY Zenon DEF Pushed
<1> QED BY <1>3, <1>5, <1>6

LEMMA AnsweredIs ==
  ASSUME down \in Queues(Message), up \in Queues(Reply), NEW p \in Procs, down[p] # <<>>,
         NEW code \in Codes, NEW value \in Values \cup {NoValue},
         NEW a, a = Answer(Taken(p), code, value)
  PROVE  /\ a \in Reply /\ a.cmd = Taken(p).cmd /\ a.id = Taken(p).id /\ a.uuid = Taken(p).uuid
         /\ a.code = code
         /\ Answered(p, code, value) \in Queues(Reply)
         /\ AnswerAdded(up, Answered(p, code, value), p, a)
<1>1. Taken(p) \in Message
  BY RestIs
<1>2. a \in Reply /\ a.cmd = Taken(p).cmd /\ a.id = Taken(p).id /\ a.uuid = Taken(p).uuid /\ a.code = code
  BY <1>1 DEF Answer, Message, Reply
<1>3. \A c \in Procs : up[c] \in Seq(Reply) /\ Len(up[c]) \in Nat
  BY DEF Queues
<1>4. Append(up[p], a) \in Seq(Reply)
  BY <1>2, <1>3
<1> DEFINE v == Answered(p, code, value)
<1>5. v = [up EXCEPT ![p] = Append(up[p], a)]
  BY DEF Answered
<1>6. v \in Queues(Reply) /\ \A c \in Procs : v[c] = IF c = p THEN Append(up[p], a) ELSE up[c]
  BY <1>4, <1>5 DEF Queues
<1> HIDE DEF v
<1>7. ASSUME NEW c \in Procs
      PROVE  \A i \in 1..Len(v[c]) :
               \/ i + 0 \in 1..Len(up[c]) /\ v[c][i] = up[c][i + 0]
               \/ c = p /\ i = Len(v[c]) /\ v[c][i] = a
  <2>1. CASE c # p
    BY <1>3, <1>6, <2>1
  <2>2. CASE c = p
    <3>0. v[c] = Append(up[p], a) /\ up[p] \in Seq(Reply) /\ a \in Reply
      BY <1>2, <1>3, <1>6, <2>2
    <3>1. /\ v[c] = Append(up[p], a) /\ Len(v[c]) = Len(up[p]) + 1 /\ v[c][Len(up[p]) + 1] = a
          /\ \A i \in 1..Len(up[p]) : v[c][i] = up[p][i]
      BY <3>0, AppendIs
    <3> QED BY <1>3, <2>2, <3>1
  <2> QED BY <2>1, <2>2
<1>8. AnswerAdded(up, v, p, a)
  <2>1. 0 \in Nat
    OBVIOUS
  <2> QED BY <1>7, <2>1 DEF AnswerAdded
<1> QED BY <1>2, <1>6, <1>8 DEF v

-----------------------------------------------------------------------------
(* What a step of the process p amounts to, for the control node.          *)

Echo(r) ==
  \E d \in Procs :
    \/ \E j \in 1..Len(up[d]) : r = up[d][j]
    \/ \E j \in 1..Len(down[d]) : /\ r.uuid = down[d][j].uuid
                                  /\ r.cmd = down[d][j].cmd /\ r.id = down[d][j].id

Echoes == \A c \in Procs : \A i \in 1..Len(up'[c]) : Echo(up'[c][i])

\* No ack comes in.
AcksKept(id) == (AcksOnce(id) => AcksOnce(id)') /\ (HasAck(id)' => HasAck(id))

\* p ends, or not; and only when it ends, an ack for its own id comes in.
Ends(p) == p \in Procs /\ status[p] = "run" /\ status'[p] \in {"stuck", "zombie"}

\* A process that lives may end, and be waited for; nothing else happens to any.
Dies == \A q \in Procs :
          \/ status'[q] = status[q]
          \/ status[q] \in {"run", "stuck", "zombie"} /\ status'[q] \in {"stuck", "zombie", "reaped"}

Acknowledges(p) ==
  \A id \in Ids : \/ AcksKept(id)
                  \/ /\ Ends(p) /\ node[p] = id /\ down[p] # <<>>
                     /\ ~HasAck(id) => AcksOnce(id)'

\* An address that nothing knows stays unknown.
Cleans == \A x \in Procs : LinksClean(x) => LinksClean(x)'

LinksOK == LinkTypeOK(Message, Reply) /\ dict \in [Procs -> Values \cup {NoValue}]

Effect(p) ==
  /\ UNCHANGED <<node, tree, proc, outstanding, nextUuid, rmlist, rcv>>
  /\ LinksOK'
  /\ Copied(down, down') /\ Echoes /\ Cleans
  /\ Dies
  /\ Acknowledges(p)

LEMMA AddedNone ==
  ASSUME up \in Queues(Reply), NEW p, NEW a, AnswerAdded(up, up', p, a),
         NEW id \in Ids, ~IsAck(a, id)
  PROVE  AcksKept(id)
<1>1. ASSUME AcksOnce(id), NEW c \in Procs, NEW d \in Procs,
             NEW i \in 1..Len(up'[c]), NEW j \in 1..Len(up'[d]),
             IsAck(up'[c][i], id), IsAck(up'[d][j], id)
      PROVE  c = d /\ i = j
  <2>1. PICK k \in Nat : \A n \in 1..Len(up'[c]) :
          \/ n + k \in 1..Len(up[c]) /\ up'[c][n] = up[c][n + k]
          \/ c = p /\ n = Len(up'[c]) /\ up'[c][n] = a
    BY Zenon DEF AnswerAdded
  <2>2. i + k \in 1..Len(up[c]) /\ IsAck(up[c][i + k], id)
    BY <1>1, <2>1
  <2>3. CASE c = d
    <3>1. j + k \in 1..Len(up[c]) /\ IsAck(up[c][j + k], id)
      BY <1>1, <2>1, <2>3
    <3>2. i + k = j + k
      BY <1>1, <2>2, <3>1 DEF AcksOnce
    <3> QED BY <2>3, <3>2
  <2>4. CASE c # d
    <3>1. PICK l \in Nat : \A n \in 1..Len(up'[d]) :
            \/ n + l \in 1..Len(up[d]) /\ up'[d][n] = up[d][n + l]
            \/ d = p /\ n = Len(up'[d]) /\ up'[d][n] = a
      BY Zenon DEF AnswerAdded
    <3>2. j + l \in 1..Len(up[d]) /\ IsAck(up[d][j + l], id)
      BY <1>1, <3>1
    <3> QED BY <1>1, <2>2, <2>4, <3>2 DEF AcksOnce
  <2> QED BY <2>3, <2>4
<1>2. ASSUME NEW c \in Procs, NEW i \in 1..Len(up'[c]), IsAck(up'[c][i], id)
      PROVE  HasAck(id)
  <2>1. PICK k \in Nat : \A n \in 1..Len(up'[c]) :
          \/ n + k \in 1..Len(up[c]) /\ up'[c][n] = up[c][n + k]
          \/ c = p /\ n = Len(up'[c]) /\ up'[c][n] = a
    BY Zenon DEF AnswerAdded
  <2>2. i + k \in 1..Len(up[c]) /\ IsAck(up[c][i + k], id)
    BY <1>2, <2>1
  <2> QED BY <2>2 DEF HasAck
<1>3. AcksOnce(id) => AcksOnce(id)'
  BY <1>1 DEF AcksOnce
<1>4. HasAck(id)' => HasAck(id)
  BY <1>2 DEF HasAck
<1> QED BY <1>3, <1>4 DEF AcksKept

\* The first ack is the only one.
LEMMA AddedFirst ==
  ASSUME up \in Queues(Reply), NEW p, NEW a, AnswerAdded(up, up', p, a),
         NEW id \in Ids, ~HasAck(id)
  PROVE  AcksOnce(id)'
<1>1. ASSUME NEW c \in Procs, NEW i \in 1..Len(up'[c]), IsAck(up'[c][i], id)
      PROVE  c = p /\ i = Len(up'[c])
  <2>1. PICK k \in Nat : \A n \in 1..Len(up'[c]) :
          \/ n + k \in 1..Len(up[c]) /\ up'[c][n] = up[c][n + k]
          \/ c = p /\ n = Len(up'[c]) /\ up'[c][n] = a
    BY Zenon DEF AnswerAdded
  <2>2. ~(i + k \in 1..Len(up[c]) /\ up'[c][i] = up[c][i + k])
    BY <1>1 DEF HasAck
  <2> QED BY <2>1, <2>2
<1> QED BY <1>1 DEF AcksOnce

LEMMA ShortenedIsAdded ==
  ASSUME NEW u, NEW v, Shortened(u, v), NEW p, NEW a
  PROVE  AnswerAdded(u, v, p, a)
<1> SUFFICES ASSUME NEW c \in Procs
             PROVE  \E k \in Nat : \A i \in 1..Len(v[c]) :
                      \/ i + k \in 1..Len(u[c]) /\ v[c][i] = u[c][i + k]
                      \/ c = p /\ i = Len(v[c]) /\ v[c][i] = a
  BY DEF AnswerAdded
<1>1. PICK k \in Nat : \A i \in 1..Len(v[c]) : i + k \in 1..Len(u[c]) /\ v[c][i] = u[c][i + k]
  BY DEF Shortened
<1> QED BY <1>1

LEMMA ShortenedNone ==
  ASSUME up \in Queues(Reply), Shortened(up, up'), NEW id \in Ids
  PROVE  AcksKept(id)
<1>1. ~IsAck([cmd |-> "ping"], id)
  BY DEF IsAck
<1> QED BY <1>1, ShortenedIsAdded, AddedNone

LEMMA AddedEchoes ==
  ASSUME NEW p, NEW a, AnswerAdded(up, up', p, a), Echo(a)
  PROVE  Echoes
<1> SUFFICES ASSUME NEW c \in Procs, NEW i \in 1..Len(up'[c])
             PROVE  Echo(up'[c][i])
  BY DEF Echoes
<1>1. PICK k \in Nat : \A n \in 1..Len(up'[c]) :
        \/ n + k \in 1..Len(up[c]) /\ up'[c][n] = up[c][n + k]
        \/ c = p /\ n = Len(up'[c]) /\ up'[c][n] = a
  BY Zenon DEF AnswerAdded
<1>2. CASE i + k \in 1..Len(up[c]) /\ up'[c][i] = up[c][i + k]
  BY <1>2 DEF Echo
<1> QED BY <1>1, <1>2

LEMMA ShortenedEchoes ==
  ASSUME Shortened(up, up')
  PROVE  Echoes
<1> SUFFICES ASSUME NEW c \in Procs, NEW i \in 1..Len(up'[c])
             PROVE  Echo(up'[c][i])
  BY DEF Echoes
<1>1. PICK k \in Nat : \A n \in 1..Len(up'[c]) : n + k \in 1..Len(up[c]) /\ up'[c][n] = up[c][n + k]
  BY DEF Shortened
<1> QED BY <1>1 DEF Echo

LEMMA SameIsShortened ==
  ASSUME NEW u
  PROVE  Shortened(u, u) /\ Copied(u, u)
<1>1. \A c \in Procs : \A i \in 1..Len(u[c]) : i + 0 \in 1..Len(u[c]) /\ u[c][i] = u[c][i + 0]
  OBVIOUS
<1>2. 0 \in Nat
  OBVIOUS
<1>3. Shortened(u, u)
  BY <1>1, <1>2 DEF Shortened
<1> QED BY <1>3 DEF Copied

LEMMA CleansAre ==
  ASSUME Copied(down, down'),
         \A x \in Procs : LinksClean(x) =>
           down'[x] = <<>> /\ \A q \in AllProcs, s \in SlotNames : slots'[q][s].pid # x
  PROVE  Cleans
<1> SUFFICES ASSUME NEW x \in Procs, LinksClean(x), NEW c \in Procs, NEW i \in 1..Len(down'[c])
             PROVE  down'[c][i].pid # x
  BY DEF Cleans, LinksClean
<1>1. PICK d \in Procs : \E j \in 1..Len(down[d]) : down'[c][i] = down[d][j]
  BY ZenonT(60) DEF Copied
<1> QED BY <1>1 DEF LinksClean

\* Closing sockets leaves undeliverable messages with the process that closes
\* them, or with none.
LEMMA LingersWithin ==
  ASSUME linger \subseteq AllProcs, NEW p \in AllProcs, NEW pids,
         NEW left \in LingersAfterClose(p, pids)
  PROVE  left \subseteq AllProcs /\ left \in {linger, linger \cup {p}}
<1>1. left \in {linger, linger \cup {p}}
  BY DEF LingersAfterClose
<1> QED BY <1>1

\* The child slots after a step.
LEMMA SlotsAfter ==
  ASSUME slots \in Links, NEW p \in AllProcs, NEW child \in Slot, NEW id
  PROVE  /\ [slots EXCEPT ![p] = Connected(@, child)] \in Links
         /\ [slots EXCEPT ![p] = Closed(@, id)] \in Links
         /\ [slots EXCEPT ![p] = [s \in SlotNames |-> NoChild]] \in Links
<1> DEFINE Pair == [SlotNames -> Slot]
<1>1. "left" \in SlotNames /\ "right" \in SlotNames
  BY DEF SlotNames
<1>2. slots[p] \in Pair
  BY DEF Links
<1>3. NoChild \in Slot
  <2>1. NoId \in AnyId /\ Control \in AllProcs
    BY DEF AnyId, AllProcs
  <2> QED BY <2>1 DEF NoChild, Slot
<1>4. \A s \in SlotNames : [slots[p] EXCEPT ![s] = child] \in Pair /\ [slots[p] EXCEPT ![s] = NoChild] \in Pair
  <2> HIDE DEF Slot
  <2> QED BY <1>2, <1>3
<1> DEFINE co == Connected(slots[p], child)
           cl == Closed(slots[p], id)
           no == [s \in SlotNames |-> NoChild]
<1>5. co \in Pair
  BY <1>1, <1>2, <1>4 DEF Connected
<1>6. cl \in Pair
  <2>1. SlotToClose(slots[p], id) \in SlotNames
    BY <1>1 DEF SlotToClose
  <2> QED BY <1>4, <2>1 DEF Closed
<1>7. no \in Pair
  BY <1>3
<1>8. \A x \in Pair : [slots EXCEPT ![p] = x] \in Links
  <2> HIDE DEF Pair
  <2>1. Links = [AllProcs -> Pair]
    BY DEF Links, Pair
  <2> QED BY <2>1
<1> HIDE DEF co, cl, no, Pair
<1>10. /\ [slots EXCEPT ![p] = co] \in Links /\ [slots EXCEPT ![p] = cl] \in Links
       /\ [slots EXCEPT ![p] = no] \in Links
  BY <1>5, <1>6, <1>7, <1>8
<1> QED BY <1>10 DEF co, cl, no

LEMMA PairClean ==
  ASSUME slots \in Links, NEW p \in AllProcs, NEW y, NEW x \in Procs,
         \A q \in AllProcs, s \in SlotNames : slots[q][s].pid # x,
         \A s \in SlotNames : y[s].pid # x
  PROVE  \A q \in AllProcs, s \in SlotNames : [slots EXCEPT ![p] = y][q][s].pid # x
BY DEF Links

LEMMA SlotClean ==
  ASSUME slots \in Links, NEW p \in AllProcs, NEW x \in Procs,
         \A q \in AllProcs, s \in SlotNames : slots[q][s].pid # x,
         NEW child, child.pid # x, NEW t \in SlotNames
  PROVE  \A s \in SlotNames : [slots[p] EXCEPT ![t] = child][s].pid # x
<1>1. slots[p] \in [SlotNames -> Slot]
  BY DEF Links
<1> HIDE DEF Slot
<1> QED BY <1>1

LEMMA ConnectedClean ==
  ASSUME slots \in Links, NEW p \in AllProcs, NEW child, NEW x \in Procs,
         \A q \in AllProcs, s \in SlotNames : slots[q][s].pid # x, child.pid # x
  PROVE  \A q \in AllProcs, s \in SlotNames :
           [slots EXCEPT ![p] = Connected(@, child)][q][s].pid # x
<1> DEFINE co == Connected(slots[p], child)
<1>1. \A s \in SlotNames : co[s].pid # x
  <2>1. "left" \in SlotNames /\ "right" \in SlotNames
    BY DEF SlotNames
  <2> QED BY <2>1, SlotClean DEF Connected
<1> HIDE DEF co
<1>2. \A q \in AllProcs, s \in SlotNames : [slots EXCEPT ![p] = co][q][s].pid # x
  BY <1>1, PairClean
<1> QED BY <1>2 DEF co

LEMMA ClosedClean ==
  ASSUME slots \in Links, NEW p \in AllProcs, NEW id, NEW x \in Procs,
         \A q \in AllProcs, s \in SlotNames : slots[q][s].pid # x
  PROVE  \A q \in AllProcs, s \in SlotNames :
           [slots EXCEPT ![p] = Closed(@, id)][q][s].pid # x
<1> DEFINE cl == Closed(slots[p], id)
<1>1. \A s \in SlotNames : cl[s].pid # x
  <2>1. SlotToClose(slots[p], id) \in SlotNames /\ NoChild.pid # x
    BY DEF SlotToClose, SlotNames, NoChild, Procs, Control
  <2> QED BY <2>1, SlotClean DEF Closed
<1> HIDE DEF cl
<1>2. \A q \in AllProcs, s \in SlotNames : [slots EXCEPT ![p] = cl][q][s].pid # x
  BY <1>1, PairClean
<1> QED BY <1>2 DEF cl

LEMMA EmptyClean ==
  ASSUME slots \in Links, NEW p \in AllProcs, NEW x \in Procs,
         \A q \in AllProcs, s \in SlotNames : slots[q][s].pid # x
  PROVE  \A q \in AllProcs, s \in SlotNames :
           [slots EXCEPT ![p] = [t \in SlotNames |-> NoChild]][q][s].pid # x
<1> DEFINE no == [t \in SlotNames |-> NoChild]
<1>1. \A s \in SlotNames : no[s].pid # x
  BY DEF NoChild, Procs, Control
<1> HIDE DEF no
<1>2. \A q \in AllProcs, s \in SlotNames : [slots EXCEPT ![p] = no][q][s].pid # x
  BY <1>1, PairClean
<1> QED BY <1>2 DEF no

\* An answer to the message taken, which is not an ack.
LEMMA AnswerEffect ==
  ASSUME LinksOK, LinksOK', NEW p \in Procs, down[p] # <<>>,
         UNCHANGED <<node, tree, proc, outstanding, nextUuid, rmlist, rcv>>,
         status' = status, Copied(down, down'), Cleans,
         NEW a, a.uuid = Taken(p).uuid, a.cmd = Taken(p).cmd, a.id = Taken(p).id,
         a.cmd # "remove" \/ a.code # "OK",
         AnswerAdded(up, up', p, a)
  PROVE  Effect(p)
<1>1. up \in Queues(Reply) /\ down \in Queues(Message)
  BY DEF LinksOK, LinkTypeOK, Queues
<1>2. 1 \in 1..Len(down[p]) /\ Taken(p) = down[p][1]
  BY <1>1, RestIs
<1>3. Echo(a)
  BY <1>2 DEF Echo
<1>4. Echoes
  BY <1>3, AddedEchoes
<1>5. \A id \in Ids : AcksKept(id)
  <2>1. \A id \in Ids : ~IsAck(a, id)
    BY DEF IsAck
  <2> QED BY <1>1, <2>1, AddedNone
<1> QED BY <1>4, <1>5 DEF Effect, Acknowledges, Dies

\* No answer.
LEMMA SilentEffect ==
  ASSUME LinksOK, LinksOK', NEW p,
         UNCHANGED <<node, tree, proc, outstanding, nextUuid, rmlist, rcv>>,
         Dies,
         Copied(down, down'), Cleans, Shortened(up, up')
  PROVE  Effect(p)
<1>1. up \in Queues(Reply)
  BY DEF LinksOK, LinkTypeOK, Queues
<1>2. \A id \in Ids : AcksKept(id)
  BY <1>1, ShortenedNone
<1> QED BY <1>2, ShortenedEchoes DEF Effect, Acknowledges

LEMMA LinkFacts ==
  ASSUME LinksOK
  PROVE  /\ status \in [Procs -> {"unborn", "run", "stuck", "zombie", "reaped"}]
         /\ slots \in Links /\ peer \in [Procs -> AllProcs \cup {NoPeer}]
         /\ down \in Queues(Message) /\ up \in Queues(Reply) /\ linger \subseteq AllProcs
         /\ dict \in [Procs -> Values \cup {NoValue}]
BY DEF LinksOK, LinkTypeOK, Links, Slot, Queues

LEMMA LinksAfter ==
  ASSUME status' \in [Procs -> {"unborn", "run", "stuck", "zombie", "reaped"}],
         slots' \in Links, peer' \in [Procs -> AllProcs \cup {NoPeer}],
         down' \in Queues(Message), up' \in Queues(Reply), linger' \subseteq AllProcs,
         dict' \in [Procs -> Values \cup {NoValue}]
  PROVE  LinksOK'
BY DEF LinksOK, LinkTypeOK, Links, Slot, Queues

LEMMA CodeFacts ==
  /\ "OK" \in Codes /\ "NOT_FOUND" \in Codes /\ "CUSTOM" \in Codes
  /\ NoValue \in Values \cup {NoValue}
BY DEF Codes

LEMMA PingEffect ==
  ASSUME LinksOK, NEW p \in Procs, Ping(p), UNCHANGED controlVars
  PROVE  Effect(p)
<1> DEFINE a == Answer(Taken(p), "OK", NoValue)
<1>1. /\ down[p] # <<>> /\ Taken(p).cmd = "ping" /\ down' = Rest(p) /\ up' = Answered(p, "OK", NoValue)
      /\ UNCHANGED <<status, slots, peer, linger, node, dict>>
  BY DEF Ping, Taking
<1>2. /\ a \in Reply /\ a.cmd = Taken(p).cmd /\ a.id = Taken(p).id /\ a.uuid = Taken(p).uuid
      /\ up' \in Queues(Reply) /\ AnswerAdded(up, up', p, a)
  BY <1>1, LinkFacts, CodeFacts, AnsweredIs
<1>3. down' \in Queues(Message) /\ Copied(down, down')
  BY <1>1, LinkFacts, RestIs
<1> HIDE DEF a
<1>4. LinksOK'
  BY <1>1, <1>2, <1>3, LinkFacts, LinksAfter
<1>5. UNCHANGED <<node, tree, proc, outstanding, nextUuid, rmlist, rcv>>
  BY <1>1 DEF controlVars
<1>6. Cleans
  <2>1. \A x \in Procs : LinksClean(x) => down'[x] = <<>>
    BY <1>1, LinkFacts, RestIs DEF LinksClean
  <2> QED BY <1>1, <1>3, <2>1, CleansAre DEF LinksClean
<1> QED BY <1>1, <1>2, <1>3, <1>4, <1>5, <1>6, AnswerEffect

LEMMA ExecEffect ==
  ASSUME LinksOK, NEW p \in Procs, Exec(p), UNCHANGED controlVars
  PROVE  Effect(p)
<1>1. /\ down[p] # <<>> /\ Taken(p).cmd = "exec" /\ down' = Rest(p)
      /\ UNCHANGED <<status, slots, peer, linger, node>>
      /\ dict' = [dict EXCEPT ![p] = IF Taken(p).arg # Get /\ @ = NoValue THEN Taken(p).arg ELSE @]
  BY DEF Exec, Taking
<1>2. \E code \in Codes : \E value \in Values \cup {NoValue} : up' = Answered(p, code, value)
  <2>1. dict[p] \in Values \cup {NoValue}
    BY LinkFacts
  <2> QED BY <2>1, CodeFacts DEF Exec
<1>3. PICK code \in Codes, value \in Values \cup {NoValue} : up' = Answered(p, code, value)
  BY <1>2
<1> DEFINE a == Answer(Taken(p), code, value)
<1>4. /\ a \in Reply /\ a.cmd = Taken(p).cmd /\ a.id = Taken(p).id /\ a.uuid = Taken(p).uuid
      /\ up' \in Queues(Reply) /\ AnswerAdded(up, up', p, a)
  BY <1>1, <1>3, LinkFacts, AnsweredIs
<1> HIDE DEF a
<1>5. down' \in Queues(Message) /\ Copied(down, down') /\ Taken(p) \in Message
  BY <1>1, LinkFacts, RestIs
<1>6. dict' \in [Procs -> Values \cup {NoValue}]
  <2>1. Taken(p).arg \in Values \cup {NoValue, Get}
    BY <1>5 DEF Message
  <2>2. dict \in [Procs -> Values \cup {NoValue}]
    BY LinkFacts
  <2> QED BY <1>1, <2>1, <2>2
<1>7. LinksOK'
  BY <1>1, <1>4, <1>5, <1>6, LinkFacts, LinksAfter
<1>8. UNCHANGED <<node, tree, proc, outstanding, nextUuid, rmlist, rcv>>
  BY <1>1 DEF controlVars
<1>9. Cleans
  <2>1. \A x \in Procs : LinksClean(x) => down'[x] = <<>>
    BY <1>1, LinkFacts, RestIs DEF LinksClean
  <2> QED BY <1>1, <1>5, <2>1, CleansAre DEF LinksClean
<1> QED BY <1>1, <1>4, <1>5, <1>7, <1>8, <1>9, AnswerEffect

LEMMA PushNextEffect ==
  ASSUME LinksOK, NEW p \in Procs, PushNext(p), UNCHANGED controlVars
  PROVE  Effect(p)
<1>1. /\ down[p] # <<>> /\ UNCHANGED <<status, slots, peer, linger, node, dict>>
      /\ \/ down' = Pushed(Rest(p), p, Taken(p)) /\ up' = up
         \/ down' = Rest(p) /\ up' = Answered(p, "NOT_FOUND", NoValue)
  BY DEF PushNext, Taking
<1>2. UNCHANGED <<node, tree, proc, outstanding, nextUuid, rmlist, rcv>>
  BY <1>1 DEF controlVars
<1>3. /\ Taken(p) \in Message /\ 1 \in 1..Len(down[p]) /\ Taken(p) = down[p][1]
      /\ Rest(p) \in Queues(Message) /\ Copied(down, Rest(p))
      /\ \A x \in Procs : down[x] = <<>> => Rest(p)[x] = <<>>
  BY <1>1, LinkFacts, RestIs
<1>4. CASE down' = Pushed(Rest(p), p, Taken(p)) /\ up' = up
  <2>1. /\ down' \in Queues(Message)
        /\ \A c \in Procs : \A i \in 1..Len(down'[c]) :
             (i \in 1..Len(Rest(p)[c]) /\ down'[c][i] = Rest(p)[c][i]) \/ down'[c][i] = Taken(p)
        /\ \A c \in Procs : c \notin ChildPids(p) => down'[c] = Rest(p)[c]
    <3> DEFINE q == Rest(p)
               m == Taken(p)
               pushed == Pushed(q, p, m)
    <3>1. q \in Queues(Message) /\ m \in Message
      BY <1>3
    <3> HIDE DEF q, m
    <3>2. /\ pushed \in Queues(Message)
          /\ \A c \in Procs : \A i \in 1..Len(pushed[c]) :
               (i \in 1..Len(q[c]) /\ pushed[c][i] = q[c][i]) \/ pushed[c][i] = m
          /\ \A c \in Procs : c \notin ChildPids(p) => pushed[c] = q[c]
      BY ONLY <3>1, PushedIs, ZenonT(60)
    <3>3. down' = pushed
      BY <1>4 DEF q, m
    <3> HIDE DEF pushed
    <3>4. /\ down' \in Queues(Message)
          /\ \A c \in Procs : \A i \in 1..Len(down'[c]) :
               (i \in 1..Len(q[c]) /\ down'[c][i] = q[c][i]) \/ down'[c][i] = m
          /\ \A c \in Procs : c \notin ChildPids(p) => down'[c] = q[c]
      BY <3>2, <3>3, Zenon
    <3> QED BY <3>4, Zenon DEF q, m
  <2>2. Copied(down, down')
    <3>1. ASSUME NEW c \in Procs, NEW i \in 1..Len(down'[c])
          PROVE  \E d \in Procs : \E j \in 1..Len(down[d]) : down'[c][i] = down[d][j]
      <4> DEFINE In(m) == \E d \in Procs : \E j \in 1..Len(down[d]) : m = down[d][j]
                 q == Rest(p)
                 v == down'
      <4>0. \A b \in Procs : \A l \in 1..Len(q[b]) : In(q[b][l])
        BY <1>3, Zenon DEF Copied
      <4> HIDE DEF q, v
      <4>1. CASE i \in 1..Len(q[c]) /\ v[c][i] = q[c][i]
        <5>1. In(q[c][i])
          <6> HIDE DEF In
          <6> QED BY <4>0, <4>1, Zenon
        <5>2. In(v[c][i])
          <6> HIDE DEF In
          <6> QED BY <4>1, <5>1, Zenon
        <5> QED BY <5>2 DEF v
      <4>2. CASE down'[c][i] = Taken(p)
        <5>1. In(down[p][1])
          BY <1>3, Zenon
        <5> HIDE DEF In
        <5>2. In(down'[c][i])
          BY <1>3, <4>2, <5>1, Zenon
        <5> QED BY <5>2 DEF In
      <4> QED BY <2>1, <4>1, <4>2, ZenonT(60) DEF q, v, In
    <3> QED BY <3>1 DEF Copied
  <2>3. LinksOK'
    BY <1>1, <1>4, <2>1, LinkFacts, LinksAfter
  <2>4. Shortened(up, up')
    BY <1>4, SameIsShortened
  <2>5. Cleans
    <3>1. \A x \in Procs : LinksClean(x) => x \notin ChildPids(p)
      BY DEF LinksClean, ChildPids, AllProcs
    <3>2. \A x \in Procs : LinksClean(x) => down'[x] = <<>>
      BY <1>3, <2>1, <3>1 DEF LinksClean
    <3> QED BY <1>1, <2>2, <3>2, CleansAre DEF LinksClean
  <2> QED BY <1>1, <1>2, <2>2, <2>3, <2>4, <2>5, SilentEffect DEF Dies
<1>5. CASE down' = Rest(p) /\ up' = Answered(p, "NOT_FOUND", NoValue)
  <2> DEFINE a == Answer(Taken(p), "NOT_FOUND", NoValue)
  <2>1. /\ a \in Reply /\ a.cmd = Taken(p).cmd /\ a.id = Taken(p).id /\ a.uuid = Taken(p).uuid
        /\ a.code = "NOT_FOUND"
        /\ up' \in Queues(Reply) /\ AnswerAdded(up, up', p, a)
    BY <1>1, <1>5, LinkFacts, CodeFacts, AnsweredIs
  <2> HIDE DEF a
  <2>2. LinksOK'
    BY <1>1, <1>3, <1>5, <2>1, LinkFacts, LinksAfter
  <2>3. Cleans
    BY <1>1, <1>3, <1>5, CleansAre DEF LinksClean
  <2> QED BY <1>1, <1>2, <1>3, <1>5, <2>1, <2>2, <2>3, AnswerEffect
<1> QED BY <1>1, <1>4, <1>5

LEMMA ConnectEffect ==
  ASSUME LinksOK, NEW p \in Procs, Connect(p), UNCHANGED controlVars
  PROVE  Effect(p)
<1> DEFINE m == Taken(p)
           child == [id |-> m.id, pid |-> m.pid]
           a == Answer(m, "OK", NoValue)
<1>1. /\ down[p] # <<>> /\ m.cmd \in {"connect", "create"} /\ down' = Rest(p)
      /\ UNCHANGED <<status, linger, node, dict>>
      /\ \/ Rewire([slots EXCEPT ![p] = Connected(@, child)], Answered(p, "OK", NoValue))
         \/ UNCHANGED <<slots, peer, up>>
  BY DEF Connect, Taking
<1>2. UNCHANGED <<node, tree, proc, outstanding, nextUuid, rmlist, rcv>>
  BY <1>1 DEF controlVars
<1>3. /\ m \in Message /\ down' \in Queues(Message) /\ Copied(down, down')
      /\ 1 \in 1..Len(down[p]) /\ m = down[p][1]
      /\ \A x \in Procs : down[x] = <<>> => down'[x] = <<>>
  BY <1>1, LinkFacts, RestIs
<1>4. CASE UNCHANGED <<slots, peer, up>>
  <2>1. LinksOK'
    BY <1>1, <1>3, <1>4, LinkFacts, LinksAfter
  <2>2. Shortened(up, up')
    BY <1>4, SameIsShortened
  <2>3. Cleans
    BY <1>3, <1>4, CleansAre DEF LinksClean
  <2> QED BY <1>1, <1>2, <1>3, <2>1, <2>2, <2>3, SilentEffect DEF Dies
<1>5. CASE Rewire([slots EXCEPT ![p] = Connected(@, child)], Answered(p, "OK", NoValue))
  <2>1. child \in Slot
    BY <1>3 DEF Message, Slot
  <2>2. p \in AllProcs
    BY DEF AllProcs
  <2> DEFINE sl == [slots EXCEPT ![p] = Connected(@, child)]
             q == Answered(p, "OK", NoValue)
  <2>3. sl \in Links
    BY <2>1, <2>2, LinkFacts, SlotsAfter
  <2>4. /\ a \in Reply /\ a.cmd = m.cmd /\ a.id = m.id /\ a.uuid = m.uuid
        /\ q \in Queues(Reply) /\ AnswerAdded(up, q, p, a)
    BY <1>1, LinkFacts, CodeFacts, AnsweredIs
  <2>8. ASSUME NEW x \in Procs, LinksClean(x)
        PROVE  \A r \in AllProcs, s \in SlotNames : sl[r][s].pid # x
    <3>1. child.pid # x /\ \A r \in AllProcs, s \in SlotNames : slots[r][s].pid # x
      BY <1>3, <2>8 DEF LinksClean
    <3> HIDE DEF child
    <3> QED BY <2>2, <3>1, LinkFacts, ConnectedClean
  <2> HIDE DEF sl, q, a, child
  <2>5. /\ slots' \in Links /\ peer' \in [Procs -> AllProcs \cup {NoPeer}] /\ up' \in Queues(Reply)
        /\ \A c \in Procs : up'[c] = q[c] \/ up'[c] = <<>>
    BY <1>5, <2>3, <2>4, LinkFacts, RewireIs DEF sl, q
  <2>6. AnswerAdded(up, up', p, a)
    BY <2>4, <2>5, RewireAdds
  <2>7. LinksOK'
    BY <1>1, <1>3, <2>5, LinkFacts, LinksAfter
  <2>9. slots' = sl
    BY <1>5 DEF Rewire, sl
  <2>10. Cleans
    BY <1>3, <2>8, <2>9, CleansAre DEF LinksClean
  <2> QED BY <1>1, <1>2, <1>3, <2>4, <2>6, <2>7, <2>10, AnswerEffect
<1> QED BY <1>1, <1>4, <1>5

LEMMA DisconnectEffect ==
  ASSUME LinksOK, NEW p \in Procs, Disconnect(p), UNCHANGED controlVars
  PROVE  Effect(p)
<1> DEFINE m == Taken(p)
           a == Answer(m, "OK", NoValue)
           sl == [slots EXCEPT ![p] = Closed(@, m.id)]
           q == Answered(p, "OK", NoValue)
           closed == {slots[p][SlotToClose(slots[p], m.id)].pid}
<1>1. /\ down[p] # <<>> /\ m.cmd = "disconnect" /\ down' = Rest(p)
      /\ UNCHANGED <<status, node, dict>>
      /\ Rewire(sl, q) /\ linger' \in LingersAfterClose(p, closed)
  BY DEF Disconnect, Taking
<1>2. UNCHANGED <<node, tree, proc, outstanding, nextUuid, rmlist, rcv>>
  BY <1>1 DEF controlVars
<1>3. /\ m \in Message /\ down' \in Queues(Message) /\ Copied(down, down')
      /\ \A x \in Procs : down[x] = <<>> => down'[x] = <<>>
  BY <1>1, LinkFacts, RestIs
<1>4. NoChild \in Slot /\ p \in AllProcs
  BY DEF AllProcs, NoChild, Slot, AnyId
<1>5. sl \in Links /\ linger' \subseteq AllProcs
  <2>1. sl \in Links
    BY <1>4, LinkFacts, SlotsAfter
  <2>2. linger \subseteq AllProcs
    BY LinkFacts
  <2> HIDE DEF closed
  <2>3. linger' \subseteq AllProcs
    BY <1>1, <1>4, <2>2, LingersWithin
  <2> QED BY <2>1, <2>3
<1>10. ASSUME NEW x \in Procs, LinksClean(x)
       PROVE  \A r \in AllProcs, s \in SlotNames : sl[r][s].pid # x
  <2>1. \A r \in AllProcs, s \in SlotNames : slots[r][s].pid # x
    BY <1>10 DEF LinksClean
  <2> HIDE DEF m
  <2> QED BY <1>4, <2>1, LinkFacts, ClosedClean
<1>6. /\ a \in Reply /\ a.cmd = m.cmd /\ a.id = m.id /\ a.uuid = m.uuid
      /\ q \in Queues(Reply) /\ AnswerAdded(up, q, p, a)
  BY <1>1, LinkFacts, CodeFacts, AnsweredIs
<1> HIDE DEF sl, q, a
<1>7. /\ slots' \in Links /\ peer' \in [Procs -> AllProcs \cup {NoPeer}] /\ up' \in Queues(Reply)
      /\ \A c \in Procs : up'[c] = q[c] \/ up'[c] = <<>>
  BY <1>1, <1>5, <1>6, LinkFacts, RewireIs
<1>8. AnswerAdded(up, up', p, a)
  BY <1>6, <1>7, RewireAdds
<1>9. LinksOK'
  BY <1>1, <1>3, <1>5, <1>7, LinkFacts, LinksAfter
<1>11. slots' = sl
  BY <1>1 DEF Rewire
<1>12. Cleans
  BY <1>3, <1>10, <1>11, CleansAre DEF LinksClean
<1> QED BY <1>1, <1>2, <1>3, <1>6, <1>8, <1>9, <1>12, AnswerEffect

LEMMA EmptiedQueue ==
  ASSUME NEW q \in Queues(Message), NEW p \in Procs
  PROVE  /\ [q EXCEPT ![p] = <<>>] \in Queues(Message) /\ Copied(q, [q EXCEPT ![p] = <<>>])
         /\ \A x \in Procs : q[x] = <<>> => [q EXCEPT ![p] = <<>>][x] = <<>>
<1> DEFINE v == [q EXCEPT ![p] = <<>>]
<1>1. <<>> \in Seq(Message)
  OBVIOUS
<1>2. v \in Queues(Message)
  BY <1>1 DEF Queues
<1>3. \A c \in Procs : v[c] = IF c = p THEN <<>> ELSE q[c]
  BY DEF Queues
<1>4. 1..Len(<<>>) = {}
  OBVIOUS
<1> HIDE DEF v
<1>5. Copied(q, v)
  BY <1>3, <1>4 DEF Copied
<1>6. \A x \in Procs : q[x] = <<>> => v[x] = <<>>
  BY <1>3
<1> QED BY <1>2, <1>5, <1>6 DEF v

LEMMA RemoveEffect ==
  ASSUME LinksOK, NEW p \in Procs, Remove(p), UNCHANGED controlVars
  PROVE  Effect(p)
<1> DEFINE m == Taken(p)
           a == Answer(m, "OK", NoValue)
           sl == [slots EXCEPT ![p] = [s \in SlotNames |-> NoChild]]
           q == Answered(p, "OK", NoValue)
<1>1. /\ status[p] = "run" /\ down[p] # <<>> /\ m.cmd = "remove" /\ node[p] = m.id
      /\ down' = [down EXCEPT ![p] = <<>>]
      /\ Rewire(sl, q) /\ UNCHANGED nodeVars
  BY DEF Remove, Taking, IsFor
<1>2. UNCHANGED <<node, dict, tree, proc, outstanding, nextUuid, rmlist, rcv>>
  BY <1>1 DEF controlVars, nodeVars
<1>3. /\ linger' \subseteq AllProcs
      /\ \E s \in {"stuck", "zombie"} : status' = [status EXCEPT ![p] = s]
  <2>1. linger \subseteq AllProcs /\ p \in AllProcs
    BY LinkFacts DEF AllProcs
  <2>2. linger' \in LingersAfterClose(p, ChildPids(p))
    BY DEF Remove
  <2>3. linger' \subseteq AllProcs
    BY <2>1, <2>2, LingersWithin
  <2> QED BY <2>3 DEF Remove
<1>4. /\ status' \in [Procs -> {"unborn", "run", "stuck", "zombie", "reaped"}]
      /\ Ends(p) /\ \A r \in Procs : r # p => status'[r] = status[r]
  BY <1>1, <1>3, LinkFacts DEF Ends
<1>5. /\ 1 \in 1..Len(down[p]) /\ m = down[p][1] /\ down' \in Queues(Message) /\ Copied(down, down')
      /\ \A x \in Procs : down[x] = <<>> => down'[x] = <<>>
  <2>1. 1 \in 1..Len(down[p]) /\ m = down[p][1]
    BY <1>1, LinkFacts, RestIs
  <2>2. /\ [down EXCEPT ![p] = <<>>] \in Queues(Message) /\ Copied(down, [down EXCEPT ![p] = <<>>])
        /\ \A x \in Procs : down[x] = <<>> => [down EXCEPT ![p] = <<>>][x] = <<>>
    BY LinkFacts, EmptiedQueue
  <2> HIDE DEF m
  <2> QED BY <1>1, <2>1, <2>2
<1>6. NoChild \in Slot /\ p \in AllProcs
  BY DEF AllProcs, NoChild, Slot, AnyId
<1>7. sl \in Links
  BY <1>6, LinkFacts, SlotsAfter
<1>15. ASSUME NEW x \in Procs, LinksClean(x)
       PROVE  \A r \in AllProcs, s \in SlotNames : sl[r][s].pid # x
  BY <1>6, <1>15, LinkFacts, EmptyClean DEF LinksClean
<1>8. /\ a \in Reply /\ a.cmd = m.cmd /\ a.id = m.id /\ a.uuid = m.uuid
      /\ q \in Queues(Reply) /\ AnswerAdded(up, q, p, a)
  BY <1>1, LinkFacts, CodeFacts, AnsweredIs
<1> HIDE DEF sl, q, a, m
<1>9. /\ slots' \in Links /\ peer' \in [Procs -> AllProcs \cup {NoPeer}] /\ up' \in Queues(Reply)
      /\ \A c \in Procs : up'[c] = q[c] \/ up'[c] = <<>>
  BY <1>1, <1>7, <1>8, LinkFacts, RewireIs
<1>10. AnswerAdded(up, up', p, a)
  BY <1>8, <1>9, RewireAdds
<1>11. LinksOK'
  BY <1>2, <1>3, <1>4, <1>5, <1>9, LinkFacts, LinksAfter
<1>12. Echoes
  BY <1>5, <1>8, <1>10, AddedEchoes DEF Echo
<1>13. ASSUME NEW id \in Ids
       PROVE  AcksKept(id) \/ (Ends(p) /\ node[p] = id /\ down[p] # <<>> /\ (~HasAck(id) => AcksOnce(id)'))
  <2>1. CASE id = node[p]
    BY <1>1, <1>4, <1>10, <2>1, LinkFacts, AddedFirst
  <2>2. CASE id # node[p]
    <3>1. ~IsAck(a, id)
      BY <1>1, <1>8, <2>2 DEF IsAck
    <3> QED BY <1>10, <3>1, LinkFacts, AddedNone
  <2> QED BY <2>1, <2>2
<1>14. Dies
  BY <1>1, <1>4 DEF Ends, Dies
<1>16. slots' = sl
  BY <1>1 DEF Rewire
<1>17. Cleans
  BY <1>5, <1>15, <1>16, CleansAre DEF LinksClean
<1> QED BY <1>2, <1>5, <1>11, <1>12, <1>13, <1>14, <1>17 DEF Effect, Acknowledges

LEMMA CrashEffect ==
  ASSUME LinksOK, NEW p \in Procs, Crash(p),
         UNCHANGED <<tree, proc, outstanding, nextUuid, rmlist, rcv>>
  PROVE  Effect(p)
<1> DEFINE sl == [slots EXCEPT ![p] = [s \in SlotNames |-> NoChild]]
<1>1. /\ status[p] = "run" /\ status' = [status EXCEPT ![p] = "zombie"]
      /\ down' = [down EXCEPT ![p] = <<>>]
      /\ UNCHANGED <<linger, node, dict>>
  BY DEF Crash
<1>2. PICK n \in 0..Len(up[p]) : Rewire(sl, [up EXCEPT ![p] = SubSeq(@, 1, n)])
  BY DEF Crash
<1> DEFINE w == SubSeq(up[p], 1, n)
           q == [up EXCEPT ![p] = w]
<1>3. up[p] \in Seq(Reply) /\ Len(up[p]) \in Nat
  BY LinkFacts DEF Queues
<1>4. /\ w \in Seq(Reply) /\ Len(w) = n
      /\ \A i \in 1..n : i \in 1..Len(up[p]) /\ w[i] = up[p][i]
  BY <1>3
<1>5. /\ q \in Queues(Reply)
      /\ \A c \in Procs : q[c] = IF c = p THEN w ELSE up[c]
  <2> HIDE DEF w
  <2> QED BY <1>4, LinkFacts DEF Queues
<1>6. NoChild \in Slot /\ p \in AllProcs
  BY DEF AllProcs, NoChild, Slot, AnyId
<1>7. sl \in Links
  BY <1>6, LinkFacts, SlotsAfter
<1>15. ASSUME NEW x \in Procs, LinksClean(x)
       PROVE  \A r \in AllProcs, s \in SlotNames : sl[r][s].pid # x
  BY <1>6, <1>15, LinkFacts, EmptyClean DEF LinksClean
<1>8. Rewire(sl, q)
  BY <1>2
<1> HIDE DEF sl, q, w
<1>9. Shortened(up, q)
  <2>1. ASSUME NEW c \in Procs, NEW i \in 1..Len(q[c])
        PROVE  i + 0 \in 1..Len(up[c]) /\ q[c][i] = up[c][i + 0]
    <3>1. CASE c = p
      <4>0. Len(q[c]) = n /\ n \in Nat
        BY <1>3, <1>4, <1>5, <3>1
      <4>1. i \in 1..n /\ i + 0 = i
        BY <2>1, <4>0
      <4> QED BY <1>4, <1>5, <3>1, <4>1
    <3>2. CASE c # p
      BY <1>5, <2>1, <3>2
    <3> QED BY <3>1, <3>2
  <2>2. 0 \in Nat
    OBVIOUS
  <2> QED BY <2>1, <2>2 DEF Shortened
<1>10. /\ slots' \in Links /\ peer' \in [Procs -> AllProcs \cup {NoPeer}] /\ up' \in Queues(Reply)
       /\ \A c \in Procs : up'[c] = q[c] \/ up'[c] = <<>>
  BY <1>5, <1>7, <1>8, LinkFacts, RewireIs
<1>11. Shortened(up, up')
  BY <1>9, <1>10, RewireShortens
<1>12. /\ status' \in [Procs -> {"unborn", "run", "stuck", "zombie", "reaped"}]
       /\ Dies
  BY <1>1, LinkFacts DEF Dies
<1>13. /\ down' \in Queues(Message) /\ Copied(down, down')
       /\ \A x \in Procs : down[x] = <<>> => down'[x] = <<>>
  BY <1>1, LinkFacts, EmptiedQueue, ZenonT(60)
<1>14. LinksOK'
  BY <1>1, <1>10, <1>12, <1>13, LinkFacts, LinksAfter
<1>16. slots' = sl
  BY <1>8 DEF Rewire
<1>17. Cleans
  BY <1>13, <1>15, <1>16, CleansAre DEF LinksClean
<1> QED BY <1>1, <1>11, <1>12, <1>13, <1>14, <1>17, SilentEffect

\* An answer that moves up comes from one place: the first of the child's for the
\* last of p's, the next one of the child's for each of the others.
LEMMA PassUpEffect ==
  ASSUME LinksOK, NEW p \in Procs, NEW s \in SlotNames, PassUp(p, s), UNCHANGED controlVars
  PROVE  Effect(p)
<1> DEFINE c == slots[p][s].pid
           rest == IF c = p THEN Tail(up[p]) ELSE up[p]
<1>1. /\ c # Control /\ up[c] # <<>>
      /\ up' = [[up EXCEPT ![c] = Tail(@)] EXCEPT ![p] = Append(@, Head(up[c]))]
      /\ UNCHANGED <<status, slots, peer, down, linger, node, dict>>
  BY DEF PassUp
<1>2. c \in Procs
  <2>1. p \in AllProcs
    BY DEF AllProcs
  <2>2. c \in AllProcs
    BY <2>1, LinkFacts DEF Links, Slot
  <2> QED BY <1>1, <2>2 DEF AllProcs
<1>3. UNCHANGED <<node, tree, proc, outstanding, nextUuid, rmlist, rcv>>
  BY <1>1 DEF controlVars
<1> HIDE DEF c
<1>4. up[c] \in Seq(Reply) /\ up[p] \in Seq(Reply)
  BY <1>2, LinkFacts DEF Queues
<1>5. /\ Head(up[c]) \in Reply /\ Head(up[c]) = up[c][1] /\ 1 \in 1..Len(up[c])
      /\ Tail(up[c]) \in Seq(Reply) /\ Len(Tail(up[c])) = Len(up[c]) - 1
      /\ \A i \in 1..Len(Tail(up[c])) : i + 1 \in 1..Len(up[c]) /\ Tail(up[c])[i] = up[c][i + 1]
  BY <1>1, <1>4, TailIs
<1>6. rest \in Seq(Reply)
  BY <1>4, <1>5
<1>7. /\ Append(rest, Head(up[c])) \in Seq(Reply) /\ Len(Append(rest, Head(up[c]))) = Len(rest) + 1
      /\ \A i \in 1..Len(rest) : Append(rest, Head(up[c]))[i] = rest[i]
      /\ Append(rest, Head(up[c]))[Len(rest) + 1] = Head(up[c])
  <2> HIDE DEF rest
  <2> QED BY <1>5, <1>6, AppendIs
<1>8. up' = [[up EXCEPT ![c] = Tail(up[c])] EXCEPT ![p] = Append(rest, Head(up[c]))]
  <2> DEFINE u == [up EXCEPT ![c] = Tail(up[c])]
  <2>1. u[p] = rest
    BY <1>2, LinkFacts DEF Queues
  <2>2. up' = [u EXCEPT ![p] = Append(u[p], Head(up[c]))]
    BY <1>1
  <2> HIDE DEF u, rest
  <2> QED BY <2>1, <2>2 DEF u
<1>9. /\ up' \in Queues(Reply)
      /\ up'[p] = Append(rest, Head(up[c]))
      /\ \A d \in Procs \ {p} : up'[d] = IF d = c THEN Tail(up[c]) ELSE up[d]
  <2> HIDE DEF rest
  <2> QED BY <1>2, <1>5, <1>7, <1>8, LinkFacts DEF Queues
<1> DEFINE Last(d, i) == d = p /\ i = Len(rest) + 1
           Shift(d) == IF d = c THEN 1 ELSE 0
<1>10. ASSUME NEW d \in Procs, NEW i \in 1..Len(up'[d])
       PROVE  /\ Last(d, i) => up'[d][i] = up[c][1]
              /\ ~Last(d, i) => i + Shift(d) \in 1..Len(up[d]) /\ up'[d][i] = up[d][i + Shift(d)]
  <2>1. CASE d = p
    <3>1. up'[d] = Append(rest, Head(up[c])) /\ Len(rest) \in Nat
      BY <1>6, <1>9, <2>1
    <3>2. Last(d, i) \/ i \in 1..Len(rest)
      BY <1>7, <1>10, <2>1, <3>1
    <3>3. ASSUME i \in 1..Len(rest)
          PROVE  /\ ~Last(d, i) /\ up'[d][i] = rest[i]
                 /\ i + Shift(d) \in 1..Len(up[d]) /\ rest[i] = up[d][i + Shift(d)]
      <4>1. up'[d][i] = rest[i] /\ ~Last(d, i)
        BY <1>7, <3>1, <3>3
      <4>2. CASE c = p
        BY <1>5, <2>1, <3>3, <4>1, <4>2
      <4>3. CASE c # p
        BY <1>4, <2>1, <3>3, <4>1, <4>3
      <4> QED BY <4>1, <4>2, <4>3
    <3>4. Last(d, i) => up'[d][i] = up[c][1]
      BY <1>5, <1>7, <3>1
    <3> QED BY <3>2, <3>3, <3>4
  <2>2. CASE d # p
    <3>1. ~Last(d, i) /\ up'[d] = IF d = c THEN Tail(up[c]) ELSE up[d]
      BY <1>9, <2>2
    <3>2. CASE d = c
      BY <1>5, <1>10, <3>1, <3>2
    <3>3. CASE d # c
      BY <1>10, <3>1, <3>3
    <3> QED BY <3>1, <3>2, <3>3
  <2> QED BY <2>1, <2>2
<1> HIDE DEF rest
<1>11. Echoes
  <2>1. ASSUME NEW d \in Procs, NEW i \in 1..Len(up'[d])
        PROVE  Echo(up'[d][i])
    <3>1. CASE Last(d, i)
      BY <1>2, <1>5, <1>10, <3>1 DEF Echo
    <3>2. CASE ~Last(d, i)
      BY <1>10, <3>2, SMTT(60) DEF Echo
    <3> QED BY <3>1, <3>2
  <2> QED BY <2>1 DEF Echoes
<1>12. ASSUME NEW id \in Ids, AcksOnce(id) PROVE AcksOnce(id)'
  <2>1. SUFFICES ASSUME NEW d \in Procs, NEW e \in Procs,
                        NEW i \in 1..Len(up'[d]), NEW j \in 1..Len(up'[e]),
                        IsAck(up'[d][i], id), IsAck(up'[e][j], id)
                 PROVE  d = e /\ i = j
    BY DEF AcksOnce
  <2>2. CASE Last(d, i) /\ Last(e, j)
    BY <2>2
  <2>3. CASE Last(d, i) /\ ~Last(e, j)
    <3>1. IsAck(up[c][1], id) /\ e = c /\ j + Shift(e) = 1
      <4>1. up'[d][i] = up[c][1]
        BY <1>10, <2>3
      <4>2. j + Shift(e) \in 1..Len(up[e]) /\ up'[e][j] = up[e][j + Shift(e)]
        BY <1>10, <2>3
      <4> QED BY <1>2, <1>5, <1>12, <2>1, <4>1, <4>2 DEF AcksOnce
    <3> QED BY <3>1
  <2>4. CASE ~Last(d, i) /\ Last(e, j)
    <3>1. IsAck(up[c][1], id) /\ d = c /\ i + Shift(d) = 1
      <4>1. up'[e][j] = up[c][1]
        BY <1>10, <2>4
      <4>2. i + Shift(d) \in 1..Len(up[d]) /\ up'[d][i] = up[d][i + Shift(d)]
        BY <1>10, <2>4
      <4> QED BY <1>2, <1>5, <1>12, <2>1, <4>1, <4>2 DEF AcksOnce
    <3> QED BY <3>1
  <2>5. CASE ~Last(d, i) /\ ~Last(e, j)
    <3>1. i + Shift(d) \in 1..Len(up[d]) /\ up'[d][i] = up[d][i + Shift(d)]
      BY <1>10, <2>5
    <3>2. j + Shift(e) \in 1..Len(up[e]) /\ up'[e][j] = up[e][j + Shift(e)]
      BY <1>10, <2>5
    <3>3. d = e /\ i + Shift(d) = j + Shift(e)
      BY <1>12, <2>1, <3>1, <3>2, SMTT(60) DEF AcksOnce
    <3> QED BY <3>3
  <2> QED BY <2>2, <2>3, <2>4, <2>5
<1>13. ASSUME NEW id \in Ids, HasAck(id)' PROVE HasAck(id)
  <2>1. PICK d \in Procs : \E i \in 1..Len(up'[d]) : IsAck(up'[d][i], id)
    BY <1>13 DEF HasAck
  <2>2. PICK i \in 1..Len(up'[d]) : IsAck(up'[d][i], id)
    BY <2>1
  <2>3. CASE Last(d, i)
    <3>1. IsAck(up[c][1], id)
      BY <1>10, <2>2, <2>3
    <3> QED BY <1>2, <1>5, <3>1 DEF HasAck
  <2>4. CASE ~Last(d, i)
    <3>1. i + Shift(d) \in 1..Len(up[d]) /\ IsAck(up[d][i + Shift(d)], id)
      BY <1>10, <2>2, <2>4
    <3> QED BY <3>1 DEF HasAck
  <2> QED BY <2>3, <2>4
<1>14. Acknowledges(p)
  BY <1>12, <1>13 DEF Acknowledges, AcksKept
<1>15. LinksOK'
  BY <1>1, <1>9, LinkFacts, LinksAfter
<1>16. Copied(down, down')
  BY <1>1, SameIsShortened
<1>17. Cleans
  BY <1>1, <1>16, CleansAre DEF LinksClean
<1> QED BY <1>1, <1>3, <1>11, <1>14, <1>15, <1>16, <1>17 DEF Effect, Dies

LEMMA NodeEffect ==
  ASSUME LinksOK, NEW p \in Procs, NodeNext(p), UNCHANGED controlVars
  PROVE  Effect(p)
<1>1. CASE TakeMessage(p)
  BY <1>1, PushNextEffect, PingEffect, ExecEffect, ConnectEffect, DisconnectEffect, RemoveEffect
     DEF TakeMessage
<1>2. CASE \E s \in SlotNames : PassUp(p, s)
  BY <1>2, PassUpEffect
<1> QED BY <1>1, <1>2 DEF NodeNext

-----------------------------------------------------------------------------
(* What such a step leaves of the invariant.                               *)

Main == [at : {"idle", "create", "remove", "kill", "wait", "exit"}, c : Cmd, i : Nat]
Rcv == [at : {"idle", "push", "wait"}, rec : Rec]
Broadcasts == [uuid : Nat, cmd : Commands, id : AnyId, count : Nat \ {0}]

BooksOK ==
  /\ node \in [Procs -> AnyId] /\ tree \in Seq(AnyId) /\ proc \in [AnyId -> AllProcs]
  /\ outstanding \subseteq Broadcasts /\ nextUuid \in Nat /\ rmlist \in Seq(Rec)
  /\ main \in Main /\ rcv \in Rcv /\ printed \in Reply

CountersOK == issued \in 0..MaxCommands /\ patient \in BOOLEAN /\ crashes \in 0..MaxCrashes

LEMMA TypeParts == TypeOK <=> LinksOK /\ BooksOK /\ CountersOK
BY DEF TypeOK, LinksOK, BooksOK, CountersOK, Main, Rcv, Broadcasts

LEMMA TypePartsAfter == TypeOK' <=> LinksOK' /\ BooksOK' /\ CountersOK'
BY DEF TypeOK, LinksOK, BooksOK, CountersOK, Main, Rcv, Broadcasts

LEMMA TrafficKept ==
  ASSUME Traffic, NEW p, Effect(p)
  PROVE  Traffic'
<1>1. outstanding' = outstanding /\ nextUuid' = nextUuid
  BY DEF Effect
<1>2. ASSUME NEW c \in Procs, NEW i \in 1..Len(down'[c])
      PROVE  /\ down'[c][i].uuid < nextUuid
             /\ \A e \in outstanding : e.uuid = down'[c][i].uuid => e.cmd = down'[c][i].cmd /\ e.id = down'[c][i].id
  <2>1. PICK d \in Procs : \E j \in 1..Len(down[d]) : down'[c][i] = down[d][j]
    BY DEF Effect, Copied
  <2>2. PICK j \in 1..Len(down[d]) : down'[c][i] = down[d][j]
    BY <2>1
  <2>3. Traced(down[d][j])
    BY DEF Traffic
  <2> QED BY <2>2, <2>3 DEF Traced
<1>3. ASSUME NEW c \in Procs, NEW i \in 1..Len(up'[c])
      PROVE  /\ up'[c][i].uuid < nextUuid
             /\ \A e \in outstanding : e.uuid = up'[c][i].uuid => e.cmd = up'[c][i].cmd /\ e.id = up'[c][i].id
  <2>1. Echo(up'[c][i])
    BY DEF Effect, Echoes
  <2>2. PICK d \in Procs :
          \/ \E j \in 1..Len(up[d]) : up'[c][i] = up[d][j]
          \/ \E j \in 1..Len(down[d]) : /\ up'[c][i].uuid = down[d][j].uuid
                                        /\ up'[c][i].cmd = down[d][j].cmd /\ up'[c][i].id = down[d][j].id
    BY <2>1 DEF Echo
  <2>3. CASE \E j \in 1..Len(up[d]) : up'[c][i] = up[d][j]
    BY <2>3 DEF Traffic, Traced
  <2>4. CASE \E j \in 1..Len(down[d]) : /\ up'[c][i].uuid = down[d][j].uuid
                                        /\ up'[c][i].cmd = down[d][j].cmd /\ up'[c][i].id = down[d][j].id
    BY <2>4 DEF Traffic, Traced
  <2> QED BY <2>2, <2>3, <2>4
<1> QED BY <1>1, <1>2, <1>3 DEF Traffic, Traced

LEMMA KeptKept ==
  ASSUME Kept, Dies, UNCHANGED <<node, tree, proc>>
  PROVE  Kept'
BY DEF Kept, Dies

LEMMA RemovedKept ==
  ASSUME Kept, NEW id \in Ids, RemovedOnce(id), NEW p, Effect(p)
  PROVE  RemovedOnce(id)'
<1>1. UNCHANGED <<node, tree, proc, rmlist, rcv>> /\ Dies
  BY DEF Effect
<1>2. (HasPast(id)' <=> HasPast(id)) /\ (Reaping(id)' <=> Reaping(id)) /\ (PastOnce(id)' <=> PastOnce(id))
  BY <1>1 DEF HasPast, Reaping, PastOnce
<1>3. TreeHas(tree, id) /\ status[proc[id]] # "run" =>
        TreeHas(tree', id) /\ status'[proc'[id]] # "run"
  BY <1>1 DEF Kept, Dies
<1>4. CASE AcksKept(id)
  BY <1>2, <1>3, <1>4 DEF RemovedOnce, AcksKept
<1>5. CASE Ends(p) /\ node[p] = id /\ down[p] # <<>> /\ (~HasAck(id) => AcksOnce(id)')
  <2>1. TreeHas(tree, id) /\ proc[id] = p /\ status[p] = "run" /\ status'[p] # "run"
    BY <1>5 DEF Kept, Ends
  <2>2. ~HasAck(id) /\ ~HasPast(id) /\ ~Reaping(id)
    BY <2>1 DEF RemovedOnce
  <2>3. AcksOnce(id)' /\ TreeHas(tree', id) /\ status'[proc'[id]] # "run" /\ PastOnce(id)'
    BY <1>1, <1>2, <1>5, <2>1, <2>2 DEF RemovedOnce
  <2> QED BY <1>2, <2>2, <2>3 DEF RemovedOnce
<1> QED BY <1>4, <1>5 DEF Effect, Acknowledges

\* A step of the receiver or the main thread that leaves the lists alone.
LEMMA MatchKept ==
  ASSUME RecordsMatchAwaited, UNCHANGED <<outstanding, rmlist, rcv>>,
         (main'.at = main.at /\ main'.c = main.c) \/ (main.at # "remove" /\ main'.at # "remove")
  PROVE  RecordsMatchAwaited'
<1>1. \A cmd \in ChainCommands, id \in Ids :
        Awaited(cmd, id)' = Awaited(cmd, id) /\ Waiting(cmd, id)' = Waiting(cmd, id)
  BY DEF Awaited, Waiting
<1> QED BY <1>1 DEF RecordsMatchAwaited

\* All that is not about the end of the input.
Books == /\ WellFormed(tree) /\ Chains /\ AwaitedAreKnown /\ Traffic
         /\ RecordsMatchAwaited /\ Kept /\ (\A id \in Ids : RemovedOnce(id))

LEMMA BooksKept ==
  ASSUME Books, NEW p, Effect(p), main'.i > 0,
         main' = main \/ (main.at # "remove" /\ main'.at \notin {"create", "remove"})
  PROVE  Books'
<1>1. UNCHANGED <<node, tree, proc, outstanding, nextUuid, rmlist, rcv>> /\ Dies
  BY DEF Effect
<1>2. WellFormed(tree)' /\ Chains' /\ AwaitedAreKnown'
  BY <1>1 DEF Books, Chains, AwaitedAreKnown
<1>3. Traffic'
  BY TrafficKept DEF Books
<1>4. RecordsMatchAwaited'
  <2>1. (main'.at = main.at /\ main'.c = main.c) \/ (main.at # "remove" /\ main'.at # "remove")
    OBVIOUS
  <2> QED BY <1>1, <2>1, MatchKept DEF Books
<1>5. Kept'
  BY <1>1, KeptKept DEF Books
<1>6. \A id \in Ids : RemovedOnce(id)'
  BY RemovedKept DEF Books
<1> QED BY <1>2, <1>3, <1>4, <1>5, <1>6 DEF Books

\* A process that has been waited for stays so.
LEMMA ReapedKept ==
  ASSUME Dies, WellFormed(tree), Kept, UNCHANGED <<tree, proc>>, NEW k \in 2..Len(tree),
         status[proc[tree[k]]] = "reaped"
  PROVE  status'[proc'[tree'[k]]] = "reaped"
<1>1. tree[k] \in Ids /\ TreeHas(tree, tree[k])
  BY ArrayIds
<1>2. proc[tree[k]] \in Procs
  BY <1>1 DEF Kept
<1> QED BY <1>2 DEF Dies

LEMMA CalmKept ==
  ASSUME Books, Calm, Dies, UNCHANGED <<tree, proc, rmlist, rcv, main>>
  PROVE  Calm'
<1> SUFFICES ASSUME Patience # "none", main.at \in {"kill", "wait", "exit"}
             PROVE  /\ rmlist = <<>> /\ rcv = RcvIdle
                    /\ \A k \in 2..Len(tree) : k <= main.i => status'[proc'[tree'[k]]] = "reaped"
                    /\ main.at = "exit" => main.i >= Len(tree)
  BY DEF Calm
<1> QED BY ReapedKept DEF Calm, Books

-----------------------------------------------------------------------------
(* The awaited answers, counted by command.                                *)

Pending(S, cmd, id) == {e \in S : Is(e, cmd, id)}

LEMMA PendingFinite ==
  ASSUME NEW S, IsFiniteSet(S), NEW cmd, NEW id
  PROVE  IsFiniteSet(Pending(S, cmd, id)) /\ Cardinality(Pending(S, cmd, id)) \in Nat
<1>1. Pending(S, cmd, id) \in SUBSET S
  BY DEF Pending
<1> QED BY <1>1, FS_Subset, FS_CardinalityType

LEMMA PendingAdded ==
  ASSUME NEW S, IsFiniteSet(S), NEW e, e \notin S, NEW cmd, NEW id
  PROVE  /\ IsFiniteSet(S \cup {e})
         /\ Cardinality(Pending(S \cup {e}, cmd, id))
              = Cardinality(Pending(S, cmd, id)) + Num(Is(e, cmd, id))
<1> DEFINE A == Pending(S, cmd, id)
           B == Pending(S \cup {e}, cmd, id)
<1>1. IsFiniteSet(A) /\ Cardinality(A) \in Nat
  BY PendingFinite
<1>2. e \notin A /\ (Is(e, cmd, id) => B = A \cup {e}) /\ (~Is(e, cmd, id) => B = A)
  BY DEF Pending
<1> HIDE DEF A, B
<1>3. Cardinality(B) = Cardinality(A) + Num(Is(e, cmd, id))
  <2>1. CASE Is(e, cmd, id)
    <3>1. Cardinality(B) = Cardinality(A) + 1
      BY <1>1, <1>2, <2>1, FS_AddElement
    <3> QED BY <2>1, <3>1 DEF Num
  <2>2. CASE ~Is(e, cmd, id)
    BY <1>1, <1>2, <2>2 DEF Num
  <2> QED BY <2>1, <2>2
<1> QED BY <1>3, FS_AddElement DEF A, B

LEMMA PendingRemoved ==
  ASSUME NEW S, IsFiniteSet(S), NEW e \in S, NEW cmd, NEW id
  PROVE  /\ IsFiniteSet(S \ {e})
         /\ Cardinality(Pending(S \ {e}, cmd, id))
              = Cardinality(Pending(S, cmd, id)) - Num(Is(e, cmd, id))
<1>1. IsFiniteSet(S \ {e}) /\ e \notin S \ {e} /\ (S \ {e}) \cup {e} = S
  BY FS_RemoveElement
<1>2. Cardinality(Pending(S, cmd, id)) = Cardinality(Pending(S \ {e}, cmd, id)) + Num(Is(e, cmd, id))
  <2> DEFINE T == S \ {e}
  <2>0. IsFiniteSet(T) /\ e \notin T
    BY <1>1
  <2> HIDE DEF T
  <2>1. Cardinality(Pending(T \cup {e}, cmd, id)) = Cardinality(Pending(T, cmd, id)) + Num(Is(e, cmd, id))
    BY <2>0, PendingAdded
  <2> QED BY <1>1, <2>1 DEF T
<1>3. Cardinality(Pending(S \ {e}, cmd, id)) \in Nat
  BY <1>1, PendingFinite
<1> QED BY <1>1, <1>2, <1>3 DEF Num

\* What RecordsMatchAwaited compares.
LEMMA AwaitedIs ==
  ASSUME BooksOK, NEW cmd, NEW id
  PROVE  /\ Awaited(cmd, id) = Cardinality(Pending(outstanding, cmd, id))
              + Num(main.at = "remove" /\ Is(main.c, cmd, id))
              + Num(rcv.at = "push" /\ Is(Current(rcv.rec), cmd, id))
         /\ Waiting(cmd, id) = Cardinality(Wanting(rmlist, cmd, id))
<1>1. rmlist \in Seq(Rec)
  BY DEF BooksOK
<1>2. {e \in outstanding : e.cmd = cmd /\ e.id = id} = Pending(outstanding, cmd, id)
  BY DEF Pending, Is
<1>3. {i \in DOMAIN rmlist : Current(rmlist[i]).cmd = cmd /\ Current(rmlist[i]).id = id}
        = Wanting(rmlist, cmd, id)
  BY <1>1 DEF Wanting, Is
<1> QED BY <1>2, <1>3 DEF Awaited, Waiting, Num, Is

LEMMA AwaitedIsAfter ==
  ASSUME BooksOK', NEW cmd, NEW id
  PROVE  /\ Awaited(cmd, id)' = Cardinality(Pending(outstanding', cmd, id))
              + Num(main'.at = "remove" /\ Is(main'.c, cmd, id))
              + Num(rcv'.at = "push" /\ Is(Current(rcv'.rec), cmd, id))
         /\ Waiting(cmd, id)' = Cardinality(Wanting(rmlist', cmd, id))
<1>1. rmlist' \in Seq(Rec)
  BY DEF BooksOK
<1>2. {e \in outstanding' : e.cmd = cmd /\ e.id = id} = Pending(outstanding', cmd, id)
  BY DEF Pending, Is
<1>3. {i \in DOMAIN rmlist' : Current(rmlist'[i]).cmd = cmd /\ Current(rmlist'[i]).id = id}
        = Wanting(rmlist', cmd, id)
  BY <1>1 DEF Wanting, Is
<1> QED BY <1>2, <1>3 DEF Awaited, Waiting, Num, Is, Current

LEMMA CountsNat ==
  ASSUME BooksOK, AwaitedAreKnown, NEW cmd, NEW id
  PROVE  /\ Cardinality(Pending(outstanding, cmd, id)) \in Nat
         /\ Cardinality(Wanting(rmlist, cmd, id)) \in Nat
<1>1. IsFiniteSet(outstanding) /\ rmlist \in Seq(Rec)
  BY DEF BooksOK, AwaitedAreKnown
<1> QED BY <1>1, PendingFinite, WantingFinite

\* A broadcast gets a number of its own, so nothing under way is an answer to it.
LEMMA BroadcastIs ==
  ASSUME LinksOK, BooksOK, WellFormed(tree), AwaitedAreKnown, Traffic, up' = up,
         NEW c \in Cmd, c.id \in Ids, NEW arg \in Values \cup {NoValue, Get},
         Broadcast(c, arg)
  PROVE  /\ down' \in Queues(Message) /\ outstanding' \subseteq Broadcasts /\ nextUuid' \in Nat
         /\ AwaitedAreKnown' /\ Traffic'
         /\ \A cmd, id : Cardinality(Pending(outstanding', cmd, id))
                           = Cardinality(Pending(outstanding, cmd, id)) + Num(Is(c, cmd, id))
<1> DEFINE m == [uuid |-> nextUuid, cmd |-> c.cmd, id |-> c.id, parent |-> c.parent,
                 pid |-> c.pid, arg |-> arg]
           e == [uuid |-> nextUuid, cmd |-> c.cmd, id |-> c.id, count |-> TreeLeaves(tree)]
<1>1. nextUuid' = nextUuid + 1 /\ outstanding' = outstanding \cup {e} /\ down' = Pushed(down, Control, m)
  BY DEF Broadcast
<1>2. nextUuid \in Nat /\ outstanding \subseteq Broadcasts
  BY DEF BooksOK
<1>3. m \in Message /\ m.uuid = nextUuid /\ m.cmd = c.cmd /\ m.id = c.id
  BY <1>2 DEF Message, Cmd
<1>4. e \in Broadcasts /\ e.uuid = nextUuid /\ e.cmd = c.cmd /\ e.id = c.id
  BY <1>2, ArrayIds DEF Broadcasts, Cmd
<1> HIDE DEF m, e
<1>5. /\ down' \in Queues(Message)
      /\ \A d \in Procs : \A i \in 1..Len(down'[d]) :
           (i \in 1..Len(down[d]) /\ down'[d][i] = down[d][i]) \/ down'[d][i] = m
  BY <1>1, <1>3, LinkFacts, PushedIs
<1>6. IsFiniteSet(outstanding) /\ e \notin outstanding
  BY <1>2, <1>4 DEF AwaitedAreKnown
<1>7. \A f \in outstanding : f.uuid < nextUuid /\ f.uuid \in Nat /\ f.id \in Ids
  BY <1>2 DEF AwaitedAreKnown, Broadcasts
<1>8. AwaitedAreKnown'
  <2>1. IsFiniteSet(outstanding')
    BY <1>1, <1>6, PendingAdded
  <2>2. \A f \in outstanding' : f.uuid < nextUuid' /\ f.id \in Ids
    BY <1>1, <1>2, <1>4, <1>7
  <2>3. \A f, g \in outstanding' : f.uuid = g.uuid => f = g
    <3>1. \A f, g \in outstanding : f.uuid = g.uuid => f = g
      BY DEF AwaitedAreKnown
    <3>2. \A f \in outstanding : f.uuid # e.uuid
      BY <1>2, <1>4, <1>7
    <3> QED BY <1>1, <3>1, <3>2
  <2> QED BY <2>1, <2>2, <2>3 DEF AwaitedAreKnown
<1>9. ASSUME NEW x, x.uuid \in Nat, Traced(x)
      PROVE  /\ x.uuid < nextUuid'
             /\ \A f \in outstanding' : f.uuid = x.uuid => f.cmd = x.cmd /\ f.id = x.id
  BY <1>1, <1>2, <1>4, <1>9 DEF Traced
<1>10. Traffic'
  <2>1. ASSUME NEW d \in Procs, NEW i \in 1..Len(down'[d])
        PROVE  /\ down'[d][i].uuid < nextUuid'
               /\ \A f \in outstanding' : f.uuid = down'[d][i].uuid =>
                    f.cmd = down'[d][i].cmd /\ f.id = down'[d][i].id
    <3>1. CASE i \in 1..Len(down[d]) /\ down'[d][i] = down[d][i]
      <4>1. Traced(down[d][i])
        BY <3>1 DEF Traffic
      <4>2. down[d][i] \in Message
        <5>1. down[d] \in Seq(Message)
          BY LinkFacts DEF Queues
        <5> QED BY <3>1, <5>1
      <4>3. down[d][i].uuid \in Nat
        BY <4>2 DEF Message
      <4> QED BY <1>9, <3>1, <4>1, <4>3
    <3>2. CASE down'[d][i] = m
      BY <1>1, <1>2, <1>3, <1>4, <1>7, <3>2
    <3> QED BY <1>5, <3>1, <3>2
  <2>2. ASSUME NEW d \in Procs, NEW i \in 1..Len(up[d])
        PROVE  /\ up[d][i].uuid < nextUuid'
               /\ \A f \in outstanding' : f.uuid = up[d][i].uuid =>
                    f.cmd = up[d][i].cmd /\ f.id = up[d][i].id
    <3>1. Traced(up[d][i])
      BY DEF Traffic
    <3>2. up[d][i] \in Reply
      <4>1. up[d] \in Seq(Reply)
        BY LinkFacts DEF Queues
      <4> QED BY <4>1
    <3>3. up[d][i].uuid \in Nat
      BY <3>2 DEF Reply
    <3> QED BY <1>9, <3>1, <3>3
  <2> QED BY <2>1, <2>2 DEF Traffic, Traced
<1>11. ASSUME NEW cmd, NEW id
       PROVE  Cardinality(Pending(outstanding', cmd, id))
                = Cardinality(Pending(outstanding, cmd, id)) + Num(Is(c, cmd, id))
  <2>1. Is(e, cmd, id) <=> Is(c, cmd, id)
    BY <1>4 DEF Is
  <2> QED BY <1>1, <1>6, <2>1, PendingAdded, SMTT(60) DEF Num
<1>12. outstanding' \subseteq Broadcasts /\ nextUuid' \in Nat
  BY <1>1, <1>2, <1>4
<1> QED BY <1>5, <1>8, <1>10, <1>11, <1>12

-----------------------------------------------------------------------------
(* rec_remove.                                                             *)

\* The answer that ends the process of x.
Ending(cmd, id, ok, x) == cmd = "remove" /\ id = x /\ ok

\* The chains left, and the one that goes on, were in the list.
FromChains ==
  /\ \A i \in 1..Len(rmlist') : \E j \in 1..Len(rmlist) : rmlist'[i].cmds = rmlist[j].cmds
  /\ rcv'.at = "push" => \E j \in 1..Len(rmlist) : rcv'.rec.cmds = rmlist[j].cmds

\* One command further, a chain is past its `remove' only if it was, or if this
\* was the command; at its end it is past it.
LEMMA AdvanceIs ==
  ASSUME NEW rec \in Rec, Unfinished(rec),
         NEW next, next = [rec EXCEPT !.now = @ + 1]
  PROVE  /\ next \in Rec /\ next.target = rec.target /\ next.target \in Ids
         /\ next.cmds = rec.cmds /\ next.now = rec.now + 1
         /\ Current(rec).cmd \in ChainCommands /\ Current(rec).id \in Ids
         /\ Current(rec) \in Cmd
         /\ next.now < Len(next.cmds) => Unfinished(next)
         /\ ~(next.now < Len(next.cmds)) => IsPast(rec, rec.target)
         /\ \A x : IsPast(next, x) => IsPast(rec, x) \/ (Current(rec).cmd = "remove" /\ Current(rec).id = x)
<1>1. /\ rec.target \in AnyId /\ rec.cmds \in Seq(Cmd) /\ rec.now \in Nat
      /\ rec.now < Len(rec.cmds)
  BY DEF Rec, Unfinished
<1>2. next \in Rec /\ next.target = rec.target /\ next.cmds = rec.cmds /\ next.now = rec.now + 1
  BY <1>1 DEF Rec
<1>3. rec.now + 1 \in 1..Len(rec.cmds) /\ Len(rec.cmds) \in Nat
  BY <1>1
<1>4. Current(rec) = rec.cmds[rec.now + 1] /\ Current(rec) \in Cmd
  BY <1>1, <1>3 DEF Current
<1>5. /\ Current(rec).cmd \in ChainCommands /\ Current(rec).id \in Ids
      /\ Current(rec).cmd = "remove" <=> rec.now + 1 = RemovePlace(rec)
      /\ rec.target \in Ids
  BY <1>3, <1>4 DEF Unfinished, Planned
<1>6. next.now < Len(next.cmds) => Unfinished(next)
  BY <1>2 DEF Unfinished, Planned, RemovePlace
<1>7. RemovePlace(rec) \in Nat /\ (rec.now + 1 >= Len(rec.cmds) => rec.now >= RemovePlace(rec))
  <2>1. Len(rec.cmds) \in {2, 5, 6, 7}
    BY DEF Unfinished, Planned
  <2>2. (Len(rec.cmds) = 2 /\ RemovePlace(rec) = 1) \/ (Len(rec.cmds) >= 5 /\ RemovePlace(rec) = 3)
    <3>1. CASE Len(rec.cmds) = 2
      BY <3>1 DEF RemovePlace
    <3>2. CASE Len(rec.cmds) # 2
      <4>0. Len(rec.cmds) = 5 \/ Len(rec.cmds) = 6 \/ Len(rec.cmds) = 7
        BY <2>1, <3>2
      <4>1. Len(rec.cmds) >= 5
        BY <4>0, SMTT(60)
      <4> QED BY <3>2, <4>1 DEF RemovePlace
    <3> QED BY <3>1, <3>2
  <2>3. CASE Len(rec.cmds) = 2 /\ RemovePlace(rec) = 1
    BY <1>1, <2>3
  <2>4. CASE Len(rec.cmds) >= 5 /\ RemovePlace(rec) = 3
    BY <1>1, <1>3, <2>4
  <2> QED BY <2>2, <2>3, <2>4
<1>8. ~(next.now < Len(next.cmds)) => IsPast(rec, rec.target)
  BY <1>1, <1>2, <1>3, <1>7 DEF IsPast
<1>9. ASSUME NEW x, IsPast(next, x), ~IsPast(rec, x)
      PROVE  Current(rec).cmd = "remove" /\ Current(rec).id = x
  <2>1. rec.target = x /\ rec.now + 1 >= RemovePlace(rec) /\ ~(rec.now >= RemovePlace(rec))
    BY <1>2, <1>9 DEF IsPast, RemovePlace
  <2>2. rec.now + 1 = RemovePlace(rec)
    BY <1>1, <1>7, <2>1
  <2>3. rec.cmds[RemovePlace(rec)].id = rec.target
    BY DEF Unfinished, Planned
  <2> QED BY <1>4, <1>5, <2>1, <2>2, <2>3
<1> QED BY <1>2, <1>4, <1>5, <1>6, <1>8, <1>9

LEMMA RecRemoveIs ==
  ASSUME BooksOK, Chains, NEW cmd \in ChainCommands, NEW id \in Ids, NEW ok \in BOOLEAN,
         RecRemove(cmd, id, ok), Cardinality(Wanting(rmlist, cmd, id)) # 0
  PROVE  /\ rmlist' \in Seq(Rec) /\ rcv' \in Rcv
         /\ \A i \in 1..Len(rmlist') : Unfinished(rmlist'[i])
         /\ rcv'.at = "push" => Unfinished(rcv'.rec)
         /\ rcv'.at = "wait" => rcv'.rec.target \in Ids
         /\ \A cm, x : Cardinality(Wanting(rmlist', cm, x))
                         = Cardinality(Wanting(rmlist, cm, x)) - Num(cmd = cm /\ id = x)
                           + Num(rcv'.at = "push" /\ Is(Current(rcv'.rec), cm, x))
         /\ \A x : /\ HasPast(x)' => HasPast(x) \/ Ending(cmd, id, ok, x)
                   /\ Reaping(x)' => HasPast(x)
                   /\ PastOnce(x) /\ (Ending(cmd, id, ok, x) => ~HasPast(x)) =>
                        PastOnce(x)' /\ (Reaping(x)' => ~HasPast(x)')
         /\ FromChains
<1> DEFINE S == {i \in DOMAIN rmlist : Current(rmlist[i]).cmd = cmd /\ Current(rmlist[i]).id = id}
           first == CHOOSE i \in S : \A j \in S : i <= j
           rec == rmlist[first]
           next == [rec EXCEPT !.now = @ + 1]
<1>1. rmlist \in Seq(Rec)
  BY DEF BooksOK
<1>2. S = Wanting(rmlist, cmd, id) /\ S \in SUBSET Nat
  BY <1>1 DEF Wanting, Is
<1>3. S # {}
  BY <1>2, FS_EmptySet
<1>4. first \in S
  <2>1. \E i \in S : \A j \in S : i <= j
    <3> HIDE DEF S
    <3> QED BY <1>2, <1>3, LeastExists
  <2> QED BY <2>1
<1>5. first \in 1..Len(rmlist) /\ rec \in Rec /\ Current(rec).cmd = cmd /\ Current(rec).id = id
  BY <1>1, <1>4
<1>6. \/ /\ ~ok /\ rmlist' = ListRemove(rmlist, first) /\ rcv' = RcvIdle
      \/ /\ ok /\ next.now < Len(next.cmds)
         /\ rmlist' = [rmlist EXCEPT ![first] = next] /\ rcv' = [at |-> "push", rec |-> next]
      \/ /\ ok /\ ~(next.now < Len(next.cmds))
         /\ rmlist' = ListRemove(rmlist, first) /\ rcv' = [at |-> "wait", rec |-> next]
  <2>1. next.now >= Len(next.cmds) => ~(next.now < Len(next.cmds))
    <3>1. rec.now \in Nat /\ Len(rec.cmds) \in Nat
      BY <1>5 DEF Rec
    <3>2. next.now = rec.now + 1 /\ next.cmds = rec.cmds
      BY <1>5 DEF Rec
    <3>3. next.now \in Nat /\ Len(next.cmds) \in Nat
      BY <3>1, <3>2
    <3>4. \A a, b \in Nat : a >= b => ~(a < b)
      OBVIOUS
    <3> QED BY ONLY <3>3, <3>4, ZenonT(60)
  <2> QED BY <1>3, <2>1, Zenon DEF RecRemove
<1>7. /\ next \in Rec /\ next.target = rec.target /\ next.target \in Ids /\ next.cmds = rec.cmds
      /\ next.now < Len(next.cmds) => Unfinished(next)
      /\ ~(next.now < Len(next.cmds)) => IsPast(rec, rec.target)
      /\ \A x : IsPast(next, x) => IsPast(rec, x) \/ (cmd = "remove" /\ id = x)
  <2>1. Unfinished(rec)
    BY <1>5 DEF Chains
  <2> HIDE DEF first
  <2> QED BY <1>5, <2>1, AdvanceIs
<1>8. /\ \A i \in 1..Len(rmlist) : Unfinished(rmlist[i])
      /\ Len(rmlist) \in Nat /\ \A cm, x : Cardinality(Wanting(rmlist, cm, x)) \in Nat
  BY <1>1, WantingFinite DEF Chains
<1> HIDE DEF S, first, next
<1>9. \A cm, x : Num(Is(Current(rec), cm, x)) = Num(cmd = cm /\ id = x)
  BY <1>5 DEF Is
<1>10. ASSUME rmlist' = ListRemove(rmlist, first)
       PROVE  /\ rmlist' \in Seq(Rec)
              /\ \A i \in 1..Len(rmlist') : Unfinished(rmlist'[i])
              /\ \A i \in 1..Len(rmlist') : \E j \in 1..Len(rmlist) : rmlist'[i].cmds = rmlist[j].cmds
              /\ \A cm, x : Cardinality(Wanting(rmlist', cm, x))
                              = Cardinality(Wanting(rmlist, cm, x)) - Num(cmd = cm /\ id = x)
              /\ \A x : /\ HasPast(x)' => HasPast(x)
                        /\ PastOnce(x) => PastOnce(x)' /\ (IsPast(rec, x) => ~HasPast(x)')
  <2>1. /\ rmlist' \in Seq(Rec) /\ Len(rmlist') = Len(rmlist) - 1
        /\ \A j \in 1..(Len(rmlist) - 1) :
             rmlist'[j] = IF j < first THEN rmlist[j] ELSE rmlist[j + 1]
    BY <1>1, <1>5, <1>10, RemovedIs
  <2> DEFINE At(j) == IF j < first THEN j ELSE j + 1
  <2>2. \A j \in 1..Len(rmlist') :
          At(j) \in 1..Len(rmlist) /\ At(j) # first /\ rmlist'[j] = rmlist[At(j)]
    BY <1>5, <1>8, <2>1
  <2>3. \A i, j \in 1..Len(rmlist') : At(i) = At(j) => i = j
    BY <1>5, <2>1
  <2> HIDE DEF At
  <2>4. \A i \in 1..Len(rmlist') : Unfinished(rmlist'[i])
    BY <1>8, <2>2
  <2>5. \A cm, x : Cardinality(Wanting(rmlist', cm, x))
                     = Cardinality(Wanting(rmlist, cm, x)) - Num(cmd = cm /\ id = x)
    BY <1>1, <1>5, <1>9, <1>10, WantingRemoved
  <2>8. \A i \in 1..Len(rmlist') : \E j \in 1..Len(rmlist) : rmlist'[i].cmds = rmlist[j].cmds
    BY <2>2
  <2>6. \A x : HasPast(x)' => HasPast(x)
    BY <2>2 DEF HasPast
  <2>7. \A x : PastOnce(x) => PastOnce(x)' /\ (IsPast(rec, x) => ~HasPast(x)')
    BY <1>5, <2>2, <2>3 DEF HasPast, PastOnce
  <2> QED BY <2>1, <2>4, <2>5, <2>6, <2>7, <2>8
<1>11. CASE ~ok /\ rmlist' = ListRemove(rmlist, first) /\ rcv' = RcvIdle
  <2>1. rcv' \in Rcv /\ rcv'.at = "idle"
    <3>1. NoRecord \in Rec
      <4>1. <<>> \in Seq(Cmd)
        OBVIOUS
      <4>2. NoId \in AnyId
        BY DEF AnyId
      <4> QED BY <4>1, <4>2 DEF NoRecord, Rec
    <3> QED BY <1>11, <3>1 DEF Rcv, RcvIdle
  <2>2. \A cm, x : Num(rcv'.at = "push" /\ Is(Current(rcv'.rec), cm, x)) = 0
    BY <2>1 DEF Num
  <2>3. \A x : ~Reaping(x)'
    BY <2>1 DEF Reaping
  <2>4. \A cm, x : Cardinality(Wanting(rmlist', cm, x))
                     = Cardinality(Wanting(rmlist, cm, x)) - Num(cmd = cm /\ id = x)
                       + Num(rcv'.at = "push" /\ Is(Current(rcv'.rec), cm, x))
    BY <1>8, <1>10, <1>11, <2>2 DEF Num
  <2>5. FromChains
    BY <1>10, <1>11, <2>1 DEF FromChains
  <2> QED BY <1>10, <1>11, <2>1, <2>3, <2>4, <2>5
<1>12. CASE /\ ok /\ ~(next.now < Len(next.cmds))
            /\ rmlist' = ListRemove(rmlist, first) /\ rcv' = [at |-> "wait", rec |-> next]
  <2>1. rcv' \in Rcv /\ rcv'.at = "wait" /\ rcv'.rec = next
    BY <1>7, <1>12 DEF Rcv
  <2>2. \A cm, x : Num(rcv'.at = "push" /\ Is(Current(rcv'.rec), cm, x)) = 0
    BY <2>1 DEF Num
  <2>3. \A x : Reaping(x)' => x = rec.target /\ IsPast(rec, x) /\ HasPast(x)
    BY <1>5, <1>7, <1>12, <2>1 DEF Reaping, HasPast
  <2>4. \A cm, x : Cardinality(Wanting(rmlist', cm, x))
                     = Cardinality(Wanting(rmlist, cm, x)) - Num(cmd = cm /\ id = x)
                       + Num(rcv'.at = "push" /\ Is(Current(rcv'.rec), cm, x))
    BY <1>8, <1>10, <1>12, <2>2 DEF Num
  <2>5. FromChains
    BY <1>10, <1>12, <2>1 DEF FromChains
  <2> QED BY <1>7, <1>10, <1>12, <2>1, <2>3, <2>4, <2>5
<1>13. CASE /\ ok /\ next.now < Len(next.cmds)
            /\ rmlist' = [rmlist EXCEPT ![first] = next] /\ rcv' = [at |-> "push", rec |-> next]
  <2>1. rcv' \in Rcv /\ rcv'.at = "push" /\ rcv'.rec = next
    BY <1>7, <1>13 DEF Rcv
  <2>2. /\ rmlist' \in Seq(Rec) /\ Len(rmlist') = Len(rmlist)
        /\ \A j \in 1..Len(rmlist) : rmlist'[j] = IF j = first THEN next ELSE rmlist[j]
    BY <1>1, <1>5, <1>7, <1>13, ExceptSeq
  <2>3. \A i \in 1..Len(rmlist') : Unfinished(rmlist'[i])
    BY <1>7, <1>8, <1>13, <2>2
  <2>4. \A cm, x : Cardinality(Wanting(rmlist', cm, x))
                     = Cardinality(Wanting(rmlist, cm, x)) - Num(cmd = cm /\ id = x)
                       + Num(rcv'.at = "push" /\ Is(Current(rcv'.rec), cm, x))
    <3>1. \A cm, x : Cardinality(Wanting([rmlist EXCEPT ![first] = next], cm, x))
                       = Cardinality(Wanting(rmlist, cm, x)) - Num(Is(Current(rec), cm, x))
                         + Num(Is(Current(next), cm, x))
      BY <1>1, <1>5, <1>7, WantingReplaced
    <3> QED BY <1>9, <1>13, <2>1, <3>1, ZenonT(60) DEF Num
  <2>5. \A x : ~Reaping(x)'
    BY <2>1 DEF Reaping
  <2>6. \A j \in 1..Len(rmlist') : \A x :
          IsPast(rmlist'[j], x) => IsPast(rmlist[j], x) \/ (j = first /\ Ending(cmd, id, ok, x))
    BY <1>5, <1>7, <1>13, <2>2 DEF Ending
  <2>7. \A x : HasPast(x)' => HasPast(x) \/ Ending(cmd, id, ok, x)
    BY <2>2, <2>6 DEF HasPast
  <2>8. ASSUME NEW x, PastOnce(x), Ending(cmd, id, ok, x) => ~HasPast(x)
        PROVE  PastOnce(x)'
    BY <2>2, <2>6, <2>8 DEF HasPast, PastOnce
  <2>9. FromChains
    BY <1>5, <1>7, <2>1, <2>2 DEF FromChains
  <2> QED BY <1>7, <1>13, <2>1, <2>2, <2>3, <2>4, <2>5, <2>7, <2>8, <2>9
<1> QED BY <1>6, <1>11, <1>12, <1>13

-----------------------------------------------------------------------------
(* The receiver.                                                           *)

\* Answers may be dropped, and what is awaited may get less.
LEMMA TracedKept ==
  ASSUME Traffic, nextUuid' = nextUuid, Copied(down, down'), Shortened(up, up'),
         \A f \in outstanding' : \E g \in outstanding :
           f.uuid = g.uuid /\ f.cmd = g.cmd /\ f.id = g.id
  PROVE  Traffic'
<1>1. ASSUME NEW c \in Procs, NEW i \in 1..Len(down'[c])
      PROVE  /\ down'[c][i].uuid < nextUuid
             /\ \A e \in outstanding' : e.uuid = down'[c][i].uuid => e.cmd = down'[c][i].cmd /\ e.id = down'[c][i].id
  <2>1. PICK d \in Procs : \E j \in 1..Len(down[d]) : down'[c][i] = down[d][j]
    BY DEF Copied
  <2>2. PICK j \in 1..Len(down[d]) : down'[c][i] = down[d][j]
    BY <2>1
  <2>3. Traced(down[d][j])
    BY DEF Traffic
  <2> QED BY <2>2, <2>3 DEF Traced
<1>2. ASSUME NEW c \in Procs, NEW i \in 1..Len(up'[c])
      PROVE  /\ up'[c][i].uuid < nextUuid
             /\ \A e \in outstanding' : e.uuid = up'[c][i].uuid => e.cmd = up'[c][i].cmd /\ e.id = up'[c][i].id
  <2>1. PICK k \in Nat : \A n \in 1..Len(up'[c]) : n + k \in 1..Len(up[c]) /\ up'[c][n] = up[c][n + k]
    BY DEF Shortened
  <2>2. i + k \in 1..Len(up[c]) /\ up'[c][i] = up[c][i + k]
    BY <2>1
  <2>3. Traced(up[c][i + k])
    BY <2>2 DEF Traffic
  <2> QED BY <2>2, <2>3 DEF Traced
<1> QED BY <1>1, <1>2 DEF Traffic, Traced

\* A is whether the ack of x is read now.
LEMMA RemovedAfter ==
  ASSUME NEW x \in Ids, RemovedOnce(x), UNCHANGED <<tree, proc, status>>, ~Reaping(x),
         NEW A \in BOOLEAN, A => HasAck(x) /\ ~HasAck(x)' /\ AcksOnce(x)', ~A => AcksKept(x),
         HasPast(x)' => HasPast(x) \/ A,
         Reaping(x)' => HasPast(x),
         PastOnce(x) /\ (A => ~HasPast(x)) => PastOnce(x)' /\ (Reaping(x)' => ~HasPast(x)')
  PROVE  RemovedOnce(x)' /\ (Unmarked(x) => Unmarked(x)')
<1>1. PastOnce(x)' /\ (Reaping(x)' => ~HasPast(x)')
  BY DEF RemovedOnce
<1>2. AcksOnce(x)' /\ (HasAck(x)' => HasAck(x) /\ ~A)
  BY DEF RemovedOnce, AcksKept
<1>3. HasAck(x)' => ~HasPast(x)' /\ ~Reaping(x)'
  BY <1>2 DEF RemovedOnce
<1>4. HasAck(x)' \/ HasPast(x)' \/ Reaping(x)' => HasAck(x) \/ HasPast(x)
  BY <1>2
<1>5. HasAck(x) \/ HasPast(x) => TreeHas(tree', x) /\ status'[proc'[x]] # "run"
  BY DEF RemovedOnce
<1>6. Unmarked(x) => Unmarked(x)'
  BY <1>4 DEF Unmarked
<1> QED BY <1>1, <1>2, <1>3, <1>4, <1>5, <1>6 DEF RemovedOnce

\* The first answer of a queue is read.
LEMMA HeadRead ==
  ASSUME LinksOK, NEW c \in Procs, up[c] # <<>>, up' = [up EXCEPT ![c] = Tail(@)]
  PROVE  /\ Head(up[c]) \in Reply /\ Head(up[c]) = up[c][1] /\ 1 \in 1..Len(up[c])
         /\ up' \in Queues(Reply) /\ Shortened(up, up')
         /\ \A x \in Ids : IsAck(Head(up[c]), x) /\ AcksOnce(x) =>
              HasAck(x) /\ ~HasAck(x)' /\ AcksOnce(x)'
<1>1. up[c] \in Seq(Reply)
  BY LinkFacts DEF Queues
<1>2. /\ Head(up[c]) \in Reply /\ Head(up[c]) = up[c][1] /\ 1 \in 1..Len(up[c])
      /\ Tail(up[c]) \in Seq(Reply) /\ Len(Tail(up[c])) = Len(up[c]) - 1
      /\ \A i \in 1..Len(Tail(up[c])) : i + 1 \in 1..Len(up[c]) /\ Tail(up[c])[i] = up[c][i + 1]
  BY <1>1, TailIs
<1>3. /\ up' \in Queues(Reply)
      /\ \A d \in Procs : up'[d] = IF d = c THEN Tail(up[c]) ELSE up[d]
  BY <1>2, LinkFacts DEF Queues
<1> DEFINE Shift(d) == IF d = c THEN 1 ELSE 0
<1>4. \A d \in Procs : \A i \in 1..Len(up'[d]) :
        i + Shift(d) \in 1..Len(up[d]) /\ up'[d][i] = up[d][i + Shift(d)] /\ (d # c \/ i + Shift(d) # 1)
  <2>1. SUFFICES ASSUME NEW d \in Procs, NEW i \in 1..Len(up'[d])
                 PROVE  /\ i + Shift(d) \in 1..Len(up[d]) /\ up'[d][i] = up[d][i + Shift(d)]
                        /\ (d # c \/ i + Shift(d) # 1)
    OBVIOUS
  <2>2. CASE d = c
    <3>1. up'[d] = Tail(up[c]) /\ Shift(d) = 1
      BY <1>3, <2>2
    <3>2. i + 1 # 1
      BY <2>1, <3>1
    <3> QED BY <1>2, <2>1, <2>2, <3>1, <3>2
  <2>3. CASE d # c
    <3>1. up'[d] = up[d] /\ Shift(d) = 0 /\ i + 0 = i
      BY <1>3, <2>3
    <3> QED BY <2>3, <3>1
  <2> QED BY <2>2, <2>3
<1>5. \A d \in Procs : Shift(d) \in Nat
  OBVIOUS
<1> HIDE DEF Shift
<1>6. Shortened(up, up')
  <2>1. ASSUME NEW d \in Procs
        PROVE  \E k \in Nat : \A i \in 1..Len(up'[d]) : i + k \in 1..Len(up[d]) /\ up'[d][i] = up[d][i + k]
    BY <1>4, <1>5
  <2> QED BY <2>1 DEF Shortened
<1>7. ASSUME NEW x \in Ids, IsAck(Head(up[c]), x), AcksOnce(x)
      PROVE  HasAck(x) /\ ~HasAck(x)' /\ AcksOnce(x)'
  <2>1. HasAck(x)
    BY <1>2, <1>7 DEF HasAck
  <2>2. \A d \in Procs : \A i \in 1..Len(up'[d]) : ~IsAck(up'[d][i], x)
    BY <1>2, <1>4, <1>7, SMTT(60) DEF AcksOnce
  <2> QED BY <2>1, <2>2 DEF HasAck, AcksOnce
<1> QED BY <1>2, <1>3, <1>6, <1>7

\* The records of awaited answers when one of them is read.
LEMMA OutstandingRead ==
  ASSUME BooksOK, AwaitedAreKnown, NEW r \in Reply, NEW e \in outstanding, nextUuid' = nextUuid,
         outstanding' = IF IsFinal(r, e) THEN outstanding \ {e}
                        ELSE (outstanding \ {e}) \cup {[e EXCEPT !.count = @ - 1]}
  PROVE  /\ outstanding' \subseteq Broadcasts /\ AwaitedAreKnown'
         /\ \A f \in outstanding' : \E g \in outstanding :
              f.uuid = g.uuid /\ f.cmd = g.cmd /\ f.id = g.id
         /\ \A cmd, id : Cardinality(Pending(outstanding', cmd, id))
                           = Cardinality(Pending(outstanding, cmd, id))
                             - Num(IsFinal(r, e) /\ Is(e, cmd, id))
<1> DEFINE d == [e EXCEPT !.count = @ - 1]
<1>1. outstanding \subseteq Broadcasts /\ IsFiniteSet(outstanding) /\ e \in Broadcasts
  BY DEF BooksOK, AwaitedAreKnown
<1>2. /\ \A f \in outstanding : f.uuid < nextUuid /\ f.id \in Ids
      /\ \A f, g \in outstanding : f.uuid = g.uuid => f = g
  BY DEF AwaitedAreKnown
<1> DEFINE T == outstanding \ {e}
<1>3. IsFiniteSet(T)
  BY <1>1, PendingRemoved
<1>4. ASSUME NEW cmd, NEW id
      PROVE  /\ Cardinality(Pending(outstanding, cmd, id)) \in Nat
             /\ Cardinality(Pending(T, cmd, id))
                  = Cardinality(Pending(outstanding, cmd, id)) - Num(Is(e, cmd, id))
             /\ (Num(Is(e, cmd, id)) = 0 \/ Num(Is(e, cmd, id)) = 1)
  <2>1. Cardinality(Pending(outstanding, cmd, id)) \in Nat
    BY <1>1, PendingFinite
  <2>2. Cardinality(Pending(outstanding \ {e}, cmd, id))
          = Cardinality(Pending(outstanding, cmd, id)) - Num(Is(e, cmd, id))
    <3>1. IsFiniteSet(outstanding) /\ e \in outstanding
      BY <1>1
    <3> QED BY <3>1, PendingRemoved
  <2> QED BY <2>1, <2>2 DEF Num
<1>5. CASE IsFinal(r, e)
  <2>1. outstanding' = T
    BY <1>5
  <2>2. AwaitedAreKnown'
    BY <1>2, <1>3, <2>1 DEF AwaitedAreKnown
  <2>3. ASSUME NEW cmd, NEW id
        PROVE  Cardinality(Pending(outstanding', cmd, id))
                 = Cardinality(Pending(outstanding, cmd, id)) - Num(IsFinal(r, e) /\ Is(e, cmd, id))
    <3>1. Num(IsFinal(r, e) /\ Is(e, cmd, id)) = Num(Is(e, cmd, id))
      BY <1>5 DEF Num
    <3> HIDE DEF T
    <3> QED BY <1>4, <2>1, <3>1
  <2> QED BY <1>1, <2>1, <2>2, <2>3
<1>6. CASE ~IsFinal(r, e)
  <2>1. outstanding' = T \cup {d}
    BY <1>6
  <2>2. d \in Broadcasts /\ d.uuid = e.uuid /\ d.cmd = e.cmd /\ d.id = e.id
    BY <1>1, <1>6 DEF Broadcasts, IsFinal
  <2>3. T \subseteq outstanding /\ e \notin T
    OBVIOUS
  <2> HIDE DEF d, T
  <2>4. d \notin T
    BY <1>2, <2>2, <2>3
  <2>5. IsFiniteSet(T \cup {d})
    BY <1>3, <2>4, PendingAdded
  <2>6. ASSUME NEW cmd, NEW id
        PROVE  Cardinality(Pending(outstanding', cmd, id))
                 = Cardinality(Pending(outstanding, cmd, id)) - Num(IsFinal(r, e) /\ Is(e, cmd, id))
    <3>1. Cardinality(Pending(T \cup {d}, cmd, id)) = Cardinality(Pending(T, cmd, id)) + Num(Is(d, cmd, id))
      BY <1>3, <2>4, PendingAdded, SMTT(60)
    <3>2. Num(Is(d, cmd, id)) = Num(Is(e, cmd, id))
      BY <2>2 DEF Is
    <3>3. Num(IsFinal(r, e) /\ Is(e, cmd, id)) = 0
      BY <1>6 DEF Num
    <3>4. Cardinality(Pending(outstanding', cmd, id)) = Cardinality(Pending(outstanding, cmd, id))
      <4> DEFINE a == Cardinality(Pending(outstanding, cmd, id))
                 n == Num(Is(e, cmd, id))
      <4>1. a \in Nat /\ (n = 0 \/ n = 1)
        BY <1>4
      <4>2. Cardinality(Pending(outstanding', cmd, id)) = (a - n) + n
        BY <1>4, <2>1, <3>1, <3>2
      <4> HIDE DEF a, n
      <4>3. (a - n) + n = a
        BY <4>1
      <4>4. Cardinality(Pending(outstanding', cmd, id)) = a
        BY <4>2, <4>3
      <4> QED BY <4>4 DEF a
    <3> QED BY <1>4, <3>3, <3>4
  <2>7. \A f \in outstanding' : \E g \in outstanding :
          f.uuid = g.uuid /\ f.cmd = g.cmd /\ f.id = g.id
    BY <2>1, <2>2, <2>3
  <2>8. \A f, g \in outstanding' : f.uuid = g.uuid => f = g
    BY <1>2, <2>1, <2>2, <2>3
  <2>9. \A f \in outstanding' : f.uuid < nextUuid' /\ f.id \in Ids
    BY <1>2, <2>7
  <2>10. AwaitedAreKnown'
    BY <2>1, <2>5, <2>8, <2>9 DEF AwaitedAreKnown
  <2>11. outstanding' \subseteq Broadcasts
    BY <1>1, <2>1, <2>2, <2>3
  <2> QED BY <2>6, <2>7, <2>10, <2>11
<1> QED BY <1>5, <1>6

LEMMA NumNat ==
  ASSUME NEW b
  PROVE  Num(b) \in Nat
BY DEF Num

\* A command of a chain is awaited just as often as the list waits for it, so an
\* answer finds its removal.
LEMMA Matched ==
  ASSUME BooksOK, Books, NEW cmd \in ChainCommands, NEW id \in Ids
  PROVE  /\ Cardinality(Pending(outstanding, cmd, id)) \in Nat
         /\ Cardinality(Wanting(rmlist, cmd, id)) \in Nat
         /\ Cardinality(Wanting(rmlist, cmd, id))
              = Cardinality(Pending(outstanding, cmd, id))
                + Num(main.at = "remove" /\ Is(main.c, cmd, id))
                + Num(rcv.at = "push" /\ Is(Current(rcv.rec), cmd, id))
<1>1. /\ Cardinality(Pending(outstanding, cmd, id)) \in Nat
      /\ Cardinality(Wanting(rmlist, cmd, id)) \in Nat
  BY CountsNat DEF Books
<1>2. Awaited(cmd, id) = Waiting(cmd, id)
  BY DEF Books, RecordsMatchAwaited
<1> QED BY <1>1, <1>2, AwaitedIs

\* What the receiver does with the list, for a process that nothing knows yet.
Forgets == FromChains /\ \A x \in Ids : Unmarked(x) => Unmarked(x)'

LEMMA ReceiveKeeps ==
  ASSUME LinksOK, BooksOK, Books, NEW s \in SlotNames, Receive(s)
  PROVE  /\ LinksOK' /\ BooksOK' /\ Books'
         /\ rmlist = <<>> => UNCHANGED <<rmlist, rcv>>
         /\ Forgets
<1> DEFINE c == slots[Control][s].pid
           r == Head(up[c])
<1>1. /\ rcv = RcvIdle /\ c # Control /\ up[c] # <<>> /\ up' = [up EXCEPT ![c] = Tail(@)]
      /\ UNCHANGED <<status, slots, peer, down, linger, node, dict, tree, proc, nextUuid, main>>
  BY Zenon DEF Receive, nodeVars
<1>2. \/ UNCHANGED <<outstanding, rmlist, rcv, printed>>
      \/ \E e \in outstanding :
           /\ e.uuid = r.uuid
           /\ outstanding' = IF IsFinal(r, e) THEN outstanding \ {e}
                             ELSE (outstanding \ {e}) \cup {[e EXCEPT !.count = @ - 1]}
           /\ printed' = IF r.cmd = "exec" /\ IsFinal(r, e) THEN r ELSE printed
           /\ IF r.cmd \in ChainCommands /\ IsFinal(r, e)
              THEN RecRemove(r.cmd, r.id, r.code = "OK")
              ELSE UNCHANGED <<rmlist, rcv>>
  BY Zenon DEF Receive
<1>3. c \in Procs
  <2>1. Control \in AllProcs
    BY DEF AllProcs
  <2>2. c \in AllProcs
    BY <2>1, LinkFacts DEF Links, Slot
  <2> QED BY <1>1, <2>2 DEF AllProcs
<1> HIDE DEF c
<1>4. /\ r \in Reply /\ r = up[c][1] /\ 1 \in 1..Len(up[c])
      /\ up' \in Queues(Reply) /\ Shortened(up, up')
      /\ \A x \in Ids : IsAck(r, x) /\ AcksOnce(x) => HasAck(x) /\ ~HasAck(x)' /\ AcksOnce(x)'
  BY <1>1, <1>3, HeadRead
<1>5. LinksOK'
  BY <1>1, <1>4, LinkFacts, LinksAfter
<1>6. /\ Traced(r) /\ Copied(down, down') /\ up \in Queues(Reply)
      /\ rcv.at = "idle" /\ \A x : ~Reaping(x)
  <2>1. Traced(r)
    BY <1>3, <1>4 DEF Books, Traffic
  <2> QED BY <1>1, <2>1, SameIsShortened, LinkFacts DEF RcvIdle, Reaping
<1> HIDE DEF r
<1>7. ASSUME UNCHANGED <<outstanding, rmlist, rcv>> \/
             (/\ UNCHANGED <<rmlist, rcv>>
              /\ outstanding' \subseteq Broadcasts /\ AwaitedAreKnown'
              /\ \A f \in outstanding' : \E g \in outstanding :
                   f.uuid = g.uuid /\ f.cmd = g.cmd /\ f.id = g.id
              /\ \A cmd \in ChainCommands : \A id :
                   Cardinality(Pending(outstanding', cmd, id)) = Cardinality(Pending(outstanding, cmd, id))),
             printed' \in Reply
      PROVE  BooksOK' /\ Books' /\ UNCHANGED <<rmlist, rcv>> /\ Forgets
  <2>1. BooksOK'
    BY <1>1, <1>7 DEF BooksOK
  <2>2. AwaitedAreKnown' /\ \A f \in outstanding' : \E g \in outstanding :
          f.uuid = g.uuid /\ f.cmd = g.cmd /\ f.id = g.id
    <3>1. CASE outstanding' = outstanding
      BY <1>1, <3>1 DEF Books, AwaitedAreKnown
    <3> QED BY <1>7, <3>1
  <2>3. Traffic'
    BY <1>1, <1>4, <1>6, <2>2, TracedKept DEF Books
  <2>4. WellFormed(tree)' /\ Chains' /\ Kept'
    BY <1>1, <1>7 DEF Books, Chains, Kept
  <2>5. RecordsMatchAwaited'
    <3>1. CASE outstanding' = outstanding
      BY <1>1, <1>7, <3>1, MatchKept DEF Books
    <3>2. CASE \A cmd \in ChainCommands : \A id :
                 Cardinality(Pending(outstanding', cmd, id)) = Cardinality(Pending(outstanding, cmd, id))
      <4>1. ASSUME NEW cmd \in ChainCommands, NEW id \in Ids
            PROVE  Awaited(cmd, id)' = Waiting(cmd, id)'
        BY <1>1, <1>7, <2>1, <3>2, AwaitedIsAfter, Matched
      <4> QED BY <4>1 DEF RecordsMatchAwaited
    <3> QED BY <1>7, <3>1, <3>2
  <2>6. ASSUME NEW x \in Ids PROVE RemovedOnce(x)' /\ (Unmarked(x) => Unmarked(x)')
    <3>1. RemovedOnce(x) /\ AcksKept(x)
      BY <1>4, <1>6, ShortenedNone DEF Books
    <3>2. (HasPast(x)' <=> HasPast(x)) /\ ~Reaping(x)' /\ (PastOnce(x)' <=> PastOnce(x))
      BY <1>6, <1>7 DEF HasPast, Reaping, PastOnce
    <3> QED BY <1>1, <1>6, <3>1, <3>2, RemovedAfter
  <2>7. Forgets
    <3>1. FromChains
      BY <1>6, <1>7 DEF FromChains
    <3> QED BY <2>6, <3>1 DEF Forgets
  <2> QED BY <1>7, <2>1, <2>2, <2>3, <2>4, <2>5, <2>6, <2>7 DEF Books
<1>8. CASE UNCHANGED <<outstanding, rmlist, rcv, printed>>
  <2>1. printed' \in Reply
    BY <1>8 DEF BooksOK
  <2> QED BY <1>5, <1>7, <1>8, <2>1
<1>9. ASSUME NEW e \in outstanding, e.uuid = r.uuid,
             outstanding' = IF IsFinal(r, e) THEN outstanding \ {e}
                            ELSE (outstanding \ {e}) \cup {[e EXCEPT !.count = @ - 1]},
             printed' = IF r.cmd = "exec" /\ IsFinal(r, e) THEN r ELSE printed,
             IF r.cmd \in ChainCommands /\ IsFinal(r, e)
             THEN RecRemove(r.cmd, r.id, r.code = "OK")
             ELSE UNCHANGED <<rmlist, rcv>>
      PROVE  BooksOK' /\ Books' /\ (rmlist = <<>> => UNCHANGED <<rmlist, rcv>>) /\ Forgets
  <2>1. e.cmd = r.cmd /\ e.id = r.id
    BY <1>6, <1>9 DEF Traced
  <2>2. /\ outstanding' \subseteq Broadcasts /\ AwaitedAreKnown'
        /\ \A f \in outstanding' : \E g \in outstanding :
             f.uuid = g.uuid /\ f.cmd = g.cmd /\ f.id = g.id
        /\ \A cmd, id : Cardinality(Pending(outstanding', cmd, id))
                          = Cardinality(Pending(outstanding, cmd, id))
                            - Num(IsFinal(r, e) /\ Is(e, cmd, id))
    BY <1>1, <1>4, <1>9, OutstandingRead DEF Books
  <2>3. printed' \in Reply
    BY <1>4, <1>9 DEF BooksOK
  <2>4. CASE ~(r.cmd \in ChainCommands /\ IsFinal(r, e))
    <3>1. UNCHANGED <<rmlist, rcv>>
      BY <1>9, <2>4
    <3>2. ASSUME NEW cmd \in ChainCommands, NEW id
          PROVE  Cardinality(Pending(outstanding', cmd, id)) = Cardinality(Pending(outstanding, cmd, id))
      <4>1. Num(IsFinal(r, e) /\ Is(e, cmd, id)) = 0
        BY <2>1, <2>4 DEF Num, Is
      <4>2. Cardinality(Pending(outstanding, cmd, id)) \in Nat
        BY CountsNat DEF Books
      <4> QED BY <2>2, <4>1, <4>2
    <3> QED BY <1>7, <2>2, <2>3, <3>1, <3>2
  <2>5. CASE r.cmd \in ChainCommands /\ IsFinal(r, e)
    <3> DEFINE ok == r.code = "OK"
    <3>1. RecRemove(r.cmd, r.id, ok) /\ r.id \in Ids /\ ok \in BOOLEAN
      BY <1>9, <2>1, <2>5 DEF Books, AwaitedAreKnown
    <3>2. e \in Pending(outstanding, r.cmd, r.id)
      BY <2>1 DEF Pending, Is
    <3>3. Cardinality(Pending(outstanding, r.cmd, r.id)) # 0
      <4>1. IsFiniteSet(Pending(outstanding, r.cmd, r.id))
        BY PendingFinite DEF Books, AwaitedAreKnown
      <4> QED BY <3>2, <4>1, FS_EmptySet
    <3>4. Cardinality(Wanting(rmlist, r.cmd, r.id)) # 0
      BY <2>5, <3>1, <3>3, Matched, NumNat
    <3> HIDE DEF ok
    <3>5. /\ rmlist' \in Seq(Rec) /\ rcv' \in Rcv
          /\ \A i \in 1..Len(rmlist') : Unfinished(rmlist'[i])
          /\ rcv'.at = "push" => Unfinished(rcv'.rec)
          /\ rcv'.at = "wait" => rcv'.rec.target \in Ids
          /\ \A cm, x : Cardinality(Wanting(rmlist', cm, x))
                          = Cardinality(Wanting(rmlist, cm, x)) - Num(r.cmd = cm /\ r.id = x)
                            + Num(rcv'.at = "push" /\ Is(Current(rcv'.rec), cm, x))
          /\ \A x : /\ HasPast(x)' => HasPast(x) \/ Ending(r.cmd, r.id, ok, x)
                    /\ Reaping(x)' => HasPast(x)
                    /\ PastOnce(x) /\ (Ending(r.cmd, r.id, ok, x) => ~HasPast(x)) =>
                         PastOnce(x)' /\ (Reaping(x)' => ~HasPast(x)')
          /\ FromChains
      BY <2>5, <3>1, <3>4, RecRemoveIs DEF Books
    <3>6. BooksOK'
      BY <1>1, <2>2, <2>3, <3>5 DEF BooksOK
    <3>7. Traffic'
      BY <1>1, <1>4, <1>6, <2>2, TracedKept DEF Books
    <3>8. WellFormed(tree)' /\ Kept'
      BY <1>1 DEF Books, Kept
    <3>9. Chains'
      BY <1>1, <3>5 DEF Books, Chains
    <3>10. RecordsMatchAwaited'
      <4>1. ASSUME NEW cm \in ChainCommands, NEW x \in Ids
            PROVE  Awaited(cm, x)' = Waiting(cm, x)'
        <5> DEFINE n == Num(r.cmd = cm /\ r.id = x)
                   q == Num(rcv'.at = "push" /\ Is(Current(rcv'.rec), cm, x))
                   m == Num(main.at = "remove" /\ Is(main.c, cm, x))
                   P == Cardinality(Pending(outstanding, cm, x))
                   W == Cardinality(Wanting(rmlist, cm, x))
        <5>1. n \in Nat /\ q \in Nat /\ m \in Nat
          BY NumNat
        <5>2. Num(rcv.at = "push" /\ Is(Current(rcv.rec), cm, x)) = 0
          BY <1>6 DEF Num
        <5>3. P \in Nat /\ W \in Nat /\ W = P + m
          BY <5>1, <5>2, Matched
        <5>4. Num(IsFinal(r, e) /\ Is(e, cm, x)) = n
          BY <2>1, <2>5 DEF Is, Num
        <5>5. Awaited(cm, x)' = (P - n) + m + q
          BY <1>1, <2>2, <3>6, <5>4, AwaitedIsAfter
        <5>6. Waiting(cm, x)' = (W - n) + q
          BY <3>5, <3>6, AwaitedIsAfter
        <5> HIDE DEF n, q, m, P, W
        <5>7. (P - n) + m + q = (W - n) + q
          BY <5>1, <5>3
        <5> QED BY <5>5, <5>6, <5>7
      <4> QED BY <4>1 DEF RecordsMatchAwaited
    <3>11. ASSUME NEW x \in Ids PROVE RemovedOnce(x)' /\ (Unmarked(x) => Unmarked(x)')
      <4> DEFINE A == Ending(r.cmd, r.id, ok, x)
      <4>1. A <=> IsAck(r, x)
        BY DEF Ending, IsAck, ok
      <4>2. RemovedOnce(x) /\ AcksOnce(x)
        BY DEF Books, RemovedOnce
      <4>3. A => HasAck(x) /\ ~HasAck(x)' /\ AcksOnce(x)'
        BY <1>4, <4>1, <4>2
      <4>4. ~A => AcksKept(x)
        BY <1>4, <1>6, ShortenedNone
      <4>5. A \in BOOLEAN
        BY DEF Ending, ok
      <4> HIDE DEF A
      <4>6. /\ HasPast(x)' => HasPast(x) \/ A
            /\ Reaping(x)' => HasPast(x)
            /\ PastOnce(x) /\ (A => ~HasPast(x)) => PastOnce(x)' /\ (Reaping(x)' => ~HasPast(x)')
        BY <3>5 DEF A
      <4> QED BY <1>1, <1>6, <4>2, <4>3, <4>4, <4>5, <4>6, RemovedAfter
    <3>12. rmlist # <<>>
      <4>1. ASSUME rmlist = <<>> PROVE FALSE
        <5>1. Wanting(rmlist, r.cmd, r.id) = {}
          BY <4>1 DEF Wanting
        <5> QED BY <3>4, <5>1, FS_EmptySet
      <4> QED BY <4>1
    <3>13. Forgets
      BY <3>5, <3>11 DEF Forgets
    <3> QED BY <2>2, <3>6, <3>7, <3>8, <3>9, <3>10, <3>11, <3>12, <3>13 DEF Books
  <2> QED BY <2>4, <2>5
<1> QED BY <1>2, <1>5, <1>8, <1>9

\* The control node changes its own sockets.
LEMMA OwnRewire ==
  ASSUME LinksOK, NEW sl \in Links, Rewire(sl, up), UNCHANGED <<status, down, dict>>,
         linger' \subseteq AllProcs
  PROVE  LinksOK' /\ Copied(down, down') /\ Shortened(up, up')
<1>1. /\ slots' \in Links /\ peer' \in [Procs -> AllProcs \cup {NoPeer}] /\ up' \in Queues(Reply)
      /\ \A c \in Procs : up'[c] = up[c] \/ up'[c] = <<>>
  BY LinkFacts, RewireIs
<1>2. Shortened(up, up')
  BY <1>1, SameIsShortened, RewireShortens
<1>3. LinksOK'
  BY <1>1, LinkFacts, LinksAfter
<1> QED BY <1>2, <1>3, SameIsShortened

\* The next command of a chain, carried out by the control node itself.
LEMMA OwnCommandKeeps ==
  ASSUME LinksOK, BooksOK, Books, rcv.at = "push",
         NEW c, c = Current(rcv.rec), c.cmd # "remove",
         RecRemove(c.cmd, c.id, TRUE),
         LinksOK', Copied(down, down'), Shortened(up, up'),
         UNCHANGED <<status, node, tree, proc, outstanding, nextUuid, main, printed>>
  PROVE  BooksOK' /\ Books' /\ Forgets
<1>1. rcv.rec \in Rec /\ Unfinished(rcv.rec)
  BY DEF BooksOK, Books, Chains, Rcv
<1>2. c.cmd \in ChainCommands /\ c.id \in Ids
  BY <1>1, AdvanceIs
<1>3. Cardinality(Wanting(rmlist, c.cmd, c.id)) # 0
  <2>1. Num(rcv.at = "push" /\ Is(Current(rcv.rec), c.cmd, c.id)) = 1
    BY DEF Num, Is
  <2> QED BY <1>2, <2>1, Matched, NumNat
<1>4. /\ rmlist' \in Seq(Rec) /\ rcv' \in Rcv
      /\ \A i \in 1..Len(rmlist') : Unfinished(rmlist'[i])
      /\ rcv'.at = "push" => Unfinished(rcv'.rec)
      /\ rcv'.at = "wait" => rcv'.rec.target \in Ids
      /\ \A cm, x : Cardinality(Wanting(rmlist', cm, x))
                      = Cardinality(Wanting(rmlist, cm, x)) - Num(c.cmd = cm /\ c.id = x)
                        + Num(rcv'.at = "push" /\ Is(Current(rcv'.rec), cm, x))
      /\ \A x : /\ HasPast(x)' => HasPast(x) \/ Ending(c.cmd, c.id, TRUE, x)
                /\ Reaping(x)' => HasPast(x)
                /\ PastOnce(x) /\ (Ending(c.cmd, c.id, TRUE, x) => ~HasPast(x)) =>
                     PastOnce(x)' /\ (Reaping(x)' => ~HasPast(x)')
      /\ FromChains
  <2>1. TRUE \in BOOLEAN
    OBVIOUS
  <2> QED BY <1>2, <1>3, <2>1, RecRemoveIs DEF Books
<1>5. BooksOK'
  BY <1>4 DEF BooksOK
<1>6. AwaitedAreKnown' /\ WellFormed(tree)' /\ Kept'
  BY DEF Books, AwaitedAreKnown, Kept
<1>7. Traffic'
  BY TracedKept DEF Books
<1>8. Chains'
  BY <1>4 DEF Books, Chains
<1>9. ASSUME NEW cm \in ChainCommands, NEW x \in Ids
      PROVE  Awaited(cm, x)' = Waiting(cm, x)'
  <2> DEFINE n == Num(c.cmd = cm /\ c.id = x)
             q == Num(rcv'.at = "push" /\ Is(Current(rcv'.rec), cm, x))
             m == Num(main.at = "remove" /\ Is(main.c, cm, x))
             P == Cardinality(Pending(outstanding, cm, x))
             W == Cardinality(Wanting(rmlist, cm, x))
  <2>1. n \in Nat /\ q \in Nat /\ m \in Nat
    BY NumNat
  <2>2. Num(rcv.at = "push" /\ Is(Current(rcv.rec), cm, x)) = n
    BY DEF Is
  <2>3. P \in Nat /\ W \in Nat /\ W = P + m + n
    BY <2>1, <2>2, Matched
  <2>4. Awaited(cm, x)' = P + m + q
    BY <1>5, AwaitedIsAfter
  <2>5. Waiting(cm, x)' = (W - n) + q
    BY <1>4, <1>5, AwaitedIsAfter
  <2> HIDE DEF n, q, m, P, W
  <2>6. P + m + q = (W - n) + q
    BY <2>1, <2>3
  <2> QED BY <2>4, <2>5, <2>6
<1>10. RecordsMatchAwaited'
  BY <1>9 DEF RecordsMatchAwaited
<1>11. ASSUME NEW x \in Ids PROVE RemovedOnce(x)' /\ (Unmarked(x) => Unmarked(x)')
  <2>1. RemovedOnce(x)
    BY DEF Books
  <2>2. ~Ending(c.cmd, c.id, TRUE, x)
    BY DEF Ending
  <2>3. AcksKept(x) /\ ~Reaping(x)
    BY LinkFacts, ShortenedNone DEF Reaping
  <2>4. /\ HasPast(x)' => HasPast(x) \/ FALSE
        /\ Reaping(x)' => HasPast(x)
        /\ PastOnce(x) /\ (FALSE => ~HasPast(x)) => PastOnce(x)' /\ (Reaping(x)' => ~HasPast(x)')
    BY <1>4, <2>2
  <2> QED BY <2>1, <2>3, <2>4, RemovedAfter
<1>12. Forgets
  BY <1>4, <1>11 DEF Forgets
<1> QED BY <1>5, <1>6, <1>7, <1>8, <1>10, <1>11, <1>12 DEF Books

\* The next command of a chain, sent to the nodes.
LEMMA BroadcastNextKeeps ==
  ASSUME LinksOK, BooksOK, Books, rcv.at = "push", rcv' = RcvIdle,
         Broadcast(Current(rcv.rec), NoValue),
         UNCHANGED <<status, slots, peer, up, linger, node, dict, tree, proc, rmlist, main, printed>>
  PROVE  LinksOK' /\ BooksOK' /\ Books' /\ Forgets
<1> DEFINE c == Current(rcv.rec)
<1>1. rcv.rec \in Rec /\ Unfinished(rcv.rec)
  BY DEF BooksOK, Books, Chains, Rcv
<1>2. c \in Cmd /\ c.id \in Ids /\ c.cmd \in ChainCommands
  BY <1>1, AdvanceIs
<1> HIDE DEF c
<1>3. /\ down' \in Queues(Message) /\ outstanding' \subseteq Broadcasts /\ nextUuid' \in Nat
      /\ AwaitedAreKnown' /\ Traffic'
      /\ \A cmd, id : Cardinality(Pending(outstanding', cmd, id))
                        = Cardinality(Pending(outstanding, cmd, id)) + Num(Is(c, cmd, id))
  <2>1. NoValue \in Values \cup {NoValue, Get} /\ Broadcast(c, NoValue)
    BY DEF c
  <2> QED BY <1>2, <2>1, BroadcastIs DEF Books
<1>4. LinksOK'
  BY <1>3, LinkFacts, LinksAfter
<1>5. rcv' \in Rcv /\ rcv'.at = "idle"
  <2>1. <<>> \in Seq(Cmd)
    OBVIOUS
  <2>2. NoRecord \in Rec
    BY <2>1 DEF NoRecord, Rec, AnyId
  <2> QED BY <2>2 DEF Rcv, RcvIdle
<1>6. BooksOK'
  BY <1>3, <1>5 DEF BooksOK
<1>7. WellFormed(tree)' /\ Kept' /\ Chains'
  BY <1>5 DEF Books, Kept, Chains
<1>8. ASSUME NEW cm \in ChainCommands, NEW x \in Ids
      PROVE  Awaited(cm, x)' = Waiting(cm, x)'
  <2>1. Num(rcv.at = "push" /\ Is(Current(rcv.rec), cm, x)) = Num(Is(c, cm, x))
    BY DEF c, Num
  <2>2. Num(rcv'.at = "push" /\ Is(Current(rcv'.rec), cm, x)) = 0
    BY <1>5 DEF Num
  <2> DEFINE n == Num(Is(c, cm, x))
             m == Num(main.at = "remove" /\ Is(main.c, cm, x))
             P == Cardinality(Pending(outstanding, cm, x))
             W == Cardinality(Wanting(rmlist, cm, x))
  <2>3. n \in Nat /\ m \in Nat
    BY NumNat
  <2>4. P \in Nat /\ W \in Nat /\ W = P + m + n
    BY <2>1, Matched
  <2>5. Awaited(cm, x)' = (P + n) + m + 0
    BY <1>3, <1>6, <2>2, AwaitedIsAfter
  <2>6. Waiting(cm, x)' = W
    BY <1>6, AwaitedIsAfter
  <2> HIDE DEF n, m, P, W
  <2>7. (P + n) + m + 0 = W
    BY <2>3, <2>4
  <2> QED BY <2>5, <2>6, <2>7
<1>9. RecordsMatchAwaited'
  BY <1>8 DEF RecordsMatchAwaited
<1>10. ASSUME NEW x \in Ids PROVE RemovedOnce(x)'
  <2>1. ~Reaping(x) /\ ~Reaping(x)'
    BY <1>5 DEF Reaping
  <2>2. /\ AcksOnce(x)' <=> AcksOnce(x)
        /\ HasAck(x)' <=> HasAck(x)
        /\ PastOnce(x)' <=> PastOnce(x)
        /\ HasPast(x)' <=> HasPast(x)
    BY DEF AcksOnce, HasAck, PastOnce, HasPast
  <2> QED BY <2>1, <2>2 DEF Books, RemovedOnce
<1>11. Forgets
  <2>1. FromChains
    BY <1>5 DEF FromChains
  <2>2. \A x : Unmarked(x) => Unmarked(x)'
    BY <1>5 DEF Unmarked, HasAck, HasPast, Reaping
  <2> QED BY <2>1, <2>2 DEF Forgets
<1> QED BY <1>3, <1>4, <1>6, <1>7, <1>9, <1>10, <1>11 DEF Books

LEMMA PushNextRemoveKeeps ==
  ASSUME LinksOK, BooksOK, Books, PushNextRemove
  PROVE  LinksOK' /\ BooksOK' /\ Books' /\ Forgets
<1> DEFINE c == Current(rcv.rec)
           child == [id |-> c.id, pid |-> c.pid]
           own == \/ c.cmd = "disconnect" /\ HasChild(Control, c.id)
                  \/ c.cmd = "connect" /\ c.parent = NoId
           closed == {slots[Control][SlotToClose(slots[Control], c.id)].pid}
<1>1. rcv.at = "push" /\ UNCHANGED <<status, node, dict, tree, proc, main, printed>>
  BY DEF PushNextRemove, nodeVars
<1>2. rcv.rec \in Rec /\ Unfinished(rcv.rec)
  BY <1>1 DEF BooksOK, Books, Chains, Rcv
<1>3. c \in Cmd /\ c.id \in Ids /\ c.cmd \in ChainCommands
  BY <1>2, AdvanceIs, ZenonT(60)
<1>4. child \in Slot /\ Control \in AllProcs /\ NoChild \in Slot
  BY <1>3 DEF Cmd, Slot, AllProcs, NoChild, AnyId
<1>5. /\ [slots EXCEPT ![Control] = Closed(@, c.id)] \in Links
      /\ [slots EXCEPT ![Control] = Connected(@, child)] \in Links
      /\ linger \subseteq AllProcs
  <2> HIDE DEF c, child
  <2> QED BY <1>4, LinkFacts, SlotsAfter
<1>6. CASE /\ c.cmd = "disconnect"
           /\ Rewire([slots EXCEPT ![Control] = Closed(@, c.id)], up)
           /\ linger' \in LingersAfterClose(Control, closed)
           /\ RecRemove(c.cmd, c.id, TRUE)
           /\ UNCHANGED <<down, outstanding, nextUuid>>
  <2>3. linger' \subseteq AllProcs
    <3> HIDE DEF closed
    <3> QED BY <1>4, <1>5, <1>6, LingersWithin
  <2>1. LinksOK' /\ Copied(down, down') /\ Shortened(up, up')
    BY <1>1, <1>5, <1>6, <2>3, OwnRewire
  <2> QED BY <1>1, <1>6, <2>1, OwnCommandKeeps
<1>7. CASE /\ c.cmd = "connect"
           /\ Rewire([slots EXCEPT ![Control] = Connected(@, child)], up)
           /\ RecRemove(c.cmd, c.id, TRUE)
           /\ UNCHANGED <<down, outstanding, nextUuid, linger>>
  <2>1. LinksOK' /\ Copied(down, down') /\ Shortened(up, up')
    BY <1>1, <1>5, <1>7, OwnRewire
  <2> QED BY <1>1, <1>7, <2>1, OwnCommandKeeps
<1>8. CASE /\ Broadcast(c, NoValue) /\ rcv' = RcvIdle
           /\ UNCHANGED <<slots, peer, up, rmlist, linger>>
  BY <1>1, <1>8, BroadcastNextKeeps
<1> QED BY <1>6, <1>7, <1>8 DEF PushNextRemove

\* waitpid, and the end of the removal.
LEMMA ReapKeeps ==
  ASSUME LinksOK, BooksOK, Books, Reap
  PROVE  LinksOK' /\ BooksOK' /\ Books' /\ Forgets
<1> DEFINE t == rcv.rec.target
           p == proc[t]
<1>1. /\ rcv.at = "wait" /\ TreeHas(tree, t) /\ status[p] \in {"zombie", "reaped"}
      /\ status' = [status EXCEPT ![p] = "reaped"]
      /\ tree' = TreeRemove(tree, t) /\ rcv' = RcvIdle
      /\ UNCHANGED <<slots, peer, down, up, linger, node, dict, proc, outstanding,
                     nextUuid, rmlist, main, printed>>
  BY DEF Reap, nodeVars
<1>2. t \in Ids
  BY <1>1 DEF Books, Chains
<1>3. p \in Procs /\ node[p] = t
  BY <1>1, <1>2 DEF Books, Kept
<1> HIDE DEF t, p
<1>4. /\ status' \in [Procs -> {"unborn", "run", "stuck", "zombie", "reaped"}]
      /\ \A q \in Procs : status'[q] = IF q = p THEN "reaped" ELSE status[q]
  BY <1>1, <1>3, LinkFacts
<1>5. LinksOK'
  BY <1>1, <1>4, LinkFacts, LinksAfter
<1>6. WellFormed(tree) /\ WellFormed(tree') /\ \A x : TreeHas(tree', x) <=> TreeHas(tree, x) /\ x # t
  BY <1>1, <1>2, RemovedTree DEF Books
<1>7. rcv' \in Rcv /\ rcv'.at = "idle"
  <2>1. <<>> \in Seq(Cmd)
    OBVIOUS
  <2>2. NoRecord \in Rec
    BY <2>1 DEF NoRecord, Rec, AnyId
  <2> QED BY <1>1, <2>2 DEF Rcv, RcvIdle
<1>8. BooksOK'
  BY <1>1, <1>6, <1>7 DEF BooksOK, WellFormed
<1>9. Chains' /\ AwaitedAreKnown' /\ Traffic'
  BY <1>1, <1>7 DEF Books, Chains, AwaitedAreKnown, Traffic, Traced
<1>10. ASSUME NEW cm \in ChainCommands, NEW x \in Ids
       PROVE  Awaited(cm, x)' = Waiting(cm, x)'
  <2>1. /\ Num(rcv.at = "push" /\ Is(Current(rcv.rec), cm, x)) = 0
        /\ Num(rcv'.at = "push" /\ Is(Current(rcv'.rec), cm, x)) = 0
    BY <1>1, <1>7 DEF Num
  <2> QED BY <1>1, <1>8, <2>1, Matched, AwaitedIsAfter
<1>11. Kept'
  <2>1. ASSUME NEW q \in Procs, status'[q] \notin {"unborn", "reaped"}
        PROVE  node[q] \in Ids /\ TreeHas(tree', node[q]) /\ proc[node[q]] = q
    <3>1. q # p /\ status[q] \notin {"unborn", "reaped"}
      BY <1>4, <2>1
    <3>2. node[q] \in Ids /\ TreeHas(tree, node[q]) /\ proc[node[q]] = q
      BY <3>1 DEF Books, Kept
    <3>3. node[q] # t
      BY <3>1, <3>2 DEF p
    <3> QED BY <1>6, <3>2, <3>3
  <2>2. ASSUME NEW id \in Ids, TreeHas(tree', id)
        PROVE  proc[id] \in Procs /\ status'[proc[id]] # "unborn" /\ node[proc[id]] = id
    BY <1>4, <1>6, <2>2 DEF Books, Kept
  <2> QED BY <1>1, <2>1, <2>2 DEF Kept
<1>12. ASSUME NEW x \in Ids PROVE RemovedOnce(x)'
  <2>1. RemovedOnce(x) /\ (Reaping(x) <=> x = t) /\ ~Reaping(x)'
    BY <1>1, <1>7 DEF Books, Reaping, t
  <2>2. /\ AcksOnce(x)' <=> AcksOnce(x)
        /\ HasAck(x)' <=> HasAck(x)
        /\ PastOnce(x)' <=> PastOnce(x)
        /\ HasPast(x)' <=> HasPast(x)
    BY <1>1 DEF AcksOnce, HasAck, PastOnce, HasPast
  <2>3. HasAck(x) \/ HasPast(x) => x # t /\ TreeHas(tree, x) /\ status[proc[x]] # "run"
    BY <2>1 DEF RemovedOnce
  <2>4. HasAck(x) \/ HasPast(x) => TreeHas(tree', x) /\ status'[proc'[x]] # "run"
    <3>1. TreeHas(tree, x) => proc[x] \in Procs
      BY DEF Books, Kept
    <3> QED BY <1>1, <1>4, <1>6, <2>3, <3>1
  <2> QED BY <2>1, <2>2, <2>4 DEF RemovedOnce
<1>13. Forgets
  <2>1. FromChains
    BY <1>1, <1>7 DEF FromChains
  <2>2. \A x : Unmarked(x) => Unmarked(x)'
    BY <1>1, <1>7 DEF Unmarked, HasAck, HasPast, Reaping
  <2> QED BY <2>1, <2>2 DEF Forgets
<1> QED BY <1>5, <1>6, <1>8, <1>9, <1>10, <1>11, <1>12, <1>13 DEF Books, RecordsMatchAwaited

-----------------------------------------------------------------------------
(* The main thread.                                                        *)

LEMMA IdleFacts ==
  /\ MainIdle \in Main /\ MainIdle.at = "idle" /\ MainIdle.i = 1
  /\ \A m \in Main, a \in {"idle", "create", "remove", "kill", "wait", "exit"} :
       /\ [m EXCEPT !.at = a] \in Main /\ [m EXCEPT !.at = a].at = a
       /\ [m EXCEPT !.at = a].c = m.c /\ [m EXCEPT !.at = a].i = m.i
<1>1. NoCommand \in Cmd
  BY DEF NoCommand, Cmd, Commands, AnyId, AllProcs
<1>2. MainIdle \in Main /\ MainIdle.at = "idle" /\ MainIdle.i = 1
  BY <1>1 DEF MainIdle, Main
<1> QED BY <1>2 DEF Main

\* A step of the main thread that concerns nothing but processes and sockets.
LEMMA SilentKeeps ==
  ASSUME LinksOK, LinksOK', BooksOK, Books, main' \in Main, main'.i > 0,
         main' = main \/ (main.at # "remove" /\ main'.at \notin {"create", "remove"}),
         UNCHANGED <<node, tree, proc, outstanding, nextUuid, rmlist, rcv, printed>>,
         Dies, Copied(down, down'), Cleans, Shortened(up, up')
  PROVE  BooksOK' /\ Books'
<1>1. Effect(Control)
  BY SilentEffect
<1>2. Books'
  BY <1>1, BooksKept
<1> QED BY <1>2 DEF BooksOK

\* A broadcast of the main thread.
LEMMA BroadcastMainKeeps ==
  ASSUME LinksOK, BooksOK, Books, NEW c \in Cmd, c.id \in Ids,
         NEW arg \in Values \cup {NoValue, Get}, Broadcast(c, arg),
         UNCHANGED <<status, slots, peer, up, linger, node, dict, tree, proc, rmlist, rcv, printed>>,
         main' \in Main, main'.i > 0, main'.at \notin {"create", "remove"},
         \A cm \in ChainCommands, x \in Ids :
           (main.at = "remove" /\ Is(main.c, cm, x)) <=> Is(c, cm, x)
  PROVE  LinksOK' /\ BooksOK' /\ Books'
<1>1. /\ down' \in Queues(Message) /\ outstanding' \subseteq Broadcasts /\ nextUuid' \in Nat
      /\ AwaitedAreKnown' /\ Traffic'
      /\ \A cmd, id : Cardinality(Pending(outstanding', cmd, id))
                        = Cardinality(Pending(outstanding, cmd, id)) + Num(Is(c, cmd, id))
  BY BroadcastIs DEF Books
<1>2. LinksOK'
  BY <1>1, LinkFacts, LinksAfter
<1>3. BooksOK'
  BY <1>1 DEF BooksOK
<1>4. WellFormed(tree)' /\ Kept' /\ Chains'
  BY DEF Books, Kept, Chains
<1>5. ASSUME NEW cm \in ChainCommands, NEW x \in Ids
      PROVE  Awaited(cm, x)' = Waiting(cm, x)'
  <2> DEFINE n == Num(Is(c, cm, x))
             q == Num(rcv.at = "push" /\ Is(Current(rcv.rec), cm, x))
             P == Cardinality(Pending(outstanding, cm, x))
             W == Cardinality(Wanting(rmlist, cm, x))
  <2>1. Num(main.at = "remove" /\ Is(main.c, cm, x)) = n
    BY DEF Num
  <2>2. Num(main'.at = "remove" /\ Is(main'.c, cm, x)) = 0
    BY DEF Num
  <2>3. n \in Nat /\ q \in Nat
    BY NumNat
  <2>4. P \in Nat /\ W \in Nat /\ W = P + n + q
    BY <2>1, Matched
  <2>5. Awaited(cm, x)' = (P + n) + 0 + q
    BY <1>1, <1>3, <2>2, AwaitedIsAfter
  <2>6. Waiting(cm, x)' = W
    BY <1>3, AwaitedIsAfter
  <2> HIDE DEF n, q, P, W
  <2>7. (P + n) + 0 + q = W
    BY <2>3, <2>4
  <2> QED BY <2>5, <2>6, <2>7
<1>6. ASSUME NEW x \in Ids PROVE RemovedOnce(x)'
  <2>1. /\ AcksOnce(x)' <=> AcksOnce(x)
        /\ HasAck(x)' <=> HasAck(x)
        /\ PastOnce(x)' <=> PastOnce(x)
        /\ HasPast(x)' <=> HasPast(x)
        /\ Reaping(x)' <=> Reaping(x)
    BY DEF AcksOnce, HasAck, PastOnce, HasPast, Reaping
  <2> QED BY <2>1 DEF Books, RemovedOnce
<1> QED BY <1>1, <1>2, <1>3, <1>4, <1>5, <1>6 DEF Books, RecordsMatchAwaited

LEMMA CmdExecKeeps ==
  ASSUME LinksOK, BooksOK, Books, NEW id \in Ids, NEW arg \in Values \cup {Get}, CmdExec(id, arg)
  PROVE  LinksOK' /\ BooksOK' /\ Books'
<1> DEFINE c == [cmd |-> "exec", id |-> id, parent |-> NoId, pid |-> Control]
<1>1. /\ main = MainIdle /\ Broadcast(c, arg)
      /\ UNCHANGED <<status, slots, peer, up, linger, node, dict, tree, proc, rmlist, main, rcv, printed>>
  BY DEF CmdExec, nodeVars
<1>2. c \in Cmd /\ c.id \in Ids /\ c.cmd = "exec"
  BY DEF Cmd, Commands, AnyId, AllProcs
<1> HIDE DEF c
<1>3. \A cm \in ChainCommands, x \in Ids :
        (main.at = "remove" /\ Is(main.c, cm, x)) <=> Is(c, cm, x)
  BY <1>1, <1>2, IdleFacts DEF Is, ChainCommands
<1>4. main' \in Main /\ main'.i > 0 /\ main'.at \notin {"create", "remove"}
  BY <1>1, IdleFacts
<1> QED BY <1>1, <1>2, <1>3, <1>4, BroadcastMainKeeps

LEMMA PushFirstRemoveKeeps ==
  ASSUME LinksOK, BooksOK, Books, PushFirstRemove
  PROVE  LinksOK' /\ BooksOK' /\ Books'
<1> DEFINE c == main.c
<1>1. /\ main.at = "remove" /\ main' = MainIdle /\ Broadcast(c, NoValue)
      /\ UNCHANGED <<status, slots, peer, up, linger, node, dict, tree, proc, rmlist, rcv, printed>>
  BY DEF PushFirstRemove, nodeVars
<1>2. c \in Cmd /\ c.id \in Ids
  BY <1>1 DEF BooksOK, Main, Books, Chains
<1>3. \A cm \in ChainCommands, x \in Ids :
        (main.at = "remove" /\ Is(main.c, cm, x)) <=> Is(c, cm, x)
  BY <1>1
<1>4. main' \in Main /\ main'.i > 0 /\ main'.at \notin {"create", "remove"}
  BY <1>1, IdleFacts
<1>5. NoValue \in Values \cup {NoValue, Get}
  OBVIOUS
<1> HIDE DEF c
<1> QED BY <1>1, <1>2, <1>3, <1>4, <1>5, BroadcastMainKeeps

LEMMA PushCreateKeeps ==
  ASSUME LinksOK, BooksOK, Books, Fresh, PushCreate
  PROVE  LinksOK' /\ BooksOK' /\ Books'
<1> DEFINE parent == TreeLastParent(tree)
           child == [id |-> main.c.id, pid |-> main.c.pid]
           sl == [slots EXCEPT ![Control] = Connected(@, child)]
           c == [main.c EXCEPT !.parent = parent]
<1>1. /\ main.at = "create" /\ main' = MainIdle
      /\ UNCHANGED <<status, linger, node, dict, tree, proc, rmlist, rcv, printed>>
      /\ \/ /\ Rewire(sl, up) /\ UNCHANGED <<down, outstanding, nextUuid>>
         \/ /\ parent # NoId /\ Broadcast(c, NoValue) /\ UNCHANGED <<slots, peer, up>>
  BY DEF PushCreate, nodeVars
<1>2. main.c \in Cmd /\ main.c.id \in Ids /\ main.c.cmd = "create"
  BY <1>1 DEF BooksOK, Main, Books, Chains
<1>3. main' \in Main /\ main'.i > 0 /\ main'.at \notin {"create", "remove"}
  BY <1>1, IdleFacts
<1>4. CASE Rewire(sl, up) /\ UNCHANGED <<down, outstanding, nextUuid>>
  <2>1. child \in Slot /\ Control \in AllProcs
    BY <1>2 DEF Cmd, Slot, AllProcs
  <2>2. sl \in Links
    <3> HIDE DEF child
    <3> QED BY <2>1, LinkFacts, SlotsAfter
  <2>3. linger' \subseteq AllProcs
    BY <1>1, LinkFacts
  <2> HIDE DEF sl
  <2>4. LinksOK' /\ Copied(down, down') /\ Shortened(up, up')
    BY <1>1, <1>4, <2>2, <2>3, OwnRewire
  <2>5. Chains' /\ Traffic' /\ BooksOK'
    <3>1. BooksOK' /\ Chains'
      BY <1>1, <1>3, <1>4 DEF BooksOK, Books, Chains
    <3>2. Traffic'
      BY <1>1, <1>4, <2>4, TracedKept DEF Books
    <3> QED BY <3>1, <3>2
  <2>6. RecordsMatchAwaited'
    <3>1. main.at # "remove" /\ main'.at # "remove"
      BY <1>1, <1>3
    <3> QED BY <1>1, <1>4, <3>1, MatchKept DEF Books
  <2>7. ASSUME NEW x \in Ids PROVE RemovedOnce(x)'
    <3>1. AcksKept(x)
      BY <2>4, LinkFacts, ShortenedNone
    <3>2. /\ PastOnce(x)' <=> PastOnce(x)
          /\ HasPast(x)' <=> HasPast(x)
          /\ Reaping(x)' <=> Reaping(x)
      BY <1>1 DEF PastOnce, HasPast, Reaping
    <3> QED BY <1>1, <3>1, <3>2 DEF Books, RemovedOnce, AcksKept
  <2>8. WellFormed(tree)' /\ AwaitedAreKnown' /\ Kept'
    BY <1>1, <1>4 DEF Books, AwaitedAreKnown, Kept
  <2> QED BY <2>4, <2>5, <2>6, <2>7, <2>8 DEF Books
<1>5. CASE parent # NoId /\ Broadcast(c, NoValue) /\ UNCHANGED <<slots, peer, up>>
  <2>1. parent \in AnyId
    <3>1. /\ Len(tree) \in Nat /\ \A k \in 1..Len(tree) : tree[k] \in AnyId
      BY ArrayIds DEF Books
    <3>2. TreeIndex(tree, main.c.id) \in 2..Len(tree)
      BY <1>1, <1>2, IndexOf DEF Fresh, Forked, Books
    <3>3. Len(tree) >= 2
      BY <3>1, <3>2
    <3>4. Len(tree) \div 2 \in 1..Len(tree)
      BY <3>1, <3>3
    <3> QED BY <3>1, <3>4 DEF TreeLastParent
  <2>2. c \in Cmd /\ c.id \in Ids /\ c.cmd = "create"
    <3> HIDE DEF parent
    <3> QED BY <1>2, <2>1 DEF Cmd
  <2> HIDE DEF c
  <2>3. \A cm \in ChainCommands, x \in Ids :
          (main.at = "remove" /\ Is(main.c, cm, x)) <=> Is(c, cm, x)
    BY <1>1, <2>2 DEF Is, ChainCommands
  <2>4. NoValue \in Values \cup {NoValue, Get}
    OBVIOUS
  <2> QED BY <1>1, <1>3, <1>5, <2>2, <2>3, <2>4, BroadcastMainKeeps
<1> QED BY <1>1, <1>4, <1>5

\* fork: the process is new, the id too.
LEMMA CmdCreateKeeps ==
  ASSUME LinksOK, BooksOK, Books, NEW id \in Ids, CmdCreate(id)
  PROVE  LinksOK' /\ BooksOK' /\ Books'
<1>1. /\ main = MainIdle /\ ~TreeHas(tree, id) /\ tree' = TreeAdd(tree, id)
      /\ UNCHANGED <<slots, peer, down, up, linger, dict, outstanding, nextUuid, rmlist, rcv, printed>>
  BY DEF CmdCreate
<1>2. PICK p \in Procs :
        /\ status[p] = "unborn"
        /\ status' = [status EXCEPT ![p] = "run"]
        /\ node' = [node EXCEPT ![p] = id]
        /\ proc' = [proc EXCEPT ![id] = p]
        /\ main' = [MainIdle EXCEPT !.at = "create",
                                   !.c = [cmd |-> "create", id |-> id, parent |-> NoId, pid |-> p]]
  BY DEF CmdCreate
<1>3. id \in AnyId /\ p \in AllProcs /\ NoId \in AnyId /\ "create" \in Commands
  BY DEF AnyId, AllProcs, Commands
<1>4. /\ main' \in Main /\ main'.at = "create" /\ main'.i = 1
      /\ main'.c.cmd = "create" /\ main'.c.id = id /\ main'.c.pid = p
  <2>1. MainIdle \in [at : {"idle", "create", "remove", "kill", "wait", "exit"}, c : Cmd, i : Nat]
    BY IdleFacts DEF Main
  <2>2. [cmd |-> "create", id |-> id, parent |-> NoId, pid |-> p] \in Cmd
    BY <1>3 DEF Cmd
  <2>3. MainIdle.i = 1
    BY IdleFacts
  <2> QED BY <1>2, <2>1, <2>2, <2>3 DEF Main
<1>5. WellFormed(tree') /\ \A x : TreeHas(tree', x) <=> TreeHas(tree, x) \/ x = id
  BY <1>1, AddedTree DEF Books
<1>6. /\ node' \in [Procs -> AnyId] /\ \A q \in Procs : node'[q] = IF q = p THEN id ELSE node[q]
      /\ proc' \in [AnyId -> AllProcs] /\ \A x \in AnyId : proc'[x] = IF x = id THEN p ELSE proc[x]
      /\ status' \in [Procs -> {"unborn", "run", "stuck", "zombie", "reaped"}]
      /\ \A q \in Procs : status'[q] = IF q = p THEN "run" ELSE status[q]
  BY <1>2, <1>3, LinkFacts DEF BooksOK
<1>7. LinksOK'
  BY <1>1, <1>6, LinkFacts, LinksAfter
<1>8. BooksOK'
  BY <1>1, <1>4, <1>5, <1>6 DEF BooksOK, WellFormed
<1>9. Chains' /\ AwaitedAreKnown' /\ Traffic'
  BY <1>1, <1>4 DEF Books, Chains, AwaitedAreKnown, Traffic, Traced
<1>10. RecordsMatchAwaited'
  <2>1. main.at # "remove" /\ main'.at # "remove"
    BY <1>1, <1>4, IdleFacts
  <2> QED BY <1>1, <2>1, MatchKept DEF Books
<1>11. Kept'
  <2>1. ASSUME NEW q \in Procs, status'[q] \notin {"unborn", "reaped"}
        PROVE  node'[q] \in Ids /\ TreeHas(tree', node'[q]) /\ proc'[node'[q]] = q
    <3>1. CASE q = p
      BY <1>3, <1>5, <1>6, <3>1
    <3>2. CASE q # p
      <4>1. node[q] \in Ids /\ TreeHas(tree, node[q]) /\ proc[node[q]] = q
        BY <1>6, <2>1, <3>2 DEF Books, Kept
      <4>2. node[q] # id /\ node[q] \in AnyId
        BY <1>1, <4>1 DEF AnyId
      <4> QED BY <1>5, <1>6, <3>2, <4>1, <4>2
    <3> QED BY <3>1, <3>2
  <2>2. ASSUME NEW x \in Ids, TreeHas(tree', x)
        PROVE  proc'[x] \in Procs /\ status'[proc'[x]] # "unborn" /\ node'[proc'[x]] = x
    <3>1. CASE x = id
      BY <1>3, <1>6, <3>1
    <3>2. CASE x # id
      <4>1. proc[x] \in Procs /\ status[proc[x]] # "unborn" /\ node[proc[x]] = x
        BY <1>5, <2>2, <3>2 DEF Books, Kept
      <4>2. proc[x] # p /\ x \in AnyId
        BY <1>2, <4>1 DEF AnyId
      <4> QED BY <1>6, <3>2, <4>1, <4>2
    <3> QED BY <3>1, <3>2
  <2> QED BY <2>1, <2>2 DEF Kept
<1>12. ASSUME NEW x \in Ids PROVE RemovedOnce(x)'
  <2>1. /\ AcksOnce(x)' <=> AcksOnce(x)
        /\ HasAck(x)' <=> HasAck(x)
        /\ PastOnce(x)' <=> PastOnce(x)
        /\ HasPast(x)' <=> HasPast(x)
        /\ Reaping(x)' <=> Reaping(x)
    BY <1>1 DEF AcksOnce, HasAck, PastOnce, HasPast, Reaping
  <2>2. TreeHas(tree, x) /\ status[proc[x]] # "run" => TreeHas(tree', x) /\ status'[proc'[x]] # "run"
    <3>1. ASSUME TreeHas(tree, x)
          PROVE  x # id /\ x \in AnyId /\ proc[x] \in Procs /\ proc[x] # p
      BY <1>1, <1>2, <3>1 DEF Books, Kept, AnyId
    <3> QED BY <1>5, <1>6, <3>1
  <2> QED BY <2>1, <2>2 DEF Books, RemovedOnce
<1> QED BY <1>5, <1>7, <1>8, <1>9, <1>10, <1>11, <1>12 DEF Books

\* The chain that is planned.
LEMMA PlannedIs ==
  ASSUME BooksOK, Books, NEW id \in Ids, TreeHas(tree, id),
         NEW commands, commands = RemoveCommands(tree, id),
         NEW rec, rec = [target |-> id,
                         cmds   |-> [k \in 1..Len(commands) |-> Addressed(commands[k])],
                         now    |-> 0]
  PROVE  /\ rec \in Rec /\ Unfinished(rec) /\ rec.now = 0 /\ rec.target = id
         /\ \A k \in 1..Len(rec.cmds) : \E x \in Ids : TreeHas(tree, x) /\ rec.cmds[k].pid = proc[x]
<1> DEFINE n == Len(commands)
           cmds == [k \in 1..n |-> Addressed(commands[k])]
<1>1. /\ n \in {2, 5, 6, 7}
      /\ \A k \in 1..n :
           /\ commands[k].cmd \in ChainCommands /\ commands[k].id \in Ids /\ commands[k].parent \in AnyId
           /\ TreeHas(tree, commands[k].id)
           /\ commands[k].cmd = "remove" <=> k = IF n = 2 THEN 1 ELSE 3
      /\ commands[IF n = 2 THEN 1 ELSE 3].id = id
  BY PlanOf, SMTT(60) DEF Books
<1>2. n \in Nat /\ (IF n = 2 THEN 1 ELSE 3) \in 1..n
  BY <1>1
<1> HIDE DEF n
<1>3. \A k \in 1..n : /\ Addressed(commands[k]) \in Cmd
                      /\ Addressed(commands[k]).cmd = commands[k].cmd
                      /\ Addressed(commands[k]).id = commands[k].id
                      /\ Addressed(commands[k]).pid = proc[commands[k].id]
  BY <1>1 DEF Addressed, Cmd, BooksOK, AnyId, ChainCommands, Commands
<1>4. cmds \in Seq(Cmd) /\ Len(cmds) = n /\ \A k \in 1..n : cmds[k] = Addressed(commands[k])
  BY <1>2, <1>3
<1> HIDE DEF cmds
<1>5. rec = [target |-> id, cmds |-> cmds, now |-> 0]
  BY DEF n, cmds
<1>6. rec \in Rec /\ rec.cmds = cmds /\ rec.now = 0 /\ rec.target = id
  <2>1. id \in AnyId
    BY DEF AnyId
  <2> QED BY <1>4, <1>5, <2>1 DEF Rec
<1>7. RemovePlace(rec) = IF n = 2 THEN 1 ELSE 3
  BY <1>4, <1>6 DEF RemovePlace
<1>8. Planned(rec)
  <2> DEFINE place == IF n = 2 THEN 1 ELSE 3
  <2>1. place \in 1..n /\ RemovePlace(rec) = place
    BY <1>2, <1>7
  <2>2. commands[place].id = id /\ \A k \in 1..n : commands[k].cmd = "remove" <=> k = place
    BY <1>1
  <2> HIDE DEF place
  <2>3. Len(rec.cmds) \in {2, 5, 6, 7}
    BY <1>1, <1>4, <1>6
  <2>4. ASSUME NEW k \in 1..Len(rec.cmds)
        PROVE  /\ rec.cmds[k].cmd \in ChainCommands /\ rec.cmds[k].id \in Ids
               /\ rec.cmds[k].cmd = "remove" <=> k = RemovePlace(rec)
    <3>1. k \in 1..n /\ rec.cmds[k].cmd = commands[k].cmd /\ rec.cmds[k].id = commands[k].id
      BY <1>3, <1>4, <1>6
    <3> QED BY <1>1, <2>1, <2>2, <3>1
  <2>5. rec.cmds[RemovePlace(rec)].id = rec.target
    BY <1>3, <1>4, <1>6, <2>1, <2>2
  <2> QED BY <1>6, <2>3, <2>4, <2>5, ZenonT(60) DEF Planned
<1>9. rec.now < Len(rec.cmds)
  BY <1>2, <1>4, <1>6
<1> QED BY <1>1, <1>3, <1>4, <1>6, <1>8, <1>9 DEF Unfinished

\* The planned chain comes before the others.
LEMMA CmdRemoveIs ==
  ASSUME BooksOK, Books, NEW id \in Ids, CmdRemove(id)
  PROVE  \E rec \in Rec :
           /\ Unfinished(rec) /\ rec.now = 0 /\ rec.target = id
           /\ \A k \in 1..Len(rec.cmds) : \E x \in Ids : TreeHas(tree, x) /\ rec.cmds[k].pid = proc[x]
           /\ rmlist' = ListInsertFront(rmlist, rec)
           /\ main' = [MainIdle EXCEPT !.at = "remove", !.c = Current(rec)]
<1> DEFINE commands == RemoveCommands(tree, id)
           rec == [target |-> id,
                   cmds   |-> [k \in 1..Len(commands) |-> Addressed(commands[k])],
                   now    |-> 0]
<1>1. /\ TreeHas(tree, id) /\ rmlist' = ListInsertFront(rmlist, rec)
      /\ main' = [MainIdle EXCEPT !.at = "remove", !.c = Current(rec)]
  BY DEF CmdRemove
<1>2. /\ rec \in Rec /\ Unfinished(rec) /\ rec.now = 0 /\ rec.target = id
      /\ \A k \in 1..Len(rec.cmds) : \E x \in Ids : TreeHas(tree, x) /\ rec.cmds[k].pid = proc[x]
  BY <1>1, PlannedIs
<1> HIDE DEF rec
<1> QED BY <1>1, <1>2

LEMMA FrontRec ==
  ASSUME rmlist \in Seq(Rec), NEW rec \in Rec, rmlist' = ListInsertFront(rmlist, rec)
  PROVE  /\ rmlist' \in Seq(Rec) /\ Len(rmlist) \in Nat /\ Len(rmlist') = Len(rmlist) + 1
         /\ rmlist'[1] = rec /\ \A i \in 1..Len(rmlist) : rmlist'[i + 1] = rmlist[i]
<1>1. Len(rmlist) \in Nat
  OBVIOUS
<1> QED BY <1>1, FrontIs, ZenonT(60)

LEMMA CmdRemoveKeeps ==
  ASSUME LinksOK, BooksOK, Books, NEW id \in Ids, CmdRemove(id)
  PROVE  LinksOK' /\ BooksOK' /\ Books'
<1>1. /\ main = MainIdle /\ TreeHas(tree, id)
      /\ UNCHANGED <<status, slots, peer, down, up, linger, node, dict, tree, proc,
                     outstanding, nextUuid, rcv, printed>>
  BY DEF CmdRemove, linkVars, nodeVars
<1>2. PICK rec \in Rec :
        /\ Unfinished(rec) /\ rec.now = 0 /\ rec.target = id
        /\ rmlist' = ListInsertFront(rmlist, rec)
        /\ main' = [MainIdle EXCEPT !.at = "remove", !.c = Current(rec)]
  BY CmdRemoveIs
<1>3. Current(rec).cmd \in ChainCommands /\ Current(rec).id \in Ids /\ Current(rec) \in Cmd
  BY <1>2, AdvanceIs
<1>4. /\ main' \in Main /\ main'.at = "remove" /\ main'.i = 1 /\ main'.c = Current(rec)
  <2>1. MainIdle \in [at : {"idle", "create", "remove", "kill", "wait", "exit"}, c : Cmd, i : Nat]
    BY IdleFacts DEF Main
  <2>2. MainIdle.i = 1
    BY IdleFacts
  <2> QED BY <1>2, <1>3, <2>1, <2>2 DEF Main
<1>5. /\ rmlist \in Seq(Rec) /\ Len(rmlist) \in Nat
      /\ rmlist' \in Seq(Rec) /\ Len(rmlist') = Len(rmlist) + 1 /\ rmlist'[1] = rec
      /\ \A i \in 1..Len(rmlist) : rmlist'[i + 1] = rmlist[i]
  BY <1>2, FrontRec DEF BooksOK
<1>6. \A i \in 1..Len(rmlist') : i = 1 \/ (i - 1 \in 1..Len(rmlist) /\ rmlist'[i] = rmlist[i - 1])
  <2>1. \A i \in 1..Len(rmlist') : i # 1 => i - 1 \in 1..Len(rmlist) /\ (i - 1) + 1 = i
    BY <1>5
  <2> QED BY <1>5, <2>1
<1>7. LinksOK'
  BY <1>1, LinkFacts, LinksAfter
<1>8. BooksOK'
  BY <1>1, <1>4, <1>5 DEF BooksOK
<1>9. Chains'
  <2>1. \A i \in 1..Len(rmlist') : Unfinished(rmlist'[i])
    BY <1>2, <1>5, <1>6 DEF Books, Chains
  <2> QED BY <1>1, <1>3, <1>4, <2>1 DEF Books, Chains
<1>10. AwaitedAreKnown' /\ Traffic' /\ WellFormed(tree)' /\ Kept'
  BY <1>1 DEF Books, AwaitedAreKnown, Traffic, Traced, Kept
<1>11. ASSUME NEW cm \in ChainCommands, NEW x \in Ids
       PROVE  Awaited(cm, x)' = Waiting(cm, x)'
  <2> DEFINE n == Num(Is(Current(rec), cm, x))
             q == Num(rcv.at = "push" /\ Is(Current(rcv.rec), cm, x))
             P == Cardinality(Pending(outstanding, cm, x))
             W == Cardinality(Wanting(rmlist, cm, x))
  <2>1. Num(main'.at = "remove" /\ Is(main'.c, cm, x)) = n
    BY <1>4 DEF Num
  <2>2. Num(main.at = "remove" /\ Is(main.c, cm, x)) = 0
    BY <1>1, IdleFacts DEF Num
  <2>3. n \in Nat /\ q \in Nat
    BY NumNat
  <2>4. P \in Nat /\ W \in Nat /\ W = P + 0 + q
    BY <2>2, Matched
  <2>5. Awaited(cm, x)' = P + n + q
    BY <1>1, <1>8, <2>1, AwaitedIsAfter
  <2>6. Waiting(cm, x)' = W + n
    BY <1>1, <1>2, <1>5, <1>8, WantingFront, AwaitedIsAfter
  <2> HIDE DEF n, q, P, W
  <2>7. P + n + q = W + n
    BY <2>3, <2>4
  <2> QED BY <2>5, <2>6, <2>7
<1>12. ASSUME NEW x \in Ids PROVE RemovedOnce(x)'
  <2>1. ~IsPast(rec, x)
    <3>1. RemovePlace(rec) = 1 \/ RemovePlace(rec) = 3
      BY DEF RemovePlace
    <3> QED BY <1>2, <3>1 DEF IsPast
  <2>2. HasPast(x)' => HasPast(x)
    BY <1>5, <1>6, <2>1 DEF HasPast
  <2>3. PastOnce(x) => PastOnce(x)'
    <3> SUFFICES ASSUME PastOnce(x), NEW i \in 1..Len(rmlist'), NEW j \in 1..Len(rmlist'),
                        IsPast(rmlist'[i], x), IsPast(rmlist'[j], x)
                 PROVE  i = j
      BY DEF PastOnce
    <3>1. i # 1 /\ j # 1
      BY <1>5, <2>1
    <3>2. i - 1 = j - 1
      BY <1>6, <3>1 DEF PastOnce
    <3> QED BY <1>5, <3>2
  <2>4. /\ AcksOnce(x)' <=> AcksOnce(x)
        /\ HasAck(x)' <=> HasAck(x)
        /\ Reaping(x)' <=> Reaping(x)
    BY <1>1 DEF AcksOnce, HasAck, Reaping
  <2> QED BY <1>1, <2>2, <2>3, <2>4 DEF Books, RemovedOnce
<1> QED BY <1>7, <1>8, <1>9, <1>10, <1>11, <1>12 DEF Books, RecordsMatchAwaited

\* The loop over the array.
LoopStep == EndOfInput \/ KillNode \/ WaitNode \/ Exit

LEMMA ElementIs ==
  ASSUME BooksOK, Books, main.i < Len(tree)
  PROVE  /\ main.i + 1 \in 2..Len(tree)
         /\ ProcessAt(main.i) \in Procs /\ status[ProcessAt(main.i)] # "unborn"
<1>1. main.i \in Nat /\ main.i > 0 /\ Len(tree) \in Nat
  BY ArrayIds DEF BooksOK, Books, Chains, Main
<1>2. main.i + 1 \in 2..Len(tree)
  BY <1>1
<1>3. TreeHas(tree, tree[main.i + 1]) /\ tree[main.i + 1] \in Ids
  BY <1>2, ArrayIds DEF Books
<1> QED BY <1>2, <1>3 DEF Books, Kept, ProcessAt

LEMMA MainAfter ==
  ASSUME BooksOK, Books, NEW p \in AllProcs
  PROVE  /\ [main EXCEPT !.at = "wait", !.c.pid = p] \in Main
         /\ [main EXCEPT !.at = "wait", !.c.pid = p].at = "wait"
         /\ [main EXCEPT !.at = "wait", !.c.pid = p].i = main.i
         /\ [main EXCEPT !.at = "kill", !.i = @ + 1] \in Main
         /\ [main EXCEPT !.at = "kill", !.i = @ + 1].at = "kill"
         /\ [main EXCEPT !.at = "kill", !.i = @ + 1].i = main.i + 1
         /\ [main EXCEPT !.at = "exit"] \in Main
         /\ [main EXCEPT !.at = "exit"].at = "exit"
         /\ [main EXCEPT !.at = "exit"].i = main.i
         /\ main.i \in Nat /\ main.i > 0
<1>1. main \in Main /\ main.c \in Cmd /\ main.i \in Nat /\ main.i > 0
  BY DEF BooksOK, Books, Chains, Main
<1>2. [main.c EXCEPT !.pid = p] \in Cmd
  BY <1>1 DEF Cmd
<1>3. /\ [main EXCEPT !.at = "wait"] \in Main /\ [main EXCEPT !.at = "wait"].at = "wait"
      /\ [main EXCEPT !.at = "wait"].c = main.c /\ [main EXCEPT !.at = "wait"].i = main.i
      /\ [main EXCEPT !.at = "kill"] \in Main /\ [main EXCEPT !.at = "kill"].at = "kill"
      /\ [main EXCEPT !.at = "kill"].c = main.c /\ [main EXCEPT !.at = "kill"].i = main.i
      /\ [main EXCEPT !.at = "exit"] \in Main /\ [main EXCEPT !.at = "exit"].at = "exit"
      /\ [main EXCEPT !.at = "exit"].i = main.i
  BY <1>1, IdleFacts
<1>4. ASSUME NEW m \in Main, NEW c \in Cmd
      PROVE  /\ [m EXCEPT !.c = c] \in Main /\ [m EXCEPT !.c = c].at = m.at /\ [m EXCEPT !.c = c].i = m.i
  BY DEF Main
<1>5. ASSUME NEW m \in Main, NEW i \in Nat
      PROVE  /\ [m EXCEPT !.i = i] \in Main /\ [m EXCEPT !.i = i].at = m.at /\ [m EXCEPT !.i = i].i = i
  BY DEF Main
<1>6. main.i + 1 \in Nat
  BY <1>1
<1>7. [main EXCEPT !.at = "wait", !.c.pid = p]
        = [[main EXCEPT !.at = "wait"] EXCEPT !.c = [main.c EXCEPT !.pid = p]]
  BY <1>3
<1>8. [main EXCEPT !.at = "kill", !.i = @ + 1] = [[main EXCEPT !.at = "kill"] EXCEPT !.i = main.i + 1]
  BY <1>3
<1> QED BY <1>1, <1>2, <1>3, <1>4, <1>5, <1>6, <1>7, <1>8, ZenonT(60)

\* What a step of the loop is for the processes and the sockets.
LEMMA StatusEffect ==
  ASSUME LinksOK, status' \in [Procs -> {"unborn", "run", "stuck", "zombie", "reaped"}], Dies,
         UNCHANGED <<slots, peer, down, up, linger, node, dict, tree, proc, outstanding,
                     nextUuid, rmlist, rcv>>
  PROVE  LinksOK' /\ Effect(Control)
<1>1. LinksOK'
  BY LinkFacts, LinksAfter
<1>2. Copied(down, down') /\ Shortened(up, up')
  BY SameIsShortened
<1>3. Cleans
  BY DEF Cleans, LinksClean
<1> QED BY <1>1, <1>2, <1>3, SilentEffect

LEMMA LoopEffect ==
  ASSUME LinksOK, BooksOK, Books, LoopStep
  PROVE  /\ LinksOK' /\ BooksOK' /\ \E p : Effect(p)
         /\ main'.i > 0 /\ main.at # "remove" /\ main'.at \in {"kill", "wait", "exit"}
<1>1. status \in [Procs -> {"unborn", "run", "stuck", "zombie", "reaped"}]
  BY LinkFacts
<1>2. CASE EndOfInput
  <2>1. /\ main = MainIdle /\ main' = [MainIdle EXCEPT !.at = "kill"] /\ printed' = printed
        /\ UNCHANGED <<status, slots, peer, down, up, linger, node, dict, tree, proc, outstanding,
                       nextUuid, rmlist, rcv>>
    BY <1>2 DEF EndOfInput, linkVars, nodeVars
  <2>2. main' \in Main /\ main'.at = "kill" /\ main'.i = 1 /\ main.at = "idle"
    BY <2>1, IdleFacts
  <2>3. LinksOK' /\ Effect(Control)
    BY <1>1, <2>1, StatusEffect DEF Dies
  <2> QED BY <2>1, <2>2, <2>3 DEF BooksOK
<1>3. CASE Exit
  <2>1. /\ main.at = "kill" /\ main' = [main EXCEPT !.at = "exit"] /\ printed' = printed
        /\ UNCHANGED <<status, slots, peer, down, up, linger, node, dict, tree, proc, outstanding,
                       nextUuid, rmlist, rcv>>
    BY <1>3 DEF Exit, linkVars, nodeVars
  <2>2. main' \in Main /\ main'.at = "exit" /\ main'.i > 0
    BY <2>1, MainAfter DEF AllProcs
  <2>3. LinksOK' /\ Effect(Control)
    BY <1>1, <2>1, StatusEffect DEF Dies
  <2> QED BY <2>1, <2>2, <2>3 DEF BooksOK
<1>4. CASE WaitNode
  <2> DEFINE p == IF main.i < Len(tree) THEN ProcessAt(main.i) ELSE main.c.pid
  <2>1. /\ main.at = "wait" /\ main' = [main EXCEPT !.at = "kill", !.i = @ + 1] /\ printed' = printed
        /\ status[p] \in {"zombie", "reaped"} /\ status' = [status EXCEPT ![p] = "reaped"]
        /\ UNCHANGED <<slots, peer, down, up, linger, node, dict, tree, proc, outstanding,
                       nextUuid, rmlist, rcv>>
    BY <1>4 DEF WaitNode, nodeVars
  <2>2. main' \in Main /\ main'.at = "kill" /\ main'.i > 0
    <3>1. Control \in AllProcs
      BY DEF AllProcs
    <3>2. main.i + 1 > 0
      <4>1. main.i \in Nat /\ main.i > 0
        BY DEF BooksOK, Books, Chains, Main
      <4> QED BY <4>1
    <3> HIDE DEF p
    <3> QED BY <2>1, <3>1, <3>2, MainAfter
  <2> HIDE DEF p
  <2>3. status' \in [Procs -> {"unborn", "run", "stuck", "zombie", "reaped"}] /\ Dies
    BY <1>1, <2>1 DEF Dies
  <2>4. LinksOK' /\ Effect(Control)
    BY <2>1, <2>3, StatusEffect
  <2> QED BY <2>1, <2>2, <2>4 DEF BooksOK
<1>5. CASE KillNode
  <2> DEFINE p == ProcessAt(main.i)
  <2>1. /\ main.at = "kill" /\ MoreToKill /\ main' = [main EXCEPT !.at = "wait", !.c.pid = p]
        /\ printed' = printed
        /\ UNCHANGED <<tree, proc, outstanding, nextUuid, rmlist, rcv>>
    BY <1>5 DEF KillNode
  <2>2. p \in Procs
    BY <2>1, ElementIs DEF MoreToKill
  <2>3. main' \in Main /\ main'.at = "wait" /\ main'.i > 0
    BY <2>1, <2>2, MainAfter DEF AllProcs
  <2>4. \/ Crash(p)
        \/ /\ status' = [status EXCEPT ![p] = IF @ = "stuck" THEN "zombie" ELSE @]
           /\ UNCHANGED <<slots, peer, down, up, linger, node, dict>>
    BY <1>5 DEF KillNode, nodeVars
  <2> HIDE DEF p
  <2>5. LinksOK' /\ node' = node /\ \E q : Effect(q)
    <3>1. CASE Crash(p)
      <4>1. Effect(p)
        BY <2>1, <2>2, <3>1, CrashEffect
      <4> QED BY <4>1 DEF Effect
    <3>2. CASE /\ status' = [status EXCEPT ![p] = IF @ = "stuck" THEN "zombie" ELSE @]
               /\ UNCHANGED <<slots, peer, down, up, linger, node, dict>>
      <4>1. status' \in [Procs -> {"unborn", "run", "stuck", "zombie", "reaped"}] /\ Dies
        BY <1>1, <2>2, <3>2 DEF Dies
      <4>2. LinksOK' /\ Effect(Control)
        BY <2>1, <3>2, <4>1, StatusEffect
      <4> QED BY <3>2, <4>2
    <3> QED BY <2>4, <3>1, <3>2
  <2> QED BY <2>1, <2>3, <2>5 DEF BooksOK
<1> QED BY <1>2, <1>3, <1>4, <1>5 DEF LoopStep

-----------------------------------------------------------------------------
(* Processes that nothing knows yet.                                       *)

LEMMA FreshAfter ==
  ASSUME \A p \in Procs : status'[p] = "unborn" => Unused(p)',
         \A x, id : main'.at = "create" /\ main'.c.pid = x /\ main'.c.id = id =>
                      x \in Procs /\ Forked(x, id)'
  PROVE  Fresh'
BY SMTT(60) DEF Fresh, Forked, Unused, LinksClean, NotIn, Unmarked, HasAck, HasPast, Reaping, IsAck, IsPast,
       RemovePlace, TreeHas

\* A step of a process cannot make an address known.
LEMMA FreshKept ==
  ASSUME Books, Fresh, NEW p, Effect(p),
         main' = main \/ main'.at \notin {"create", "remove"}
  PROVE  Fresh'
<1>1. /\ UNCHANGED <<node, tree, proc, outstanding, nextUuid, rmlist, rcv>>
      /\ Dies /\ Cleans /\ Acknowledges(p)
  BY DEF Effect
<1>2. ASSUME NEW x \in Procs, Unused(x)
      PROVE  Unused(x)'
  <2>1. LinksClean(x)'
    BY <1>1, <1>2 DEF Cleans, Unused
  <2>2. main'.at = "remove" => main'.c.pid # x
    BY <1>2 DEF Unused
  <2> QED BY <1>1, <1>2, <2>1, <2>2 DEF Unused
<1>3. ASSUME NEW x \in Procs, status'[x] = "unborn"
      PROVE  Unused(x)'
  <2>1. status[x] = "unborn"
    BY <1>1, <1>3 DEF Dies
  <2> QED BY <1>2, <2>1 DEF Fresh
<1>4. ASSUME NEW x, NEW id, main'.at = "create", main'.c.pid = x, main'.c.id = id
      PROVE  x \in Procs /\ Forked(x, id)'
  <2>1. x = main.c.pid /\ id = main.c.id /\ main.at = "create"
    BY <1>4
  <2>2. x \in Procs /\ Forked(x, id)
    BY <2>1 DEF Fresh
  <2>3. id \in Ids
    BY <2>1 DEF Books, Chains
  <2>4. AcksKept(id)
    <3>1. ASSUME Ends(p), node[p] = id, down[p] # <<>>
          PROVE  FALSE
      <4>1. p \in Procs /\ proc[id] = p
        BY <3>1 DEF Ends, Books, Kept
      <4> QED BY <2>2, <3>1, <4>1 DEF Forked, Unused, LinksClean
    <3> QED BY <1>1, <2>3, <3>1 DEF Acknowledges
  <2>5. Unused(x)'
    BY <1>2, <2>2 DEF Forked
  <2>6. ~HasAck(id)'
    BY <2>2, <2>4 DEF AcksKept, Forked, Unmarked
  <2>7. ~HasPast(id)' /\ ~Reaping(id)'
    BY <1>1, <2>2 DEF Forked, Unmarked, HasPast, Reaping
  <2> QED BY <1>1, <2>2, <2>5, <2>6, <2>7 DEF Forked, Unmarked
<1> QED BY <1>3, <1>4, FreshAfter

\* A step of the receiver does not either.
LEMMA FreshReceived ==
  ASSUME Books, Fresh, Forgets, UNCHANGED <<main, proc>>,
         \A x \in Procs : status'[x] = "unborn" => status[x] = "unborn",
         \A x \in Procs : Unused(x) => LinksClean(x)',
         \A id \in Ids : TreeHas(tree, id) /\ ~Reaping(id) => TreeHas(tree', id)
  PROVE  Fresh'
<1>1. ASSUME NEW x \in Procs, Unused(x)
      PROVE  Unused(x)'
  <2>1. \A j \in 1..Len(rmlist) : NotIn(rmlist[j].cmds, x)
    BY <1>1 DEF Unused
  <2>2. \A i \in 1..Len(rmlist') : NotIn(rmlist'[i].cmds, x)
    BY <2>1 DEF Forgets, FromChains
  <2>3. rcv'.at = "push" => NotIn(rcv'.rec.cmds, x)
    BY <2>1 DEF Forgets, FromChains
  <2>4. NotIn(rcv'.rec.cmds, x) => \A k \in 1..Len(rcv'.rec.cmds) : rcv'.rec.cmds[k].pid # x
    BY DEF NotIn
  <2>5. \A i \in 1..Len(rmlist') : \A k \in 1..Len(rmlist'[i].cmds) : rmlist'[i].cmds[k].pid # x
    BY <2>2 DEF NotIn
  <2> QED BY <1>1, <2>3, <2>4, <2>5 DEF Unused, NotIn
<1>2. ASSUME NEW x, NEW id, main'.at = "create", main'.c.pid = x, main'.c.id = id
      PROVE  x \in Procs /\ Forked(x, id)'
  <2>1. x = main.c.pid /\ id = main.c.id /\ main.at = "create"
    BY <1>2
  <2>2. x \in Procs /\ Forked(x, id) /\ id \in Ids
    BY <2>1 DEF Fresh, Books, Chains
  <2>3. Unused(x)' /\ Unmarked(id)'
    BY <1>1, <2>2 DEF Forked, Forgets
  <2>4. TreeHas(tree', id) /\ proc'[id] = x
    BY <2>2 DEF Forked, Unmarked
  <2> QED BY <2>2, <2>3, <2>4 DEF Forked
<1>3. ASSUME NEW x \in Procs, status'[x] = "unborn"
      PROVE  Unused(x)'
  BY <1>1, <1>3 DEF Fresh
<1> QED BY <1>2, <1>3, FreshAfter

LEMMA BroadcastClean ==
  ASSUME LinksOK, BooksOK, NEW x \in Procs, LinksClean(x), NEW c \in Cmd, c.pid # x,
         NEW arg \in Values \cup {NoValue, Get}, Broadcast(c, arg), slots' = slots
  PROVE  LinksClean(x)'
<1> DEFINE m == [uuid |-> nextUuid, cmd |-> c.cmd, id |-> c.id, parent |-> c.parent,
                 pid |-> c.pid, arg |-> arg]
<1>1. m \in Message /\ m.pid # x
  BY DEF Message, BooksOK, Cmd
<1>2. down' = Pushed(down, Control, m)
  BY DEF Broadcast
<1> HIDE DEF m
<1>3. /\ \A d \in Procs : \A i \in 1..Len(down'[d]) :
           (i \in 1..Len(down[d]) /\ down'[d][i] = down[d][i]) \/ down'[d][i] = m
      /\ \A d \in Procs : d \notin ChildPids(Control) => down'[d] = down[d]
  BY <1>1, <1>2, LinkFacts, PushedIs
<1>4. x \notin ChildPids(Control)
  BY DEF LinksClean, ChildPids, AllProcs
<1>5. \A d \in Procs : \A i \in 1..Len(down'[d]) : down'[d][i].pid # x
  BY <1>1, <1>3 DEF LinksClean
<1> QED BY <1>3, <1>4, <1>5 DEF LinksClean

LEMMA RewireClean ==
  ASSUME NEW x \in Procs, LinksClean(x), NEW sl, NEW queue, Rewire(sl, queue), down' = down,
         \A q \in AllProcs, s \in SlotNames : sl[q][s].pid # x
  PROVE  LinksClean(x)'
<1>1. slots' = sl
  BY DEF Rewire
<1> QED BY <1>1 DEF LinksClean

LEMMA ReceiveFresh ==
  ASSUME LinksOK, BooksOK, Books, Fresh, NEW s \in SlotNames, Receive(s)
  PROVE  Fresh'
<1>1. UNCHANGED <<status, slots, down, tree, proc, main>>
  BY Zenon DEF Receive
<1>2. Forgets
  BY ReceiveKeeps
<1>3. \A x \in Procs : Unused(x) => LinksClean(x)'
  BY <1>1 DEF Unused, LinksClean
<1> QED BY <1>1, <1>2, <1>3, FreshReceived

LEMMA PushNextRemoveFresh ==
  ASSUME LinksOK, BooksOK, Books, Fresh, PushNextRemove
  PROVE  Fresh'
<1> DEFINE c == Current(rcv.rec)
           child == [id |-> c.id, pid |-> c.pid]
<1>1. rcv.at = "push" /\ UNCHANGED <<status, tree, proc, main>>
  BY DEF PushNextRemove
<1>2. rcv.rec \in Rec /\ Unfinished(rcv.rec)
  BY <1>1 DEF BooksOK, Books, Chains, Rcv
<1>3. c \in Cmd
  BY <1>2, AdvanceIs, ZenonT(60)
<1>4. rcv.rec.now + 1 \in 1..Len(rcv.rec.cmds)
  BY <1>2 DEF Rec, Unfinished
<1>5. Forgets
  BY PushNextRemoveKeeps
<1>6. ASSUME NEW x \in Procs, Unused(x)
      PROVE  LinksClean(x)'
  <2>1. c.pid # x /\ child.pid # x /\ LinksClean(x)
    BY <1>1, <1>4, <1>6 DEF Unused, NotIn, Current
  <2>2. Control \in AllProcs /\ slots \in Links
    BY LinkFacts DEF AllProcs
  <2> HIDE DEF c
  <2>3. /\ \A q \in AllProcs, s \in SlotNames :
             [slots EXCEPT ![Control] = Closed(@, c.id)][q][s].pid # x
        /\ \A q \in AllProcs, s \in SlotNames :
             [slots EXCEPT ![Control] = Connected(@, child)][q][s].pid # x
    <3>1. \A q \in AllProcs, s \in SlotNames : slots[q][s].pid # x
      BY <2>1 DEF LinksClean
    <3> HIDE DEF child
    <3> QED BY <2>1, <2>2, <3>1, ConnectedClean, ClosedClean
  <2>4. \/ Rewire([slots EXCEPT ![Control] = Closed(@, c.id)], up) /\ down' = down
        \/ Rewire([slots EXCEPT ![Control] = Connected(@, child)], up) /\ down' = down
        \/ Broadcast(c, NoValue) /\ slots' = slots
    BY DEF PushNextRemove, c
  <2> HIDE DEF child
  <2>5. NoValue \in Values \cup {NoValue, Get}
    OBVIOUS
  <2> QED BY <1>3, <2>1, <2>3, <2>4, <2>5, RewireClean, BroadcastClean
<1> QED BY <1>1, <1>5, <1>6, FreshReceived

LEMMA ReapFresh ==
  ASSUME LinksOK, BooksOK, Books, Fresh, Reap
  PROVE  Fresh'
<1> DEFINE t == rcv.rec.target
<1>1. /\ rcv.at = "wait" /\ TreeHas(tree, t)
      /\ status[proc[t]] \in {"zombie", "reaped"}
      /\ status' = [status EXCEPT ![proc[t]] = "reaped"] /\ tree' = TreeRemove(tree, t)
      /\ UNCHANGED <<slots, down, proc, main>>
  BY DEF Reap
<1>2. t \in Ids
  BY <1>1 DEF Books, Chains
<1>3. \A x : TreeHas(tree', x) <=> TreeHas(tree, x) /\ x # t
  BY <1>1, <1>2, RemovedTree DEF Books
<1>4. \A x : ~Reaping(x) => x # t
  BY <1>1 DEF Reaping
<1> HIDE DEF t
<1>5. \A x \in Procs : status'[x] = "unborn" => status[x] = "unborn"
  BY <1>1, LinkFacts
<1>6. \A x \in Procs : Unused(x) => LinksClean(x)'
  BY <1>1 DEF Unused, LinksClean
<1>7. Forgets
  BY ReapKeeps
<1> QED BY <1>1, <1>3, <1>4, <1>5, <1>6, <1>7, FreshReceived

\* The main thread: after its step there is nothing to connect.
LEMMA FreshMain ==
  ASSUME Fresh, main'.at # "create", status' = status,
         \A x \in Procs : status[x] = "unborn" => Unused(x)'
  PROVE  Fresh'
BY FreshAfter

LEMMA CmdExecFresh ==
  ASSUME LinksOK, BooksOK, Books, Fresh,
         NEW id \in Ids, NEW arg \in Values \cup {Get}, CmdExec(id, arg)
  PROVE  Fresh'
<1> DEFINE c == [cmd |-> "exec", id |-> id, parent |-> NoId, pid |-> Control]
<1>1. /\ main = MainIdle /\ Broadcast(c, arg)
      /\ UNCHANGED <<status, slots, rmlist, main, rcv>>
  BY DEF CmdExec
<1>2. c \in Cmd /\ c.pid = Control /\ arg \in Values \cup {NoValue, Get}
  BY DEF Cmd, Commands, AnyId, AllProcs
<1> HIDE DEF c
<1>3. main'.at = "idle"
  BY <1>1, IdleFacts
<1>4. ASSUME NEW x \in Procs, status[x] = "unborn"
      PROVE  Unused(x)'
  <2>1. Unused(x)
    BY <1>4 DEF Fresh
  <2>2. c.pid # x
    BY <1>2 DEF Procs, Control
  <2>3. LinksClean(x)'
    BY <1>1, <1>2, <2>1, <2>2, BroadcastClean DEF Unused
  <2> QED BY <1>1, <1>3, <2>1, <2>3 DEF Unused
<1> QED BY <1>1, <1>3, <1>4, FreshMain

LEMMA PushFirstRemoveFresh ==
  ASSUME LinksOK, BooksOK, Books, Fresh, PushFirstRemove
  PROVE  Fresh'
<1>1. /\ main.at = "remove" /\ main' = MainIdle /\ Broadcast(main.c, NoValue)
      /\ UNCHANGED <<status, slots, rmlist, rcv>>
  BY DEF PushFirstRemove
<1>2. main.c \in Cmd /\ NoValue \in Values \cup {NoValue, Get}
  BY DEF BooksOK, Main
<1>3. main'.at = "idle"
  BY <1>1, IdleFacts
<1>4. ASSUME NEW x \in Procs, status[x] = "unborn"
      PROVE  Unused(x)'
  <2>1. Unused(x) /\ main.c.pid # x
    BY <1>1, <1>4 DEF Fresh, Unused
  <2>2. LinksClean(x)'
    BY <1>1, <1>2, <2>1, BroadcastClean DEF Unused
  <2> QED BY <1>1, <1>3, <2>1, <2>2 DEF Unused
<1> QED BY <1>1, <1>3, <1>4, FreshMain

LEMMA PushCreateFresh ==
  ASSUME LinksOK, BooksOK, Books, Fresh, PushCreate
  PROVE  Fresh'
<1> DEFINE parent == TreeLastParent(tree)
           child == [id |-> main.c.id, pid |-> main.c.pid]
           c == [main.c EXCEPT !.parent = parent]
<1>1. /\ main.at = "create" /\ main' = MainIdle
      /\ UNCHANGED <<status, rmlist, rcv>>
      /\ \/ Rewire([slots EXCEPT ![Control] = Connected(@, child)], up) /\ down' = down
         \/ Broadcast(c, NoValue) /\ slots' = slots
  BY DEF PushCreate
<1>2. main.c \in Cmd /\ NoValue \in Values \cup {NoValue, Get} /\ main.c.id \in Ids
  BY <1>1 DEF BooksOK, Main, Books, Chains
<1>3. c \in Cmd /\ c.pid = main.c.pid
  <2>1. parent \in AnyId
    <3>1. /\ Len(tree) \in Nat /\ \A k \in 1..Len(tree) : tree[k] \in AnyId
      BY ArrayIds DEF Books
    <3>2. TreeIndex(tree, main.c.id) \in 2..Len(tree)
      BY <1>1, <1>2, IndexOf DEF Fresh, Forked, Books
    <3>3. Len(tree) >= 2
      BY <3>1, <3>2
    <3>4. Len(tree) \div 2 \in 1..Len(tree)
      BY <3>1, <3>3
    <3> QED BY <3>1, <3>4 DEF TreeLastParent
  <2> HIDE DEF parent
  <2> QED BY <1>2, <2>1 DEF Cmd
<1> HIDE DEF c
<1>4. main'.at = "idle"
  BY <1>1, IdleFacts
<1>5. ASSUME NEW x \in Procs, status[x] = "unborn"
      PROVE  Unused(x)'
  <2>1. Unused(x) /\ LinksClean(x)
    BY <1>5 DEF Fresh, Unused
  <2>2. main.c.pid # x
    <3>1. TreeHas(tree, main.c.id) /\ proc[main.c.id] = main.c.pid
      BY <1>1 DEF Fresh, Forked
    <3>2. status[main.c.pid] # "unborn"
      BY <1>2, <3>1 DEF Books, Kept
    <3> QED BY <1>5, <3>2
  <2>3. \A q \in AllProcs, s \in SlotNames :
          [slots EXCEPT ![Control] = Connected(@, child)][q][s].pid # x
    <3>1. \A q \in AllProcs, s \in SlotNames : slots[q][s].pid # x
      BY <2>1 DEF LinksClean
    <3>2. Control \in AllProcs /\ slots \in Links /\ child.pid # x
      BY <2>2, LinkFacts DEF AllProcs
    <3> HIDE DEF child
    <3> QED BY <3>1, <3>2, ConnectedClean
  <2> HIDE DEF child
  <2>4. LinksClean(x)'
    BY <1>1, <1>2, <1>3, <2>1, <2>2, <2>3, RewireClean, BroadcastClean
  <2> QED BY <1>1, <1>4, <2>1, <2>4 DEF Unused
<1> QED BY <1>1, <1>4, <1>5, FreshMain

LEMMA CmdRemoveFresh ==
  ASSUME LinksOK, BooksOK, Books, Fresh, NEW id \in Ids, CmdRemove(id)
  PROVE  Fresh'
<1>1. UNCHANGED <<status, slots, down, rcv>>
  BY DEF CmdRemove, linkVars
<1>2. PICK rec \in Rec :
        /\ Unfinished(rec) /\ rec.now = 0
        /\ \A k \in 1..Len(rec.cmds) : \E x \in Ids : TreeHas(tree, x) /\ rec.cmds[k].pid = proc[x]
        /\ rmlist' = ListInsertFront(rmlist, rec)
        /\ main' = [MainIdle EXCEPT !.at = "remove", !.c = Current(rec)]
  BY CmdRemoveIs
<1>3. main'.at = "remove" /\ main'.c = rec.cmds[1] /\ 1 \in 1..Len(rec.cmds)
  <2>1. rec.cmds[rec.now + 1] = rec.cmds[1]
    BY <1>2
  <2>2. 1 \in 1..Len(rec.cmds)
    BY <1>2 DEF Rec, Unfinished
  <2> QED BY <1>2, <2>1, <2>2 DEF Current, MainIdle
<1>4. \A i \in 1..Len(rmlist') : rmlist'[i] = rec \/ \E j \in 1..Len(rmlist) : rmlist'[i] = rmlist[j]
  <2>1. /\ Len(rmlist) \in Nat /\ Len(rmlist') = Len(rmlist) + 1 /\ rmlist'[1] = rec
        /\ \A i \in 1..Len(rmlist) : rmlist'[i + 1] = rmlist[i]
    BY <1>2, FrontRec DEF BooksOK
  <2>2. \A i \in 1..Len(rmlist') : i = 1 \/ (i - 1 \in 1..Len(rmlist) /\ (i - 1) + 1 = i)
    BY <2>1
  <2> QED BY <2>1, <2>2, ZenonT(60)
<1>5. ASSUME NEW x \in Procs, status[x] = "unborn"
      PROVE  Unused(x)'
  <2>1. Unused(x)
    BY <1>5 DEF Fresh
  <2>2. \A k \in 1..Len(rec.cmds) : rec.cmds[k].pid # x
    BY <1>2, <1>5 DEF Books, Kept
  <2>3. \A i \in 1..Len(rmlist') : \A k \in 1..Len(rmlist'[i].cmds) : rmlist'[i].cmds[k].pid # x
    BY <1>4, <2>1, <2>2, SMTT(60) DEF Unused, NotIn
  <2>4. LinksClean(x)'
    BY <1>1, <2>1 DEF Unused, LinksClean
  <2>5. main'.c.pid # x
    BY <1>3, <2>2
  <2> QED BY <1>1, <2>1, <2>3, <2>4, <2>5 DEF Unused, NotIn
<1> QED BY <1>1, <1>3, <1>5, FreshMain

LEMMA CmdCreateFresh ==
  ASSUME LinksOK, BooksOK, Books, Fresh, NEW id \in Ids, CmdCreate(id)
  PROVE  Fresh'
<1>1. /\ ~TreeHas(tree, id) /\ tree' = TreeAdd(tree, id)
      /\ UNCHANGED <<slots, down, up, rmlist, rcv>>
  BY DEF CmdCreate
<1>2. PICK p \in Procs :
        /\ status[p] = "unborn"
        /\ status' = [status EXCEPT ![p] = "run"]
        /\ proc' = [proc EXCEPT ![id] = p]
        /\ main' = [MainIdle EXCEPT !.at = "create",
                                   !.c = [cmd |-> "create", id |-> id, parent |-> NoId, pid |-> p]]
  BY DEF CmdCreate
<1>3. main'.at = "create" /\ main'.c.id = id /\ main'.c.pid = p
  BY <1>2 DEF MainIdle
<1>4. TreeHas(tree', id)
  BY <1>1, AddedTree DEF Books
<1>5. proc'[id] = p
  BY <1>2 DEF BooksOK, AnyId
<1>6. \A x \in Procs : status'[x] = "unborn" => status[x] = "unborn"
  BY <1>2, LinkFacts
<1>7. ASSUME NEW x \in Procs, status[x] = "unborn"
      PROVE  Unused(x)'
  <2>1. Unused(x)
    BY <1>7 DEF Fresh
  <2>2. LinksClean(x)'
    BY <1>1, <2>1 DEF Unused, LinksClean
  <2> QED BY <1>1, <1>3, <2>1, <2>2 DEF Unused
<1>8. Unmarked(id)'
  <2>1. ~(HasAck(id) \/ HasPast(id) \/ Reaping(id))
    BY <1>1 DEF Books, RemovedOnce
  <2> QED BY <1>1, <2>1 DEF Unmarked, HasAck, HasPast, Reaping
<1>9. Forked(p, id)'
  BY <1>2, <1>4, <1>5, <1>7, <1>8 DEF Forked
<1> QED BY <1>3, <1>6, <1>7, <1>9, FreshAfter

-----------------------------------------------------------------------------
(* The end of the input.                                                   *)

LEMMA CalmLoop ==
  ASSUME BooksOK, Books, Calm, LoopStep, EndOfInput => UserReady, LinksOK, TypeOK
  PROVE  Calm'
<1>1. /\ UNCHANGED <<tree, proc, rmlist, rcv>> /\ Dies
      /\ main'.at \in {"kill", "wait", "exit"}
  <2>1. PICK p : Effect(p)
    BY LoopEffect
  <2> QED BY <2>1, LoopEffect DEF Effect
<1>2. /\ main.i \in Nat /\ main.i > 0 /\ Len(tree) \in Nat /\ WellFormed(tree) /\ Kept
      /\ status \in [Procs -> {"unborn", "run", "stuck", "zombie", "reaped"}]
  BY ArrayIds, LinkFacts DEF BooksOK, Books, Chains, Main
<1> SUFFICES ASSUME Patience # "none"
             PROVE  /\ rmlist' = <<>> /\ rcv' = RcvIdle
                    /\ \A k \in 2..Len(tree) : k <= main'.i => status'[proc'[tree'[k]]] = "reaped"
                    /\ main'.at = "exit" => main'.i >= Len(tree)
  BY <1>1 DEF Calm
<1>3. \A k \in 2..Len(tree) : status[proc[tree[k]]] = "reaped" => status'[proc'[tree'[k]]] = "reaped"
  BY <1>1, <1>2, ReapedKept
<1>4. CASE EndOfInput
  <2>1. main' = [MainIdle EXCEPT !.at = "kill"]
    BY <1>4 DEF EndOfInput
  <2>2. main'.i = 1 /\ main'.at = "kill"
    BY <2>1, IdleFacts
  <2>3. rmlist = <<>> /\ rcv = RcvIdle
    BY <1>4, ClusterAssumption DEF UserReady, Quiet, Settled
  <2> QED BY <1>1, <1>2, <2>2, <2>3
<1>5. CASE KillNode
  <2>1. /\ main.at = "kill" /\ main' = [main EXCEPT !.at = "wait", !.c.pid = ProcessAt(main.i)]
        /\ MoreToKill
    BY <1>5 DEF KillNode
  <2>2. ProcessAt(main.i) \in AllProcs
    BY <2>1, ElementIs DEF MoreToKill, AllProcs
  <2>3. main'.i = main.i /\ main'.at = "wait"
    BY <2>1, <2>2, MainAfter
  <2> QED BY <1>1, <1>2, <1>3, <2>1, <2>3 DEF Calm
<1>6. CASE Exit
  <2>1. main.at = "kill" /\ main' = [main EXCEPT !.at = "exit"] /\ ~(main.i < Len(tree))
    BY <1>6 DEF Exit, MoreToKill
  <2>2. main'.i = main.i
    BY <2>1, MainAfter DEF AllProcs
  <2>3. main'.i >= Len(tree)
    BY <1>2, <2>1, <2>2
  <2> QED BY <1>1, <1>2, <1>3, <2>1, <2>2, <2>3 DEF Calm
<1>7. CASE WaitNode
  <2> DEFINE p == IF main.i < Len(tree) THEN ProcessAt(main.i) ELSE main.c.pid
  <2>1. /\ main.at = "wait" /\ main' = [main EXCEPT !.at = "kill", !.i = @ + 1]
        /\ status' = [status EXCEPT ![p] = "reaped"]
    BY <1>7 DEF WaitNode
  <2>2. main'.i = main.i + 1 /\ main'.at = "kill"
    <3>1. Control \in AllProcs
      BY DEF AllProcs
    <3> HIDE DEF p
    <3> QED BY <2>1, <3>1, MainAfter
  <2>3. ASSUME main.i < Len(tree)
        PROVE  status'[proc'[tree'[main.i + 1]]] = "reaped"
    <3>1. p = ProcessAt(main.i) /\ p \in Procs
      BY <2>3, ElementIs
    <3>2. proc'[tree'[main.i + 1]] = p
      BY <1>1, <3>1 DEF ProcessAt
    <3> HIDE DEF p
    <3> QED BY <1>2, <2>1, <3>1, <3>2
  <2>4. ASSUME NEW k \in 2..Len(tree), k <= main'.i
        PROVE  status'[proc'[tree'[k]]] = "reaped"
    <3>1. CASE k = main.i + 1
      <4>1. main.i < Len(tree)
        BY <1>2, <3>1
      <4> QED BY <2>3, <3>1, <4>1
    <3>2. CASE k # main.i + 1
      <4>1. k <= main.i
        BY <1>2, <2>2, <2>4, <3>2
      <4> QED BY <1>3, <2>1, <4>1 DEF Calm
    <3> QED BY <3>1, <3>2
  <2> QED BY <1>1, <2>1, <2>2, <2>4 DEF Calm
<1> QED BY <1>4, <1>5, <1>6, <1>7 DEF LoopStep

LEMMA CalmReceiver ==
  ASSUME LinksOK, BooksOK, Books, Calm, ReceiverNext
  PROVE  Calm'
<1>1. CASE Patience # "none" /\ main.at \in {"kill", "wait", "exit"}
  <2>1. rmlist = <<>> /\ rcv.at = "idle"
    BY <1>1 DEF Calm, RcvIdle
  <2>2. PICK s \in SlotNames : Receive(s)
    BY <2>1 DEF ReceiverNext, PushNextRemove, Reap
  <2>3. UNCHANGED <<status, tree, proc, rmlist, rcv, main>>
    BY <2>1, <2>2, ReceiveKeeps, Zenon DEF Receive
  <2>4. Dies
    BY <2>3 DEF Dies
  <2> QED BY <2>3, <2>4, CalmKept
<1>2. CASE ~(Patience # "none" /\ main.at \in {"kill", "wait", "exit"})
  <2>1. main' = main
    BY Zenon DEF ReceiverNext, Receive, PushNextRemove, Reap
  <2> QED BY <1>2, <2>1 DEF Calm
<1> QED BY <1>1, <1>2

LEMMA CalmIdle ==
  ASSUME main'.at \notin {"kill", "wait", "exit"}
  PROVE  Calm'
BY DEF Calm

-----------------------------------------------------------------------------
(* Every step keeps the invariant.                                         *)

LEMMA CommandInv ==
  ASSUME LinksOK, BooksOK, Books, Fresh, Calm,
         NEW id \in Ids, CmdCreate(id) \/ CmdRemove(id) \/ \E arg \in Values \cup {Get} : CmdExec(id, arg)
  PROVE  LinksOK' /\ BooksOK' /\ Books' /\ Fresh' /\ Calm'
<1>1. CASE CmdCreate(id)
  <2>1. main'.at = "create"
    BY <1>1 DEF CmdCreate, MainIdle
  <2> QED BY <1>1, <2>1, CmdCreateKeeps, CmdCreateFresh, CalmIdle
<1>2. CASE CmdRemove(id)
  <2>1. main'.at = "remove"
    BY <1>2 DEF CmdRemove, MainIdle
  <2> QED BY <1>2, <2>1, CmdRemoveKeeps, CmdRemoveFresh, CalmIdle
<1>3. ASSUME NEW arg \in Values \cup {Get}, CmdExec(id, arg)
      PROVE  LinksOK' /\ BooksOK' /\ Books' /\ Fresh' /\ Calm'
  <2>1. main'.at = "idle"
    BY <1>3 DEF CmdExec, MainIdle
  <2> QED BY <1>3, <2>1, CmdExecKeeps, CmdExecFresh, CalmIdle
<1> QED BY <1>1, <1>2, <1>3

LEMMA MainInv ==
  ASSUME LinksOK, BooksOK, TypeOK, Books, Fresh, Calm,
         PushCreate \/ PushFirstRemove \/ LoopStep, EndOfInput => UserReady
  PROVE  LinksOK' /\ BooksOK' /\ Books' /\ Fresh' /\ Calm'
<1>1. CASE PushCreate
  <2>1. main'.at = "idle"
    BY <1>1 DEF PushCreate, MainIdle
  <2> QED BY <1>1, <2>1, PushCreateKeeps, PushCreateFresh, CalmIdle
<1>2. CASE PushFirstRemove
  <2>1. main'.at = "idle"
    BY <1>2 DEF PushFirstRemove, MainIdle
  <2> QED BY <1>2, <2>1, PushFirstRemoveKeeps, PushFirstRemoveFresh, CalmIdle
<1>3. CASE LoopStep
  <2>1. /\ LinksOK' /\ BooksOK' /\ main'.i > 0
        /\ main.at # "remove" /\ main'.at \notin {"create", "remove"}
    BY <1>3, LoopEffect
  <2>2. PICK p : Effect(p)
    BY <1>3, LoopEffect
  <2>3. Books' /\ Fresh'
    BY <2>1, <2>2, BooksKept, FreshKept
  <2>4. Calm'
    BY <1>3, CalmLoop
  <2> QED BY <2>1, <2>3, <2>4
<1> QED BY <1>1, <1>2, <1>3

LEMMA ReceiverInv ==
  ASSUME LinksOK, BooksOK, Books, Fresh, Calm, ReceiverNext
  PROVE  LinksOK' /\ BooksOK' /\ Books' /\ Fresh' /\ Calm'
<1>1. Calm'
  BY CalmReceiver
<1>2. ASSUME NEW s \in SlotNames, Receive(s)
      PROVE  LinksOK' /\ BooksOK' /\ Books' /\ Fresh'
  BY <1>2, ReceiveKeeps, ReceiveFresh
<1>3. CASE PushNextRemove
  BY <1>1, <1>3, PushNextRemoveKeeps, PushNextRemoveFresh
<1>4. CASE Reap
  BY <1>1, <1>4, ReapKeeps, ReapFresh
<1> QED BY <1>1, <1>2, <1>3, <1>4 DEF ReceiverNext

LEMMA ProcessInv ==
  ASSUME LinksOK, BooksOK, Books, Fresh, Calm,
         NEW p \in Procs, NodeNext(p) \/ Crash(p), UNCHANGED controlVars
  PROVE  LinksOK' /\ BooksOK' /\ Books' /\ Fresh' /\ Calm'
<1>1. UNCHANGED <<tree, proc, outstanding, nextUuid, rmlist, main, rcv, printed>>
  BY DEF controlVars
<1>2. Effect(p)
  BY <1>1, NodeEffect, CrashEffect
<1>3. LinksOK' /\ node' = node /\ Dies
  BY <1>2 DEF Effect
<1>4. main'.i > 0
  BY <1>1 DEF Books, Chains
<1>5. Books' /\ Fresh'
  BY <1>1, <1>2, <1>4, BooksKept, FreshKept
<1>6. Calm'
  BY <1>1, <1>3, CalmKept
<1> QED BY <1>1, <1>3, <1>5, <1>6 DEF BooksOK

-----------------------------------------------------------------------------
(* The initial states.                                                     *)

LEMMA SeedTree ==
  ASSUME NEW t, t = <<NoId>> \o Seed
  PROVE  /\ WellFormed(t) /\ Len(Seed) \in Nat /\ Len(t) = Len(Seed) + 1 /\ Len(Seed) <= MaxPid
         /\ \A k \in 1..Len(Seed) : t[k + 1] = Seed[k] /\ Seed[k] \in Ids
         /\ \A k \in 1..Len(Seed) : TreeHas(Seed, Seed[k]) /\ TreeIndex(Seed, Seed[k]) = k
         /\ \A id : TreeHas(Seed, id) => \E k \in 1..Len(Seed) : id = Seed[k]
         /\ \A id \in Ids : TreeHas(t, id) <=> TreeHas(Seed, id)
<1>1. /\ Seed \in Seq(Ids) /\ Len(Seed) \in Nat /\ Len(Seed) <= MaxPid
      /\ \A j, k \in 1..Len(Seed) : Seed[j] = Seed[k] => j = k
      /\ NoId \notin Ids
  BY ClusterAssumption, IdsAssumption
<1>2. \A k \in 1..Len(Seed) : Seed[k] \in Ids
  BY <1>1
<1>3. /\ t \in Seq(AnyId) /\ Len(t) = Len(Seed) + 1 /\ t[1] = NoId
      /\ \A k \in 1..Len(Seed) : t[k + 1] = Seed[k]
  <2>1. Seed \in Seq(AnyId) /\ <<NoId>> \in Seq(AnyId)
    BY <1>1 DEF AnyId
  <2> QED BY <1>1, <2>1
<1>4. \A k \in 1..Len(t) : k = 1 \/ (k - 1 \in 1..Len(Seed) /\ t[k] = Seed[k - 1])
  <2>1. \A k \in 1..Len(t) : k = 1 \/ (k - 1 \in 1..Len(Seed) /\ (k - 1) + 1 = k)
    BY <1>1, <1>3
  <2> QED BY <1>3, <2>1
<1>5. WellFormed(t)
  <2>1. \A k \in 2..Len(t) : t[k] \in Ids
    BY <1>2, <1>3, <1>4
  <2>2. ASSUME NEW j \in 1..Len(t), NEW k \in 1..Len(t), t[j] = t[k]
        PROVE  j = k
    <3>1. CASE j = 1 \/ k = 1
      BY <1>1, <1>2, <1>3, <1>4, <2>2, <3>1
    <3>2. CASE j # 1 /\ k # 1
      <4>1. j - 1 = k - 1
        BY <1>1, <1>4, <2>2, <3>2, ZenonT(60)
      <4> QED BY <1>3, <4>1
    <3> QED BY <3>1, <3>2
  <2>3. Len(t) > 0
    BY <1>1, <1>3
  <2> QED BY <1>3, <2>1, <2>2, <2>3 DEF WellFormed
<1>6. \A k \in 1..Len(Seed) : TreeHas(Seed, Seed[k]) /\ TreeIndex(Seed, Seed[k]) = k
  BY <1>1 DEF TreeHas, TreeIndex
<1>7. \A id : TreeHas(Seed, id) => \E k \in 1..Len(Seed) : id = Seed[k]
  BY DEF TreeHas
<1>8. ASSUME NEW id \in Ids
      PROVE  TreeHas(t, id) <=> TreeHas(Seed, id)
  <2>1. \A k \in 1..Len(Seed) : k + 1 \in 1..Len(t)
    BY <1>1, <1>3
  <2>2. \A k \in 1..Len(t) : t[k] = id => k # 1
    BY <1>1, <1>3
  <2>3. ASSUME NEW k \in 1..Len(t), t[k] = id PROVE TreeHas(Seed, id)
    <3>1. k - 1 \in 1..Len(Seed) /\ t[k] = Seed[k - 1]
      BY <1>3, <1>4, <2>2, <2>3
    <3> QED BY <2>3, <3>1 DEF TreeHas
  <2>4. ASSUME NEW k \in 1..Len(Seed), Seed[k] = id PROVE TreeHas(t, id)
    <3>1. k + 1 \in 1..Len(t) /\ t[k + 1] = Seed[k]
      BY <1>3, <2>1
    <3> QED BY <2>4, <3>1 DEF TreeHas
  <2> QED BY <2>3, <2>4 DEF TreeHas
<1> QED BY <1>1, <1>2, <1>3, <1>5, <1>6, <1>7, <1>8

LEMMA InitInv == Init => IInv
<1> SUFFICES ASSUME Init PROVE IInv
  OBVIOUS
<1> DEFINE t == <<NoId>> \o Seed
           n == Len(Seed)
           Slot0(k) == IF k <= Len(t) THEN [id |-> t[k], pid |-> k - 1] ELSE NoChild
<1>1. /\ WellFormed(t) /\ n \in Nat /\ Len(t) = n + 1 /\ n <= MaxPid
      /\ \A k \in 1..n : t[k + 1] = Seed[k] /\ Seed[k] \in Ids
      /\ \A k \in 1..n : TreeHas(Seed, Seed[k]) /\ TreeIndex(Seed, Seed[k]) = k
      /\ \A id : TreeHas(Seed, id) => \E k \in 1..n : id = Seed[k]
      /\ \A id \in Ids : TreeHas(t, id) <=> TreeHas(Seed, id)
  BY SeedTree
<1>2. /\ status = [p \in Procs |-> IF p <= n THEN "run" ELSE "unborn"]
      /\ slots = [p \in AllProcs |->
                    [s \in SlotNames |-> IF s = "left" THEN Slot0(2 * p + 2) ELSE Slot0(2 * p + 3)]]
      /\ peer = [p \in Procs |-> IF p <= n THEN ((p + 1) \div 2) - 1 ELSE NoPeer]
      /\ down = [p \in Procs |-> <<>>] /\ up = [p \in Procs |-> <<>>] /\ linger = {}
  BY DEF Init
<1>3. /\ node = [p \in Procs |-> IF p <= n THEN Seed[p] ELSE NoId]
      /\ dict = [p \in Procs |-> NoValue] /\ tree = t
      /\ proc = [id \in AnyId |-> IF TreeHas(Seed, id) THEN TreeIndex(Seed, id) ELSE Control]
      /\ outstanding = {} /\ nextUuid = 1 /\ rmlist = <<>> /\ main = MainIdle /\ rcv = RcvIdle
      /\ printed = [uuid |-> 0, cmd |-> "exec", id |-> NoId, code |-> "OK", value |-> NoValue]
      /\ issued = 0 /\ patient = TRUE /\ crashes = 0
  BY DEF Init
<1>4. /\ MaxPid \in Nat /\ \A p \in 1..n : p \in Procs
      /\ \A p \in Procs : p \in Nat /\ p > 0 /\ p <= MaxPid
      /\ AllProcs = 0..MaxPid
  BY <1>1, MaxPidAssumption DEF Procs, AllProcs, Control
<1>5. NoId \in AnyId /\ \A k \in 1..Len(t) : t[k] \in AnyId
  BY <1>1, ArrayIds DEF AnyId
<1> HIDE DEF t, n
<1>6. \A k \in Nat : k > 0 => Slot0(k) \in Slot /\ (Slot0(k).pid = 0 \/ Slot0(k).pid <= n)
  <2>1. ASSUME NEW k \in Nat, k > 0, k <= Len(t)
        PROVE  Slot0(k) \in Slot /\ Slot0(k).pid <= n
    <3>1. k - 1 \in AllProcs /\ k - 1 <= n /\ t[k] \in AnyId
      BY <1>1, <1>4, <1>5, <2>1
    <3>2. Slot0(k) = [id |-> t[k], pid |-> k - 1]
      BY <2>1
    <3> HIDE DEF Slot0
    <3> QED BY <3>1, <3>2 DEF Slot
  <2>2. ASSUME NEW k \in Nat, ~(k <= Len(t))
        PROVE  Slot0(k) \in Slot /\ Slot0(k).pid = 0
    BY <1>4, <1>5, <2>2 DEF Slot, NoChild, Control
  <2> QED BY <2>1, <2>2
<1> HIDE DEF Slot0
<1>7. slots \in Links /\ \A q \in AllProcs, s \in SlotNames : slots[q][s].pid = 0 \/ slots[q][s].pid <= n
  <2>1. \A q \in AllProcs : 2 * q + 2 \in Nat /\ 2 * q + 2 > 0 /\ 2 * q + 3 \in Nat /\ 2 * q + 3 > 0
    BY <1>4
  <2>2. \A q \in AllProcs, s \in SlotNames :
          (IF s = "left" THEN Slot0(2 * q + 2) ELSE Slot0(2 * q + 3)) \in Slot
    BY <1>6, <2>1
  <2>3. slots \in Links
    BY <1>2, <2>2 DEF Links
  <2> QED BY <1>2, <1>6, <2>1, <2>3
<1>8. LinksOK
  <2>1. status \in [Procs -> {"unborn", "run", "stuck", "zombie", "reaped"}]
    BY <1>2
  <2>2. peer \in [Procs -> AllProcs \cup {NoPeer}]
    <3>1. ASSUME NEW p \in Procs, p <= n
          PROVE  ((p + 1) \div 2) - 1 \in AllProcs
      <4>1. p \in Nat /\ p > 0 /\ p <= MaxPid /\ MaxPid \in Nat
        BY <1>4
      <4>2. (p + 1) \div 2 \in Nat /\ (p + 1) \div 2 >= 1 /\ (p + 1) \div 2 <= p
        BY <4>1
      <4>3. ((p + 1) \div 2) - 1 \in 0..MaxPid
        BY <4>1, <4>2
      <4> QED BY <1>4, <4>3
    <3> QED BY <1>2, <3>1
  <2>3. down \in [Procs -> Seq(Message)]
    <3>1. <<>> \in Seq(Message)
      OBVIOUS
    <3> QED BY <1>2, <3>1
  <2>4. up \in [Procs -> Seq(Reply)]
    <3>1. <<>> \in Seq(Reply)
      OBVIOUS
    <3> QED BY <1>2, <3>1
  <2>5. slots \in [AllProcs -> [SlotNames -> [id : AnyId, pid : AllProcs]]]
    BY <1>7 DEF Links, Slot
  <2>6. linger \subseteq AllProcs /\ dict \in [Procs -> Values \cup {NoValue}]
    BY <1>2, <1>3
  <2> QED BY <2>1, <2>2, <2>3, <2>4, <2>5, <2>6 DEF LinksOK, LinkTypeOK
<1>9. /\ main \in Main /\ main.at = "idle" /\ main.i = 1
      /\ rcv \in Rcv /\ rcv.at = "idle"
  <2>1. <<>> \in Seq(Cmd)
    OBVIOUS
  <2>2. NoRecord \in Rec
    BY <1>5, <2>1 DEF NoRecord, Rec
  <2> QED BY <1>3, <2>2, IdleFacts DEF Rcv, RcvIdle
<1>10. ASSUME NEW id \in AnyId, TreeHas(Seed, id)
       PROVE  TreeIndex(Seed, id) \in Procs
  <2>1. PICK k \in 1..n : id = Seed[k]
    BY <1>1, <1>10
  <2>2. TreeIndex(Seed, id) = k
    BY <1>1, <2>1
  <2> QED BY <1>4, <2>2
<1>11. BooksOK
  <2>1. tree \in Seq(AnyId)
    BY <1>1, <1>3 DEF WellFormed
  <2>2. node \in [Procs -> AnyId]
    <3>1. ASSUME NEW p \in Procs, p <= n
          PROVE  Seed[p] \in AnyId
      <4>1. p \in 1..n
        BY <1>1, <1>4, <3>1
      <4> QED BY <1>1, <4>1 DEF AnyId
    <3> QED BY <1>3, <1>5, <3>1
  <2>3. proc \in [AnyId -> AllProcs]
    BY <1>3, <1>10 DEF AllProcs
  <2>4. rmlist \in Seq(Rec)
    <3>1. <<>> \in Seq(Rec)
      OBVIOUS
    <3> QED BY <1>3, <3>1
  <2>5. printed \in Reply
    BY <1>3, <1>5 DEF Reply, Commands, Codes
  <2>6. outstanding \subseteq Broadcasts /\ nextUuid \in Nat
    BY <1>3
  <2> QED BY <1>9, <2>1, <2>2, <2>3, <2>4, <2>5, <2>6 DEF BooksOK
<1>12. CountersOK
  BY <1>3, ClusterAssumption DEF CountersOK
<1>13. rmlist = <<>> /\ Len(rmlist) = 0 /\ \A p \in Procs : Len(down[p]) = 0 /\ Len(up[p]) = 0 /\ down[p] = <<>>
  BY <1>2, <1>3
<1>14. WellFormed(tree) /\ Chains /\ Traffic
  BY <1>1, <1>3, <1>9, <1>13 DEF Chains, Traffic
<1>15. AwaitedAreKnown
  BY <1>3, FS_EmptySet DEF AwaitedAreKnown
<1>16. RecordsMatchAwaited
  <2>1. ASSUME NEW cm \in ChainCommands, NEW x \in Ids
        PROVE  Awaited(cm, x) = Waiting(cm, x)
    <3>1. Pending(outstanding, cm, x) = {} /\ Wanting(rmlist, cm, x) = {}
      BY <1>3, <1>13 DEF Pending, Wanting
    <3>2. /\ Num(main.at = "remove" /\ Is(main.c, cm, x)) = 0
          /\ Num(rcv.at = "push" /\ Is(Current(rcv.rec), cm, x)) = 0
      BY <1>9 DEF Num
    <3> QED BY <1>11, <3>1, <3>2, AwaitedIs, FS_EmptySet
  <2> QED BY <2>1 DEF RecordsMatchAwaited
<1>17. Kept
  <2>1. ASSUME NEW p \in Procs, status[p] \notin {"unborn", "reaped"}
        PROVE  node[p] \in Ids /\ TreeHas(tree, node[p]) /\ proc[node[p]] = p
    <3>1. p \in 1..n
      BY <1>1, <1>2, <1>4, <2>1
    <3>2. node[p] = Seed[p] /\ Seed[p] \in Ids /\ TreeHas(Seed, Seed[p]) /\ TreeIndex(Seed, Seed[p]) = p
      BY <1>1, <1>3, <3>1
    <3> QED BY <1>1, <1>3, <3>2 DEF AnyId
  <2>2. ASSUME NEW id \in Ids, TreeHas(tree, id)
        PROVE  proc[id] \in Procs /\ status[proc[id]] # "unborn" /\ node[proc[id]] = id
    <3>1. TreeHas(Seed, id)
      BY <1>1, <1>3, <2>2
    <3>2. PICK k \in 1..n : id = Seed[k]
      BY <1>1, <3>1
    <3>3. TreeIndex(Seed, id) = k
      BY <1>1, <3>2
    <3>4. proc[id] = k /\ k \in Procs
      BY <1>3, <1>4, <3>1, <3>2, <3>3 DEF AnyId
    <3> QED BY <1>1, <1>2, <1>3, <3>2, <3>4, SMTT(60)
  <2> QED BY <2>1, <2>2 DEF Kept
<1>18. \A id : AcksOnce(id) /\ PastOnce(id) /\ ~HasAck(id) /\ ~HasPast(id) /\ ~Reaping(id)
  BY <1>9, <1>13 DEF AcksOnce, PastOnce, HasAck, HasPast, Reaping
<1>19. Fresh
  <2>1. ASSUME NEW p \in Procs, status[p] = "unborn"
        PROVE  Unused(p)
    <3>1. p \in Nat /\ p > 0 /\ ~(p <= n)
      BY <1>2, <1>4, <2>1
    <3>2. \A q \in AllProcs, s \in SlotNames : slots[q][s].pid # p
      BY <1>7, <3>1
    <3>3. LinksClean(p)
      BY <1>13, <3>2 DEF LinksClean
    <3> QED BY <1>9, <1>13, <3>3 DEF Unused
  <2> QED BY <1>9, <2>1 DEF Fresh
<1>20. Calm
  BY <1>9 DEF Calm
<1> QED BY <1>8, <1>11, <1>12, <1>14, <1>15, <1>16, <1>17, <1>18, <1>19, <1>20, TypeParts
    DEF IInv, RemovedOnce

-----------------------------------------------------------------------------
(* The theorems.                                                           *)

LEMMA InvParts == IInv <=> LinksOK /\ BooksOK /\ CountersOK /\ Books /\ Fresh /\ Calm
BY TypeParts DEF IInv, Books

LEMMA InvPartsAfter ==
  ASSUME LinksOK', BooksOK', CountersOK', Books', Fresh', Calm'
  PROVE  IInv'
<1>1. TypeOK'
  BY TypePartsAfter
<1> QED BY <1>1 DEF IInv, Books

LEMMA NextInv == IInv /\ [Next]_vars => IInv'
<1> SUFFICES ASSUME IInv, [Next]_vars PROVE IInv'
  OBVIOUS
<1>1. LinksOK /\ BooksOK /\ CountersOK /\ Books /\ Fresh /\ Calm /\ TypeOK
  BY InvParts DEF IInv
<1>2. /\ issued \in 0..MaxCommands /\ patient \in BOOLEAN /\ crashes \in 0..MaxCrashes
      /\ MaxCommands \in Nat /\ MaxCrashes \in Nat
  BY <1>1, ClusterAssumption DEF CountersOK
<1>3. CASE User
  <2>1. PICK id \in Ids : CmdCreate(id) \/ CmdRemove(id) \/ \E arg \in Values \cup {Get} : CmdExec(id, arg)
    BY <1>3 DEF User
  <2>2. LinksOK' /\ BooksOK' /\ Books' /\ Fresh' /\ Calm'
    BY <1>1, <2>1, CommandInv
  <2>3. CountersOK'
    <3>1. issued' \in 0..MaxCommands /\ crashes' \in 0..MaxCrashes
      BY <1>2, <1>3 DEF User
    <3>2. patient' \in BOOLEAN
      BY <1>3 DEF User
    <3> QED BY <3>1, <3>2 DEF CountersOK
  <2> QED BY <2>2, <2>3, InvPartsAfter
<1>4. CASE UserEnds
  <2>1. UserReady /\ EndOfInput /\ UNCHANGED <<issued, patient, crashes>>
    BY <1>4 DEF UserEnds
  <2>2. LinksOK' /\ BooksOK' /\ Books' /\ Fresh' /\ Calm'
    BY <1>1, <2>1, MainInv DEF LoopStep
  <2>3. CountersOK'
    BY <1>1, <2>1 DEF CountersOK
  <2> QED BY <2>2, <2>3, InvPartsAfter
<1>5. CASE MainPush
  <2>1. /\ PushCreate \/ PushFirstRemove \/ KillNode \/ WaitNode \/ Exit
        /\ UNCHANGED <<issued, patient, crashes>>
    BY <1>5 DEF MainPush
  <2>2. ~EndOfInput
    <3>1. ASSUME EndOfInput PROVE FALSE
      <4>1. main.at = "idle"
        BY <3>1, IdleFacts DEF EndOfInput
      <4> QED BY <2>1, <4>1 DEF PushCreate, PushFirstRemove, KillNode, WaitNode, Exit
    <3> QED BY <3>1
  <2>3. LinksOK' /\ BooksOK' /\ Books' /\ Fresh' /\ Calm'
    BY <1>1, <2>1, <2>2, MainInv DEF LoopStep
  <2>4. CountersOK'
    BY <1>1, <2>1 DEF CountersOK
  <2> QED BY <2>3, <2>4, InvPartsAfter
<1>6. CASE Receiver
  <2>1. ReceiverNext /\ UNCHANGED <<issued, patient, crashes>>
    BY <1>6 DEF Receiver
  <2>2. LinksOK' /\ BooksOK' /\ Books' /\ Fresh' /\ Calm'
    BY <1>1, <2>1, ReceiverInv
  <2>3. CountersOK'
    BY <1>1, <2>1 DEF CountersOK
  <2> QED BY <2>2, <2>3, InvPartsAfter
<1>7. ASSUME NEW p \in Procs, Node(p) \/ NodeCrash(p)
      PROVE  IInv'
  <2>1. /\ NodeNext(p) \/ Crash(p)
        /\ UNCHANGED controlVars /\ UNCHANGED <<issued, patient>>
    BY <1>7 DEF Node, NodeCrash
  <2>2. LinksOK' /\ BooksOK' /\ Books' /\ Fresh' /\ Calm'
    BY <1>1, <2>1, ProcessInv
  <2>3. CountersOK'
    <3>1. crashes' = crashes \/ (crashes < MaxCrashes /\ crashes' = crashes + 1)
      BY <1>7 DEF Node, NodeCrash
    <3>2. crashes' \in 0..MaxCrashes
      BY <1>2, <3>1
    <3> QED BY <1>2, <2>1, <3>2 DEF CountersOK
  <2> QED BY <2>2, <2>3, InvPartsAfter
<1>8. CASE UNCHANGED vars
  <2>1. /\ UNCHANGED <<status, slots, peer, down, up, linger>> /\ UNCHANGED <<node, dict>>
        /\ UNCHANGED <<tree, proc, outstanding, nextUuid, rmlist, main, rcv, printed>>
        /\ UNCHANGED <<issued, patient, crashes>>
    BY <1>8 DEF vars, linkVars, nodeVars, controlVars
  <2>2. Dies
    BY <2>1 DEF Dies
  <2>3. LinksOK' /\ Effect(Control) /\ BooksOK' /\ CountersOK'
    <3>1. status' \in [Procs -> {"unborn", "run", "stuck", "zombie", "reaped"}]
      BY <1>1, <2>1, LinkFacts
    <3>2. LinksOK' /\ Effect(Control)
      BY <1>1, <2>1, <2>2, <3>1, StatusEffect
    <3> QED BY <1>1, <2>1, <3>2 DEF BooksOK, CountersOK
  <2>4. main' = main /\ main'.i > 0
    BY <1>1, <2>1 DEF Books, Chains
  <2>5. Books' /\ Fresh'
    BY <1>1, <2>3, <2>4, BooksKept, FreshKept
  <2>6. Calm'
    BY <1>1, <2>1, <2>2, CalmKept
  <2> QED BY <2>3, <2>5, <2>6, InvPartsAfter
<1> QED BY <1>3, <1>4, <1>5, <1>6, <1>7, <1>8 DEF Next

\* The invariant holds in every behaviour of the cluster.
THEOREM Invariance == Spec => []IInv
<1> QED BY InitInv, NextInv, PTL DEF Spec

\* Every variable of the cluster keeps its type; the receiver thread never gets
\* an answer that its list of removals has no record for (control_node.c:343).
THEOREM TypeCorrect == Spec => []TypeOK
<1>1. IInv => TypeOK
  BY DEF IInv
<1> QED BY <1>1, Invariance, PTL

\* With any number of nodes and any interleaving of threads, nodes and crashes,
\* the commands under way and the removals that wait for them match one to one
\* (answer_count_map and remove_list, control_node.c:343-354).
THEOREM RecordsCorrect == Spec => []RecordsMatchAwaited
<1>1. IInv => RecordsMatchAwaited
  BY DEF IInv
<1> QED BY <1>1, Invariance, PTL

\* When the receiver waits for a removed process, the node is still in the
\* array: waitpid gets its pid, and btree_remove takes no other node away
\* (control_node.c:373-377).
THEOREM ReapCorrect == Spec => []ReapFindsNode
<1>1. IInv => ReapFindsNode
  <2> SUFFICES ASSUME IInv, rcv.at = "wait" PROVE TreeHas(tree, rcv.rec.target)
    BY DEF ReapFindsNode
  <2>1. rcv.rec.target \in Ids /\ Reaping(rcv.rec.target)
    BY DEF IInv, Chains, Reaping
  <2> QED BY <2>1 DEF IInv, RemovedOnce
<1> QED BY <1>1, Invariance, PTL

\* If the user has waited for creations and removals, no process is left when
\* main returns, running, hanging or to be waited for (control_node.c:129-132).
THEOREM NothingLeftCorrect ==
  ASSUME Patience # "none"
  PROVE  Spec => []NothingLeftRunning
<1>1. IInv => NothingLeftRunning
  <2> SUFFICES ASSUME IInv, main.at = "exit", NEW p \in Procs, status[p] \notin {"unborn", "reaped"}
               PROVE  FALSE
    <3>1. IInv => status \in [Procs -> {"unborn", "run", "stuck", "zombie", "reaped"}]
      BY InvParts, LinkFacts
    <3> QED BY <3>1 DEF NothingLeftRunning, Exited
  <2>1. node[p] \in Ids /\ TreeHas(tree, node[p]) /\ proc[node[p]] = p /\ WellFormed(tree)
    BY DEF IInv, Kept
  <2>2. TreeIndex(tree, node[p]) \in 2..Len(tree) /\ tree[TreeIndex(tree, node[p])] = node[p]
    BY <2>1, IndexOf
  <2>3. main.i >= Len(tree) /\ main.i \in Nat /\ Len(tree) \in Nat
    BY <2>1, InvParts, ArrayIds DEF IInv, Calm, BooksOK, Main
  <2>4. TreeIndex(tree, node[p]) <= main.i
    BY <2>2, <2>3
  <2> QED BY <2>1, <2>2, <2>4 DEF IInv, Calm
<1> QED BY <1>1, Invariance, PTL
=============================================================================
