---------------------------- MODULE TopologyProofs ----------------------------
(***************************************************************************)
(* The topology of the cluster: the steps of the control node preserve the *)
(* invariant of TopologyNodeProofs too, and what follows from it.  Between *)
(* two commands the running processes are those of the array, connected    *)
(* like it; and the whole cluster implements RemoveChain.                  *)
(***************************************************************************)
EXTENDS TopologyNodeProofs

-----------------------------------------------------------------------------
(* Not all leaves answer "not found" before the addressee answers.         *)

\* In a set of processes that is closed upwards, with one more process below
\* it, at most half have no children.
LEMMA HalfLeaves ==
  ASSUME LinksOK, WireFacts, NEW H \in SUBSET Procs, NEW f \in Procs, f \notin H,
         \A c \in H \cup {f} : peer[c] \in H \cup {Control}
  PROVE  2 * Cardinality({c \in H : ChildPids(c) = {}}) <= Cardinality(H) + 1
<1>0. PICK L : L = {c \in H : ChildPids(c) = {}}
  OBVIOUS
<1>1. IsFiniteSet(H) /\ IsFiniteSet(L) /\ Cardinality(H) \in Nat /\ Cardinality(L) \in Nat
  <2>1. H \subseteq Procs /\ L \subseteq Procs
    BY <1>0
  <2> QED BY <2>1, ProcsFinite, FS_Subset, FS_CardinalityType
<1>2. PICK I : I = (H \ L) \cup {Control}
  OBVIOUS
<1>3. IsFiniteSet(I) /\ Cardinality(I) = Cardinality(H) - Cardinality(L) + 1
  <2>1. H \cap L = L
    BY <1>0
  <2>2. IsFiniteSet(H \ L) /\ Cardinality(H \ L) = Cardinality(H) - Cardinality(L)
    BY <1>1, <2>1, FS_Difference
  <2>3. Control \notin H \ L
    BY Pids
  <2> QED BY <1>2, <2>2, <2>3, FS_AddElement
<1>4. IsFiniteSet(SlotNames) /\ Cardinality(SlotNames) = 2
  <2>1. SlotNames = {"left"} \cup {"right"} /\ "right" \notin {"left"}
    BY DEF SlotNames
  <2>2. IsFiniteSet({"left"}) /\ Cardinality({"left"}) = 1
    BY FS_Singleton
  <2>3. IsFiniteSet({"left"} \cup {"right"}) /\ Cardinality({"left"} \cup {"right"}) = 1 + 1
    BY <2>1, <2>2, FS_AddElement
  <2> QED BY <2>1, <2>3
<1>5. PICK W : W = I \X SlotNames
  OBVIOUS
<1>6. IsFiniteSet(W) /\ Cardinality(W) = (Cardinality(H) - Cardinality(L) + 1) * 2
  BY <1>3, <1>4, <1>5, FS_Product
<1>7. ASSUME NEW c \in H \cup {f}
      PROVE  \E w \in W : w[1] = peer[c] /\ slots[w[1]][w[2]].pid = c
  <2>1. c \in Procs /\ peer[c] \in AllProcs
    BY <1>7, Pids
  <2>2. PICK s \in SlotNames : slots[peer[c]][s].pid = c
    BY <2>1 DEF WireFacts
  <2>3. peer[c] \in I
    <3>1. CASE peer[c] = Control
      BY <1>2, <3>1
    <3>2. CASE peer[c] \in H
      <4>1. c \in ChildPids(peer[c])
        BY <2>1 DEF WireFacts
      <4> QED BY <1>0, <1>2, <3>2, <4>1
    <3> QED BY <1>7, <3>1, <3>2
  <2>4. <<peer[c], s>> \in W
    BY <1>5, <2>2, <2>3
  <2> QED BY <2>2, <2>4
<1>8. PICK g : g = [c \in H \cup {f} |-> CHOOSE w \in W : w[1] = peer[c] /\ slots[w[1]][w[2]].pid = c]
  OBVIOUS
<1>9. \A c \in H \cup {f} : g[c] \in W /\ slots[g[c][1]][g[c][2]].pid = c
  BY <1>7, <1>8, Zenon
<1>10. g \in [H \cup {f} -> W]
  BY <1>8, <1>9, Zenon
<1>11. \A a, b \in H \cup {f} : g[a] = g[b] => a = b
  BY <1>9
<1>12. Cardinality(H \cup {f}) <= Cardinality(W)
  BY <1>6, <1>10, <1>11, Fewer
<1>13. Cardinality(H \cup {f}) = Cardinality(H) + 1
  BY <1>1, FS_AddElement
<1>14. 2 * Cardinality(L) <= Cardinality(H) + 1
  BY <1>1, <1>6, <1>12, <1>13
<1> QED BY <1>0, <1>14

\* And processes of the array have different places in it.
LEMMA PlacesLeft ==
  ASSUME Books, NEW H \in SUBSET Procs, NEW o \in Procs, o \notin H,
         \A c \in H \cup {o} : node[c] \in Ids /\ TreeHas(tree, node[c]) /\ proc[node[c]] = c
  PROVE  Cardinality(H) + 1 <= Len(tree) - 1
<1>1. WellFormed(tree) /\ Len(tree) \in Nat
  BY ArrayIds DEF Books
<1>2. IsFiniteSet(H) /\ Cardinality(H) \in Nat
  BY ProcsFinite, FS_Subset, FS_CardinalityType
<1>3. PICK g : g = [c \in H \cup {o} |-> TreeIndex(tree, node[c])]
  OBVIOUS
<1>4. \A c \in H \cup {o} : g[c] \in 2..Len(tree) /\ tree[g[c]] = node[c]
  BY <1>1, <1>3, IndexOf
<1>5. g \in [H \cup {o} -> 2..Len(tree)]
  BY <1>3, <1>4
<1>6. \A a, b \in H \cup {o} : g[a] = g[b] => a = b
  BY <1>4
<1>7. IsFiniteSet(2..Len(tree)) /\ Cardinality(2..Len(tree)) = IF 2 > Len(tree) THEN 0 ELSE Len(tree) - 2 + 1
  BY <1>1, FS_Interval, SMTT(60)
<1>8. Len(tree) >= 2
  BY <1>1, <1>4
<1>9. Cardinality(H \cup {o}) <= Cardinality(2..Len(tree))
  BY <1>5, <1>6, <1>7, Fewer
<1>10. Cardinality(H \cup {o}) = Cardinality(H) + 1
  BY <1>2, FS_AddElement
<1> QED BY <1>1, <1>2, <1>7, <1>8, <1>9, <1>10

\* The leaves that have had the command under way, other than its addressee,
\* are fewer than the leaves of the array.
LEMMA AnswerersFew ==
  ASSUME LinksOK, BooksOK, Books, NEW t, TInv(t), NEW e \in Top
  PROVE  Cardinality(Answerers(t, Owner, e.uuid)) < TreeLeaves(tree)
<1>1. /\ ~Stopping /\ UnderWay(t, e) /\ WireFacts /\ WantFacts /\ (~Done(Want) => Ready)
      /\ Owner \in Procs /\ node[Owner] = Addressee(tree, Want) /\ e.uuid \in Nat
  BY AwaitedNow
<1>2. t \in [Procs -> Nat] /\ Wired /\ Ordered(t)
  BY DEF TInv
<1>3. PICK o \in Procs : o = Owner
  BY <1>1
<1>4. PICK u \in Nat : u = e.uuid
  BY <1>1
<1>5. PICK H : H = {p \in Procs : u <= t[p] /\ p # o}
  OBVIOUS
<1>6. ASSUME NEW p \in Procs, u <= t[p] PROVE peer[p] \in H \cup {Control} /\ HasPeer(p)
  <2>1. peer[p] \notin {o, NoPeer}
    <3> SUFFICES ASSUME peer[p] \in {o, NoPeer} PROVE FALSE
      OBVIOUS
    <3>1. Behind(t, p, u)
      BY <1>1, <1>3, <1>4 DEF UnderWay
    <3>2. t[p] \in Nat /\ t[p] < u
      BY <1>2, <3>1 DEF Behind
    <3> QED BY <1>6, <3>2
  <2>2. peer[p] \in AllProcs /\ HasPeer(p)
    BY <1>1, <2>1 DEF WireFacts, HasPeer
  <2>3. peer[p] \in Procs => u <= t[peer[p]]
    <3> SUFFICES ASSUME peer[p] \in Procs PROVE u <= t[peer[p]]
      OBVIOUS
    <3>1. t[p] <= t[peer[p]]
      BY <1>2 DEF Ordered
    <3>2. t[p] \in Nat /\ t[peer[p]] \in Nat
      BY <1>2
    <3> QED BY <1>6, <3>1, <3>2
  <2> QED BY <1>5, <2>1, <2>2, <2>3, Pids
<1>7. H \in SUBSET Procs /\ o \notin H
  BY <1>5
<1>8. \E f \in Procs : f \notin H /\ peer[f] \in H \cup {Control}
  <2>1. CASE u <= t[o]
    BY <1>6, <1>7, <2>1
  <2>2. CASE ~(u <= t[o])
    <3>1. ~Done(Want)
      <4>1. CASE e.cmd # "ping"
        BY <1>1, <1>3, <1>4, <2>2, <4>1 DEF UnderWay
      <4>2. CASE e.cmd = "ping"
        BY <1>1, <4>2 DEF UnderWay, Done, HasEffect
      <4> QED BY <4>1, <4>2
    <3>2. Addressee(tree, Want) # NoId /\ TreeHas(tree, Addressee(tree, Want)) /\ Addressee(tree, Want) \in Ids
      <4>1. Addressee(tree, Want) # NoId
        BY <1>1, <1>2, Pids DEF Wired, Owner
      <4> QED BY <1>1, <4>1 DEF WantFacts, AnyId
    <3>3. Rooted(Connections, Addressee(tree, Want))
      BY <1>1, <3>1, <3>2 DEF Ready
    <3>4. PICK S : S = {id \in Ids : TreeHas(tree, id) /\ proc[id] \notin H}
      OBVIOUS
    <3>5. Addressee(tree, Want) \in S
      BY <1>3, <1>7, <3>2, <3>4 DEF Owner
    <3>6. \/ \E d \in Connections : d[2] \in S /\ d[1] = NoId
          \/ \E d \in Connections : d[2] \in S /\ d[1] # NoId /\ d[1] \notin S
      BY <3>3, <3>5 DEF Rooted
    <3>7. PICK d \in Connections : d[2] \in S /\ (d[1] = NoId \/ d[1] \notin S)
      BY <3>6
    <3>8. PICK b \in Linked : d = <<IdOf(peer[proc[b]]), b>>
      BY <1>1 DEF WireFacts
    <3>9. b \in S /\ IdOf(peer[proc[b]]) = d[1]
      BY <3>7, <3>8
    <3>10. proc[b] \in Procs /\ HasPeer(proc[b]) /\ proc[b] \notin H
      BY <3>4, <3>9, ProcOf DEF Linked
    <3>11. peer[proc[b]] \in AllProcs /\ Alive(peer[proc[b]])
      BY <1>1, <3>10 DEF WireFacts
    <3>12. PICK q \in AllProcs : q = peer[proc[b]]
      BY <3>11
    <3>13. /\ IdOf(q) \in AnyId /\ TreeHas(tree, IdOf(q)) /\ proc[IdOf(q)] = q
           /\ IdOf(q) = NoId <=> q = Control
      BY <1>1, <3>11, <3>12 DEF WireFacts
    <3>14. CASE d[1] = NoId
      BY <3>9, <3>10, <3>12, <3>13, <3>14
    <3>15. CASE d[1] # NoId
      <4>1. IdOf(q) \notin S /\ IdOf(q) \in Ids
        BY <3>7, <3>9, <3>12, <3>13, <3>15 DEF AnyId
      <4>2. q \in H
        BY <3>4, <3>13, <4>1
      <4> QED BY <3>10, <3>12, <4>2
    <3> QED BY <3>14, <3>15
  <2> QED BY <2>1, <2>2
<1>9. PICK f \in Procs : f \notin H /\ peer[f] \in H \cup {Control}
  BY <1>8
<1>10. \A c \in H \cup {f} : peer[c] \in H \cup {Control}
  BY <1>5, <1>6, <1>9
<1>11. Answerers(t, Owner, e.uuid) = {c \in H : ChildPids(c) = {}}
  BY <1>3, <1>4, <1>5 DEF Answerers
<1>12. 2 * Cardinality(Answerers(t, Owner, e.uuid)) <= Cardinality(H) + 1
  BY <1>1, <1>7, <1>9, <1>10, <1>11, HalfLeaves
<1>13. \A c \in H \cup {o} : node[c] \in Ids /\ TreeHas(tree, node[c]) /\ proc[node[c]] = c
  <2>1. ASSUME NEW c \in H PROVE node[c] \in Ids /\ TreeHas(tree, node[c]) /\ proc[node[c]] = c
    <3>1. c \in Procs /\ HasPeer(c)
      BY <1>5, <1>6, <2>1
    <3> QED BY <1>1, <3>1 DEF WireFacts, Linked
  <2>2. node[o] \in Ids /\ TreeHas(tree, node[o]) /\ proc[node[o]] = o
    <3>1. Addressee(tree, Want) # NoId
      BY <1>1, <1>2, Pids DEF Wired, Owner
    <3>2. Addressee(tree, Want) \in Ids /\ TreeHas(tree, Addressee(tree, Want))
      BY <1>1, <3>1 DEF WantFacts, AnyId
    <3> QED BY <1>1, <1>3, <3>2 DEF Owner
  <2> QED BY <2>1, <2>2
<1>14. Cardinality(H) + 1 <= Len(tree) - 1
  BY <1>7, <1>13, PlacesLeft
<1>15. Cardinality(H) \in Nat /\ Cardinality(Answerers(t, Owner, e.uuid)) \in Nat /\ Len(tree) \in Nat
  BY <1>7, ProcsFinite, FS_Subset, FS_CardinalityType, AnswerersFinite, ArrayIds DEF Books
<1>16. ASSUME NEW a \in Nat, NEW n \in Nat, 2 * a <= n - 1 PROVE a < (n + 1) \div 2
  BY <1>16
<1> QED BY <1>12, <1>14, <1>15, <1>16 DEF TreeLeaves

-----------------------------------------------------------------------------
(* A chain goes on.                                                        *)

\* The next command of a chain has not had its effect yet.
LEMMA NotYet ==
  Books /\ WireFacts =>
    \A x, k : ShapeAt(x, k) /\ k \in Nat /\ k < Len(RemoveCommands(tree, x)) =>
      ~HasEffect(Addressed(RemoveCommands(tree, x)[k + 1]))
<1> SUFFICES ASSUME Books, WireFacts, NEW x, NEW k, ShapeAt(x, k), k \in Nat, k < Len(RemoveCommands(tree, x))
             PROVE  ~HasEffect(Addressed(RemoveCommands(tree, x)[k + 1]))
  OBVIOUS
<1>1. PICK c : c = RemoveCommands(tree, x)[k + 1]
  OBVIOUS
<1>2. PICK d : d = Addressed(c)
  OBVIOUS
<1>3. d.cmd = c.cmd /\ d.id = c.id
  BY <1>2 DEF Addressed
<1>4. x \in Ids /\ TreeHas(tree, x) /\ WellFormed(tree) /\ Connections = ChainEdges(tree, x, k)
  BY DEF ShapeAt, Books
<1>5. NextCommand(tree, x, k, c, Connections)
  BY <1>1, <1>4, PlanNext
<1>6. c.cmd \in {"ping", "disconnect", "remove", "connect"} /\ c.id \in Ids /\ TreeHas(tree, c.id)
  BY <1>5 DEF NextCommand
<1>7. CASE c.cmd = "ping"
  BY <1>1, <1>2, <1>3, <1>7 DEF HasEffect
<1>8. CASE c.cmd = "disconnect"
  <2>1. <<Addressee(tree, c), c.id>> \in Connections
    BY <1>5, <1>8 DEF NextCommand
  <2>2. PICK b \in Linked : <<Addressee(tree, c), c.id>> = <<IdOf(peer[proc[b]]), b>>
    BY <2>1 DEF WireFacts
  <2>3. b = c.id
    BY <2>2
  <2>4. IsConnected(c.id)
    BY <1>6, <2>3 DEF WireFacts
  <2> QED BY <1>1, <1>2, <1>3, <1>8, <2>4 DEF HasEffect
<1>9. CASE c.cmd = "connect"
  <2>1. \A a : <<a, c.id>> \notin Connections
    BY <1>5, <1>9 DEF NextCommand
  <2>2. c.id \notin Linked
    BY <2>1 DEF WireFacts
  <2>3. ~IsConnected(c.id)
    BY <1>6, <2>2 DEF WireFacts
  <2> QED BY <1>1, <1>2, <1>3, <1>9, <2>3 DEF HasEffect
<1>10. CASE c.cmd = "remove"
  <2>1. k + 1 = Place(tree, x) /\ c.id = x
    BY <1>5, <1>10 DEF NextCommand
  <2>2. k < Place(tree, x)
    BY <2>1
  <2>3. status[proc[x]] = "run"
    BY <1>4, <2>2 DEF ShapeAt
  <2> QED BY <1>1, <1>2, <1>3, <1>10, <2>1, <2>3 DEF HasEffect, Gone
<1> QED BY <1>6, <1>7, <1>8, <1>9, <1>10

LEMMA NotYetAfter ==
  (Books /\ WireFacts =>
    \A x, k : ShapeAt(x, k) /\ k \in Nat /\ k < Len(RemoveCommands(tree, x)) =>
      ~HasEffect(Addressed(RemoveCommands(tree, x)[k + 1])))'
BY NotYet, PTL

\* rec_remove, with one removal in the list.
LEMMA OnlyRemoval ==
  ASSUME rmlist \in Seq(Rec), Len(rmlist) = 1, NEW c, c = Current(rmlist[1]),
         RecRemove(c.cmd, c.id, TRUE), NEW rec, rec = [rmlist[1] EXCEPT !.now = @ + 1]
  PROVE  \/ /\ rec.now < Len(rec.cmds) /\ rcv' = [at |-> "push", rec |-> rec]
            /\ Len(rmlist') = 1 /\ rmlist'[1] = rec /\ rmlist' # <<>>
         \/ /\ ~(rec.now < Len(rec.cmds)) /\ rcv' = [at |-> "wait", rec |-> rec] /\ rmlist' = <<>>
<1>1. 1 \in 1..Len(rmlist) /\ DOMAIN rmlist = 1..Len(rmlist) /\ \A i \in 1..Len(rmlist) : i = 1
  OBVIOUS
<1>2. rmlist[1] \in Rec
  BY <1>1
<1>3. rec.now \in Nat /\ Len(rec.cmds) \in Nat
  BY <1>2 DEF Rec
<1> DEFINE waiting == {i \in DOMAIN rmlist : Current(rmlist[i]).cmd = c.cmd /\ Current(rmlist[i]).id = c.id}
           first == CHOOSE i \in waiting : \A j \in waiting : i <= j
<1>4. waiting = {1}
  BY <1>1
<1>5. first = 1
  BY <1>4
<1>6. \/ rec.now < Len(rec.cmds) /\ rmlist' = [rmlist EXCEPT ![first] = rec] /\ rcv' = [at |-> "push", rec |-> rec]
      \/ rec.now >= Len(rec.cmds) /\ rmlist' = ListRemove(rmlist, first) /\ rcv' = [at |-> "wait", rec |-> rec]
  BY <1>4, <1>5, Zenon DEF RecRemove
<1> HIDE DEF waiting, first
<1>7. CASE rec.now < Len(rec.cmds) /\ rmlist' = [rmlist EXCEPT ![first] = rec] /\ rcv' = [at |-> "push", rec |-> rec]
  <2>1. rmlist' = [rmlist EXCEPT ![1] = rec]
    BY <1>5, <1>7
  <2>2. Len(rmlist') = 1 /\ rmlist'[1] = rec
    BY <1>1, <2>1
  <2>3. rmlist' # <<>>
    BY <2>2, SMTT(60)
  <2> QED BY <1>7, <2>2, <2>3
<1>8. CASE rec.now >= Len(rec.cmds) /\ rmlist' = ListRemove(rmlist, first) /\ rcv' = [at |-> "wait", rec |-> rec]
  <2>1. rmlist' \in Seq(Rec) /\ Len(rmlist') = 0
    BY <1>1, <1>5, <1>8, RemovedIs, SMTT(60)
  <2>2. rmlist' = <<>>
    BY <2>1
  <2>3. ~(rec.now < Len(rec.cmds))
    BY <1>3, <1>8
  <2> QED BY <1>8, <2>2, <2>3
<1> QED BY <1>6, <1>7, <1>8

\* The chain of x has had its k + 1st command.
LEMMA Advanced ==
  ASSUME Books, BooksOK, Books', WireFacts', UNCHANGED <<tree, proc>>,
         Len(rmlist) = 1, NEW x, x = rmlist[1].target, NEW k \in Nat, k = rmlist[1].now,
         rmlist[1].cmds = ChainOf(x), k < Len(RemoveCommands(tree, x)),
         NEW c, c = Current(rmlist[1]), RecRemove(c.cmd, c.id, TRUE),
         ShapeAt(x, k + 1)', main' = MainIdle, Top' = {}
  PROVE  Shape' /\ Stage' /\ ~Stopping'
<1>1. rmlist \in Seq(Rec) /\ 1 \in 1..Len(rmlist)
  BY DEF BooksOK
<1>2. rmlist[1] \in Rec
  BY ONLY <1>1
<1>3. PICK rec : rec = [rmlist[1] EXCEPT !.now = @ + 1]
  OBVIOUS
<1>4. rec.now = k + 1 /\ rec.target = x /\ rec.cmds = ChainOf(x)
  BY <1>2, <1>3 DEF Rec
<1>5. WellFormed(tree) /\ x \in Ids /\ TreeHas(tree, x)
  BY DEF ShapeAt, Books
<1>6. Len(RemoveCommands(tree, x)) \in Nat
  BY <1>5, PlanOf
<1>7. Len(ChainOf(x)) = Len(RemoveCommands(tree, x)) /\ \A j \in 1..Len(ChainOf(x)) : ChainOf(x)[j] = Addressed(RemoveCommands(tree, x)[j])
  BY <1>6 DEF ChainOf
<1>8. ~Stopping'
  BY DEF Stopping, MainIdle
<1>9. /\ x \in Ids /\ TreeHas(tree', x)
      /\ Connections' = ChainEdges(tree', x, k + 1)
      /\ \A id \in Ids : TreeHas(tree', id) =>
           (status'[proc'[id]] = "run" <=> id # x \/ k + 1 < Place(tree', x))
  BY DEF ShapeAt
<1>10. CASE /\ rec.now < Len(rec.cmds) /\ rcv' = [at |-> "push", rec |-> rec]
            /\ Len(rmlist') = 1 /\ rmlist'[1] = rec /\ rmlist' # <<>>
  <2>1. k + 1 < Len(RemoveCommands(tree, x)) /\ k + 1 \in Nat
    BY <1>4, <1>7, <1>10
  <2>2. Removing'
    BY <1>10 DEF Removing
  <2>3. rcv'.at = "push"
    BY <1>10
  <2>4. Target' = x
    BY <1>4, <1>10, <2>3 DEF Target
  <2>5. (k + 1) + 1 \in 1..Len(ChainOf(x))
    BY <1>6, <1>7, <2>1
  <2>6. Want' = Addressed(RemoveCommands(tree, x)[(k + 1) + 1])'
    <3>1. Want' = rec.cmds[rec.now + 1]
      BY <1>10 DEF Want, Current
    <3>2. rec.cmds[rec.now + 1] = Addressed(RemoveCommands(tree, x)[(k + 1) + 1])
      BY <1>4, <1>7, <2>5
    <3> QED BY <3>1, <3>2 DEF Addressed
  <2>7. ~HasEffect(Want)'
    <3>1. ~HasEffect(Addressed(RemoveCommands(tree, x)[(k + 1) + 1]))'
      BY <2>1, NotYetAfter
    <3> QED BY <2>6, <3>1, ZenonT(60) DEF HasEffect, IsConnected, HasChild, Gone, Addressed
  <2>8. Effected' = k + 1
    BY <1>4, <1>10, <2>3, <2>7 DEF Effected
  <2>9. rmlist'[1].cmds = ChainOf(Target)'
    <3>1. ChainOf(Target)' = ChainOf(x)
      BY <2>4 DEF ChainOf, Addressed
    <3> QED BY <1>4, <1>10, <3>1
  <2>10. Shape'
    BY <1>9, <2>2, <2>3, <2>4, <2>8, <2>9 DEF Shape
  <2>11. RemoveReady'
    BY <1>10, <2>7 DEF RemoveReady
  <2> QED BY <1>8, <2>10, <2>11 DEF Stage
<1>11. CASE ~(rec.now < Len(rec.cmds)) /\ rcv' = [at |-> "wait", rec |-> rec] /\ rmlist' = <<>>
  <2>1. k + 1 = Len(RemoveCommands(tree, x))
    BY <1>4, <1>6, <1>7, <1>11
  <2>2. Removing' /\ rcv'.at = "wait"
    BY <1>11 DEF Removing
  <2>3. Target' = x /\ Effected' = k + 1
    BY <1>4, <1>11, <2>2 DEF Target, Effected
  <2>4. Shape'
    BY <1>9, <2>1, <2>2, <2>3 DEF Shape
  <2>5. WaitNow'
    BY <1>11, <2>2 DEF WaitNow
  <2> QED BY <1>8, <2>4, <2>5 DEF Stage
<1> QED BY <1>1, <1>3, <1>10, <1>11, OnlyRemoval

-----------------------------------------------------------------------------
(* The receiver reads an answer.                                           *)

\* What stays when only answers go.
LEMMA ReadKeeps ==
  ASSUME LinksOK, BooksOK, Books, NEW t, TInv(t), NEW s \in SlotNames, Receive(s)
  PROVE  LET c == slots[Control][s].pid
             r == Head(up[c])
         IN  /\ r \in Replied /\ Replied' \subseteq Replied
             /\ \A u : /\ Cardinality(NotFounds(u)') \in Nat /\ Cardinality(NotFounds(u)) \in Nat
                       /\ Cardinality(NotFounds(u)') <= Cardinality(NotFounds(u))
                       /\ r.uuid = u /\ r.code = "NOT_FOUND" =>
                            Cardinality(NotFounds(u)') + 1 <= Cardinality(NotFounds(u))
             /\ Sent' = Sent /\ Ordered(t)' /\ Wired' /\ NoneStuck'
             /\ \A m : Past(t, m)' <=> Past(t, m)
             /\ GoneQuiet(t) => GoneQuiet(t)'
             /\ Connections' = Connections
             /\ \A x, k : ShapeAt(x, k)' <=> ShapeAt(x, k)
<1>1. PICK c : c = slots[Control][s].pid
  OBVIOUS
<1>2. PICK r : r = Head(up[c])
  OBVIOUS
<1>3. /\ c # Control /\ up[c] # <<>> /\ up' = [up EXCEPT ![c] = Tail(@)]
      /\ UNCHANGED <<status, slots, peer, down, linger, nodeVars, tree, proc, nextUuid, main>>
  BY <1>1, <1>2, Zenon DEF Receive
<1>4. c \in Procs
  BY <1>1, <1>3, LinkFacts, Pids DEF Links, Slot
<1>5. up \in Queues(Reply)
  BY LinkFacts
<1>6. r \in Reply /\ r = up[c][1] /\ 1 \in 1..Len(up[c]) /\ up' \in Queues(Reply) /\ Shortened(up, up')
  BY <1>2, <1>3, <1>4, HeadRead
<1>7. r \in Replied /\ Replied' \subseteq Replied
  <2>1. r \in Replied
    BY <1>4, <1>6 DEF Replied
  <2>2. Replied' \subseteq Replied
    BY <1>5, <1>6, RepliedShortened
  <2> QED BY <2>1, <2>2
<1>8. \A u : /\ Cardinality(NotFounds(u)') \in Nat /\ Cardinality(NotFounds(u)) \in Nat
             /\ Cardinality(NotFounds(u)') <= Cardinality(NotFounds(u))
             /\ r.uuid = u /\ r.code = "NOT_FOUND" =>
                  Cardinality(NotFounds(u)') + 1 <= Cardinality(NotFounds(u))
  <2> SUFFICES ASSUME NEW u
               PROVE  /\ Cardinality(NotFounds(u)') \in Nat /\ Cardinality(NotFounds(u)) \in Nat
                      /\ Cardinality(NotFounds(u)') <= Cardinality(NotFounds(u))
                      /\ r.uuid = u /\ r.code = "NOT_FOUND" =>
                           Cardinality(NotFounds(u)') + 1 <= Cardinality(NotFounds(u))
    OBVIOUS
  <2>1. Cardinality(NotFounds(u)) \in Nat
    BY <1>5, NotFoundsFinite
  <2>2. /\ Cardinality(NotFounds(u)') <= Cardinality(NotFounds(u))
        /\ r.uuid = u /\ r.code = "NOT_FOUND" =>
             Cardinality(NotFounds(u)') + 1 <= Cardinality(NotFounds(u))
    BY <1>2, <1>3, <1>4, <1>5, NotFoundsRead
  <2>3. LinksOK'
    BY ReceiveKeeps
  <2>4. Cardinality(NotFounds(u)') \in Nat
    BY <2>3, NotFoundsAfter
  <2> QED BY <2>1, <2>2, <2>4
<1>9. Sent' = Sent
  BY <1>3 DEF Sent
<1>10. Ordered(t)' /\ Wired' /\ NoneStuck'
  <2>1. t \in [Procs -> Nat] /\ Ordered(t) /\ Wired /\ NoneStuck
    BY DEF TInv
  <2>2. Ordered(t)'
    BY <1>3, <2>1 DEF Ordered
  <2>3. Wired' /\ NoneStuck'
    BY <1>3, <2>1 DEF Wired, NoneStuck, HasPeer
  <2> QED BY <2>2, <2>3
<1>11. \A m : Past(t, m)' <=> Past(t, m)
  BY <1>3 DEF Past, HasChild, nodeVars
<1>12. GoneQuiet(t) => GoneQuiet(t)'
  BY <1>3, <1>9 DEF GoneQuiet, Gone, HasPeer, nodeVars
<1>13. Connections' = Connections
  BY <1>3 DEF Connections, IdOf, nodeVars
<1>14. \A x, k : ShapeAt(x, k)' <=> ShapeAt(x, k)
  BY <1>3, <1>13 DEF ShapeAt
<1> QED BY <1>1, <1>2, <1>7, <1>8, <1>9, <1>10, <1>11, <1>12, <1>13, <1>14

\* An answer to `exec', or one that is not awaited any more.
LEMMA ReceiveOther ==
  ASSUME LinksOK, BooksOK, Books, NEW t, TInv(t), NEW s \in SlotNames, Receive(s),
         UNCHANGED <<rmlist, rcv>>, Top' = Top
  PROVE  TInv(t)'
<1>1. UNCHANGED <<status, slots, peer, down, linger, node, tree, proc, nextUuid, main>>
  BY Zenon DEF Receive, nodeVars
<1>2. LinksOK'
  BY ReceiveKeeps
<1>3. /\ Replied' \subseteq Replied
      /\ \A u \in Nat : Cardinality(NotFounds(u)') <= Cardinality(NotFounds(u))
  BY ReadKeeps
<1> QED BY <1>1, <1>2, <1>3, AnswersKept

\* The answer to the command under way.
LEMMA ReceiveTop ==
  ASSUME LinksOK, BooksOK, Books, NEW t, TInv(t), NEW s \in SlotNames, Receive(s),
         NEW e \in Top, e.uuid = Head(up[slots[Control][s].pid]).uuid
  PROVE  TInv(t)'
<1>1. PICK r : r = Head(up[slots[Control][s].pid])
  BY SMTT(60)
<1>2. /\ r \in Replied /\ Replied' \subseteq Replied
      /\ \A u : /\ Cardinality(NotFounds(u)') \in Nat /\ Cardinality(NotFounds(u)) \in Nat
                /\ Cardinality(NotFounds(u)') <= Cardinality(NotFounds(u))
                /\ r.uuid = u /\ r.code = "NOT_FOUND" =>
                     Cardinality(NotFounds(u)') + 1 <= Cardinality(NotFounds(u))
      /\ Sent' = Sent /\ Ordered(t)' /\ Wired' /\ NoneStuck'
      /\ \A m : Past(t, m)' <=> Past(t, m)
      /\ GoneQuiet(t) => GoneQuiet(t)'
      /\ Connections' = Connections
      /\ \A x, k : ShapeAt(x, k)' <=> ShapeAt(x, k)
  BY <1>1, ReadKeeps
<1>3. /\ ~Stopping /\ Top = {e} /\ UnderWay(t, e) /\ Shape /\ Resting
      /\ Len(rmlist) = 1 \/ (rmlist = <<>> /\ Len(tree) > 1)
      /\ WireFacts /\ WantFacts
      /\ Owner \in Procs
      /\ e \in outstanding /\ e.uuid \in Nat /\ e.count \in Nat
  BY AwaitedNow
<1>4. /\ t \in [Procs -> Nat] /\ Wired /\ Spent(t) /\ GoneQuiet(t) /\ Stage
  BY <1>3 DEF TInv
<1>5. UNCHANGED <<status, slots, peer, down, linger, node, tree, proc, nextUuid, main>>
  BY Zenon DEF Receive, nodeVars
<1>6. LinksOK' /\ BooksOK' /\ Books'
  BY ReceiveKeeps
<1>7. WireFacts'
  BY <1>2, <1>6, WiresAfter
<1>8. /\ outstanding' = IF IsFinal(r, e) THEN outstanding \ {e}
                        ELSE (outstanding \ {e}) \cup {[e EXCEPT !.count = @ - 1]}
      /\ IF r.cmd \in ChainCommands /\ IsFinal(r, e)
         THEN RecRemove(r.cmd, r.id, r.code = "OK")
         ELSE UNCHANGED <<rmlist, rcv>>
  <2>1. ~\A f \in outstanding : f.uuid # r.uuid
    BY <1>1, <1>3
  <2>2. \E f \in outstanding :
          /\ f.uuid = r.uuid
          /\ outstanding' = IF IsFinal(r, f) THEN outstanding \ {f}
                            ELSE (outstanding \ {f}) \cup {[f EXCEPT !.count = @ - 1]}
          /\ IF r.cmd \in ChainCommands /\ IsFinal(r, f)
             THEN RecRemove(r.cmd, r.id, r.code = "OK")
             ELSE UNCHANGED <<rmlist, rcv>>
    BY <1>1, <2>1, ZenonT(60) DEF Receive
  <2>3. \A f \in outstanding : f.uuid = r.uuid => f = e
    BY <1>1, <1>3, SMTT(60) DEF Books, AwaitedAreKnown
  <2> QED BY <2>2, <2>3
<1>9. r.cmd = Want.cmd /\ r.id = Want.id /\ e.cmd = Want.cmd /\ e.id = Want.id /\ e.cmd # "exec"
  <2>1. r.cmd = e.cmd /\ r.id = e.id
    BY <1>1, <1>2, <1>3, SentTraced, SMTT(60)
  <2> QED BY <1>3, <2>1 DEF UnderWay, Top
<1>10. r.code \in {"OK", "NOT_FOUND"} /\ (r.code = "OK" => e.uuid <= t[Owner])
  BY <1>1, <1>2, <1>3 DEF UnderWay
<1>11. CASE r.code = "NOT_FOUND"
  <2>1. /\ Cardinality(Answerers(t, Owner, e.uuid)) < TreeLeaves(tree)
        /\ Cardinality(Answerers(t, Owner, e.uuid)) \in Nat
    BY AnswerersFew, AnswerersFinite, SMTT(60)
  <2>2. TreeLeaves(tree) + Cardinality(NotFounds(e.uuid)) <= e.count + Cardinality(Answerers(t, Owner, e.uuid))
    BY <1>3 DEF UnderWay
  <2>3. /\ Cardinality(NotFounds(e.uuid)') + 1 <= Cardinality(NotFounds(e.uuid))
        /\ Cardinality(NotFounds(e.uuid)') \in Nat /\ Cardinality(NotFounds(e.uuid)) \in Nat
    BY <1>1, <1>2, <1>11
  <2>4. TreeLeaves(tree) \in Nat
    BY ArrayIds DEF Books
  <2>5. e.count > 1
    BY <1>3, <2>1, <2>2, <2>3, <2>4
  <2>6. ~IsFinal(r, e)
    BY <1>11, <2>5 DEF IsFinal
  <2>7. PICK f : f = [e EXCEPT !.count = @ - 1]
    OBVIOUS
  <2>8. f.uuid = e.uuid /\ f.cmd = e.cmd /\ f.id = e.id /\ f.count = e.count - 1
    <3>1. e \in Broadcasts
      BY <1>3 DEF BooksOK
    <3> QED BY <2>7, <3>1 DEF Broadcasts
  <2>9. outstanding' = (outstanding \ {e}) \cup {f} /\ UNCHANGED <<rmlist, rcv>>
    BY <1>8, <2>6, <2>7
  <2>10. Top' = {f}
    <3>1. \A g \in outstanding : g.cmd # "exec" => g = e
      BY <1>3 DEF Top
    <3> QED BY <1>9, <2>8, <2>9, <3>1 DEF Top
  <2>11. /\ Stopping' = Stopping
         /\ ~Stopping' => Shape' /\ Stage'
    BY <1>3, <1>5, <2>9, <2>10, SameStage
  <2>12. Owner' = Owner /\ Want' = Want
    BY <1>5, <2>9, SameWant
  <2>13. Spent(t)'
    <3>1. \A m : Due(t, m) => Due(t, m)'
      BY <1>3, <2>8, <2>10, <2>12 DEF Due
    <3> QED BY <1>2, <1>4, <3>1 DEF Spent
  <2>14. UnderWay(t, f)'
    <3>0. /\ nextUuid = e.uuid + 1 /\ e.cmd = Want.cmd /\ e.id = Want.id
          /\ \A m \in Sent : m.uuid = e.uuid => m.parent = Want.parent /\ m.pid = Want.pid
      BY <1>3, ZenonT(60) DEF UnderWay
    <3>1. nextUuid' = f.uuid + 1 /\ f.cmd = Want'.cmd /\ f.id = Want'.id /\ Owner' \in Procs
      <4>1. nextUuid' = nextUuid
        BY <1>5
      <4> QED BY <1>3, <2>8, <2>12, <3>0, <4>1
    <3>2. \A m \in Sent' : m.uuid = f.uuid => m.parent = Want'.parent /\ m.pid = Want'.pid
      <4>1. Sent' = Sent
        BY <1>2
      <4> QED BY <2>8, <2>12, <3>0, <4>1
    <3>3. \A p \in Procs : peer'[p] \in {Owner', NoPeer} => Behind(t, p, f.uuid)'
      BY <1>3, <1>5, <2>8, <2>12, ZenonT(60) DEF UnderWay, Behind
    <3>4. f.cmd # "ping" => (f.uuid <= t[Owner'] <=> Done(Want)')
      <4>1. Done(Want)' <=> Done(Want)
        BY <1>5, <2>9, SameTopology, SMTT(60)
      <4> QED BY <1>3, <2>8, <2>12, <4>1 DEF UnderWay
    <3>5. \A a \in Replied' : a.uuid = f.uuid =>
             /\ a.code \in {"OK", "NOT_FOUND"}
             /\ a.code = "OK" => f.uuid <= t[Owner']
      BY <1>2, <1>3, <2>8, <2>12 DEF UnderWay
    <3>6. Answerers(t, Owner, e.uuid)' = Answerers(t, Owner, e.uuid)
      BY <1>5, <2>12 DEF Answerers, ChildPids
    <3>7. TreeLeaves(tree) + Cardinality(NotFounds(e.uuid)') <= f.count + Cardinality(Answerers(t, Owner, e.uuid))
      BY <1>3, <2>1, <2>2, <2>3, <2>4, <2>8, SMTT(60)
    <3>8. TreeLeaves(tree') + Cardinality(NotFounds(f.uuid)') <= f.count + Cardinality(Answerers(t, Owner, f.uuid)')
      <4>1. NotFounds(f.uuid)' = NotFounds(e.uuid)' /\ Answerers(t, Owner, f.uuid)' = Answerers(t, Owner, e.uuid)'
        BY <2>8 DEF NotFounds, Answerers
      <4> QED BY <1>5, <3>6, <3>7, <4>1
    <3> QED BY <3>1, <3>2, <3>3, <3>4, <3>5, <3>8, SMTT(60) DEF UnderWay
  <2> QED BY <1>2, <1>3, <1>4, <2>10, <2>11, <2>13, <2>14 DEF TInv
<1>12. CASE r.code = "OK"
  <2>1. IsFinal(r, e)
    BY <1>12 DEF IsFinal
  <2>2. Top' = {}
    BY <1>3, <1>8, <2>1 DEF Top
  <2>3. \A m : ~Due(t, m)
    <3>1. \A f \in Top : f = e
      BY <1>3
    <3>2. ~(t[Owner] < e.uuid)
      BY <1>3, <1>4, <1>10, <1>12
    <3> QED BY <3>1, <3>2 DEF Due
  <2>4. Spent(t)'
    BY <1>2, <1>4, <2>3, SMTT(60) DEF Spent
  <2>5. e.cmd # "ping" => Done(Want)
    BY <1>3, <1>10, <1>12 DEF UnderWay
  <2>6. Shape' /\ Stage' /\ ~Stopping'
    <3>1. CASE Want.cmd = "create"
      <4>1. r.cmd \notin ChainCommands
        BY <1>9, <3>1 DEF ChainCommands
      <4>2. UNCHANGED <<rmlist, rcv>> /\ rmlist = <<>>
        BY <1>3, <1>8, <3>1, <4>1 DEF WantFacts
      <4>3. Shape' /\ ~Stopping' /\ (Creating' <=> Creating)
        <5>1. Stopping' <=> Stopping
          BY <1>5 DEF Stopping
        <5> QED BY <1>3, <1>5, <4>2, <5>1, SameShape
      <4>4. ~Creating
        <5>1. IsConnected(Want.id)
          BY <1>9, <2>5, <3>1 DEF Done
        <5>2. Want.id = TreeLast(tree)
          BY <4>2 DEF Want
        <5> QED BY <5>1, <5>2 DEF Creating
      <4>5. Resting'
        BY <1>3, <1>5, <4>2 DEF Resting
      <4>6. Idle'
        BY <2>2, <4>2, <4>3, <4>4, <4>5 DEF Idle
      <4> QED BY <4>3, <4>6 DEF Stage
    <3>2. CASE Want.cmd # "create"
      <4>1. rmlist # <<>> /\ Len(rmlist) = 1
        BY <1>3, <3>2 DEF WantFacts
      <4>2. main = MainIdle /\ rcv.at # "wait" /\ main' = MainIdle
        BY <1>3, <1>5 DEF Resting, RcvIdle
      <4>3. Removing
        BY <4>1 DEF Removing
      <4>4. Target \in Ids /\ TreeHas(tree, Target) /\ rmlist[1].cmds = ChainOf(Target)
            /\ Connections = ChainEdges(tree, Target, Effected)
            /\ \A id \in Ids : TreeHas(tree, id) =>
                 (status[proc[id]] = "run" <=> id # Target \/ Effected < Place(tree, Target))
        BY <1>3, <4>2, <4>3 DEF Shape
      <4>5. PICK x, k, c : x = Target /\ k = rmlist[1].now /\ c = RemoveCommands(tree, Target)[k + 1]
        OBVIOUS
      <4>6. /\ x = rmlist[1].target /\ k \in Nat /\ k < Len(RemoveCommands(tree, x))
            /\ Want.cmd = c.cmd /\ c = RemoveCommands(tree, x)[k + 1]
        BY <4>1, <4>2, <4>4, <4>5, ChainNow
      <4>7. Want = Current(rmlist[1])
        BY <4>1 DEF Want
      <4>8. RecRemove(Want.cmd, Want.id, TRUE)
        <5>1. r.cmd \in ChainCommands
          BY <1>3, <1>9, <3>2 DEF WantFacts, ChainCommands
        <5>2. RecRemove(r.cmd, r.id, r.code = "OK")
          BY <1>8, <2>1, <5>1
        <5>3. (r.code = "OK") = TRUE
          BY <1>12
        <5> QED BY <1>9, <5>2, <5>3
      <4>9. ShapeAt(x, k + 1)'
        <5>1. CASE Want.cmd = "ping"
          <6>1. ~HasEffect(Want)
            BY <5>1 DEF HasEffect
          <6>2. Effected = k
            BY <4>2, <4>5, <4>6, <6>1 DEF Effected
          <6>3. ShapeAt(x, k)
            BY <4>4, <4>5, <6>2 DEF ShapeAt
          <6>4. Connections' = EffectOn(Connections, c)
            BY <1>2, <4>6, <5>1 DEF EffectOn
          <6>5. \A id \in Ids : TreeHas(tree, id) =>
                  (status'[proc[id]] = "run" <=> status[proc[id]] = "run" /\ ~(c.cmd = "remove" /\ id = c.id))
            BY <1>5, <4>6, <5>1
          <6>6. UNCHANGED <<tree, proc>>
            BY <1>5
          <6> QED BY <4>6, <6>3, <6>4, <6>5, <6>6, StepAt
        <5>2. CASE Want.cmd # "ping"
          <6>1. HasEffect(Want)
            BY <1>9, <2>5, <3>2, <5>2 DEF Done
          <6>2. Effected = k + 1
            BY <4>2, <4>5, <6>1 DEF Effected
          <6>3. ShapeAt(x, k + 1)
            BY <4>4, <4>5, <6>2 DEF ShapeAt
          <6> QED BY <1>2, <6>3
        <5> QED BY <5>1, <5>2
      <4>10. UNCHANGED <<tree, proc>>
        BY <1>5
      <4>11. PICK w : w = Current(rmlist[1]) /\ w = Want
        BY <4>7
      <4> QED BY <1>6, <1>7, <2>2, <4>1, <4>2, <4>4, <4>5, <4>6, <4>8, <4>9, <4>10, <4>11, Advanced
    <3> QED BY <3>1, <3>2
  <2> QED BY <1>2, <1>4, <2>2, <2>4, <2>6 DEF TInv
<1> QED BY <1>10, <1>11, <1>12, SMTT(60)

\* Any answer.
LEMMA ReceiveKeepsT ==
  ASSUME LinksOK, BooksOK, Books, NEW t, TInv(t), NEW s \in SlotNames, Receive(s)
  PROVE  TInv(t)'
<1>1. PICK r : r = Head(up[slots[Control][s].pid])
  OBVIOUS
<1>2. CASE \E e \in Top : e.uuid = r.uuid
  BY <1>1, <1>2, ReceiveTop
<1>3. CASE ~\E e \in Top : e.uuid = r.uuid
  <2>1. UNCHANGED <<rmlist, rcv>> /\ Top' = Top
    <3>1. CASE \A e \in outstanding : e.uuid # r.uuid
      <4>1. UNCHANGED <<outstanding, rmlist, rcv>>
        BY <1>1, <3>1, Zenon DEF Receive
      <4> QED BY <4>1, SameTop
    <3>2. CASE ~\A e \in outstanding : e.uuid # r.uuid
      <4>1. PICK e \in outstanding :
          /\ e.uuid = r.uuid
          /\ outstanding' = IF IsFinal(r, e) THEN outstanding \ {e}
                            ELSE (outstanding \ {e}) \cup {[e EXCEPT !.count = @ - 1]}
          /\ IF r.cmd \in ChainCommands /\ IsFinal(r, e)
             THEN RecRemove(r.cmd, r.id, r.code = "OK")
             ELSE UNCHANGED <<rmlist, rcv>>
        BY <1>1, <3>2, Zenon DEF Receive
      <4>2. e.cmd = "exec"
        BY <1>3, <4>1 DEF Top
      <4>3. r.cmd = "exec"
        <5>1. r \in Replied
          BY <1>1, ReadKeeps
        <5> QED BY <4>1, <4>2, <5>1, SentTraced
      <4>4. UNCHANGED <<rmlist, rcv>>
        BY <4>1, <4>3 DEF ChainCommands
      <4>5. PICK f : f = [e EXCEPT !.count = @ - 1]
        OBVIOUS
      <4>6. f.cmd = "exec"
        <5>1. e \in Broadcasts
          BY DEF BooksOK
        <5> QED BY <4>2, <4>5, <5>1 DEF Broadcasts
      <4>7. Top' = Top
        BY <4>1, <4>2, <4>5, <4>6 DEF Top
      <4> QED BY <4>4, <4>7
    <3> QED BY <3>1, <3>2
  <2> QED BY <2>1, ReceiveOther
<1> QED BY <1>2, <1>3

-----------------------------------------------------------------------------
(* A broadcast.                                                            *)

\* A message that is sent on leaves behind it what is under way.
LEMMA SpreadKeeps ==
  ASSUME LinksOK, BooksOK, Books, NEW t, TInv(t), NEW m \in Message, m.uuid = nextUuid,
         nextUuid' = nextUuid + 1, down' = Pushed(down, Control, m),
         UNCHANGED <<status, slots, peer, up, linger, node, tree, proc>>
  PROVE  /\ Ordered(t)' /\ Wired' /\ NoneStuck'
         /\ \A x \in Sent' : x.uuid \in Nat /\ ((x \in Sent /\ x.uuid < nextUuid) \/ x = m)
         /\ Replied' = Replied /\ \A r \in Replied : r.uuid < nextUuid /\ r.uuid \in Nat
         /\ \A p \in Procs : t[p] \in Nat /\ t[p] < nextUuid
         /\ \A p \in Procs : peer[p] # Control =>
              down'[p] = down[p] /\ \A i \in 1..Len(down[p]) : down[p][i].uuid < nextUuid
         /\ \A x : Past(t, x)' <=> Past(t, x)
         /\ GoneQuiet(t) /\ (\A x \in Procs : Gone(x) /\ HasPeer(x) =>
                               peer[x] # Control /\ m.cmd = "disconnect" /\ m.id = node[x])
              => GoneQuiet(t)'
<1>1. t \in [Procs -> Nat] /\ Ordered(t) /\ Wired /\ NoneStuck
  BY DEF TInv
<1>2. down \in Queues(Message) /\ up \in Queues(Reply) /\ nextUuid \in Nat
  BY LinkFacts DEF BooksOK
<1>3. Ordered(t)'
  <2>1. peer' = peer
    OBVIOUS
  <2> QED BY <1>1, <2>1, OrderedBroadcast
<1>4. Wired' /\ NoneStuck'
  BY <1>1 DEF Wired, NoneStuck, HasPeer
<1>5. /\ \A c \in Procs : \A i \in 1..Len(down'[c]) :
           (i \in 1..Len(down[c]) /\ down'[c][i] = down[c][i]) \/ down'[c][i] = m
      /\ \A c \in Procs : c \notin ChildPids(Control) => down'[c] = down[c]
  BY <1>2, PushedIs
<1>6. \A x \in Sent' : x.uuid \in Nat /\ ((x \in Sent /\ x.uuid < nextUuid) \/ x = m)
  <2> SUFFICES ASSUME NEW x \in Sent' PROVE x.uuid \in Nat /\ ((x \in Sent /\ x.uuid < nextUuid) \/ x = m)
    OBVIOUS
  <2>1. PICK c \in Procs : \E i \in 1..Len(down'[c]) : x = down'[c][i]
    BY DEF Sent
  <2>2. (\E i \in 1..Len(down[c]) : x = down[c][i]) \/ x = m
    BY <1>5, <2>1
  <2>3. x \in Message
    BY DEF Sent
  <2>4. x \in Sent \/ x = m
    BY <2>2, <2>3 DEF Sent
  <2>5. x \in Sent => x.uuid < nextUuid
    BY SentTraced
  <2> QED BY <2>3, <2>4, <2>5 DEF Message
<1>7. Replied' = Replied /\ \A r \in Replied : r.uuid < nextUuid /\ r.uuid \in Nat
  <2>1. Replied' = Replied
    BY DEF Replied
  <2>2. \A r \in Replied : r.uuid \in Nat
    BY DEF Replied, Reply
  <2> QED BY <2>1, <2>2, SentTraced
<1>8. \A p \in Procs : t[p] \in Nat /\ t[p] < nextUuid
  BY <1>1 DEF Ordered
<1>9. \A p \in Procs : peer[p] # Control =>
        down'[p] = down[p] /\ \A i \in 1..Len(down[p]) : down[p][i].uuid < nextUuid
  <2> SUFFICES ASSUME NEW p \in Procs, peer[p] # Control
               PROVE  down'[p] = down[p] /\ \A i \in 1..Len(down[p]) : down[p][i].uuid < nextUuid
    OBVIOUS
  <2>1. down'[p] = down[p]
    BY <1>2 DEF Pushed, Queues
  <2> QED BY <1>1, <2>1 DEF Ordered
<1>10. \A x : Past(t, x)' <=> Past(t, x)
  BY DEF Past, HasChild
<1>11. ASSUME GoneQuiet(t), \A x \in Procs : Gone(x) /\ HasPeer(x) =>
                               peer[x] # Control /\ m.cmd = "disconnect" /\ m.id = node[x]
       PROVE  GoneQuiet(t)'
  <2> SUFFICES ASSUME NEW x \in Procs, Gone(x)', HasPeer(x)'
               PROVE  /\ down'[x] = <<>>
                      /\ \A y \in Sent' : t[x] < y.uuid => y.cmd = "disconnect" /\ y.id = node'[x]
    BY DEF GoneQuiet
  <2>1. Gone(x) /\ HasPeer(x)
    BY DEF Gone, HasPeer
  <2>2. peer[x] # Control /\ m.cmd = "disconnect" /\ m.id = node[x]
    BY <1>11, <2>1
  <2>3. /\ down[x] = <<>>
        /\ \A y \in Sent : t[x] < y.uuid => y.cmd = "disconnect" /\ y.id = node[x]
    BY <1>11, <2>1 DEF GoneQuiet
  <2> QED BY <1>6, <1>9, <2>2, <2>3
<1> QED BY <1>3, <1>4, <1>6, <1>7, <1>8, <1>9, <1>10, <1>11

\* A removed process that is still connected is not a child of the control node,
\* when the next command of the chain is sent to the nodes.
LEMMA OnlyItsOwn ==
  ASSUME Books, BooksOK, WireFacts, Shape, ~Stopping, rcv.at # "wait", ~Done(Want),
         Len(rmlist) = 1 \/ (rmlist = <<>> /\ Len(tree) > 1), Addressee(tree, Want) # NoId,
         NEW x \in Procs, Gone(x), HasPeer(x)
  PROVE  peer[x] # Control /\ Want.cmd = "disconnect" /\ Want.id = node[x]
<1>1. node[x] \in Linked /\ proc[node[x]] = x /\ peer[x] \in AllProcs
  BY DEF WireFacts
<1>2. node[x] \in Ids /\ TreeHas(tree, node[x]) /\ status[proc[node[x]]] # "run"
  BY <1>1 DEF Linked, Gone
<1>3. Removing
  BY <1>2 DEF Shape
<1>4. rmlist # <<>> /\ Len(rmlist) = 1
  BY <1>3 DEF Removing
<1>5. /\ Ready /\ Effected = rmlist[1].now /\ Connections = ChainEdges(tree, Target, rmlist[1].now)
  BY <1>4, WantReady
<1>6. /\ Target \in Ids /\ TreeHas(tree, Target) /\ rmlist[1].cmds = ChainOf(Target)
      /\ status[proc[node[x]]] = "run" <=> node[x] # Target \/ Effected < Place(tree, Target)
  BY <1>2, <1>3 DEF Shape
<1>7. PICK k, c : k = rmlist[1].now /\ c = RemoveCommands(tree, Target)[k + 1]
  OBVIOUS
<1>8. /\ k \in Nat /\ Want = [cmd |-> c.cmd, id |-> c.id, parent |-> c.parent, pid |-> proc[c.id]]
      /\ Addressee(tree, Want) = Addressee(tree, c)
      /\ NextCommand(tree, Target, k, c, ChainEdges(tree, Target, k))
  BY <1>4, <1>6, <1>7, ChainNow
<1>9. node[x] = Target /\ ~(k < Place(tree, Target))
  BY <1>2, <1>5, <1>6, <1>7
<1>10. Place(tree, Target) \in Nat
  BY DEF Place
<1>11. <<IdOf(peer[x]), Target>> \in Connections
  BY <1>1, <1>9 DEF WireFacts
<1>12. c.cmd = "disconnect" /\ c.id = Target
  <2>1. k >= Place(tree, Target) /\ (\E a : <<a, Target>> \in ChainEdges(tree, Target, k))
           => c.cmd = "disconnect" /\ c.id = Target
    BY <1>8 DEF NextCommand
  <2>2. k >= Place(tree, Target)
    BY <1>8, <1>9, <1>10
  <2>3. <<IdOf(peer[x]), Target>> \in ChainEdges(tree, Target, k)
    BY <1>5, <1>7, <1>11
  <2> QED BY <2>1, <2>2, <2>3
<1>13. Want.cmd = "disconnect" /\ Want.id = node[x]
  BY <1>8, <1>9, <1>12
<1>14. peer[x] = Owner
  BY <1>1, <1>5, <1>13 DEF Ready
<1>15. Owner # Control
  <2>1. WantFacts
    BY WantIs
  <2>2. Addressee(tree, Want) \in Ids /\ TreeHas(tree, Addressee(tree, Want))
    BY <2>1 DEF WantFacts, AnyId
  <2> QED BY <2>2, ProcOf, Pids DEF Owner
<1> QED BY <1>13, <1>14, <1>15

\* The command under way is sent to the nodes.
LEMMA AwaitNew ==
  ASSUME LinksOK, BooksOK, Books, NEW t, TInv(t), ~Stopping, Top = {}, rcv.at # "wait", ~Done(Want),
         Len(rmlist) = 1 \/ (rmlist = <<>> /\ Len(tree) > 1), Addressee(tree, Want) # NoId,
         NEW c \in Cmd, c = Want, Broadcast(c, NoValue),
         UNCHANGED <<status, slots, peer, up, linger, node, tree, proc, rmlist>>,
         main' = MainIdle, rcv' = RcvIdle
  PROVE  TInv(t)'
<1>1. /\ t \in [Procs -> Nat] /\ Wired /\ Shape /\ Spent(t) /\ GoneQuiet(t)
  BY DEF TInv
<1>2. WireFacts
  BY <1>1, WiresHold
<1>3. nextUuid \in Nat /\ NoValue \in Values \cup {NoValue, Get}
  BY DEF BooksOK
<1>4. PICK m : m = [uuid |-> nextUuid, cmd |-> c.cmd, id |-> c.id, parent |-> c.parent,
                    pid |-> c.pid, arg |-> NoValue]
  OBVIOUS
<1>5. PICK e : e = [uuid |-> nextUuid, cmd |-> c.cmd, id |-> c.id, count |-> TreeLeaves(tree)]
  OBVIOUS
<1>6. nextUuid' = nextUuid + 1 /\ outstanding' = outstanding \cup {e} /\ down' = Pushed(down, Control, m)
  BY <1>4, <1>5 DEF Broadcast
<1>7. m \in Message /\ m.uuid = nextUuid /\ m.cmd = Want.cmd /\ m.id = Want.id /\ m.parent = Want.parent /\ m.pid = Want.pid
  BY <1>3, <1>4 DEF Message, Cmd
<1>8. e.uuid = nextUuid /\ e.cmd = Want.cmd /\ e.id = Want.id /\ e.count = TreeLeaves(tree) /\ TreeLeaves(tree) \in Nat
  <2>1. TreeLeaves(tree) \in Nat
    BY ArrayIds DEF Books
  <2> QED BY <1>5, <2>1
<1>9. WantFacts
  BY <1>1, WantIs
<1>10. Owner \in Procs
  <2>1. Addressee(tree, Want) \in Ids /\ TreeHas(tree, Addressee(tree, Want))
    BY <1>9 DEF WantFacts, AnyId
  <2> QED BY <2>1, ProcOf DEF Owner
<1>11. /\ Ordered(t)' /\ Wired' /\ NoneStuck'
       /\ \A x \in Sent' : x.uuid \in Nat /\ ((x \in Sent /\ x.uuid < nextUuid) \/ x = m)
       /\ Replied' = Replied /\ \A r \in Replied : r.uuid < nextUuid /\ r.uuid \in Nat
       /\ \A p \in Procs : t[p] \in Nat /\ t[p] < nextUuid
       /\ \A p \in Procs : peer[p] # Control =>
            down'[p] = down[p] /\ \A i \in 1..Len(down[p]) : down[p][i].uuid < nextUuid
       /\ \A x : Past(t, x)' <=> Past(t, x)
       /\ GoneQuiet(t) /\ (\A x \in Procs : Gone(x) /\ HasPeer(x) =>
                             peer[x] # Control /\ m.cmd = "disconnect" /\ m.id = node[x])
            => GoneQuiet(t)'
  BY <1>6, <1>7, SpreadKeeps
<1>12. \A x \in Procs : Gone(x) /\ HasPeer(x) =>
         peer[x] # Control /\ m.cmd = "disconnect" /\ m.id = node[x]
  BY <1>1, <1>2, <1>7, OnlyItsOwn
<1>13. GoneQuiet(t)'
  BY <1>1, <1>11, <1>12
<1>14. Top' = {e}
  <2>1. e.cmd # "exec"
    BY <1>8, <1>9 DEF WantFacts
  <2>2. \A f \in outstanding : f.cmd = "exec"
    BY DEF Top
  <2> QED BY <1>6, <2>1, <2>2 DEF Top
<1>15. Owner' = Owner /\ Want' = Want
  BY SameWant
<1>16. ~Stopping' /\ Resting'
  BY DEF Stopping, Resting, MainIdle
<1>17. Shape'
  <2>1. rcv'.at # "wait"
    BY DEF RcvIdle
  <2> QED BY <1>1, <1>16, <2>1, SameShape
<1>18. Stage'
  <2>1. CASE Len(rmlist) = 1
    BY <1>14, <1>16, <2>1 DEF Stage, RemoveSent
  <2>2. CASE rmlist = <<>> /\ Len(tree) > 1
    BY <1>14, <1>16, <2>2 DEF Stage, CreateSent
  <2> QED BY <2>1, <2>2
<1>19. Spent(t)'
  <2> SUFFICES ASSUME NEW x \in Sent' PROVE Due(t, x)' \/ Past(t, x)'
    BY DEF Spent
  <2>1. CASE x = m
    <3>1. t[Owner'] < e.uuid
      BY <1>8, <1>10, <1>11, <1>15
    <3> QED BY <1>7, <1>8, <1>14, <2>1, <3>1 DEF Due
  <2>2. CASE x \in Sent
    <3>1. Past(t, x)
      BY <1>1, <2>2 DEF Spent, Due
    <3> QED BY <1>11, <3>1
  <2> QED BY <1>11, <2>1, <2>2
<1>20. UnderWay(t, e)'
  <2>1. nextUuid' = e.uuid + 1 /\ e.cmd = Want'.cmd /\ e.id = Want'.id /\ Owner' \in Procs
    BY <1>6, <1>8, <1>10, <1>15
  <2>2. \A x \in Sent' : x.uuid = e.uuid => x.parent = Want'.parent /\ x.pid = Want'.pid
    <3>1. \A x \in Sent' : x.uuid = e.uuid => x = m
      BY <1>3, <1>8, <1>11
    <3> QED BY <1>7, <1>15, <3>1
  <2>3. \A p \in Procs : peer'[p] \in {Owner', NoPeer} => Behind(t, p, e.uuid)'
    <3> SUFFICES ASSUME NEW p \in Procs, peer'[p] \in {Owner', NoPeer} PROVE Behind(t, p, e.uuid)'
      OBVIOUS
    <3>1. peer[p] # Control
      BY <1>10, <1>15, Pids
    <3>2. t[p] < nextUuid /\ down'[p] = down[p] /\ \A i \in 1..Len(down[p]) : down[p][i].uuid < nextUuid
      BY <1>11, <3>1
    <3> QED BY <1>8, <3>2 DEF Behind
  <2>4. e.cmd # "ping" => (e.uuid <= t[Owner'] <=> Done(Want)')
    <3>1. ~Done(Want)'
      BY SameTopology
    <3>2. ~(e.uuid <= t[Owner'])
      BY <1>3, <1>8, <1>10, <1>11, <1>15
    <3> QED BY <3>1, <3>2
  <2>5. \A r \in Replied' : r.uuid # e.uuid
    BY <1>3, <1>8, <1>11
  <2>6. TreeLeaves(tree') + Cardinality(NotFounds(e.uuid)') <= e.count + Cardinality(Answerers(t, Owner, e.uuid)')
    <3>1. NotFounds(e.uuid)' = {}
      <4> SUFFICES ASSUME NEW z \in Procs, NEW j \in Nat, j \in 1..Len(up'[z]), up'[z][j].uuid = e.uuid
                   PROVE  FALSE
        BY DEF NotFounds
      <4>1. up'[z][j] \in Replied'
        <5>1. up[z] \in Seq(Reply)
          BY LinkFacts DEF Queues
        <5>2. up[z][j] \in Reply
          BY <5>1
        <5>3. up'[z][j] \in Reply
          BY <5>2
        <5> QED BY <5>3 DEF Replied
      <4> QED BY <2>5, <4>1
    <3>2. Cardinality(NotFounds(e.uuid)') = 0
      BY <3>1, FS_EmptySet
    <3>3. Cardinality(Answerers(t, Owner, e.uuid)') \in Nat
      BY AnswerersAfter
    <3> QED BY <1>8, <3>2, <3>3
  <2> QED BY <2>1, <2>2, <2>3, <2>4, <2>5, <2>6 DEF UnderWay
<1> QED BY <1>1, <1>11, <1>13, <1>14, <1>16, <1>17, <1>18, <1>19, <1>20 DEF TInv

-----------------------------------------------------------------------------
(* The control node changes its own sockets, or sends the next command.    *)

LEMMA OwnKeeps ==
  ASSUME LinksOK, BooksOK, Books, NEW t, TInv(t), ~Stopping, Top = {}, Top' = {},
         UNCHANGED <<status, node, down, tree, proc, nextUuid>>, ~HeartbeatOn => linger' = linger,
         \A q \in Procs : slots'[q] = slots[q],
         \A c \in Procs : \/ peer'[c] = peer[c] \/ peer'[c] = NoPeer
                          \/ peer'[c] = Control /\ status[c] = "run",
         Wired', Shape', Stage', ~Stopping'
  PROVE  TInv(t)'
<1>1. t \in [Procs -> Nat] /\ NoneStuck /\ Ordered(t) /\ Spent(t) /\ GoneQuiet(t)
  BY DEF TInv
<1>2. Ordered(t)'
  <2>1. nextUuid' = nextUuid
    OBVIOUS
  <2>2. \A c \in Procs : down'[c] = down[c] \/ down'[c] = <<>>
    OBVIOUS
  <2>3. \A c \in Procs : peer'[c] = peer[c] \/ peer'[c] = NoPeer \/ peer'[c] = Control
    OBVIOUS
  <2> QED BY ONLY <1>1, <2>1, <2>2, <2>3, OrderedRewire
<1>3. NoneStuck'
  BY <1>1 DEF NoneStuck
<1>4. Spent(t)'
  <2>1. \A m \in Sent : Past(t, m)
    BY <1>1 DEF Spent, Due
  <2>2. \A m : Past(t, m) => Past(t, m)'
    BY DEF Past, HasChild
  <2>3. Sent' = Sent
    BY DEF Sent
  <2> QED BY <2>1, <2>2, <2>3 DEF Spent
<1>5. GoneQuiet(t)'
  <2> SUFFICES ASSUME NEW x \in Procs, Gone(x)', HasPeer(x)'
               PROVE  /\ down'[x] = <<>>
                      /\ \A m \in Sent' : t[x] < m.uuid => m.cmd = "disconnect" /\ m.id = node'[x]
    BY DEF GoneQuiet
  <2>1. Gone(x) /\ HasPeer(x)
    BY DEF Gone, HasPeer
  <2>2. Sent' = Sent
    BY DEF Sent
  <2> QED BY <1>1, <2>1, <2>2 DEF GoneQuiet
<1> QED BY <1>1, <1>2, <1>3, <1>4, <1>5 DEF TInv

LEMMA PushFirstKeepsT ==
  ASSUME LinksOK, BooksOK, Books, NEW t, TInv(t), PushFirstRemove
  PROVE  TInv(t)'
<1>1. main.at = "remove" /\ main' = MainIdle /\ Broadcast(main.c, NoValue)
      /\ UNCHANGED <<status, slots, peer, up, linger, node, tree, proc, rmlist, rcv>>
  BY DEF PushFirstRemove, nodeVars
<1>2. ~Stopping /\ main # MainIdle /\ main.at # "create"
  BY <1>1 DEF Stopping, MainIdle
<1>3. Stage /\ Shape /\ Wired
  BY <1>2 DEF TInv
<1>4. /\ Len(rmlist) = 1 /\ Top = {} /\ ~HasEffect(Want)
      /\ main = [MainIdle EXCEPT !.at = "remove", !.c = Want] /\ rcv = RcvIdle /\ rmlist[1].now = 0
  BY <1>2, <1>3 DEF Stage, Idle, Forking, CreateSent, RemoveReady, RemoveSent, WaitNow, Resting, MainIdle
<1>5. main.c = Want /\ main.c \in Cmd /\ rcv.at # "wait" /\ rcv' = RcvIdle
  <2>1. main.c \in Cmd
    BY DEF BooksOK, Main
  <2> QED BY <1>1, <1>4, <2>1 DEF MainIdle, RcvIdle
<1>6. ~Done(Want)
  <2>1. WantFacts
    BY <1>3, <1>4, <1>5, WantIs
  <2>2. rmlist # <<>>
    BY <1>4
  <2> QED BY <1>4, <2>1, <2>2 DEF WantFacts, Done
<1>7. Addressee(tree, Want) # NoId
  <2>1. WireFacts
    BY <1>3, WiresHold
  <2>2. rmlist # <<>>
    BY <1>4
  <2> QED BY <1>2, <1>3, <1>4, <1>5, <1>6, <2>1, <2>2, WantReady
<1> QED BY <1>1, <1>2, <1>4, <1>5, <1>6, <1>7, AwaitNew

LEMMA PushCreateKeepsT ==
  ASSUME LinksOK, BooksOK, Books, LinksOK', BooksOK', Books', NEW t, TInv(t), PushCreate
  PROVE  TInv(t)'
<1>1. main.at = "create" /\ main' = MainIdle
      /\ UNCHANGED <<status, linger, node, tree, proc, rmlist, rcv>>
  BY DEF PushCreate, nodeVars
<1>2. ~Stopping /\ main # MainIdle /\ main.at # "remove"
  BY <1>1 DEF Stopping, MainIdle
<1>3. Stage /\ Shape /\ Wired
  BY <1>2 DEF TInv
<1>4. Forking
  BY <1>2, <1>3 DEF Stage, Idle, CreateSent, RemoveReady, RemoveSent, WaitNow, Resting, MainIdle
<1>5. WireFacts
  BY <1>3, WiresHold
<1>6. /\ rcv = RcvIdle /\ rcv.at # "wait" /\ rcv' = RcvIdle /\ rcv'.at # "wait"
      /\ rmlist = <<>> /\ Top = {} /\ Creating /\ Len(tree) > 1 /\ ~Removing
      /\ ~IsConnected(TreeLast(tree))
  BY <1>1, <1>4 DEF Forking, RcvIdle, Creating, Removing
<1>7. PICK c : c = main.c
  OBVIOUS
<1>8. PICK last : last = TreeLast(tree)
  OBVIOUS
<1>9. PICK par : par = TreeLastParent(tree)
  OBVIOUS
<1>10. c.cmd = "create" /\ c.id = last /\ c.pid = proc[last] /\ c \in Cmd
  <2>1. c \in Cmd
    BY <1>7 DEF BooksOK, Main
  <2> QED BY <1>4, <1>7, <1>8, <2>1 DEF Forking
<1>11. /\ last \in Ids /\ TreeHas(tree, last) /\ par \in AnyId
       /\ ~FullIn(Cut(tree), par) /\ Cut(tree) \cup {<<par, last>>} = TreeEdges(tree)
  BY <1>6, <1>8, <1>9, CutFacts DEF Books
<1>12. Connections = Cut(tree) /\ \A id \in Ids : TreeHas(tree, id) => status[proc[id]] = "run"
  BY <1>3, <1>6 DEF Shape
<1>13. /\ \/ /\ par = NoId
             /\ Rewire([slots EXCEPT ![Control] = Connected(@, [id |-> last, pid |-> proc[last]])], up)
             /\ UNCHANGED <<down, outstanding, nextUuid>>
          \/ /\ par # NoId
             /\ Broadcast([c EXCEPT !.parent = par], NoValue)
             /\ UNCHANGED <<slots, peer, up>>
  BY <1>7, <1>9, <1>10 DEF PushCreate
<1>14. CASE /\ par = NoId
            /\ Rewire([slots EXCEPT ![Control] = Connected(@, [id |-> last, pid |-> proc[last]])], up)
            /\ UNCHANGED <<down, outstanding, nextUuid>>
  <2>1. Control \in AllProcs /\ Alive(Control) /\ IdOf(Control) = NoId
    BY Pids DEF Alive, IdOf
  <2>2. ~HasPeer(proc[last]) /\ proc[last] \in Procs
    <3>1. last \notin Linked
      BY <1>5, <1>6, <1>8, <1>11 DEF WireFacts
    <3> QED BY <1>11, <3>1, ProcOf DEF Linked
  <2>3. \E s \in SlotNames : slots[Control][s].id = NoId
    BY <1>3, <1>11, <1>12, <1>14, <2>1, FreeSlot
  <2>4. up \in Queues(Reply) /\ slots \in Links
    BY LinkFacts
  <2>5. Wired' /\ peer' = [peer EXCEPT ![proc[last]] = Control]
    BY <1>1, <1>3, <1>11, <1>14, <2>1, <2>2, <2>3, <2>4, WireConnect
  <2>6. WireFacts'
    BY <2>5, WiresAfter
  <2>7. Connections' = TreeEdges(tree) /\ IsConnected(last)'
    <3>1. Connections' = Connections \cup {<<IdOf(Control), last>>} /\ IsConnected(last)'
      BY <1>1, <1>5, <1>11, <2>1, <2>2, <2>5, <2>6, EdgesConnect
    <3> QED BY <1>11, <1>12, <1>14, <2>1, <3>1
  <2>8. ~Stopping' /\ ~Removing' /\ ~Creating'
    <3>1. ~Stopping'
      BY <1>1 DEF Stopping, MainIdle
    <3>2. ~Removing'
      BY <1>1, <1>6 DEF Removing
    <3>3. ~Creating'
      BY <1>1, <1>8, <2>7 DEF Creating
    <3> QED BY <3>1, <3>2, <3>3
  <2>9. Shape'
    BY <1>1, <1>12, <2>7, <2>8 DEF Shape
  <2>10. Top' = {}
    BY <1>6, <1>14, SameTop
  <2>11. Stage'
    BY <1>1, <1>6, <2>8, <2>10 DEF Stage, Idle, Resting
  <2>12. \A q \in Procs : slots'[q] = slots[q]
    BY <1>14, <2>4, Pids DEF Rewire, Links
  <2>13. \A x \in Procs : \/ peer'[x] = peer[x] \/ peer'[x] = NoPeer
                          \/ peer'[x] = Control /\ status[x] = "run"
    <3>1. peer \in [Procs -> AllProcs \cup {NoPeer}]
      BY LinkFacts
    <3> QED BY <1>11, <1>12, <2>5, <3>1
  <2> QED BY <1>1, <1>2, <1>6, <1>14, <2>5, <2>8, <2>9, <2>10, <2>11, <2>12, <2>13, OwnKeeps
<1>15. CASE /\ par # NoId
            /\ Broadcast([c EXCEPT !.parent = par], NoValue)
            /\ UNCHANGED <<slots, peer, up>>
  <2>1. PICK w : w = [c EXCEPT !.parent = par]
    OBVIOUS
  <2>2. w \in Cmd
    BY <1>10, <1>11, <2>1 DEF Cmd
  <2>3. w = [cmd |-> "create", id |-> last, parent |-> par, pid |-> proc[last]]
    BY <1>10, <2>1 DEF Cmd
  <2>4. w = Want
    BY <1>6, <1>8, <1>9, <2>3 DEF Want
  <2>5. Addressee(tree, Want) # NoId
    BY <1>15, <2>3, <2>4 DEF Addressee
  <2>6. ~Done(Want)
    BY <1>6, <1>8, <2>3, <2>4 DEF Done
  <2> QED BY <1>1, <1>2, <1>6, <1>15, <2>1, <2>2, <2>4, <2>5, <2>6, AwaitNew
<1> QED BY <1>13, <1>14, <1>15

\* The next command of a chain.
LEMMA PushNextKeepsT ==
  ASSUME LinksOK, BooksOK, Books, NEW t, TInv(t), PushNextRemove, ~Stopping
  PROVE  TInv(t)'
<1>1. rcv.at = "push" /\ UNCHANGED <<status, node, tree, proc, main>>
  BY DEF PushNextRemove, nodeVars
<1>2. Stage /\ Shape /\ Wired /\ GoneQuiet(t)
  BY DEF TInv
<1>3. WireFacts
  BY <1>2, WiresHold
<1>4. LinksOK' /\ BooksOK' /\ Books'
  BY PushNextRemoveKeeps
<1>5. RemoveReady /\ main = MainIdle /\ rcv = [at |-> "push", rec |-> rmlist[1]]
  BY <1>1, <1>2 DEF Stage, Idle, Forking, CreateSent, RemoveReady, RemoveSent, WaitNow, Resting, RcvIdle
<1>6. Len(rmlist) = 1 /\ Top = {} /\ ~HasEffect(Want) /\ rmlist # <<>> /\ rcv.at # "wait"
  BY <1>1, <1>5 DEF RemoveReady
<1>7. WantFacts
  BY <1>2, <1>6, WantIs
<1>8. ~Done(Want)
  BY <1>6, <1>7 DEF WantFacts, Done
<1>9. Ready /\ Effected = rmlist[1].now /\ Connections = ChainEdges(tree, Target, rmlist[1].now)
  BY <1>2, <1>3, <1>6, <1>8, WantReady
<1>10. PICK c : c = Current(rcv.rec)
  OBVIOUS
<1>11. c = Want /\ c = Current(rmlist[1])
  BY <1>5, <1>6, <1>10 DEF Want
<1>12. c \in Cmd
  <2>1. rcv.rec \in Rec
    BY DEF BooksOK, Rcv
  <2>2. Unfinished(rcv.rec)
    BY <1>1 DEF Books, Chains
  <2>3. PICK n : n = [rcv.rec EXCEPT !.now = @ + 1]
    OBVIOUS
  <2> QED BY <1>10, <2>1, <2>2, <2>3, AdvanceIs
<1>13. c.id \in Ids /\ TreeHas(tree, c.id) /\ c.pid = proc[c.id]
  BY <1>7, <1>11 DEF WantFacts
<1>14. up \in Queues(Reply) /\ slots \in Links /\ peer \in [Procs -> AllProcs \cup {NoPeer}]
  BY LinkFacts
<1>15. Control \in AllProcs /\ Alive(Control) /\ IdOf(Control) = NoId
  BY Pids DEF Alive, IdOf
<1>16. proc[c.id] \in Procs
  BY <1>13, ProcOf
<1>17. ASSUME Wired', Want.cmd # "ping", Effective, RecRemove(c.cmd, c.id, TRUE),
              UNCHANGED <<outstanding, nextUuid, down>>, ~HeartbeatOn => linger' = linger,
              \A q \in Procs : slots'[q] = slots[q],
              \A x \in Procs : \/ peer'[x] = peer[x] \/ peer'[x] = NoPeer
                               \/ peer'[x] = Control /\ status[x] = "run"
       PROVE  TInv(t)'
  <2>1. PICK x : x = Target
    OBVIOUS
  <2>2. PICK k : k = rmlist[1].now
    OBVIOUS
  <2>3. UNCHANGED <<tree, proc>>
    BY <1>1
  <2>4. /\ ShapeAt(x, k + 1)'
        /\ Target \in Ids /\ TreeHas(tree, Target) /\ Target = rmlist[1].target
        /\ k \in Nat /\ k < Len(RemoveCommands(tree, Target))
        /\ rmlist[1].cmds = ChainOf(Target)
    BY <1>2, <1>3, <1>6, <1>8, <1>17, <2>1, <2>2, <2>3, ChainEffected
  <2>5. WireFacts'
    BY <1>4, <1>17, WiresAfter
  <2>6. Top' = {}
    BY <1>6, <1>17, SameTop
  <2>7. main' = MainIdle
    BY <1>1, <1>5
  <2>8. Shape' /\ Stage' /\ ~Stopping'
    <3>1. x = rmlist[1].target /\ k \in Nat /\ rmlist[1].cmds = ChainOf(x) /\ k < Len(RemoveCommands(tree, x))
      BY <2>1, <2>4
    <3>2. ShapeAt(x, k + 1)'
      BY <2>4
    <3>3. Books /\ BooksOK /\ Books'
      BY <1>4
    <3>4. RecRemove(c.cmd, c.id, TRUE)
      BY <1>17
    <3> QED BY ONLY <1>6, <1>11, <2>2, <2>3, <2>5, <2>6, <2>7, <3>1, <3>2, <3>3, <3>4, Advanced
  <2> QED BY <1>1, <1>6, <1>17, <2>6, <2>8, OwnKeeps
<1> DEFINE closed == {slots[Control][SlotToClose(slots[Control], c.id)].pid}
<1>18. PICK own \in BOOLEAN : own <=> \/ c.cmd = "disconnect" /\ HasChild(Control, c.id)
                                      \/ c.cmd = "connect" /\ c.parent = NoId
  OBVIOUS
<1>19. \/ /\ c.cmd = "disconnect" /\ own
          /\ Rewire([slots EXCEPT ![Control] = Closed(@, c.id)], up)
          /\ linger' \in LingersAfterClose(Control, closed)
          /\ RecRemove(c.cmd, c.id, TRUE)
          /\ UNCHANGED <<down, outstanding, nextUuid>>
       \/ /\ c.cmd = "connect" /\ own
          /\ Rewire([slots EXCEPT ![Control] = Connected(@, [id |-> c.id, pid |-> c.pid])], up)
          /\ RecRemove(c.cmd, c.id, TRUE)
          /\ UNCHANGED <<down, outstanding, nextUuid, linger>>
       \/ /\ ~own
          /\ Broadcast(c, NoValue)
          /\ rcv' = RcvIdle
          /\ UNCHANGED <<slots, peer, up, rmlist, linger>>
  BY <1>10, <1>18 DEF PushNextRemove
<1>20. CASE /\ c.cmd = "disconnect" /\ own
            /\ Rewire([slots EXCEPT ![Control] = Closed(@, c.id)], up)
            /\ linger' \in LingersAfterClose(Control, closed)
            /\ RecRemove(c.cmd, c.id, TRUE)
            /\ UNCHANGED <<down, outstanding, nextUuid>>
  <2>1. HasChild(Control, c.id)
    BY <1>18, <1>20
  <2>2. ~HeartbeatOn => linger' = linger
    <3>1. closed \in SUBSET AllProcs
      <4>1. SlotToClose(slots[Control], c.id) \in SlotNames
        BY DEF SlotToClose, SlotNames
      <4> QED BY <1>14, <1>15, <4>1 DEF Links, Slot
    <3> HIDE DEF closed
    <3> QED BY <1>2, <1>3, <1>15, <1>20, <3>1, NoLinger
  <2>3. Wired' /\ peer' = [peer EXCEPT ![proc[c.id]] = NoPeer]
    BY <1>1, <1>2, <1>13, <1>14, <1>15, <1>20, <2>1, WireClose
  <2>4. WireFacts'
    BY <1>4, <2>3, WiresAfter
  <2>5. Connections' = {e \in Connections : e[2] # c.id}
    BY <1>1, <1>3, <1>13, <2>3, <2>4, EdgesClose
  <2>6. Effective
    <3>1. Want.cmd = "disconnect" /\ Want.id = c.id
      BY <1>11, <1>20
    <3> QED BY <1>1, <2>5, <3>1 DEF Effective
  <2>7. \A q \in Procs : slots'[q] = slots[q]
    BY <1>14, <1>20, Pids DEF Rewire, Links
  <2>8. \A x \in Procs : peer'[x] = peer[x] \/ peer'[x] = NoPeer
    BY <1>14, <1>16, <2>3
  <2>9. Want.cmd # "ping"
    BY <1>11, <1>20
  <2> QED BY <1>17, <1>20, <2>2, <2>3, <2>6, <2>7, <2>8, <2>9
<1>21. CASE /\ c.cmd = "connect" /\ own
            /\ Rewire([slots EXCEPT ![Control] = Connected(@, [id |-> c.id, pid |-> c.pid])], up)
            /\ RecRemove(c.cmd, c.id, TRUE)
            /\ UNCHANGED <<down, outstanding, nextUuid, linger>>
  <2>1. c.parent = NoId
    BY <1>18, <1>21
  <2>2. ~IsConnected(c.id) /\ ~FullIn(Connections, NoId) /\ status[proc[c.id]] = "run"
    BY <1>9, <1>11, <1>21, <2>1 DEF Ready
  <2>3. ~HasPeer(proc[c.id])
    BY <1>3, <1>13, <2>2 DEF WireFacts, Linked
  <2>4. \E s \in SlotNames : slots[Control][s].id = NoId
    BY <1>2, <1>15, <2>2, FreeSlot
  <2>5. Rewire([slots EXCEPT ![Control] = Connected(@, [id |-> c.id, pid |-> proc[c.id]])], up)
    BY <1>13, <1>21
  <2>6. Wired' /\ peer' = [peer EXCEPT ![proc[c.id]] = Control]
    BY <1>1, <1>2, <1>13, <1>14, <1>15, <2>3, <2>4, <2>5, WireConnect
  <2>7. WireFacts'
    BY <1>4, <2>6, WiresAfter
  <2>8. Connections' = Connections \cup {<<NoId, c.id>>}
    <3>1. Connections' = Connections \cup {<<IdOf(Control), c.id>>}
      BY <1>1, <1>3, <1>13, <1>15, <2>3, <2>6, <2>7, EdgesConnect
    <3> QED BY <1>15, <3>1
  <2>9. Effective
    <3>1. Want.cmd = "connect" /\ Want.id = c.id /\ Want.parent = NoId
      BY <1>11, <1>21, <2>1
    <3> QED BY <1>1, <2>8, <3>1 DEF Effective
  <2>10. \A q \in Procs : slots'[q] = slots[q]
    BY <1>14, <1>21, Pids DEF Rewire, Links
  <2>11. \A x \in Procs : peer'[x] = peer[x] \/ (peer'[x] = Control /\ status[x] = "run")
    BY <1>14, <1>16, <2>2, <2>6
  <2>12. Want.cmd # "ping"
    BY <1>11, <1>21
  <2> QED BY <1>17, <1>21, <2>6, <2>9, <2>10, <2>11, <2>12
<1>22. CASE /\ ~own
            /\ Broadcast(c, NoValue)
            /\ rcv' = RcvIdle
            /\ UNCHANGED <<slots, peer, up, rmlist, linger>>
  <2>1. Addressee(tree, Want) # NoId
    <3>1. SUFFICES ASSUME Addressee(tree, Want) = NoId PROVE FALSE
      OBVIOUS
    <3>2. c.cmd \in {"ping", "remove", "connect", "disconnect"}
      BY <1>6, <1>7, <1>11 DEF WantFacts
    <3>3. CASE c.cmd = "connect"
      BY <1>11, <1>18, <1>22, <3>1, <3>3 DEF Addressee
    <3>4. CASE c.cmd = "disconnect"
      <4>1. Owner = Control
        BY <1>2, <3>1 DEF Owner, Wired
      <4>2. peer[proc[c.id]] = Control
        BY <1>9, <1>11, <3>4, <4>1 DEF Ready
      <4>3. HasChild(Control, c.id)
        BY <1>3, <1>13, <1>15, <4>2 DEF WireFacts
      <4> QED BY <1>18, <1>22, <3>4, <4>3
    <3>5. CASE c.cmd \in {"ping", "remove"}
      BY <1>11, <1>13, <3>1, <3>5, Pids DEF Addressee
    <3> QED BY <3>2, <3>3, <3>4, <3>5
  <2>2. main' = MainIdle
    BY <1>1, <1>5
  <2> QED BY <1>1, <1>6, <1>8, <1>11, <1>12, <1>22, <2>1, <2>2, AwaitNew
<1> QED BY <1>19, <1>20, <1>21, <1>22

-----------------------------------------------------------------------------
(* The end of a removal, and the commands of the user.                     *)

LEMMA ReapKeepsT ==
  ASSUME LinksOK, BooksOK, Books, NEW t, TInv(t), Reap, ~Stopping
  PROVE  TInv(t)'
<1>1. PICK x : x = rcv.rec.target
  OBVIOUS
<1>2. PICK p : p = proc[x]
  OBVIOUS
<1>3. /\ rcv.at = "wait" /\ TreeHas(tree, x) /\ status[p] \in {"zombie", "reaped"}
      /\ status' = [status EXCEPT ![p] = "reaped"]
      /\ tree' = TreeRemove(tree, x) /\ rcv' = RcvIdle
      /\ UNCHANGED <<slots, peer, down, up, linger, node, proc, outstanding, nextUuid, rmlist, main>>
  BY <1>1, <1>2 DEF Reap, nodeVars
<1>4. /\ t \in [Procs -> Nat] /\ Wired /\ NoneStuck /\ Ordered(t) /\ Spent(t) /\ Shape /\ Stage /\ GoneQuiet(t)
  BY DEF TInv
<1>5. main = MainIdle /\ rmlist = <<>> /\ Top = {}
  BY <1>3, <1>4 DEF Stage, Idle, Forking, CreateSent, RemoveReady, RemoveSent, WaitNow, Resting, RcvIdle
<1>6. WireFacts
  BY <1>4, WiresHold
<1>7. LinksOK' /\ BooksOK' /\ Books'
  BY ReapKeeps
<1>8. /\ x \in Ids /\ Connections = ChainEdges(tree, x, Len(RemoveCommands(tree, x)))
      /\ \A id \in Ids : TreeHas(tree, id) =>
           (status[proc[id]] = "run" <=> id # x \/ Len(RemoveCommands(tree, x)) < Place(tree, x))
  <2>1. Removing /\ Target = x
    BY <1>1, <1>3 DEF Removing, Target
  <2>2. Effected = Len(RemoveCommands(tree, x))
    BY <1>3, <1>4, <2>1 DEF Shape
  <2> QED BY <1>4, <2>1, <2>2 DEF Shape
<1>9. WellFormed(tree)
  BY DEF Books
<1>10. Connections = TreeEdges(tree')
  BY <1>3, <1>8, <1>9, PlanEnds
<1>11. WellFormed(tree') /\ \A y : TreeHas(tree', y) <=> TreeHas(tree, y) /\ y # x
  BY <1>3, <1>8, <1>9, RemovedTree
<1>12. p \in Procs /\ \A id \in Ids : TreeHas(tree, id) /\ id # x => proc[id] # p /\ proc[id] \in Procs
  BY <1>2, <1>3, <1>8, ProcOf
<1>13. status \in [Procs -> {"unborn", "run", "stuck", "zombie", "reaped"}] /\ slots \in Links
  BY LinkFacts
<1>14. /\ \A q \in Procs : status'[q] = IF q = p THEN "reaped" ELSE status[q]
       /\ \A q \in Procs : status'[q] = "run" <=> status[q] = "run"
       /\ \A q \in Procs : Gone(q)' <=> Gone(q)
  <2>1. \A q \in Procs : status'[q] = IF q = p THEN "reaped" ELSE status[q]
    BY <1>3, <1>13
  <2> QED BY <1>3, <2>1 DEF Gone
<1>15. Wired'
  <2>1. ASSUME NEW q \in AllProcs, NEW s \in SlotNames, slots[q][s] # NoChild
        PROVE  TreeHas(tree', slots[q][s].id)
    <3>1. slots[q][s].id \in Ids /\ TreeHas(tree, slots[q][s].id) /\ HasChild(q, slots[q][s].id)
      BY <1>4, <2>1 DEF Wired, HasChild
    <3>2. slots[q][s].id \in Linked
      BY <1>6, <3>1 DEF WireFacts, IsConnected
    <3>3. <<IdOf(peer[proc[slots[q][s].id]]), slots[q][s].id>> \in Connections
      BY <1>6, <3>2 DEF WireFacts
    <3> QED BY <1>10, <1>11, <3>3, EdgeEnds
  <2> QED BY <1>3, <1>4, <1>14, <2>1 DEF Wired, HasPeer
<1>16. WireFacts'
  BY <1>7, <1>15, WiresAfter
<1>17. Connections' = Connections
  BY <1>3 DEF Connections, IdOf
<1>18. ~Stopping' /\ ~Removing'
  <2>1. ~Stopping'
    BY <1>3, <1>5 DEF Stopping, MainIdle
  <2>2. ~Removing'
    BY <1>3, <1>5 DEF Removing, RcvIdle
  <2> QED BY <2>1, <2>2
<1>19. ~Creating'
  <2> SUFFICES ASSUME Len(tree') > 1 PROVE IsConnected(TreeLast(tree))'
    BY DEF Creating
  <2>1. PICK last : last = TreeLast(tree')
    OBVIOUS
  <2>2. last \in Ids /\ TreeHas(tree', last)
    BY <1>11, <2>1, CutFacts
  <2>3. <<TreeParent(tree', last), last>> \in Connections'
    BY <1>10, <1>11, <1>17, <2>2, EdgeEnds
  <2>4. last \in Linked'
    BY <1>16, <2>3 DEF WireFacts
  <2>5. IsConnected(last)'
    BY <1>16, <2>2, <2>4 DEF WireFacts
  <2> QED BY <2>1, <2>5 DEF IsConnected, HasChild
<1>20. Shape'
  <2>1. \A id \in Ids : TreeHas(tree', id) => status'[proc'[id]] = "run"
    BY <1>3, <1>8, <1>11, <1>12, <1>14
  <2>2. Connections' = TreeEdges(tree')
    BY <1>10, <1>17
  <2> QED BY <1>18, <1>19, <2>1, <2>2 DEF Shape
<1>21. Top' = {}
  BY <1>3, <1>5, SameTop
<1>22. Stage'
  BY <1>3, <1>5, <1>19, <1>21 DEF Stage, Idle, Resting
<1>23. Ordered(t)' /\ NoneStuck'
  BY <1>3, <1>4, <1>14 DEF Ordered, NoneStuck
<1>24. Sent' = Sent
  BY <1>3 DEF Sent
<1>25. Spent(t)'
  <2>1. \A m \in Sent : Past(t, m)
    BY <1>4, <1>5 DEF Spent, Due
  <2>2. \A m : Past(t, m) => Past(t, m)'
    BY <1>3, <1>14 DEF Past, HasChild
  <2> QED BY <1>24, <2>1, <2>2 DEF Spent
<1>26. GoneQuiet(t)'
  BY <1>3, <1>4, <1>14, <1>24 DEF GoneQuiet, HasPeer
<1> QED BY <1>4, <1>15, <1>18, <1>20, <1>21, <1>22, <1>23, <1>25, <1>26 DEF TInv

\* Once creations and removals have been answered, nothing is under way.
LEMMA SettledIdle ==
  ASSUME LinksOK, BooksOK, Books, NEW t, TInv(t), Settled
  PROVE  /\ Idle /\ ~Stopping /\ ~Removing /\ Shape /\ Wired /\ WireFacts
         /\ Connections = TreeEdges(tree)
         /\ \A id \in Ids : TreeHas(tree, id) => status[proc[id]] = "run"
         /\ \A x \in Procs : ~(Gone(x) /\ HasPeer(x))
<1>1. main = MainIdle /\ rcv = RcvIdle /\ rmlist = <<>> /\ \A e \in outstanding : e.cmd # "create"
  BY DEF Settled
<1>2. ~Stopping /\ ~Removing
  BY <1>1 DEF Stopping, Removing, MainIdle, RcvIdle
<1>3. Stage /\ Shape /\ Wired
  BY <1>2 DEF TInv
<1>4. WireFacts
  BY <1>3, WiresHold
<1>5. Idle
  <2>1. ~CreateSent
    <3> SUFFICES ASSUME NEW e \in Top PROVE FALSE
      BY DEF CreateSent
    <3>1. UnderWay(t, e) /\ WantFacts /\ e \in outstanding
      BY AwaitedNow
    <3> QED BY <1>1, <3>1 DEF UnderWay, WantFacts
  <2>2. ~Forking
    BY <1>1 DEF Forking, MainIdle
  <2>3. ~RemoveReady /\ ~RemoveSent
    BY <1>1 DEF RemoveReady, RemoveSent
  <2>4. ~WaitNow
    BY <1>1 DEF WaitNow, RcvIdle
  <2> QED BY <1>3, <2>1, <2>2, <2>3, <2>4 DEF Stage
<1>6. /\ Connections = TreeEdges(tree)
      /\ \A id \in Ids : TreeHas(tree, id) => status[proc[id]] = "run"
  BY <1>2, <1>3, <1>5 DEF Shape, Idle
<1>7. \A x \in Procs : ~(Gone(x) /\ HasPeer(x))
  BY <1>4, <1>6 DEF WireFacts, Linked, Gone
<1> QED BY <1>2, <1>3, <1>4, <1>5, <1>6, <1>7

LEMMA CmdExecKeepsT ==
  ASSUME LinksOK, BooksOK, Books, NEW t, TInv(t), Settled,
         NEW id \in Ids, NEW arg \in Values \cup {Get}, CmdExec(id, arg)
  PROVE  TInv(t)'
<1>1. PICK c : c = [cmd |-> "exec", id |-> id, parent |-> NoId, pid |-> Control]
  OBVIOUS
<1>2. Broadcast(c, arg) /\ UNCHANGED <<status, slots, peer, up, linger, node, tree, proc, rmlist, main, rcv>>
  BY <1>1 DEF CmdExec, nodeVars
<1>3. Idle /\ ~Stopping /\ Shape /\ Top = {} /\ \A x \in Procs : ~(Gone(x) /\ HasPeer(x))
  BY SettledIdle DEF Idle
<1>4. /\ t \in [Procs -> Nat] /\ Spent(t) /\ GoneQuiet(t)
  BY <1>3 DEF TInv
<1>5. c \in Cmd /\ arg \in Values \cup {NoValue, Get} /\ nextUuid \in Nat
  BY <1>1, Pids DEF Cmd, Commands, BooksOK
<1>6. PICK m : m = [uuid |-> nextUuid, cmd |-> c.cmd, id |-> c.id, parent |-> c.parent,
                    pid |-> c.pid, arg |-> arg]
  OBVIOUS
<1>7. PICK e : e = [uuid |-> nextUuid, cmd |-> c.cmd, id |-> c.id, count |-> TreeLeaves(tree)]
  OBVIOUS
<1>8. nextUuid' = nextUuid + 1 /\ outstanding' = outstanding \cup {e} /\ down' = Pushed(down, Control, m)
  BY <1>2, <1>6, <1>7 DEF Broadcast
<1>9. m \in Message /\ m.uuid = nextUuid /\ m.cmd = "exec" /\ m.id \in Ids
  <2>1. m.cmd = "exec" /\ m.uuid = nextUuid /\ m.id \in Ids
    BY <1>1, <1>6
  <2> QED BY <1>5, <1>6, <2>1 DEF Message, Cmd
<1>10. /\ Ordered(t)' /\ Wired' /\ NoneStuck'
       /\ \A x \in Sent' : x.uuid \in Nat /\ ((x \in Sent /\ x.uuid < nextUuid) \/ x = m)
       /\ \A x : Past(t, x)' <=> Past(t, x)
       /\ GoneQuiet(t)'
  BY <1>2, <1>3, <1>4, <1>8, <1>9, SpreadKeeps
<1>11. Top' = {}
  <2>1. e.cmd = "exec"
    BY <1>1, <1>7
  <2> QED BY <1>3, <1>8, <2>1 DEF Top
<1>12. Shape' /\ Stage' /\ ~Stopping'
  <2>1. Stopping' <=> Stopping
    BY <1>2 DEF Stopping
  <2>2. Shape' /\ (Creating' <=> Creating)
    BY <1>2, <1>3, <2>1, SameShape
  <2>3. Idle'
    BY <1>2, <1>3, <1>11, <2>2 DEF Idle, Resting
  <2> QED BY <1>3, <2>1, <2>2, <2>3 DEF Stage
<1>13. Spent(t)'
  <2> SUFFICES ASSUME NEW x \in Sent' PROVE Past(t, x)'
    BY DEF Spent
  <2>1. CASE x = m
    BY <1>9, <2>1 DEF Past
  <2>2. CASE x \in Sent
    <3>1. Past(t, x)
      BY <1>3, <1>4, <2>2 DEF Spent, Due
    <3> QED BY <1>10, <3>1
  <2> QED BY <1>10, <2>1, <2>2
<1> QED BY <1>4, <1>10, <1>11, <1>12, <1>13 DEF TInv

LEMMA CmdRemoveKeepsT ==
  ASSUME LinksOK, BooksOK, Books, NEW t, TInv(t), Settled, NEW id \in Ids, CmdRemove(id)
  PROVE  TInv(t)'
<1>1. PICK rec : rec = [target |-> id, cmds |-> ChainOf(id), now |-> 0]
  OBVIOUS
<1>2. /\ TreeHas(tree, id) /\ rmlist' = ListInsertFront(rmlist, rec)
      /\ main' = [MainIdle EXCEPT !.at = "remove", !.c = Current(rec)]
      /\ UNCHANGED <<status, slots, peer, down, up, linger, node, tree, proc, outstanding, nextUuid, rcv>>
  BY <1>1 DEF CmdRemove, ChainOf, linkVars, nodeVars
<1>3. /\ Idle /\ Shape /\ WireFacts /\ Connections = TreeEdges(tree)
      /\ \A y \in Ids : TreeHas(tree, y) => status[proc[y]] = "run"
      /\ rmlist = <<>> /\ Top = {} /\ rcv = RcvIdle /\ ~Stopping
  BY SettledIdle DEF Idle, Resting
<1>4. /\ t \in [Procs -> Nat] /\ Wired /\ NoneStuck /\ Ordered(t) /\ Spent(t) /\ GoneQuiet(t)
  BY <1>3 DEF TInv
<1>5. WellFormed(tree)
  BY DEF Books
<1>6. PICK cs : cs = RemoveCommands(tree, id)
  OBVIOUS
<1>7. Len(cs) \in Nat /\ 0 < Len(cs)
  <2>1. Len(cs) \in {2, 5, 6, 7}
    BY <1>2, <1>5, <1>6, PlanOf
  <2> QED BY <2>1, SMTT(60)
<1>8. rec.now = 0 /\ rec.target = id /\ rec.cmds = ChainOf(id) /\ Current(rec) = Addressed(cs[1])
  BY <1>1, <1>6, <1>7 DEF ChainOf, Current
<1>9. rmlist' = <<rec>>
  BY <1>2, <1>3 DEF ListInsertFront
<1>10. Len(rmlist') = 1 /\ rmlist'[1] = rec /\ rmlist' # <<>>
  BY <1>9
<1>11. /\ ChainEdges(tree, id, 0) = TreeEdges(tree)
       /\ 0 < Place(tree, id)
  BY DEF ChainEdges, Place
<1>12. ShapeAt(id, 0)
  BY <1>2, <1>3, <1>11 DEF ShapeAt
<1>13. ~HasEffect(Addressed(cs[1]))
  <2>1. 0 \in Nat /\ 0 + 1 = 1
    OBVIOUS
  <2> QED BY <1>3, <1>6, <1>7, <1>12, <2>1, NotYet
<1>14. Want' = Addressed(cs[1])
  BY <1>8, <1>10 DEF Want
<1>15. ~HasEffect(Want)'
  <2>1. \A y : IsConnected(y)' <=> IsConnected(y)
    BY <1>2 DEF IsConnected, HasChild
  <2>2. \A c : HasEffect(c)' <=> HasEffect(c)
    BY <1>2, <2>1 DEF HasEffect, Gone
  <2>3. PICK d : d = Addressed(cs[1])
    OBVIOUS
  <2>4. ~HasEffect(d)'
    BY <1>13, <2>2, <2>3
  <2> QED BY <1>14, <2>3, <2>4 DEF HasEffect, IsConnected, HasChild, Gone
<1>16. ~Stopping' /\ Removing' /\ rcv'.at # "wait"
  <2>1. main'.at = "remove"
    BY <1>2 DEF MainIdle
  <2>2. rcv'.at # "wait"
    BY <1>2, <1>3 DEF RcvIdle
  <2> QED BY <1>10, <2>1, <2>2 DEF Stopping, Removing
<1>17. Target' = id /\ Effected' = 0
  BY <1>8, <1>10, <1>15, <1>16 DEF Target, Effected
<1>18. Connections' = Connections
  BY <1>2 DEF Connections, IdOf
<1>19. Shape'
  <2>1. ChainOf(Target)' = ChainOf(id)
    BY <1>2, <1>17 DEF ChainOf, Addressed
  <2>2. /\ Connections' = ChainEdges(tree', id, 0)
        /\ \A y \in Ids : TreeHas(tree', y) =>
             (status'[proc'[y]] = "run" <=> y # id \/ 0 < Place(tree', id))
    BY <1>2, <1>12, <1>18 DEF ShapeAt
  <2>3. id \in Ids /\ TreeHas(tree', id)
    BY <1>2
  <2> QED BY <1>8, <1>10, <1>16, <1>17, <2>1, <2>2, <2>3 DEF Shape
<1>20. Top' = {}
  BY <1>2, <1>3, SameTop
<1>21. Stage'
  <2>1. main' = [MainIdle EXCEPT !.at = "remove", !.c = Want']
    BY <1>2, <1>8, <1>14
  <2> QED BY <1>2, <1>3, <1>8, <1>10, <1>15, <1>20, <2>1 DEF Stage, RemoveReady
<1>22. Wired' /\ NoneStuck' /\ Ordered(t)' /\ Sent' = Sent
  BY <1>2, <1>4 DEF Wired, HasPeer, NoneStuck, Ordered, Sent
<1>23. Spent(t)'
  <2>1. \A m \in Sent : Past(t, m)
    BY <1>3, <1>4 DEF Spent, Due
  <2>2. \A m : Past(t, m) => Past(t, m)'
    BY <1>2 DEF Past, HasChild
  <2> QED BY <1>22, <2>1, <2>2 DEF Spent
<1>24. GoneQuiet(t)'
  BY <1>2, <1>4, <1>22 DEF GoneQuiet, HasPeer, Gone
<1> QED BY <1>4, <1>16, <1>19, <1>20, <1>21, <1>22, <1>23, <1>24 DEF TInv

\* fork: nothing under way is for the new process.
LEMMA CmdCreateKeepsT ==
  ASSUME LinksOK, BooksOK, Books, Fresh, LinksOK', BooksOK', Books', NEW t, TInv(t), Settled,
         NEW id \in Ids, CmdCreate(id)
  PROVE  \E t2 : TInv(t2)'
<1>1. PICK p \in Procs :
        /\ status[p] = "unborn" /\ ~TreeHas(tree, id) /\ main = MainIdle
        /\ status' = [status EXCEPT ![p] = "run"]
        /\ node' = [node EXCEPT ![p] = id] /\ proc' = [proc EXCEPT ![id] = p]
        /\ main' = [MainIdle EXCEPT !.at = "create",
                                    !.c = [cmd |-> "create", id |-> id, parent |-> NoId, pid |-> p]]
        /\ tree' = TreeAdd(tree, id)
        /\ UNCHANGED <<slots, peer, down, up, linger, outstanding, nextUuid, rmlist, rcv>>
  BY DEF CmdCreate
<1>2. /\ Idle /\ Shape /\ WireFacts /\ Connections = TreeEdges(tree)
      /\ \A y \in Ids : TreeHas(tree, y) => status[proc[y]] = "run"
      /\ \A x \in Procs : ~(Gone(x) /\ HasPeer(x))
      /\ rmlist = <<>> /\ Top = {} /\ rcv = RcvIdle /\ ~Stopping
  BY SettledIdle DEF Idle, Resting
<1>3. /\ t \in [Procs -> Nat] /\ Wired /\ NoneStuck /\ Ordered(t) /\ Spent(t)
  BY <1>2 DEF TInv
<1>4. WellFormed(tree)
  BY DEF Books
<1>5. /\ WellFormed(tree') /\ \A x : TreeHas(tree', x) <=> TreeHas(tree, x) \/ x = id
      /\ TreeLast(tree') = id /\ Len(tree') > 1 /\ Cut(tree') = TreeEdges(tree)
  BY <1>1, <1>4, AddedTree, AddedEdges
<1>6. /\ status \in [Procs -> {"unborn", "run", "stuck", "zombie", "reaped"}] /\ slots \in Links
      /\ node \in [Procs -> AnyId] /\ proc \in [AnyId -> AllProcs] /\ nextUuid \in Nat
      /\ peer \in [Procs -> AllProcs \cup {NoPeer}]
  BY LinkFacts DEF BooksOK
<1>7. /\ \A q \in Procs : status'[q] = IF q = p THEN "run" ELSE status[q]
      /\ \A q \in Procs : node'[q] = IF q = p THEN id ELSE node[q]
      /\ \A x \in AnyId : proc'[x] = IF x = id THEN p ELSE proc[x]
  BY <1>1, <1>6
<1>8. down[p] = <<>> /\ \A q \in AllProcs, s \in SlotNames : slots[q][s].pid # p
  BY <1>1 DEF Fresh, Unused, LinksClean
<1>9. \A q \in AllProcs : peer[p] # q
  BY <1>2, <1>8 DEF WireFacts
<1>10. peer[p] = NoPeer
  BY <1>6, <1>9
<1>11. \A s \in SlotNames : slots[p][s] = NoChild
  BY <1>1, <1>3, Pids DEF Wired
<1>12. \A c \in Procs : peer[c] # p
  <2> SUFFICES ASSUME NEW c \in Procs, peer[c] = p PROVE FALSE
    OBVIOUS
  <2>1. \E s \in SlotNames : slots[p][s].pid = c
    BY <1>2, Pids DEF WireFacts
  <2> QED BY <1>11, <2>1, Pids
<1>13. Wired'
  <2>1. proc'[NoId] = Control
    BY <1>3, <1>7, Pids DEF Wired
  <2>2. ASSUME NEW q \in AllProcs, NEW s \in SlotNames, slots[q][s] # NoChild
        PROVE  /\ slots[q][s].id \in Ids /\ TreeHas(tree', slots[q][s].id)
               /\ slots[q][s].pid = proc'[slots[q][s].id] /\ slots[q][s].pid \in Procs
               /\ peer[slots[q][s].pid] = q
               /\ q \in Procs => status'[q] = "run"
    <3>1. /\ slots[q][s].id \in Ids /\ TreeHas(tree, slots[q][s].id)
          /\ slots[q][s].pid = proc[slots[q][s].id] /\ slots[q][s].pid \in Procs
          /\ peer[slots[q][s].pid] = q
          /\ q \in Procs => status[q] = "run"
      BY <1>3, <2>2 DEF Wired
    <3>2. slots[q][s].id # id /\ slots[q][s].id \in AnyId
      BY <1>1, <3>1, Pids
    <3> QED BY <1>5, <1>7, <3>1, <3>2
  <2>3. \A q \in AllProcs : slots[q]["left"] = slots[q]["right"] => slots[q]["left"] = NoChild
    BY <1>3 DEF Wired
  <2>4. \A c \in Procs : HasPeer(c) => \E s \in SlotNames : slots[peer[c]][s].pid = c
    BY <1>3 DEF Wired
  <2> QED BY <1>1, <2>1, <2>2, <2>3, <2>4 DEF Wired, HasPeer
<1>14. WireFacts'
  BY <1>13, WiresAfter
<1>15. Linked' = Linked
  <2>1. \A b \in Ids : b \in Linked' <=> b \in Linked
    <3> SUFFICES ASSUME NEW b \in Ids PROVE b \in Linked' <=> b \in Linked
      OBVIOUS
    <3>1. b \in AnyId
      BY Pids
    <3>2. CASE b = id
      BY <1>1, <1>7, <1>10, <3>1, <3>2 DEF Linked, HasPeer
    <3>3. CASE b # id
      BY <1>1, <1>5, <1>7, <3>1, <3>3 DEF Linked, HasPeer
    <3> QED BY <3>2, <3>3
  <2> QED BY <2>1 DEF Linked
<1>16. Connections' = Connections
  <2>1. ASSUME NEW b \in Linked PROVE IdOf(peer[proc[b]])' = IdOf(peer[proc[b]])
    <3>1. b \in Ids /\ TreeHas(tree, b) /\ b # id /\ b \in AnyId /\ proc[b] \in Procs
      BY <1>1, <2>1, ProcOf, Pids DEF Linked
    <3>2. proc'[b] = proc[b] /\ peer[proc[b]] # p
      BY <1>7, <1>12, <3>1
    <3>3. peer[proc[b]] \in AllProcs
      BY <1>2, <2>1, <3>1 DEF Linked, WireFacts
    <3> QED BY <1>1, <1>7, <3>2, <3>3, Pids DEF IdOf
  <2>2. Connections = {<<IdOf(peer[proc[b]]), b>> : b \in Linked}
    BY <1>2 DEF WireFacts
  <2>3. Connections' = {<<IdOf(peer[proc[b]])', b>> : b \in Linked'}
    BY <1>14 DEF WireFacts
  <2> QED BY <1>15, <2>1, <2>2, <2>3
<1>17. id \notin Linked' /\ ~IsConnected(id)'
  <2>1. id \notin Linked
    BY <1>1 DEF Linked
  <2>2. id \notin Linked'
    BY <1>15, <2>1
  <2> QED BY <1>14, <2>2 DEF WireFacts
<1>18. ~Stopping' /\ ~Removing' /\ Creating'
  <2>1. main'.at = "create"
    BY <1>1 DEF MainIdle
  <2>2. ~Stopping' /\ ~Removing'
    BY <1>1, <1>2, <2>1 DEF Stopping, Removing, RcvIdle
  <2>3. ~IsConnected(TreeLast(tree))'
    BY <1>5, <1>17 DEF IsConnected, HasChild
  <2> QED BY <1>5, <2>2, <2>3 DEF Creating
<1>19. Shape'
  <2>1. \A b \in Ids : TreeHas(tree', b) => status'[proc'[b]] = "run"
    <3> SUFFICES ASSUME NEW b \in Ids, TreeHas(tree', b) PROVE status'[proc'[b]] = "run"
      OBVIOUS
    <3>1. b \in AnyId
      BY Pids
    <3>2. CASE b = id
      BY <1>7, <3>1, <3>2
    <3>3. CASE b # id
      BY <1>2, <1>5, <1>7, <3>1, <3>3, ProcOf
    <3> QED BY <3>2, <3>3
  <2>2. Connections' = Cut(tree')
    BY <1>2, <1>5, <1>16
  <2> QED BY <1>18, <2>1, <2>2 DEF Shape
<1>20. Top' = {}
  BY <1>1, <1>2, SameTop
<1>21. Stage'
  <2>1. proc'[id] = p
    BY <1>7, Pids
  <2>2. main' = [MainIdle EXCEPT !.at = "create",
                                 !.c = [cmd |-> "create", id |-> TreeLast(tree'),
                                        parent |-> NoId, pid |-> proc'[TreeLast(tree')]]]
    BY <1>1, <1>5, <2>1
  <2>3. rcv' = RcvIdle /\ rmlist' = <<>>
    BY <1>1, <1>2
  <2> QED BY <1>18, <1>20, <2>2, <2>3 DEF Stage, Forking
<1>22. PICK t2 : t2 = [t EXCEPT ![p] = nextUuid - 1]
  OBVIOUS
<1>23. /\ t2 \in [Procs -> Nat]
       /\ \A q \in Procs : t2[q] = (IF q = p THEN nextUuid - 1 ELSE t[q]) /\ t[q] <= t2[q] /\ t2[q] < nextUuid
                           /\ t[q] \in Nat /\ t2[q] \in Nat
  <2>1. \A q \in Procs : t[q] < nextUuid /\ t[q] \in Nat
    BY <1>3 DEF Ordered
  <2>2. nextUuid - 1 \in Nat
    BY <1>6, <2>1
  <2> QED BY <1>3, <1>6, <1>22, <2>1, <2>2
<1>24. Ordered(t2)'
  <2> SUFFICES ASSUME NEW q \in Procs
      PROVE /\ t2[q] < nextUuid'
            /\ \A i \in 1..Len(down'[q]) : t2[q] < down'[q][i].uuid /\ down'[q][i].uuid < nextUuid'
            /\ \A i, j \in 1..Len(down'[q]) : i < j => down'[q][i].uuid < down'[q][j].uuid
            /\ peer'[q] \in Procs => /\ t2[q] <= t2[peer'[q]]
                                     /\ \A i \in 1..Len(down'[q]) : down'[q][i].uuid <= t2[peer'[q]]
    BY DEF Ordered
  <2>1. CASE q = p
    BY <1>1, <1>8, <1>10, <1>23, <2>1, Pids
  <2>2. CASE q # p
    <3>1. t2[q] = t[q] /\ (peer[q] \in Procs => t2[peer[q]] = t[peer[q]])
      BY <1>12, <1>23, <2>2
    <3> QED BY <1>1, <1>3, <3>1 DEF Ordered
  <2> QED BY <2>1, <2>2
<1>25. NoneStuck'
  BY <1>1, <1>3, <1>7 DEF NoneStuck
<1>26. Sent' = Sent
  BY <1>1 DEF Sent
<1>27. Spent(t2)'
  <2> SUFFICES ASSUME NEW m \in Sent PROVE Past(t2, m)'
    BY <1>26 DEF Spent
  <2>1. Past(t, m)
    BY <1>2, <1>3 DEF Spent, Due
  <2>2. m.uuid < nextUuid /\ m.uuid \in Nat
    <3>1. m.uuid < nextUuid
      BY SentTraced
    <3> QED BY <3>1 DEF Sent, Message
  <2>3. m.uuid <= t2[p]
    BY <1>6, <1>23, <2>2
  <2>4. \A q \in Procs : m.uuid <= t[q] => m.uuid <= t2[q]
    BY <1>23, <2>2
  <2>5. m.cmd \in {"create", "connect"} =>
          \A q \in Procs : status'[q] = "run" /\ node'[q] = m.parent => m.uuid <= t2[q]
    BY <1>7, <2>1, <2>3, <2>4 DEF Past
  <2>6. m.cmd = "disconnect" => \A q \in Procs : HasChild(q, m.id)' => m.uuid <= t2[q]
    BY <1>1, <2>1, <2>4 DEF Past, HasChild
  <2>7. m.cmd = "remove" => \A q \in Procs : status'[q] = "run" /\ node'[q] = m.id => m.uuid <= t2[q]
    BY <1>7, <2>1, <2>3, <2>4 DEF Past
  <2> QED BY <2>1, <2>5, <2>6, <2>7 DEF Past
<1>28. GoneQuiet(t2)'
  <2>1. \A x \in Procs : ~(Gone(x)' /\ HasPeer(x)')
    BY <1>1, <1>2, <1>7 DEF Gone, HasPeer
  <2> QED BY <2>1 DEF GoneQuiet
<1>29. TInv(t2)'
  BY <1>13, <1>18, <1>19, <1>20, <1>21, <1>23, <1>24, <1>25, <1>27, <1>28 DEF TInv
<1> QED BY <1>29

-----------------------------------------------------------------------------
(* The end of the input.                                                   *)

LEMMA StopKeeps ==
  ASSUME NEW t, TInv(t), Top = {}, Top' = {}, Stopping', Wired', Sent' \subseteq Sent,
         UNCHANGED <<node, tree, proc, nextUuid, linger>>,
         \A q \in Procs : status'[q] = "run" => status[q] = "run",
         \A q \in Procs : status'[q] = "stuck" => status[q] = "stuck",
         \A c \in Procs : down'[c] = down[c] \/ down'[c] = <<>>,
         \A c \in Procs : peer'[c] = peer[c] \/ peer'[c] = NoPeer,
         \A q \in Procs, id \in Ids : HasChild(q, id)' => HasChild(q, id)
  PROVE  TInv(t)'
<1>1. t \in [Procs -> Nat] /\ NoneStuck /\ Ordered(t) /\ Spent(t)
  BY DEF TInv
<1>2. Ordered(t)'
  <2>1. nextUuid' = nextUuid
    OBVIOUS
  <2>2. \A c \in Procs : down'[c] = down[c] \/ down'[c] = <<>>
    OBVIOUS
  <2>3. \A c \in Procs : peer'[c] = peer[c] \/ peer'[c] = NoPeer \/ peer'[c] = Control
    OBVIOUS
  <2> QED BY ONLY <1>1, <2>1, <2>2, <2>3, OrderedRewire
<1>3. NoneStuck'
  BY <1>1 DEF NoneStuck
<1>4. Spent(t)'
  <2>1. \A m \in Sent : Past(t, m)
    BY <1>1 DEF Spent, Due
  <2>2. \A m : Past(t, m) => Past(t, m)'
    BY DEF Past
  <2> QED BY <2>1, <2>2 DEF Spent
<1> QED BY <1>1, <1>2, <1>3, <1>4 DEF TInv

\* A process is killed by the control node.
LEMMA CrashWired ==
  ASSUME LinksOK, Books, BooksOK, Wired, NEW p \in Procs, Crash(p), UNCHANGED <<tree, proc>>
  PROVE  /\ Wired' /\ UNCHANGED <<linger, node>>
         /\ \A q \in Procs : q # p => status'[q] = status[q]
         /\ status'[p] = "zombie" /\ status[p] = "run"
         /\ \A c \in Procs : down'[c] = down[c] \/ down'[c] = <<>>
         /\ \A c \in Procs : peer'[c] = peer[c] \/ peer'[c] = NoPeer
         /\ \A q \in Procs, id \in Ids : HasChild(q, id)' => HasChild(q, id)
<1>1. /\ status[p] = "run" /\ status' = [status EXCEPT ![p] = "zombie"]
      /\ down' = [down EXCEPT ![p] = <<>>] /\ UNCHANGED <<linger, node>>
  BY DEF Crash
<1>2. PICK n \in 0..Len(up[p]) :
        Rewire([slots EXCEPT ![p] = [s \in SlotNames |-> NoChild]], [up EXCEPT ![p] = SubSeq(@, 1, n)])
  BY DEF Crash
<1>3. /\ status \in [Procs -> {"unborn", "run", "stuck", "zombie", "reaped"}]
      /\ slots \in Links /\ peer \in [Procs -> AllProcs \cup {NoPeer}]
      /\ down \in Queues(Message) /\ up \in Queues(Reply)
  BY LinkFacts
<1>4. PICK queue : queue = [up EXCEPT ![p] = SubSeq(@, 1, n)]
  OBVIOUS
<1>5. queue \in Queues(Reply)
  <2>1. up[p] \in Seq(Reply)
    BY <1>3 DEF Queues
  <2>2. SubSeq(up[p], 1, n) \in Seq(Reply)
    BY <2>1
  <2> QED BY <1>3, <1>4, <2>2 DEF Queues
<1>6. \A q \in Procs : status'[q] = IF q = p THEN "zombie" ELSE status[q]
  BY <1>1, <1>3
<1>7. Rewire([slots EXCEPT ![p] = [s \in SlotNames |-> NoChild]], queue)
  BY <1>2, <1>4
<1>8. Wired' /\ peer' = [c \in Procs |-> IF peer[c] = p THEN NoPeer ELSE peer[c]]
  <2>1. \A q \in Procs : q # p => status'[q] = status[q]
    BY <1>6
  <2> QED BY <1>5, <1>7, <2>1, WireEmpty
<1>9. \A c \in Procs : down'[c] = down[c] \/ down'[c] = <<>>
  BY <1>1, <1>3 DEF Queues
<1>10. \A c \in Procs : peer'[c] = peer[c] \/ peer'[c] = NoPeer
  BY <1>8
<1>11. ASSUME NEW q \in Procs, NEW id \in Ids, HasChild(q, id)' PROVE HasChild(q, id)
  <2>1. slots' = [slots EXCEPT ![p] = [s \in SlotNames |-> NoChild]]
    BY <1>7 DEF Rewire
  <2>2. PICK s \in SlotNames : slots'[q][s].id = id
    BY <1>11 DEF HasChild
  <2>3. slots'[q] = IF q = p THEN [r \in SlotNames |-> NoChild] ELSE slots[q]
    BY <1>3, <2>1, Pids DEF Links
  <2>4. CASE q = p
    BY <2>2, <2>3, <2>4, Pids
  <2>5. CASE q # p
    BY <2>2, <2>3, <2>5 DEF HasChild
  <2> QED BY <2>4, <2>5
<1> QED BY <1>1, <1>6, <1>8, <1>9, <1>10, <1>11

LEMMA LoopKeepsT ==
  ASSUME LinksOK, BooksOK, Books, NEW t, TInv(t), LoopStep, EndOfInput => Settled
  PROVE  TInv(t)'
<1>1. Wired /\ NoneStuck
  BY DEF TInv
<1>2. Top = {}
  <2>1. CASE EndOfInput
    BY <2>1, SettledIdle DEF Idle
  <2>2. CASE ~EndOfInput
    <3>1. Stopping
      BY <2>2 DEF LoopStep, KillNode, WaitNode, Exit, Stopping
    <3> QED BY <3>1 DEF TInv
  <2> QED BY <2>1, <2>2
<1>3. UNCHANGED <<node, tree, proc, outstanding, nextUuid>> /\ Copied(down, down')
  BY LoopEffect DEF Effect
<1>4. Top' = {}
  BY <1>2, <1>3, SameTop
<1>5. Stopping'
  BY LoopEffect DEF Stopping
<1>6. Sent' \subseteq Sent
  BY <1>3, LinkFacts, SentCopied
<1>7. ASSUME UNCHANGED <<slots, peer, down, linger>>,
             \A q \in Procs : status'[q] = status[q]
                              \/ (status[q] \in {"stuck", "zombie"} /\ status'[q] \in {"zombie", "reaped"})
      PROVE  TInv(t)'
  <2>1. Wired'
    <3>1. \A q \in Procs : status[q] = "run" => status'[q] = "run"
      BY <1>7
    <3> QED BY <1>1, <1>3, <1>7, <3>1 DEF Wired, HasPeer
  <2>2. \A q \in Procs, id \in Ids : HasChild(q, id)' => HasChild(q, id)
    BY <1>7 DEF HasChild
  <2>3. /\ \A q \in Procs : status'[q] = "run" => status[q] = "run"
        /\ \A q \in Procs : status'[q] = "stuck" => status[q] = "stuck"
    BY <1>7
  <2> QED BY <1>2, <1>3, <1>4, <1>5, <1>6, <1>7, <2>1, <2>2, <2>3, StopKeeps
<1>8. status \in [Procs -> {"unborn", "run", "stuck", "zombie", "reaped"}]
  BY LinkFacts
<1>9. CASE EndOfInput \/ Exit
  BY <1>7, <1>9 DEF EndOfInput, Exit, linkVars
<1>10. CASE KillNode
  <2>1. PICK p : p = ProcessAt(main.i)
    OBVIOUS
  <2>2. p \in Procs
    BY <1>10, <2>1, ElementIs DEF KillNode, MoreToKill
  <2>3. \/ Crash(p)
        \/ /\ status' = [status EXCEPT ![p] = IF @ = "stuck" THEN "zombie" ELSE @]
           /\ UNCHANGED <<slots, peer, down, up, linger, nodeVars>>
    BY <1>10, <2>1 DEF KillNode
  <2>4. CASE Crash(p)
    <3>1. /\ Wired' /\ UNCHANGED <<linger, node>>
          /\ \A q \in Procs : q # p => status'[q] = status[q]
          /\ status'[p] = "zombie" /\ status[p] = "run"
          /\ \A c \in Procs : down'[c] = down[c] \/ down'[c] = <<>>
          /\ \A c \in Procs : peer'[c] = peer[c] \/ peer'[c] = NoPeer
          /\ \A q \in Procs, id \in Ids : HasChild(q, id)' => HasChild(q, id)
      BY <1>1, <1>3, <2>2, <2>4, CrashWired
    <3>2. /\ \A q \in Procs : status'[q] = "run" => status[q] = "run"
          /\ \A q \in Procs : status'[q] = "stuck" => status[q] = "stuck"
      BY <3>1
    <3> QED BY <1>2, <1>3, <1>4, <1>5, <1>6, <3>1, <3>2, StopKeeps
  <2>5. CASE /\ status' = [status EXCEPT ![p] = IF @ = "stuck" THEN "zombie" ELSE @]
             /\ UNCHANGED <<slots, peer, down, up, linger, nodeVars>>
    <3>1. \A q \in Procs : status'[q] = status[q]
                           \/ (status[q] \in {"stuck", "zombie"} /\ status'[q] \in {"zombie", "reaped"})
      BY <1>8, <2>2, <2>5
    <3> QED BY <1>7, <2>5, <3>1
  <2> QED BY <2>3, <2>4, <2>5
<1>11. CASE WaitNode
  <2>1. PICK p : /\ status[p] \in {"zombie", "reaped"} /\ status' = [status EXCEPT ![p] = "reaped"]
                 /\ UNCHANGED <<slots, peer, down, linger>>
    BY <1>11 DEF WaitNode
  <2>2. \A q \in Procs : status'[q] = status[q]
                         \/ (status[q] \in {"stuck", "zombie"} /\ status'[q] \in {"zombie", "reaped"})
    BY <1>8, <2>1
  <2> QED BY <1>7, <2>1, <2>2
<1> QED BY <1>9, <1>10, <1>11 DEF LoopStep

-----------------------------------------------------------------------------
(* Every step.                                                             *)

LEMMA PatientSettled ==
  ASSUME Patience # "none", UserReady
  PROVE  Settled
BY ClusterAssumption DEF UserReady, Quiet

LEMMA SameKeeps ==
  ASSUME NEW t, TInv(t), UNCHANGED vars
  PROVE  TInv(t)'
<1>1. /\ UNCHANGED <<status, slots, peer, down, up, linger, node, dict>>
      /\ UNCHANGED <<tree, proc, outstanding, nextUuid, rmlist, main, rcv, printed>>
  BY DEF vars, linkVars, nodeVars, controlVars
<1>2. Top' = {} <=> Top = {}
  BY <1>1, SameTop
<1>3. /\ Wired' /\ NoneStuck' /\ Stopping' = Stopping
      /\ Stopping' => Top' = {}
      /\ ~Stopping' => Shape' /\ Stage'
  BY <1>1, <1>2, SameStage
<1>4. Want' = Want /\ Owner' = Owner /\ Top' = Top
  BY <1>1, SameWant, SameTop
<1>5. /\ Sent' = Sent /\ Replied' = Replied
      /\ \A u : NotFounds(u)' = NotFounds(u)
      /\ \A q \in Procs : ChildPids(q)' = ChildPids(q)
      /\ Done(Want)' <=> Done(Want)
  BY <1>1, SameTopology DEF Sent, Replied, NotFounds
<1>6. Spent(t)'
  <2>1. \A m : Past(t, m)' <=> Past(t, m)
    BY <1>1 DEF Past, HasChild
  <2>2. \A m : Due(t, m)' <=> Due(t, m)
    BY <1>4 DEF Due
  <2> QED BY <1>5, <2>1, <2>2 DEF Spent, TInv
<1>7. Ordered(t)'
  BY <1>1 DEF Ordered, TInv
<1>8. ASSUME ~Stopping' PROVE GoneQuiet(t)' /\ \A e \in Top' : Top' = {e} /\ UnderWay(t, e)'
  <2>1. ~Stopping
    BY <1>3, <1>8
  <2>2. GoneQuiet(t) /\ \A e \in Top : Top = {e} /\ UnderWay(t, e)
    BY <2>1 DEF TInv
  <2>3. GoneQuiet(t)'
    BY <1>1, <1>5, <2>2 DEF GoneQuiet, Gone, HasPeer
  <2>4. ASSUME NEW e \in Top, UnderWay(t, e) PROVE UnderWay(t, e)'
    <3>1. Answerers(t, Owner, e.uuid)' = Answerers(t, Owner, e.uuid)
      BY <1>4, <1>5 DEF Answerers
    <3>2. \A c \in Procs : Behind(t, c, e.uuid)' <=> Behind(t, c, e.uuid)
      BY <1>1 DEF Behind
    <3>3. \A c \in Procs : peer'[c] = peer[c]
      BY <1>1
    <3>4. TreeLeaves(tree)' + Cardinality(NotFounds(e.uuid))' = TreeLeaves(tree) + Cardinality(NotFounds(e.uuid))
      BY <1>1, <1>5
    <3>5. nextUuid' = nextUuid
      BY <1>1
    <3> HIDE <1>1
    <3> QED BY <1>4, <1>5, <2>4, <3>1, <3>2, <3>3, <3>4, <3>5 DEF UnderWay
  <2> QED BY <1>4, <2>2, <2>3, <2>4
<1> QED BY <1>3, <1>6, <1>7, <1>8 DEF TInv

\* What the invariant of the books says of two consecutive states.
LEMMA BothStates ==
  ASSUME IInv, IInv'
  PROVE  /\ LinksOK /\ BooksOK /\ Books /\ Fresh /\ Calm
         /\ LinksOK' /\ BooksOK' /\ Books'
<1>1. IInv' => LinksOK' /\ BooksOK' /\ Books'
  BY TypePartsAfter DEF IInv, Books
<1> QED BY <1>1, InvParts

LEMMA NextTopology ==
  ASSUME Patience # "none", MaxCrashes = 0, IInv, IInv', NEW t, TInv(t), [Next]_vars
  PROVE  \E t2 : TInv(t2)'
<1>1. LinksOK /\ BooksOK /\ Books /\ Fresh /\ Calm /\ LinksOK' /\ BooksOK' /\ Books'
  BY BothStates
<1>2. TInv(t)' => \E t2 : TInv(t2)'
  OBVIOUS
<1>3. CASE User
  <2>1. /\ Settled
        /\ \E id \in Ids : \/ CmdCreate(id)
                           \/ CmdRemove(id)
                           \/ \E arg \in Values \cup {Get} : CmdExec(id, arg)
    BY <1>3, PatientSettled DEF User
  <2> QED BY <1>1, <1>2, <2>1, CmdCreateKeepsT, CmdRemoveKeepsT, CmdExecKeepsT
<1>4. CASE UserEnds
  <2>1. Settled /\ LoopStep
    BY <1>4, PatientSettled DEF UserEnds, LoopStep
  <2> QED BY <1>1, <1>2, <2>1, LoopKeepsT
<1>5. CASE MainPush
  <2>1. PushCreate \/ PushFirstRemove \/ KillNode \/ WaitNode \/ Exit
    BY <1>5 DEF MainPush
  <2>2. CASE PushCreate
    BY <1>1, <1>2, <2>2, PushCreateKeepsT
  <2>3. CASE PushFirstRemove
    BY <1>1, <1>2, <2>3, PushFirstKeepsT
  <2>4. CASE KillNode \/ WaitNode \/ Exit
    <3>1. LoopStep /\ ~EndOfInput
      <4>1. main.at # "idle"
        BY <2>4 DEF KillNode, WaitNode, Exit
      <4> QED BY <2>4, <4>1, IdleFacts DEF LoopStep, EndOfInput
    <3> QED BY <1>1, <1>2, <3>1, LoopKeepsT
  <2> QED BY <2>1, <2>2, <2>3, <2>4
<1>6. CASE Receiver
  <2>1. (\E s \in SlotNames : Receive(s)) \/ PushNextRemove \/ Reap
    BY <1>6 DEF Receiver, ReceiverNext
  <2>2. CASE \E s \in SlotNames : Receive(s)
    BY <1>1, <1>2, <2>2, ReceiveKeepsT
  <2>3. CASE PushNextRemove \/ Reap
    <3>1. ~Stopping
      <4>1. rcv.at \in {"push", "wait"}
        BY <2>3 DEF PushNextRemove, Reap
      <4> QED BY <1>1, <4>1 DEF Calm, Stopping, RcvIdle
    <3> QED BY <1>1, <1>2, <2>3, <3>1, PushNextKeepsT, ReapKeepsT
  <2> QED BY <2>1, <2>2, <2>3
<1>7. ASSUME NEW p \in Procs, Node(p) \/ NodeCrash(p)
      PROVE  \E t2 : TInv(t2)'
  <2>1. ~NodeCrash(p)
    <3>1. crashes \in 0..MaxCrashes
      BY DEF IInv, TypeOK
    <3> QED BY <3>1 DEF NodeCrash
  <2>2. NodeNext(p) /\ UNCHANGED controlVars
    BY <1>7, <2>1 DEF Node
  <2> QED BY <1>1, <2>2, NodeKeepsT
<1>8. CASE UNCHANGED vars
  BY <1>2, <1>8, SameKeeps
<1> QED BY <1>3, <1>4, <1>5, <1>6, <1>7, <1>8 DEF Next

-----------------------------------------------------------------------------
(* The initial states.                                                     *)

\* The cluster the user has built: the element at position k of the array is
\* the process k - 1, and a child of the process at position k div 2.
LEMMA SeedWires ==
  ASSUME Init, NEW k \in 2..Len(tree)
  PROVE  /\ tree[k] \in Ids /\ TreeHas(tree, tree[k]) /\ proc[tree[k]] = k - 1
         /\ k - 1 \in Procs /\ status[k - 1] = "run" /\ node[k - 1] = tree[k]
         /\ k \div 2 \in 1..(k - 1) /\ (k \div 2) - 1 \in AllProcs /\ peer[k - 1] = (k \div 2) - 1
         /\ IdOf((k \div 2) - 1) = tree[k \div 2]
<1> DEFINE n == Len(Seed)
<1>1. /\ WellFormed(tree) /\ n \in Nat /\ Len(tree) = n + 1 /\ n <= MaxPid
      /\ \A j \in 1..n : tree[j + 1] = Seed[j] /\ Seed[j] \in Ids
      /\ \A j \in 1..n : TreeHas(Seed, Seed[j]) /\ TreeIndex(Seed, Seed[j]) = j
  BY SeedTree DEF Init
<1>2. /\ status = [p \in Procs |-> IF p <= n THEN "run" ELSE "unborn"]
      /\ peer = [p \in Procs |-> IF p <= n THEN ((p + 1) \div 2) - 1 ELSE NoPeer]
      /\ node = [p \in Procs |-> IF p <= n THEN Seed[p] ELSE NoId]
      /\ proc = [id \in AnyId |-> IF TreeHas(Seed, id) THEN TreeIndex(Seed, id) ELSE Control]
  BY DEF Init
<1>3. MaxPid \in Nat /\ Procs = 1..MaxPid /\ AllProcs = 0..MaxPid /\ Control = 0
  BY MaxPidAssumption DEF Procs, AllProcs, Control
<1> HIDE DEF n
<1>4. ASSUME NEW j \in 1..n
      PROVE  /\ j \in Procs /\ tree[j + 1] = Seed[j] /\ Seed[j] \in Ids /\ proc[Seed[j]] = j
             /\ status[j] = "run" /\ node[j] = Seed[j]
  <2>1. j \in Procs /\ j <= n
    BY <1>1, <1>3, <1>4
  <2>2. Seed[j] \in AnyId
    BY <1>1 DEF AnyId
  <2>3. proc[Seed[j]] = j
    BY <1>1, <1>2, <2>2
  <2> QED BY <1>1, <1>2, <2>1, <2>3
<1>5. k - 1 \in 1..n /\ (k - 1) + 1 = k /\ k \in Nat
  BY <1>1
<1>6. tree[k] = Seed[k - 1]
  BY <1>4, <1>5
<1>7. k \div 2 \in 1..(k - 1) /\ (k \div 2) - 1 \in AllProcs
  BY <1>1, <1>3, <1>5
<1>8. peer[k - 1] = (k \div 2) - 1
  <2>1. k - 1 \in Procs /\ k - 1 <= n
    BY <1>1, <1>4, <1>5
  <2>2. peer[k - 1] = (((k - 1) + 1) \div 2) - 1
    BY <1>2, <2>1
  <2> QED BY <1>5, <2>2
<1>9. IdOf((k \div 2) - 1) = tree[k \div 2]
  <2>1. CASE k \div 2 = 1
    BY <1>1, <1>3, <2>1 DEF IdOf, WellFormed
  <2>2. CASE k \div 2 # 1
    <3>1. (k \div 2) - 1 \in 1..n /\ ((k \div 2) - 1) + 1 = k \div 2 /\ (k \div 2) - 1 # 0
      BY <1>1, <1>5, <1>7, <2>2
    <3>2. PICK j \in 1..n : j = (k \div 2) - 1
      BY <3>1
    <3>3. node[j] = tree[j + 1]
      BY <1>4
    <3> QED BY <1>3, <3>1, <3>2, <3>3 DEF IdOf
  <2> QED BY <2>1, <2>2
<1>10. TreeHas(tree, tree[k])
  BY <1>1, ArrayIds
<1> QED BY <1>4, <1>5, <1>6, <1>7, <1>8, <1>9, <1>10

LEMMA PidNat ==
  ASSUME NEW q \in AllProcs
  PROVE  q \in Nat
BY MaxPidAssumption DEF Procs, AllProcs, Control

LEMMA SeedArray ==
  ASSUME Init
  PROVE  WellFormed(tree) /\ Len(tree) \in Nat /\ tree[1] = NoId /\ Len(tree) = Len(Seed) + 1 /\ Len(Seed) \in Nat
<1>1. tree = <<NoId>> \o Seed
  BY DEF Init
<1>2. WellFormed(tree) /\ Len(Seed) \in Nat /\ Len(tree) = Len(Seed) + 1
  BY <1>1, SeedTree
<1>3. Len(tree) \in Nat
  BY <1>2
<1> QED BY <1>2, <1>3 DEF WellFormed

LEMMA SeedSlots ==
  ASSUME Init, NEW q \in AllProcs
  PROVE  /\ 2 * q + 2 <= Len(tree) => slots[q]["left"].id = tree[2 * q + 2] /\ slots[q]["left"].pid = 2 * q + 1
         /\ ~(2 * q + 2 <= Len(tree)) => slots[q]["left"] = NoChild
         /\ 2 * q + 3 <= Len(tree) => slots[q]["right"].id = tree[2 * q + 3] /\ slots[q]["right"].pid = 2 * q + 2
         /\ ~(2 * q + 3 <= Len(tree)) => slots[q]["right"] = NoChild
<1>1. q \in Nat /\ Len(tree) \in Nat
  BY PidNat, SeedArray
<1> DEFINE S(k) == IF k <= Len(tree) THEN [id |-> tree[k], pid |-> k - 1] ELSE NoChild
<1>2. slots = [p \in AllProcs |-> [s \in SlotNames |-> IF s = "left" THEN S(2 * p + 2) ELSE S(2 * p + 3)]]
  BY DEF Init
<1>3. \A k : /\ k <= Len(tree) => S(k).id = tree[k] /\ S(k).pid = k - 1
             /\ ~(k <= Len(tree)) => S(k) = NoChild
  OBVIOUS
<1> HIDE DEF S
<1>4. slots[q]["left"] = S(2 * q + 2) /\ slots[q]["right"] = S(2 * q + 3)
  BY <1>2, Pids
<1>5. (2 * q + 2) - 1 = 2 * q + 1 /\ (2 * q + 3) - 1 = 2 * q + 2
  BY <1>1
<1>6. /\ 2 * q + 2 <= Len(tree) => S(2 * q + 2).id = tree[2 * q + 2] /\ S(2 * q + 2).pid = 2 * q + 1
      /\ ~(2 * q + 2 <= Len(tree)) => S(2 * q + 2) = NoChild
  BY <1>3, <1>5
<1>7. /\ 2 * q + 3 <= Len(tree) => S(2 * q + 3).id = tree[2 * q + 3] /\ S(2 * q + 3).pid = 2 * q + 2
      /\ ~(2 * q + 3 <= Len(tree)) => S(2 * q + 3) = NoChild
  BY <1>3, <1>5
<1> QED BY <1>4, <1>6, <1>7

LEMMA SeedWired ==
  ASSUME Init
  PROVE  Wired
<1>1. proc[NoId] = Control
  <2>1. ~TreeHas(Seed, NoId)
    BY SeedTree, Pids
  <2> QED BY <2>1, Pids DEF Init
<1>2. WellFormed(tree) /\ Len(tree) \in Nat /\ tree[1] = NoId
  BY SeedArray
<1>3. ASSUME NEW q \in AllProcs, NEW s \in SlotNames, slots[q][s] # NoChild
      PROVE  /\ slots[q][s].id \in Ids /\ TreeHas(tree, slots[q][s].id)
             /\ slots[q][s].pid = proc[slots[q][s].id] /\ slots[q][s].pid \in Procs
             /\ peer[slots[q][s].pid] = q
             /\ q \in Procs => status[q] = "run"
  <2>1. PICK k \in 2..Len(tree) : k \div 2 = q + 1 /\ slots[q][s].id = tree[k] /\ slots[q][s].pid = k - 1
    <3>1. q \in Nat
      BY PidNat
    <3>2. s = "left" \/ s = "right"
      BY Pids
    <3>3. CASE s = "left"
      <4>1. 2 * q + 2 <= Len(tree)
        BY <1>3, <3>3, SeedSlots
      <4>2. 2 * q + 2 \in 2..Len(tree) /\ (2 * q + 2) \div 2 = q + 1 /\ (2 * q + 2) - 1 = 2 * q + 1
        BY <1>2, <3>1, <4>1
      <4> QED BY <3>3, <4>1, <4>2, SeedSlots
    <3>4. CASE s = "right"
      <4>1. 2 * q + 3 <= Len(tree)
        BY <1>3, <3>4, SeedSlots
      <4>2. 2 * q + 3 \in 2..Len(tree) /\ (2 * q + 3) \div 2 = q + 1 /\ (2 * q + 3) - 1 = 2 * q + 2
        BY <1>2, <3>1, <4>1
      <4> QED BY <3>4, <4>1, <4>2, SeedSlots
    <3> QED BY <3>2, <3>3, <3>4
  <2>2. /\ tree[k] \in Ids /\ TreeHas(tree, tree[k]) /\ proc[tree[k]] = k - 1
        /\ k - 1 \in Procs /\ k \div 2 \in 1..(k - 1) /\ peer[k - 1] = (k \div 2) - 1
    BY SeedWires
  <2>3. q \in Nat /\ (k \div 2) - 1 = q
    BY <2>1, <2>2, PidNat
  <2>4. ASSUME q \in Procs PROVE status[q] = "run"
    <3>1. q # 0
      BY <2>4, Pids DEF Control
    <3>2. q + 1 \in 2..Len(tree) /\ (q + 1) - 1 = q
      BY <1>2, <2>1, <2>2, <2>3, <3>1
    <3> QED BY <3>2, SeedWires, SMTT(60)
  <2> QED BY <2>1, <2>2, <2>3, <2>4
<1>4. ASSUME NEW q \in AllProcs, slots[q]["left"] = slots[q]["right"]
      PROVE  slots[q]["left"] = NoChild
  <2>1. q \in Nat /\ 2 * q + 1 # 2 * q + 2
    BY PidNat
  <2>2. CASE 2 * q + 3 <= Len(tree)
    <3>1. 2 * q + 2 <= Len(tree)
      BY <1>2, <2>1, <2>2
    <3> QED BY <1>4, <2>1, <2>2, <3>1, SeedSlots
  <2>3. CASE ~(2 * q + 3 <= Len(tree))
    BY <1>4, <2>3, SeedSlots
  <2> QED BY <2>2, <2>3
<1>5. ASSUME NEW c \in Procs, HasPeer(c)
      PROVE  \E s \in SlotNames : slots[peer[c]][s].pid = c
  <2>1. PICK k \in 2..Len(tree) : k - 1 = c
    <3>1. c \in Nat /\ c > 0 /\ c <= Len(Seed)
      <4>1. c \in Nat /\ c > 0
        BY MaxPidAssumption DEF Procs
      <4> QED BY <1>5, <4>1 DEF Init, HasPeer
    <3>2. c + 1 \in 2..Len(tree) /\ (c + 1) - 1 = c
      BY <3>1, SeedTree DEF Init
    <3> QED BY <3>2
  <2>2. k \div 2 \in 1..(k - 1) /\ (k \div 2) - 1 \in AllProcs /\ peer[c] = (k \div 2) - 1
    BY <2>1, SeedWires
  <2>3. PICK q \in AllProcs : q = (k \div 2) - 1
    BY <2>2
  <2>4. q \in Nat /\ (k = 2 * q + 2 \/ k = 2 * q + 3)
    BY <2>2, <2>3, PidNat
  <2>5. CASE k = 2 * q + 2
    <3>1. 2 * q + 1 = c /\ 2 * q + 2 <= Len(tree)
      BY <1>2, <2>1, <2>4, <2>5
    <3>2. slots[q]["left"].pid = 2 * q + 1
      BY <3>1, SeedSlots
    <3> QED BY <2>2, <2>3, <3>1, <3>2, Pids
  <2>6. CASE k = 2 * q + 3
    <3>1. 2 * q + 2 = c /\ 2 * q + 3 <= Len(tree)
      BY <1>2, <2>1, <2>4, <2>6
    <3>2. slots[q]["right"].pid = 2 * q + 2
      BY <3>1, SeedSlots
    <3> QED BY <2>2, <2>3, <3>1, <3>2, Pids
  <2> QED BY <2>4, <2>5, <2>6
<1> QED BY <1>1, <1>3, <1>4, <1>5 DEF Wired

LEMMA SeedEdges ==
  ASSUME Init
  PROVE  Connections = TreeEdges(tree)
<1>1. LinksOK /\ BooksOK /\ Books
  BY InitInv, InvParts
<1>2. WireFacts
  BY <1>1, SeedWired, WiresHold
<1>3. WellFormed(tree)
  BY <1>1 DEF Books
<1>4. Connections = {<<IdOf(peer[proc[b]]), b>> : b \in Linked}
  BY <1>2 DEF WireFacts
<1>5. ASSUME NEW k \in 2..Len(tree)
      PROVE  tree[k] \in Linked /\ <<IdOf(peer[proc[tree[k]]]), tree[k]>> = <<tree[k \div 2], tree[k]>>
  <2>1. HasPeer(proc[tree[k]])
    BY SeedWires, Pids DEF HasPeer
  <2> QED BY <2>1, SeedWires DEF Linked
<1>6. ASSUME NEW b \in Linked PROVE \E k \in 2..Len(tree) : b = tree[k]
  <2>1. b \in Ids /\ TreeHas(tree, b)
    BY DEF Linked
  <2> QED BY <1>3, <2>1, IndexOf
<1>7. Connections \subseteq TreeEdges(tree)
  BY <1>4, <1>5, <1>6 DEF TreeEdges
<1>8. TreeEdges(tree) \subseteq Connections
  BY <1>4, <1>5 DEF TreeEdges
<1> QED BY <1>7, <1>8

LEMMA InitTopology ==
  ASSUME Init, NEW t, t = [p \in Procs |-> 0]
  PROVE  TInv(t)
<1>1. LinksOK /\ BooksOK /\ Books /\ Wired /\ Connections = TreeEdges(tree) /\ WellFormed(tree)
  BY InitInv, InvParts, SeedWired, SeedEdges DEF Books
<1>2. WireFacts
  BY <1>1, WiresHold
<1>3. /\ \A p \in Procs : down[p] = <<>> /\ up[p] = <<>>
      /\ linger = {} /\ outstanding = {} /\ nextUuid = 1 /\ rmlist = <<>>
      /\ main = MainIdle /\ rcv = RcvIdle /\ main.at = "idle" /\ rcv.at = "idle"
      /\ status = [p \in Procs |-> IF p <= Len(Seed) THEN "run" ELSE "unborn"]
      /\ peer = [p \in Procs |-> IF p <= Len(Seed) THEN ((p + 1) \div 2) - 1 ELSE NoPeer]
  BY IdleFacts DEF Init, RcvIdle
<1>4. ASSUME NEW p \in Procs
      PROVE  status[p] \in {"run", "unborn"} /\ status[p] # "stuck" /\ ~Gone(p)
  BY <1>3 DEF Gone
<1>5. NoneStuck
  BY <1>3, <1>4 DEF NoneStuck
<1>6. t \in [Procs -> Nat] /\ \A p \in Procs : t[p] = 0
  OBVIOUS
<1>7. Ordered(t)
  <2>1. \A p \in Procs : peer[p] \in Procs => t[peer[p]] = 0
    BY <1>6
  <2> QED BY <1>3, <1>6, <2>1 DEF Ordered
<1>8. Sent = {} /\ Top = {}
  BY <1>3 DEF Sent, Top
<1>9. ~Stopping /\ ~Removing
  BY <1>3 DEF Stopping, Removing
<1>10. ~Creating
  <2>1. ASSUME Len(tree) > 1 PROVE IsConnected(TreeLast(tree))
    <3>1. TreeLast(tree) \in Ids /\ TreeHas(tree, TreeLast(tree))
      BY <1>1, <2>1, CutFacts
    <3>2. <<TreeParent(tree, TreeLast(tree)), TreeLast(tree)>> \in Connections
      BY <1>1, <3>1, EdgeEnds
    <3>3. TreeLast(tree) \in Linked
      BY <1>2, <3>2 DEF WireFacts
    <3> QED BY <1>2, <3>1, <3>3 DEF WireFacts
  <2> QED BY <2>1 DEF Creating
<1>11. Shape
  <2>1. ASSUME NEW id \in Ids, TreeHas(tree, id) PROVE status[proc[id]] = "run"
    <3>1. proc[id] \in Procs /\ status[proc[id]] # "unborn"
      BY <1>1, <2>1 DEF Books, Kept
    <3> QED BY <1>4, <3>1
  <2> QED BY <1>1, <1>9, <1>10, <2>1 DEF Shape
<1>12. Stage
  BY <1>3, <1>8, <1>10 DEF Stage, Idle, Resting
<1>13. GoneQuiet(t)
  BY <1>4 DEF GoneQuiet
<1> QED BY <1>1, <1>5, <1>6, <1>7, <1>8, <1>9, <1>11, <1>12, <1>13 DEF TInv, Spent

-----------------------------------------------------------------------------
(* The theorems.                                                           *)

\* With a user who waits for creations and removals, and processes that do not
\* die by themselves, the topology invariant holds in every state.
THEOREM TopologyCorrect ==
  ASSUME Patience # "none", MaxCrashes = 0
  PROVE  Spec => []Topology
<1>1. Init => Topology
  BY InitTopology DEF Topology
<1>2. IInv /\ IInv' /\ Topology /\ [Next]_vars => Topology'
  <2> SUFFICES ASSUME IInv, IInv', NEW t, TInv(t), [Next]_vars PROVE Topology'
    BY DEF Topology
  <2>1. \E t2 : TInv(t2)'
    BY NextTopology
  <2> QED BY <2>1 DEF Topology
<1> QED BY <1>1, <1>2, Invariance, PTL DEF Spec

\* While nodes move to other parents with broadcasts on their way, what waits for
\* a node is in order, each broadcast once, and older than what waits for the
\* process above it (control_node.c:224-266, compute_node.c:119-221).
THEOREM BroadcastsCorrect ==
  ASSUME Patience # "none", MaxCrashes = 0
  PROVE  Spec => []BroadcastsInOrder
<1>1. IInv /\ Topology => BroadcastsInOrder
  <2> SUFFICES ASSUME IInv, NEW t, TInv(t) PROVE BroadcastsInOrder
    BY DEF Topology
  <2>1. LinksOK /\ Ordered(t) /\ t \in [Procs -> Nat]
    BY InvParts DEF TInv
  <2>2. \A p \in Procs : DOMAIN down[p] = 1..Len(down[p]) /\ \A i \in DOMAIN down[p] : down[p][i].uuid \in Nat
    BY <2>1, LinkFacts, Queue, SMTT(60)
  <2>3. \A p \in Procs : \A i, j \in DOMAIN down[p] : i < j => down[p][i].uuid < down[p][j].uuid
    BY <2>1, <2>2 DEF Ordered
  <2>4. ASSUME NEW p \in Procs, peer[p] \in Procs, NEW i \in DOMAIN down[p], NEW j \in DOMAIN down[peer[p]]
        PROVE  down[p][i].uuid < down[peer[p]][j].uuid
    <3>1. down[p][i].uuid <= t[peer[p]] /\ t[peer[p]] < down[peer[p]][j].uuid
      BY <2>1, <2>2, <2>4 DEF Ordered
    <3>2. down[p][i].uuid \in Nat /\ t[peer[p]] \in Nat /\ down[peer[p]][j].uuid \in Nat
      BY <2>1, <2>2, <2>4
    <3> QED BY <3>1, <3>2
  <2> QED BY <2>3, <2>4 DEF BroadcastsInOrder
<1> QED BY <1>1, Invariance, TopologyCorrect, PTL

\* With the heartbeat off a removed process never holds undelivered messages
\* for a child, so it does not hang in zmq_ctx_destroy and waitpid returns
\* (mq_node.c:122, control_node.c:376).
THEOREM NoStuckCorrect ==
  ASSUME Patience # "none", MaxCrashes = 0
  PROVE  Spec => []NoStuckProcess
<1>1. Topology => NoStuckProcess
  BY DEF Topology, TInv, NoneStuck, NoStuckProcess
<1> QED BY <1>1, TopologyCorrect, PTL

\* Between two commands the running processes are those of the array, each
\* connected to its parent's process: no creation or removal loses a node
\* (control_node.c:180-271, 337-386).
THEOREM ProcessesCorrect ==
  ASSUME Patience # "none", MaxCrashes = 0
  PROVE  Spec => []ProcessesMatchTree
<1>1. IInv /\ Topology => ProcessesMatchTree
  <2> SUFFICES ASSUME IInv, NEW t, TInv(t), Settled, NEW p \in Procs
               PROVE  status[p] = "run" <=> /\ node[p] \in Ids
                                            /\ TreeHas(tree, node[p])
                                            /\ proc[node[p]] = p
                                            /\ HasPeer(p)
                                            /\ HasChild(peer[p], node[p])
    BY DEF Topology, ProcessesMatchTree
  <2>1. LinksOK /\ BooksOK /\ Books
    BY InvParts
  <2>2. /\ WireFacts /\ Connections = TreeEdges(tree)
        /\ \A id \in Ids : TreeHas(tree, id) => status[proc[id]] = "run"
    BY <2>1, SettledIdle
  <2>3. ASSUME status[p] = "run"
        PROVE  node[p] \in Ids /\ TreeHas(tree, node[p]) /\ proc[node[p]] = p
               /\ HasPeer(p) /\ HasChild(peer[p], node[p])
    <3>1. node[p] \in Ids /\ TreeHas(tree, node[p]) /\ proc[node[p]] = p
      BY <2>1, <2>3, RunsAs
    <3>2. <<TreeParent(tree, node[p]), node[p]>> \in Connections
      BY <2>1, <2>2, <3>1, EdgeEnds DEF Books
    <3>3. node[p] \in Linked
      BY <2>2, <3>2 DEF WireFacts
    <3>4. HasPeer(p)
      BY <3>1, <3>3 DEF Linked
    <3>5. peer[p] \in AllProcs
      BY <2>2, <3>4 DEF WireFacts
    <3>6. HasChild(peer[p], node[p])
      BY <2>2, <3>1, <3>5 DEF WireFacts
    <3> QED BY <3>1, <3>4, <3>6
  <2> QED BY <2>2, <2>3
<1> QED BY <1>1, Invariance, TopologyCorrect, PTL

-----------------------------------------------------------------------------
(* The cluster implements RemoveChain.                                     *)

\* The variables of RemoveChain, as Cluster gives them.
AEdges == IF Stopping THEN {} ELSE Connections
AOp == IF Stopping THEN "stop" ELSE IF Removing THEN "remove" ELSE IF Creating THEN "create" ELSE "none"
ATarget == IF rcv.at = "wait" THEN rcv.rec.target
           ELSE IF Removing THEN rmlist[1].target
           ELSE IF Creating THEN TreeLast(tree) ELSE NoId
ADone == IF rcv.at = "wait" THEN rcv.rec.now
         ELSE IF Removing
         THEN rmlist[1].now + (IF HasEffect(Current(rmlist[1])) THEN 1 ELSE 0)
         ELSE 0

\* The operators of BalancedTree are the same in both.
LEMMA SameArray ==
  /\ \A t : Abstract!TreeEdges(t) = TreeEdges(t) /\ Abstract!TreeLastParent(t) = TreeLastParent(t)
  /\ \A t, id : /\ Abstract!TreeHas(t, id) <=> TreeHas(t, id)
                /\ Abstract!TreeAdd(t, id) = TreeAdd(t, id)
                /\ Abstract!TreeRemove(t, id) = TreeRemove(t, id)
                /\ Abstract!RemoveCommands(t, id) = RemoveCommands(t, id)
  /\ \A cmd, id, parent : Abstract!Command(cmd, id, parent) = Command(cmd, id, parent)
  /\ Abstract!AnyId = AnyId
<1>1. \A t, id : Abstract!TreeIndex(t, id) = TreeIndex(t, id)
  BY DEF Abstract!TreeIndex, TreeIndex
<1>2. \A t, id : Abstract!TreeHas(t, id) <=> TreeHas(t, id)
  BY DEF Abstract!TreeHas, TreeHas
<1>3. \A t : Abstract!TreeLast(t) = TreeLast(t) /\ Abstract!TreeEdges(t) = TreeEdges(t)
  BY DEF Abstract!TreeLast, TreeLast, Abstract!TreeEdges, TreeEdges
<1>4. \A t : Abstract!TreeLastParent(t) = TreeLastParent(t)
  BY DEF Abstract!TreeLastParent, TreeLastParent
<1>5. \A t, id : Abstract!TreeAdd(t, id) = TreeAdd(t, id)
  BY DEF Abstract!TreeAdd, TreeAdd
<1>6. \A t, id : Abstract!TreeRemove(t, id) = TreeRemove(t, id)
  BY <1>1, <1>2, <1>3 DEF Abstract!TreeRemove, TreeRemove
<1>7. \A t, id : Abstract!TreeParent(t, id) = TreeParent(t, id)
  BY <1>1, <1>2 DEF Abstract!TreeParent, TreeParent
<1>8. \A t, id : Abstract!TreeLeft(t, id) = TreeLeft(t, id) /\ Abstract!TreeRight(t, id) = TreeRight(t, id)
  BY <1>1, <1>2 DEF Abstract!TreeLeft, TreeLeft, Abstract!TreeRight, TreeRight
<1>9. \A cmd, id, parent : Abstract!Command(cmd, id, parent) = Command(cmd, id, parent)
  BY DEF Abstract!Command, Command
<1>10. \A t, id : Abstract!RemoveCommandsArray(t, id) = RemoveCommandsArray(t, id)
  BY <1>3, <1>7, <1>8, <1>9 DEF Abstract!RemoveCommandsArray, RemoveCommandsArray
<1>11. \A t, id : Abstract!NumberCommands(t, id) = NumberCommands(t, id)
  BY <1>3, <1>8 DEF Abstract!NumberCommands, NumberCommands
<1>12. \A t, id : Abstract!RemoveCommands(t, id) = RemoveCommands(t, id)
  BY <1>10, <1>11 DEF Abstract!RemoveCommands, RemoveCommands
<1>13. Abstract!AnyId = AnyId
  BY DEF Abstract!AnyId, AnyId
<1> QED BY <1>2, <1>3, <1>4, <1>5, <1>6, <1>9, <1>12, <1>13

\* RemoveChain in these terms.
LEMMA AbstractInit ==
  Abstract!Init <=> /\ tree = <<NoId>> \o Seed /\ AEdges = TreeEdges(tree)
                    /\ AOp = "none" /\ ATarget = NoId /\ ADone = 0
BY SameArray DEF Abstract!Init, AEdges, AOp, ATarget, ADone

LEMMA AbstractStutter ==
  UNCHANGED Abstract!vars <=> UNCHANGED <<tree, AEdges, AOp, ATarget, ADone>>
BY DEF Abstract!vars, AEdges, AOp, ATarget, ADone

LEMMA AbstractCreate ==
  ASSUME NEW id \in Ids, AOp = "none", ~TreeHas(tree, id), tree' = TreeAdd(tree, id),
         AOp' = "create", ATarget' = id, AEdges' = AEdges, ADone' = ADone
  PROVE  Abstract!Next
<1>1. Abstract!Create(id)
  BY SameArray DEF Abstract!Create, AEdges, AOp, ATarget, ADone
<1> QED BY <1>1 DEF Abstract!Next

LEMMA AbstractRemove ==
  ASSUME NEW id \in Ids, AOp = "none", TreeHas(tree, id), tree' = tree,
         AOp' = "remove", ATarget' = id, AEdges' = AEdges, ADone' = ADone
  PROVE  Abstract!Next
<1>1. Abstract!Remove(id)
  BY SameArray DEF Abstract!Remove, AEdges, AOp, ATarget, ADone
<1> QED BY <1>1 DEF Abstract!Next

LEMMA AbstractStop ==
  ASSUME AOp = "none", AOp' = "stop", AEdges' = {}, UNCHANGED <<tree, ATarget, ADone>>
  PROVE  Abstract!Next
<1>1. Abstract!Stop
  BY DEF Abstract!Stop, AEdges, AOp, ATarget, ADone
<1> QED BY <1>1 DEF Abstract!Next

LEMMA AbstractEffect ==
  \A c : Abstract!Effect(c) = EffectOn(AEdges, c)
<1>1. \A a : Abstract!Full(a) <=> FullIn(AEdges, a)
  BY SameArray DEF Abstract!Full, FullIn, AEdges
<1> QED BY <1>1 DEF Abstract!Effect, EffectOn, AEdges

LEMMA AbstractAttach ==
  ASSUME AOp = "create", AOp' = "none", ATarget' = NoId, UNCHANGED <<tree, ADone>>,
         AEdges' = EffectOn(AEdges, Command("connect", ATarget, TreeLastParent(tree)))
  PROVE  Abstract!Next
<1>1. Abstract!Plan = << Command("connect", ATarget, TreeLastParent(tree)) >>
  BY SameArray DEF Abstract!Plan, AOp, ATarget
<1>2. AEdges' = Abstract!Effect(Abstract!Plan[1])
  BY <1>1, AbstractEffect
<1>3. Abstract!Attach
  BY <1>2 DEF Abstract!Attach, AEdges, AOp, ATarget, ADone
<1> QED BY <1>3 DEF Abstract!Next

LEMMA AbstractPlan ==
  ASSUME AOp = "remove"
  PROVE  Abstract!Plan = RemoveCommands(tree, ATarget)
BY SameArray DEF Abstract!Plan, AOp, ATarget

LEMMA AbstractStep ==
  ASSUME AOp = "remove", UNCHANGED <<tree, AOp, ATarget>>,
         ADone < Len(RemoveCommands(tree, ATarget)), ADone' = ADone + 1,
         AEdges' = EffectOn(AEdges, RemoveCommands(tree, ATarget)[ADone + 1])
  PROVE  Abstract!Next
<1>1. ADone < Len(Abstract!Plan) /\ AEdges' = Abstract!Effect(Abstract!Plan[ADone + 1])
  BY AbstractPlan, AbstractEffect
<1>2. Abstract!Step
  BY <1>1 DEF Abstract!Step, AEdges, AOp, ATarget, ADone
<1> QED BY <1>2 DEF Abstract!Next

LEMMA AbstractFinish ==
  ASSUME AOp = "remove", ADone = Len(RemoveCommands(tree, ATarget)),
         tree' = TreeRemove(tree, ATarget), AOp' = "none", ATarget' = NoId, ADone' = 0,
         AEdges' = AEdges
  PROVE  Abstract!Next
<1>1. ADone = Len(Abstract!Plan) /\ tree' = Abstract!TreeRemove(tree, ATarget)
  BY AbstractPlan, SameArray
<1>2. Abstract!Finish
  BY <1>1 DEF Abstract!Finish, AEdges, AOp, ATarget, ADone
<1> QED BY <1>2 DEF Abstract!Next

LEMMA AbstractSpec ==
  ASSUME TRUE
  PROVE  ImplementsRemoveChain <=> Abstract!Init /\ [][Abstract!Next]_(Abstract!vars)
BY DEF ImplementsRemoveChain, Abstract!Spec

\* The four situations, as RemoveChain sees them.
Situation ==
  /\ WellFormed(tree)
  /\ \/ Stopping /\ AOp = "stop" /\ AEdges = {} /\ ATarget = NoId /\ ADone = 0
     \/ /\ ~Stopping /\ ~Removing /\ ~Creating
        /\ AOp = "none" /\ AEdges = TreeEdges(tree) /\ ATarget = NoId /\ ADone = 0
     \/ /\ ~Stopping /\ ~Removing /\ Creating /\ Len(tree) > 1
        /\ AOp = "create" /\ AEdges = Cut(tree) /\ ATarget = TreeLast(tree) /\ ADone = 0
     \/ /\ ~Stopping /\ Removing /\ Target \in Ids /\ TreeHas(tree, Target)
        /\ AOp = "remove" /\ AEdges = ChainEdges(tree, Target, Effected)
        /\ ATarget = Target /\ ADone = Effected

LEMMA SituationIs ==
  Patience # "none" /\ Books /\ Calm /\ (Stopping \/ Shape) => Situation
<1> SUFFICES ASSUME Patience # "none", Books, Calm, Stopping \/ Shape PROVE Situation
  OBVIOUS
<1>1. WellFormed(tree)
  BY DEF Books
<1>2. CASE Stopping
  <2>1. rmlist = <<>> /\ rcv = RcvIdle
    BY <1>2 DEF Stopping, Calm
  <2>2. rcv.at # "wait" /\ ~Removing /\ ~Creating
    BY <1>2, <2>1 DEF RcvIdle, Removing, Creating
  <2> QED BY <1>1, <1>2, <2>2 DEF Situation, AOp, AEdges, ATarget, ADone
<1>3. CASE ~Stopping
  <2>1. Shape
    BY <1>3
  <2>2. CASE ~Removing
    <3>1. rcv.at # "wait" /\ Connections = (IF Creating THEN Cut(tree) ELSE TreeEdges(tree))
      BY <2>1, <2>2 DEF Shape, Removing
    <3>2. Creating => Len(tree) > 1
      BY DEF Creating
    <3> QED BY <1>1, <1>3, <2>2, <3>1, <3>2 DEF Situation, AOp, AEdges, ATarget, ADone
  <2>3. CASE Removing
    <3>1. Target \in Ids /\ TreeHas(tree, Target) /\ Connections = ChainEdges(tree, Target, Effected)
      BY <2>1, <2>3 DEF Shape
    <3>2. AOp = "remove" /\ AEdges = Connections
      BY <1>3, <2>3 DEF AOp, AEdges
    <3>3. ATarget = Target
      BY <2>3 DEF ATarget, Target
    <3>4. ADone = Effected
      BY <2>3 DEF ADone, Effected, Want, Removing
    <3> QED BY <1>1, <1>3, <2>3, <3>1, <3>2, <3>3, <3>4 DEF Situation
  <2> QED BY <2>2, <2>3
<1> QED BY <1>2, <1>3

LEMMA SituationAfter ==
  (Patience # "none" /\ Books /\ Calm /\ (Stopping \/ Shape) => Situation)'
BY SituationIs, PTL

\* A step that leaves the situation as it is.
LEMMA StayIs ==
  ASSUME Situation, Situation', tree' = tree, Stopping' <=> Stopping, Removing' <=> Removing,
         ~Stopping /\ ~Removing => (Creating' <=> Creating),
         ~Stopping /\ Removing => Target' = Target /\ Effected' = Effected
  PROVE  UNCHANGED Abstract!vars
<1>1. AOp' = AOp /\ AEdges' = AEdges /\ ATarget' = ATarget /\ ADone' = ADone
  <2>1. CASE Stopping
    BY <2>1 DEF Situation
  <2>2. CASE ~Stopping /\ ~Removing /\ ~Creating
    BY <2>2 DEF Situation
  <2>3. CASE ~Stopping /\ ~Removing /\ Creating
    BY <2>3 DEF Situation
  <2>4. CASE ~Stopping /\ Removing
    BY <2>4 DEF Situation
  <2> QED BY <2>1, <2>2, <2>3, <2>4
<1> QED BY <1>1, AbstractStutter

LEMMA AttachIs ==
  ASSUME Situation, Situation', tree' = tree, ~Stopping, ~Stopping', ~Removing, ~Removing', Creating
  PROVE  Abstract!Next \/ UNCHANGED Abstract!vars
<1>1. CASE Creating'
  BY <1>1, StayIs
<1>2. CASE ~Creating'
  <2>1. WellFormed(tree) /\ Len(tree) > 1 /\ AOp = "create" /\ AEdges = Cut(tree) /\ ATarget = TreeLast(tree) /\ ADone = 0
    BY DEF Situation
  <2>2. AOp' = "none" /\ AEdges' = TreeEdges(tree) /\ ATarget' = NoId /\ ADone' = 0
    BY <1>2 DEF Situation
  <2>3. PICK c : c = Command("connect", ATarget, TreeLastParent(tree))
    OBVIOUS
  <2>4. c.cmd = "connect" /\ c.id = TreeLast(tree) /\ c.parent = TreeLastParent(tree)
    BY <2>1, <2>3 DEF Command
  <2>5. ~FullIn(AEdges, c.parent) /\ AEdges \cup {<<c.parent, c.id>>} = TreeEdges(tree)
    BY <2>1, <2>4, CutFacts
  <2>6. AEdges' = EffectOn(AEdges, c)
    BY <2>2, <2>4, <2>5 DEF EffectOn
  <2> QED BY <2>1, <2>2, <2>3, <2>6, AbstractAttach
<1> QED BY <1>1, <1>2

LEMMA StepIs ==
  ASSUME Situation, Situation', tree' = tree, ~Stopping, ~Stopping', Removing, Removing',
         Target' = Target, Effected \in Nat, Effected < Len(RemoveCommands(tree, Target)),
         Effected' = Effected + 1
  PROVE  Abstract!Next
<1>1. /\ WellFormed(tree) /\ Target \in Ids /\ TreeHas(tree, Target)
      /\ AOp = "remove" /\ AEdges = ChainEdges(tree, Target, Effected)
      /\ ATarget = Target /\ ADone = Effected
  BY DEF Situation
<1>2. AOp' = "remove" /\ AEdges' = ChainEdges(tree, Target, Effected + 1) /\ ATarget' = Target /\ ADone' = Effected + 1
  BY DEF Situation
<1>3. PICK x, k : x = Target /\ k = Effected
  OBVIOUS
<1>4. EffectOn(ChainEdges(tree, x, k), RemoveCommands(tree, x)[k + 1]) = ChainEdges(tree, x, k + 1)
  BY <1>1, <1>3, PlanStep
<1>5. AEdges' = EffectOn(AEdges, RemoveCommands(tree, ATarget)[ADone + 1])
  BY <1>1, <1>2, <1>3, <1>4
<1> QED BY <1>1, <1>2, <1>5, AbstractStep

\* What holds before and after every step.
Both == /\ Patience # "none" /\ LinksOK /\ BooksOK /\ Books /\ Calm
        /\ LinksOK' /\ BooksOK' /\ Books' /\ Calm' /\ Situation /\ Situation'

\* The topology and the books of the chain stay.
LEMMA SameRefines ==
  ASSUME Both, UNCHANGED <<status, slots, node, tree, proc, rmlist>>, Stopping' <=> Stopping,
         rcv.at = "wait" \/ rcv'.at = "wait" => rcv' = rcv
  PROVE  UNCHANGED Abstract!vars
<1>1. (Removing' <=> Removing) /\ (Creating' <=> Creating) /\ Target' = Target /\ Effected' = Effected
  BY SameShape
<1>2. Situation /\ Situation'
  BY DEF Both
<1>3. tree' = tree
  OBVIOUS
<1> QED BY ONLY <1>1, <1>2, <1>3, (Stopping' <=> Stopping), StayIs

\* A node takes a command of the topology for its own.
CarryingOut(p) ==
  /\ Taking(p) /\ IsFor(p, Taken(p))
  /\ \/ Taken(p).cmd \in {"create", "connect"} /\ Taken(p).parent = node[p]
     \/ Taken(p).cmd \in {"disconnect", "remove"}

LEMMA OthersKeep ==
  ASSUME NEW p \in Procs, NodeNext(p), ~CarryingOut(p)
  PROVE  UNCHANGED <<status, slots, node>>
<1>1. CASE PushNext(p) \/ Ping(p) \/ Exec(p) \/ \E s \in SlotNames : PassUp(p, s)
  BY <1>1 DEF PushNext, Ping, Exec, PassUp
<1>2. CASE Connect(p)
  <2>1. Taken(p).parent # node[p]
    BY <1>2 DEF Connect, CarryingOut
  <2> QED BY <1>2, <2>1 DEF Connect
<1>3. CASE Disconnect(p)
  BY <1>3 DEF Disconnect, CarryingOut
<1>4. CASE Remove(p)
  BY <1>4 DEF Remove, CarryingOut
<1> QED BY <1>1, <1>2, <1>3, <1>4, SMTT(60) DEF NodeNext, TakeMessage

LEMMA NodeRefines ==
  ASSUME Both, NEW t, TInv(t), NEW p \in Procs, NodeNext(p), UNCHANGED controlVars
  PROVE  Abstract!Next \/ UNCHANGED Abstract!vars
<1>1. UNCHANGED <<tree, proc, rmlist, main, rcv>>
  BY DEF controlVars
<1>2. (Stopping' <=> Stopping) /\ (Removing' <=> Removing)
  BY <1>1 DEF Stopping, Removing
<1>3. /\ LinksOK /\ BooksOK /\ Books /\ LinksOK' /\ BooksOK' /\ Books' /\ Situation /\ Situation'
  BY DEF Both
<1>4. CASE ~CarryingOut(p)
  <2>1. UNCHANGED <<status, slots, node>>
    BY <1>4, OthersKeep
  <2> QED BY <1>1, <1>2, <2>1, SameRefines
<1>5. CASE CarryingOut(p)
  <2>1. /\ \E e \in Top : Taken(p).uuid = e.uuid
        /\ ~Done(Want) /\ WantFacts
    BY <1>3, <1>5, CarriesOut DEF CarryingOut
  <2>2. PICK e \in Top : TRUE
    BY <2>1
  <2>3. ~Stopping /\ Shape /\ Resting /\ (Len(rmlist) = 1 \/ (rmlist = <<>> /\ Len(tree) > 1))
    BY <1>3, AwaitedNow
  <2>4. rcv.at # "wait"
    BY <2>3 DEF Resting, RcvIdle
  <2>5. CASE rmlist = <<>>
    <3>1. ~Removing
      BY <2>4, <2>5 DEF Removing
    <3>2. Want.cmd = "create" /\ Want.id = TreeLast(tree)
      BY <2>5 DEF Want
    <3>3. Len(tree) > 1
      BY <2>3, <2>5
    <3>4. Creating
      BY <2>1, <2>3, <3>1, <3>2, <3>3 DEF Creating, Done
    <3> QED BY <1>1, <1>2, <1>3, <2>3, <3>1, <3>4, AttachIs
  <2>6. CASE rmlist # <<>>
    <3>1. Removing /\ Len(rmlist) = 1
      BY <2>3, <2>6 DEF Removing
    <3>2. ~HasEffect(Want)
      BY <2>1, <2>6 DEF WantFacts, Done
    <3>3. Effected = rmlist[1].now
      <4>1. rmlist \in Seq(Rec) /\ 1 \in 1..Len(rmlist)
        BY <1>3, <3>1 DEF BooksOK
      <4>2. rmlist[1] \in Rec
        BY ONLY <4>1
      <4>3. rmlist[1].now \in Nat
        BY <4>2 DEF Rec
      <4> QED BY <2>4, <3>2, <4>3 DEF Effected
    <3>4. Target \in Ids /\ TreeHas(tree, Target) /\ rmlist[1].cmds = ChainOf(Target)
      BY <2>3, <2>4, <3>1 DEF Shape
    <3>5. rmlist[1].now \in Nat /\ rmlist[1].now < Len(RemoveCommands(tree, Target))
      BY <1>3, <2>4, <3>1, <3>4, ChainNow
    <3>6. Target' = Target
      BY <1>1 DEF Target
    <3>7. Effected' = rmlist[1].now \/ Effected' = rmlist[1].now + 1
      <4>1. rcv'.at # "wait" /\ rmlist' = rmlist
        BY <1>1, <2>4
      <4> QED BY <3>5, <4>1 DEF Effected
    <3>8. CASE Effected' = rmlist[1].now
      <4>1. Effected' = Effected
        BY <3>3, <3>8
      <4>2. tree' = tree
        BY <1>1
      <4> QED BY ONLY <1>2, <1>3, <3>1, <3>6, <4>1, <4>2, StayIs
    <3>9. CASE Effected' = rmlist[1].now + 1
      <4>1. Effected' = Effected + 1 /\ Effected \in Nat /\ Effected < Len(RemoveCommands(tree, Target))
        BY <3>3, <3>5, <3>9
      <4>2. tree' = tree /\ ~Stopping' /\ Removing'
        BY <1>1, <1>2, <2>3, <3>1
      <4>3. Abstract!Next
        BY ONLY <1>3, <2>3, <3>1, <3>6, <4>1, <4>2, StepIs
      <4> QED BY <4>3
    <3> QED BY <3>7, <3>8, <3>9
  <2> QED BY <2>5, <2>6
<1> QED BY <1>4, <1>5

-----------------------------------------------------------------------------
(* Its refinement by the steps of the receiver.                            *)

\* What an answer can be: of no account for the removal, or the last one of the
\* command under way, which has had its effect.
LEMMA AnswerIs ==
  ASSUME LinksOK, BooksOK, Books, NEW t, TInv(t), NEW s \in SlotNames, Receive(s)
  PROVE  \/ UNCHANGED <<rmlist, rcv>>
         \/ /\ ~Stopping /\ Shape /\ Resting /\ Len(rmlist) = 1
            /\ RecRemove(Want.cmd, Want.id, TRUE)
            /\ Want.cmd # "ping" => HasEffect(Want)
<1>1. PICK r : r = Head(up[slots[Control][s].pid])
  OBVIOUS
<1> SUFFICES ASSUME ~UNCHANGED <<rmlist, rcv>>
             PROVE  /\ ~Stopping /\ Shape /\ Resting /\ Len(rmlist) = 1
                    /\ RecRemove(Want.cmd, Want.id, TRUE)
                    /\ Want.cmd # "ping" => HasEffect(Want)
  OBVIOUS
<1>2. PICK e \in outstanding : /\ e.uuid = r.uuid /\ r.cmd \in ChainCommands /\ IsFinal(r, e)
                               /\ RecRemove(r.cmd, r.id, r.code = "OK")
  BY <1>1, Zenon DEF Receive
<1>3. /\ r \in Replied
      /\ \A u : /\ Cardinality(NotFounds(u)') \in Nat /\ Cardinality(NotFounds(u)) \in Nat
                /\ r.uuid = u /\ r.code = "NOT_FOUND" =>
                     Cardinality(NotFounds(u)') + 1 <= Cardinality(NotFounds(u))
  BY <1>1, ReadKeeps
<1>4. r.cmd = e.cmd /\ r.id = e.id
  BY <1>2, <1>3, SentTraced
<1>5. e \in Top
  BY <1>2, <1>4 DEF Top, ChainCommands
<1>6. /\ ~Stopping /\ UnderWay(t, e) /\ Shape /\ Resting
      /\ Len(rmlist) = 1 \/ (rmlist = <<>> /\ Len(tree) > 1)
      /\ WantFacts /\ e.uuid \in Nat /\ e.count \in Nat
  BY <1>5, AwaitedNow
<1>7. e.cmd = Want.cmd /\ e.id = Want.id
  BY <1>6 DEF UnderWay
<1>8. Len(rmlist) = 1 /\ Want.cmd # "create"
  BY <1>2, <1>4, <1>6, <1>7 DEF WantFacts, ChainCommands
<1>9. r.code \in {"OK", "NOT_FOUND"} /\ (r.code = "OK" => e.uuid <= t[Owner])
  BY <1>2, <1>3, <1>6 DEF UnderWay
<1>10. r.code # "NOT_FOUND"
  <2> SUFFICES ASSUME r.code = "NOT_FOUND" PROVE FALSE
    OBVIOUS
  <2>1. /\ Cardinality(Answerers(t, Owner, e.uuid)) < TreeLeaves(tree)
        /\ Cardinality(Answerers(t, Owner, e.uuid)) \in Nat
    BY <1>5, AnswerersFew, AnswerersFinite
  <2>2. TreeLeaves(tree) + Cardinality(NotFounds(e.uuid)) <= e.count + Cardinality(Answerers(t, Owner, e.uuid))
    BY <1>6 DEF UnderWay
  <2>3. /\ Cardinality(NotFounds(e.uuid)') + 1 <= Cardinality(NotFounds(e.uuid))
        /\ Cardinality(NotFounds(e.uuid)') \in Nat /\ Cardinality(NotFounds(e.uuid)) \in Nat
    BY <1>2, <1>3
  <2>4. TreeLeaves(tree) \in Nat
    BY ArrayIds DEF Books
  <2>5. e.count > 1
    BY <1>6, <2>1, <2>2, <2>3, <2>4
  <2> QED BY <1>2, <2>5 DEF IsFinal
<1>11. (r.code = "OK") = TRUE /\ e.uuid <= t[Owner]
  BY <1>9, <1>10
<1>12. RecRemove(Want.cmd, Want.id, TRUE)
  BY <1>2, <1>4, <1>7, <1>11
<1>13. ASSUME Want.cmd # "ping" PROVE HasEffect(Want)
  <2>1. Done(Want)
    BY <1>6, <1>7, <1>11, <1>13 DEF UnderWay
  <2> QED BY <1>8, <2>1 DEF Done
<1> QED BY <1>6, <1>8, <1>12, <1>13

\* The chain has gone on by a command, or has come to its end.
LEMMA AdvancedIs ==
  ASSUME rmlist \in Seq(Rec), Len(rmlist) = 1, rcv.at # "wait", main = MainIdle, main' = main,
         RecRemove(Want.cmd, Want.id, TRUE), Stage'
  PROVE  /\ Removing /\ Removing' /\ ~Stopping /\ ~Stopping'
         /\ Target' = Target /\ Effected' = rmlist[1].now + 1
<1>1. 1 \in 1..Len(rmlist)
  OBVIOUS
<1>2. rmlist[1] \in Rec
  BY ONLY <1>1, rmlist \in Seq(Rec)
<1>3. PICK c, rec : c = Current(rmlist[1]) /\ rec = [rmlist[1] EXCEPT !.now = @ + 1]
  OBVIOUS
<1>4. rec.now = rmlist[1].now + 1 /\ rec.target = rmlist[1].target /\ rec.now \in Nat
  BY <1>2, <1>3 DEF Rec
<1>5. rmlist # <<>> /\ Want = c
  BY <1>1, <1>3 DEF Want
<1>6. RecRemove(c.cmd, c.id, TRUE)
  BY <1>5
<1>7. \/ /\ rcv' = [at |-> "push", rec |-> rec]
         /\ Len(rmlist') = 1 /\ rmlist'[1] = rec /\ rmlist' # <<>>
      \/ rcv' = [at |-> "wait", rec |-> rec] /\ rmlist' = <<>>
  BY ONLY <1>3, <1>6, rmlist \in Seq(Rec), Len(rmlist) = 1, OnlyRemoval
<1>8. Removing /\ ~Stopping /\ ~Stopping' /\ Target = rmlist[1].target
  BY <1>5 DEF Removing, Stopping, Target, MainIdle
<1>9. CASE /\ rcv' = [at |-> "push", rec |-> rec]
           /\ Len(rmlist') = 1 /\ rmlist'[1] = rec /\ rmlist' # <<>>
  <2>1. rcv'.at = "push" /\ Removing'
    BY <1>9 DEF Removing
  <2>2. Target' = rec.target
    BY <1>9, <2>1 DEF Target
  <2>3. ~HasEffect(Want)'
    BY <2>1 DEF Stage, Idle, Forking, CreateSent, RemoveReady, RemoveSent, WaitNow, Resting, RcvIdle
  <2>4. Effected' = rec.now
    BY <1>4, <1>9, <2>1, <2>3 DEF Effected
  <2> QED BY <1>4, <1>8, <2>1, <2>2, <2>4
<1>10. CASE rcv' = [at |-> "wait", rec |-> rec] /\ rmlist' = <<>>
  <2>1. rcv'.at = "wait" /\ rcv'.rec = rec
    BY <1>10
  <2>2. Removing' /\ Target' = rec.target /\ Effected' = rec.now
    BY <2>1 DEF Removing, Target, Effected
  <2> QED BY <1>4, <1>8, <2>2
<1> QED BY <1>7, <1>9, <1>10

\* How far the chain is before the command under way has had its effect.
LEMMA ChainAt ==
  ASSUME BooksOK, Books, Shape, Len(rmlist) = 1, rcv.at # "wait"
  PROVE  /\ rmlist[1].now \in Nat /\ rmlist[1].now < Len(RemoveCommands(tree, Target))
         /\ Effected = rmlist[1].now + (IF HasEffect(Want) THEN 1 ELSE 0)
         /\ Removing
<1>1. rmlist # <<>>
  OBVIOUS
<1>2. Removing
  BY <1>1 DEF Removing
<1>3. Target \in Ids /\ TreeHas(tree, Target) /\ rmlist[1].cmds = ChainOf(Target)
  BY <1>2 DEF Shape
<1> QED BY <1>2, <1>3, ChainNow DEF Effected

LEMMA ReceiveRefines ==
  ASSUME Both, NEW t, TInv(t), NEW s \in SlotNames, Receive(s), Stopping' \/ Stage'
  PROVE  Abstract!Next \/ UNCHANGED Abstract!vars
<1>1. /\ LinksOK /\ BooksOK /\ Books /\ LinksOK' /\ BooksOK' /\ Books' /\ Situation /\ Situation'
  BY DEF Both
<1>2. UNCHANGED <<status, slots, node, tree, proc, main>> /\ (Stopping' <=> Stopping)
  BY Zenon DEF Receive, nodeVars, Stopping
<1>3. CASE UNCHANGED <<rmlist, rcv>>
  BY <1>2, <1>3, SameRefines
<1>4. CASE /\ ~Stopping /\ Shape /\ Resting /\ Len(rmlist) = 1
           /\ RecRemove(Want.cmd, Want.id, TRUE)
           /\ Want.cmd # "ping" => HasEffect(Want)
  <2>1. rmlist \in Seq(Rec) /\ rcv.at # "wait" /\ main = MainIdle /\ main' = main /\ Stage'
    BY <1>1, <1>2, <1>4 DEF BooksOK, Resting, RcvIdle
  <2>2. /\ Removing /\ Removing' /\ ~Stopping /\ ~Stopping'
        /\ Target' = Target /\ Effected' = rmlist[1].now + 1
    BY <1>4, <2>1, AdvancedIs
  <2>3. /\ rmlist[1].now \in Nat /\ rmlist[1].now < Len(RemoveCommands(tree, Target))
        /\ Effected = rmlist[1].now + (IF HasEffect(Want) THEN 1 ELSE 0)
    BY <1>1, <1>4, <2>1, ChainAt
  <2>4. tree' = tree
    BY <1>2
  <2>5. CASE HasEffect(Want)
    <3>1. Effected' = Effected
      BY <2>2, <2>3, <2>5
    <3> QED BY ONLY <1>1, <1>2, <2>2, <2>4, <3>1, StayIs
  <2>6. CASE ~HasEffect(Want)
    <3>1. Effected' = Effected + 1 /\ Effected \in Nat /\ Effected < Len(RemoveCommands(tree, Target))
      BY <2>2, <2>3, <2>6
    <3>2. Abstract!Next
      BY ONLY <1>1, <2>2, <2>4, <3>1, StepIs
    <3> QED BY <3>2
  <2> QED BY <2>5, <2>6
<1> QED BY <1>1, <1>3, <1>4, AnswerIs

LEMMA PushNextRefines ==
  ASSUME Both, NEW t, TInv(t), PushNextRemove, ~Stopping, Stage'
  PROVE  Abstract!Next \/ UNCHANGED Abstract!vars
<1>1. /\ LinksOK /\ BooksOK /\ Books /\ Situation /\ Situation'
  BY DEF Both
<1>2. rcv.at = "push" /\ UNCHANGED <<status, node, tree, proc, main>> /\ (Stopping' <=> Stopping)
  BY DEF PushNextRemove, nodeVars, Stopping
<1>3. Shape /\ Stage
  BY DEF TInv
<1>4. RemoveReady /\ main = MainIdle /\ rcv = [at |-> "push", rec |-> rmlist[1]]
  BY <1>2, <1>3 DEF Stage, Idle, Forking, CreateSent, RemoveReady, RemoveSent, WaitNow, Resting, RcvIdle
<1>5. Len(rmlist) = 1 /\ ~HasEffect(Want) /\ rmlist # <<>> /\ rcv.at # "wait" /\ main' = main
  BY <1>2, <1>4 DEF RemoveReady
<1>6. Current(rcv.rec) = Want
  BY <1>4, <1>5 DEF Want
<1>7. \/ RecRemove(Want.cmd, Want.id, TRUE)
      \/ rcv' = RcvIdle /\ UNCHANGED <<slots, rmlist>>
  BY <1>6 DEF PushNextRemove
<1>8. CASE rcv' = RcvIdle /\ UNCHANGED <<slots, rmlist>>
  <2>1. rcv'.at # "wait"
    BY <1>8 DEF RcvIdle
  <2> QED BY <1>2, <1>5, <1>8, <2>1, SameRefines
<1>9. CASE RecRemove(Want.cmd, Want.id, TRUE)
  <2>1. /\ Removing /\ Removing' /\ ~Stopping /\ ~Stopping'
        /\ Target' = Target /\ Effected' = rmlist[1].now + 1
    BY <1>1, <1>4, <1>5, <1>9, AdvancedIs DEF BooksOK
  <2>2. /\ rmlist[1].now \in Nat /\ rmlist[1].now < Len(RemoveCommands(tree, Target))
        /\ Effected = rmlist[1].now + (IF HasEffect(Want) THEN 1 ELSE 0)
    BY <1>1, <1>3, <1>5, ChainAt
  <2>3. Effected' = Effected + 1 /\ Effected \in Nat /\ Effected < Len(RemoveCommands(tree, Target))
    BY <1>5, <2>1, <2>2
  <2>4. tree' = tree
    BY <1>2
  <2>5. Abstract!Next
    BY ONLY <1>1, <2>1, <2>3, <2>4, StepIs
  <2> QED BY <2>5
<1> QED BY <1>7, <1>8, <1>9

LEMMA ReapRefines ==
  ASSUME Both, NEW t, TInv(t), Reap, ~Stopping, Stage'
  PROVE  Abstract!Next
<1>1. Situation /\ Situation' /\ Shape /\ Stage
  BY DEF Both, TInv
<1>2. /\ rcv.at = "wait" /\ tree' = TreeRemove(tree, rcv.rec.target) /\ rcv' = RcvIdle
      /\ UNCHANGED <<rmlist, outstanding, main>>
  BY DEF Reap
<1>3. WaitNow
  BY <1>1, <1>2 DEF Stage, Idle, Forking, CreateSent, RemoveReady, RemoveSent, WaitNow, Resting, RcvIdle
<1>4. rmlist' = <<>> /\ Top' = {} /\ main' = MainIdle
  BY <1>2, <1>3, SameTop DEF WaitNow
<1>5. Idle'
  <2>1. main'.at = "idle" /\ rcv'.at = "idle" /\ Len(rmlist') = 0
    BY <1>2, <1>4 DEF MainIdle, RcvIdle
  <2>2. ~Forking'
    BY <2>1 DEF Forking, MainIdle
  <2>4. ~RemoveReady' /\ ~RemoveSent'
    BY <2>1 DEF RemoveReady, RemoveSent
  <2>5. ~WaitNow'
    BY <2>1 DEF WaitNow
  <2>3. ~CreateSent'
    BY <1>4 DEF CreateSent
  <2> QED BY <2>2, <2>3, <2>4, <2>5 DEF Stage
<1>6. ~Stopping' /\ ~Removing' /\ ~Creating'
  BY <1>2, <1>4, <1>5 DEF Stopping, MainIdle, Removing, RcvIdle, Idle
<1>7. Removing /\ Target = rcv.rec.target
  BY <1>2 DEF Removing, Target
<1>8. /\ WellFormed(tree) /\ Target \in Ids /\ TreeHas(tree, Target)
      /\ AOp = "remove" /\ AEdges = ChainEdges(tree, Target, Effected)
      /\ ATarget = Target /\ ADone = Effected
  BY <1>1, <1>7 DEF Situation
<1>9. Effected = Len(RemoveCommands(tree, Target))
  BY <1>1, <1>2, <1>7 DEF Shape
<1>10. AOp' = "none" /\ AEdges' = TreeEdges(tree') /\ ATarget' = NoId /\ ADone' = 0
  BY <1>1, <1>6 DEF Situation
<1>11. AEdges' = AEdges
  <2>1. PICK x : x = Target
    OBVIOUS
  <2>2. ChainEdges(tree, x, Len(RemoveCommands(tree, x))) = TreeEdges(TreeRemove(tree, x))
    BY <1>8, <2>1, PlanEnds
  <2> QED BY <1>2, <1>7, <1>8, <1>9, <1>10, <2>1, <2>2
<1> QED BY <1>2, <1>7, <1>8, <1>9, <1>10, <1>11, AbstractFinish

-----------------------------------------------------------------------------
(* Its refinement by the steps of the main thread.                         *)

\* Between two commands nothing is under way in RemoveChain either.
LEMMA NothingUnderWay ==
  ASSUME Both, NEW t, TInv(t), Settled
  PROVE  /\ ~Stopping /\ ~Removing /\ ~Creating /\ rmlist = <<>> /\ main = MainIdle /\ rcv = RcvIdle
         /\ WellFormed(tree) /\ AOp = "none" /\ AEdges = TreeEdges(tree) /\ ATarget = NoId /\ ADone = 0
<1>1. LinksOK /\ BooksOK /\ Books /\ Situation
  BY DEF Both
<1>2. ~Stopping /\ ~Removing /\ Idle
  BY <1>1, SettledIdle
<1>3. ~Creating
  BY <1>2 DEF Idle
<1>4. rmlist = <<>> /\ main = MainIdle /\ rcv = RcvIdle
  BY DEF Settled
<1> QED BY <1>1, <1>2, <1>3, <1>4 DEF Situation

LEMMA CmdCreateRefines ==
  ASSUME Both, NEW t, TInv(t), Settled, NEW id \in Ids, CmdCreate(id), Stopping' \/ Stage'
  PROVE  Abstract!Next
<1>1. /\ ~TreeHas(tree, id) /\ tree' = TreeAdd(tree, id) /\ main'.at = "create"
  BY DEF CmdCreate, MainIdle
<1>2. /\ WellFormed(tree) /\ AOp = "none" /\ AEdges = TreeEdges(tree) /\ ATarget = NoId /\ ADone = 0
  BY NothingUnderWay
<1>3. ~Stopping'
  BY <1>1 DEF Stopping
<1>4. main' # MainIdle
  BY <1>1 DEF MainIdle
<1>5. ~Idle' /\ ~CreateSent' /\ ~RemoveSent'
  BY <1>4 DEF Idle, CreateSent, RemoveSent, Resting
<1>6. ~WaitNow'
  BY <1>4 DEF WaitNow
<1>7. ~RemoveReady'
  BY <1>1, <1>4 DEF RemoveReady, MainIdle
<1>8. Forking'
  BY <1>3, <1>5, <1>6, <1>7 DEF Stage
<1>9. Creating' /\ ~Removing'
  BY <1>8 DEF Forking, Creating
<1>10. AOp' = "create" /\ AEdges' = Cut(tree') /\ ATarget' = TreeLast(tree') /\ ADone' = 0
  BY <1>3, <1>9 DEF Both, Situation
<1>11. TreeLast(tree') = id /\ Cut(tree') = TreeEdges(tree)
  BY <1>1, <1>2, AddedEdges
<1> QED BY <1>1, <1>2, <1>10, <1>11, AbstractCreate

LEMMA CmdRemoveRefines ==
  ASSUME Both, NEW t, TInv(t), Settled, NEW id \in Ids, CmdRemove(id), Stopping' \/ Stage'
  PROVE  Abstract!Next
<1>1. PICK rec : rec = [target |-> id, cmds |-> ChainOf(id), now |-> 0]
  OBVIOUS
<1>2. /\ TreeHas(tree, id) /\ rmlist' = ListInsertFront(rmlist, rec)
      /\ main' = [MainIdle EXCEPT !.at = "remove", !.c = Current(rec)]
      /\ tree' = tree /\ rcv' = rcv
  BY <1>1 DEF CmdRemove, ChainOf
<1>3. /\ rmlist = <<>> /\ rcv = RcvIdle /\ WellFormed(tree)
      /\ AOp = "none" /\ AEdges = TreeEdges(tree) /\ ATarget = NoId /\ ADone = 0
  BY NothingUnderWay
<1>4. rmlist' = <<rec>>
  BY <1>2, <1>3 DEF ListInsertFront
<1>5. Len(rmlist') = 1 /\ rmlist'[1] = rec /\ rmlist' # <<>>
  BY <1>4
<1>6. main'.at = "remove" /\ ~Stopping' /\ Removing' /\ rcv'.at # "wait"
  BY <1>2, <1>3, <1>5 DEF Stopping, MainIdle, Removing, RcvIdle
<1>7. main' # MainIdle
  BY <1>6 DEF MainIdle
<1>8. ~Idle' /\ ~CreateSent' /\ ~RemoveSent'
  BY <1>7 DEF Idle, CreateSent, RemoveSent, Resting
<1>9. ~WaitNow'
  BY <1>7 DEF WaitNow
<1>10. ~Forking'
  BY <1>6 DEF Forking, MainIdle
<1>11. RemoveReady'
  BY <1>6, <1>8, <1>9, <1>10 DEF Stage
<1>12. ~HasEffect(Want)'
  BY <1>11 DEF RemoveReady
<1>13. rec.now = 0 /\ rec.target = id
  BY <1>1
<1>14. Target' = id /\ Effected' = 0
  BY <1>5, <1>6, <1>12, <1>13 DEF Target, Effected
<1>15. AOp' = "remove" /\ AEdges' = ChainEdges(tree', Target', Effected') /\ ATarget' = Target' /\ ADone' = Effected'
  BY <1>6 DEF Both, Situation
<1>16. AEdges' = TreeEdges(tree)
  BY <1>2, <1>14, <1>15 DEF ChainEdges
<1> QED BY <1>2, <1>3, <1>14, <1>15, <1>16, AbstractRemove

LEMMA PushCreateRefines ==
  ASSUME Both, NEW t, TInv(t), PushCreate
  PROVE  Abstract!Next \/ UNCHANGED Abstract!vars
<1>1. main.at = "create" /\ main' = MainIdle /\ UNCHANGED <<tree, rmlist, rcv>>
  BY DEF PushCreate
<1>2. ~Stopping /\ ~Stopping' /\ main # MainIdle
  BY <1>1 DEF Stopping, MainIdle
<1>3. Stage
  BY <1>2 DEF TInv
<1>4. ~Idle /\ ~CreateSent /\ ~RemoveSent
  BY <1>2 DEF Idle, CreateSent, RemoveSent, Resting
<1>5. ~WaitNow
  BY <1>2 DEF WaitNow
<1>6. ~RemoveReady
  BY <1>1, <1>2 DEF RemoveReady, MainIdle
<1>7. Forking
  BY <1>3, <1>4, <1>5, <1>6 DEF Stage
<1>8. Creating /\ ~Removing
  BY <1>7 DEF Forking, Creating
<1>9. ~Removing'
  BY <1>1, <1>8 DEF Removing
<1> QED BY <1>1, <1>2, <1>8, <1>9, AttachIs DEF Both

\* A broadcast of the main thread changes nothing that RemoveChain tells apart.
LEMMA BroadcastRefines ==
  ASSUME Both, (\E id \in Ids, arg \in Values \cup {Get} : CmdExec(id, arg)) \/ PushFirstRemove
  PROVE  UNCHANGED Abstract!vars
<1>1. /\ UNCHANGED <<status, slots, node, tree, proc, rmlist, rcv>>
      /\ main' = main \/ (main.at = "remove" /\ main' = MainIdle)
  BY DEF CmdExec, PushFirstRemove, nodeVars
<1>2. Stopping' <=> Stopping
  BY <1>1 DEF Stopping, MainIdle
<1> QED BY <1>1, <1>2, SameRefines

LEMMA EndRefines ==
  ASSUME Both, NEW t, TInv(t), Settled, EndOfInput
  PROVE  Abstract!Next
<1>1. Stopping' /\ tree' = tree
  BY DEF EndOfInput, Stopping, MainIdle
<1>2. AOp = "none" /\ ATarget = NoId /\ ADone = 0
  BY NothingUnderWay
<1>3. AOp' = "stop" /\ AEdges' = {} /\ ATarget' = NoId /\ ADone' = 0
  BY <1>1 DEF Both, Situation
<1> QED BY <1>1, <1>2, <1>3, AbstractStop

LEMMA LoopRefines ==
  ASSUME Both, KillNode \/ WaitNode \/ Exit
  PROVE  UNCHANGED Abstract!vars
<1>1. main.at \in {"kill", "wait"} /\ UNCHANGED <<tree, rmlist, rcv>>
  BY DEF KillNode, WaitNode, Exit
<1>2. main'.at \in {"kill", "wait", "exit"}
  <2>1. main \in Main
    BY DEF Both, BooksOK
  <2>2. CASE KillNode
    BY <2>1, <2>2 DEF KillNode, Main
  <2>3. CASE WaitNode
    BY <2>1, <2>3 DEF WaitNode, Main
  <2>4. CASE Exit
    BY <2>1, <2>4 DEF Exit, Main
  <2> QED BY <2>2, <2>3, <2>4
<1>3. Stopping /\ Stopping'
  BY <1>1, <1>2 DEF Stopping
<1>4. Removing' <=> Removing
  BY <1>1 DEF Removing
<1>5. Situation /\ Situation' /\ tree' = tree
  BY <1>1 DEF Both
<1> QED BY ONLY <1>3, <1>4, <1>5, StayIs

LEMMA SameAllRefines ==
  ASSUME Both, UNCHANGED vars
  PROVE  UNCHANGED Abstract!vars
<1>1. UNCHANGED <<status, slots, node, tree, proc, rmlist, main, rcv>>
  BY DEF vars, linkVars, nodeVars, controlVars
<1>2. Stopping' <=> Stopping
  BY <1>1 DEF Stopping
<1> QED BY <1>1, <1>2, SameRefines

-----------------------------------------------------------------------------
(* Its refinement by every step.                                           *)

LEMMA CalmAfter == (IInv => Calm)'
BY InvParts, PTL

LEMMA BothHold ==
  ASSUME Patience # "none", IInv, IInv', NEW t, TInv(t), NEW t2, TInv(t2)'
  PROVE  /\ Both /\ (Stopping' \/ Stage')
<1>1. LinksOK /\ BooksOK /\ Books /\ Calm /\ LinksOK' /\ BooksOK' /\ Books'
  BY BothStates
<1>2. Calm'
  BY CalmAfter
<1>3. (Stopping \/ Shape) /\ (Stopping' \/ Shape') /\ (Stopping' \/ Stage')
  BY DEF TInv
<1>4. Situation
  BY <1>1, <1>3, SituationIs
<1>5. Situation'
  BY <1>1, <1>2, <1>3, SituationAfter
<1> QED BY <1>1, <1>2, <1>3, <1>4, <1>5 DEF Both

LEMMA NextRefines ==
  ASSUME Patience # "none", MaxCrashes = 0, IInv, IInv', NEW t, TInv(t), NEW t2, TInv(t2)',
         [Next]_vars
  PROVE  Abstract!Next \/ UNCHANGED Abstract!vars
<1>1. Both /\ (Stopping' \/ Stage')
  BY BothHold
<1>2. CASE User
  <2>1. /\ Settled
        /\ \E id \in Ids : \/ CmdCreate(id)
                           \/ CmdRemove(id)
                           \/ \E arg \in Values \cup {Get} : CmdExec(id, arg)
    BY <1>2, PatientSettled DEF User
  <2> QED BY <1>1, <2>1, CmdCreateRefines, CmdRemoveRefines, BroadcastRefines
<1>3. CASE UserEnds
  <2>1. Settled /\ EndOfInput
    BY <1>3, PatientSettled DEF UserEnds
  <2> QED BY <1>1, <2>1, EndRefines
<1>4. CASE MainPush
  <2>1. PushCreate \/ PushFirstRemove \/ KillNode \/ WaitNode \/ Exit
    BY <1>4 DEF MainPush
  <2> QED BY <1>1, <2>1, PushCreateRefines, BroadcastRefines, LoopRefines
<1>5. CASE Receiver
  <2>1. (\E s \in SlotNames : Receive(s)) \/ PushNextRemove \/ Reap
    BY <1>5 DEF Receiver, ReceiverNext
  <2>2. CASE \E s \in SlotNames : Receive(s)
    BY <1>1, <2>2, ReceiveRefines
  <2>3. CASE PushNextRemove \/ Reap
    <3>1. ~Stopping
      <4>1. rcv.at \in {"push", "wait"}
        BY <2>3 DEF PushNextRemove, Reap
      <4> QED BY <1>1, <4>1 DEF Both, Calm, Stopping, RcvIdle
    <3>2. main' = main
      BY <2>3 DEF PushNextRemove, Reap
    <3>3. Stage'
      BY <1>1, <3>1, <3>2 DEF Stopping
    <3> QED BY <1>1, <2>3, <3>1, <3>3, PushNextRefines, ReapRefines
  <2> QED BY <2>1, <2>2, <2>3
<1>6. ASSUME NEW p \in Procs, Node(p) \/ NodeCrash(p)
      PROVE  Abstract!Next \/ UNCHANGED Abstract!vars
  <2>1. ~NodeCrash(p)
    <3>1. crashes \in 0..MaxCrashes
      BY DEF IInv, TypeOK
    <3> QED BY <3>1 DEF NodeCrash
  <2>2. NodeNext(p) /\ UNCHANGED controlVars
    BY <1>6, <2>1 DEF Node
  <2> QED BY <1>1, <2>2, NodeRefines
<1>7. CASE UNCHANGED vars
  BY <1>1, <1>7, SameAllRefines
<1> QED BY <1>2, <1>3, <1>4, <1>5, <1>6, <1>7 DEF Next

LEMMA InitRefines ==
  ASSUME Patience # "none", Init
  PROVE  Abstract!Init
<1>1. IInv
  BY InitInv
<1>2. Calm
  BY <1>1, InvParts
<1>3. Books /\ tree = <<NoId>> \o Seed /\ rmlist = <<>> /\ rcv = RcvIdle /\ main = MainIdle
  BY <1>1, InvParts DEF Init
<1>4. PICK t : t = [p \in Procs |-> 0]
  OBVIOUS
<1>5. TInv(t)
  BY <1>4, InitTopology
<1>6. ~Stopping /\ ~Removing
  BY <1>3 DEF Stopping, Removing, MainIdle, RcvIdle
<1>7. Stopping \/ Shape
  BY <1>5 DEF TInv
<1>8. Situation
  BY <1>2, <1>3, <1>7, SituationIs
<1>9. AEdges = TreeEdges(tree)
  BY <1>6, SeedEdges DEF AEdges
<1>10. LinksOK /\ BooksOK /\ Settled
  <2>1. LinksOK /\ BooksOK
    BY <1>1, InvParts
  <2>2. outstanding = {}
    BY DEF Init
  <2> QED BY <1>3, <2>1, <2>2 DEF Settled
<1>11. ~Creating
  <2>1. Idle
    BY <1>3, <1>5, <1>10, SettledIdle
  <2> QED BY <2>1 DEF Idle
<1> QED BY <1>3, <1>6, <1>8, <1>9, <1>11, AbstractInit DEF Situation

\* For a user who waits for creations and removals, and processes that do not
\* die by themselves, the control node, the nodes and the messages between
\* them implement RemoveChain: seen from outside, the connections change by
\* one command of one plan at a time, each once and in the order planned
\* (control_node.c:180-271, 337-386, 394-455, compute_node.c:119-221).
THEOREM RemoveChainImplemented ==
  ASSUME Patience # "none", MaxCrashes = 0
  PROVE  Spec => ImplementsRemoveChain
<1>1. Init => Abstract!Init
  BY InitRefines
<1>2. /\ IInv /\ IInv' /\ Topology /\ Topology' /\ [Next]_vars
      => [Abstract!Next]_(Abstract!vars)
  <2> SUFFICES ASSUME IInv, IInv', NEW t, TInv(t), Topology', [Next]_vars
               PROVE  Abstract!Next \/ UNCHANGED Abstract!vars
    BY DEF Topology
  <2>1. \E t2 : TInv(t2)'
    BY DEF Topology
  <2> QED BY <2>1, NextRefines
<1>3. Spec => []Topology
  BY TopologyCorrect
<1>4. Spec => []IInv
  BY Invariance
<1>5. Spec => Abstract!Init /\ [][Abstract!Next]_(Abstract!vars)
  BY <1>1, <1>2, <1>3, <1>4, PTL DEF Spec
<1> QED BY <1>5, AbstractSpec
===============================================================================
