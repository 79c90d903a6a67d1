-------------------------- MODULE TopologyNodeProofs --------------------------
(***************************************************************************)
(* The topology of the cluster, for a user who waits for creations and     *)
(* removals and processes that do not die by themselves: the invariant     *)
(* TInv, and that every step of a node preserves it.                       *)
(*                                                                         *)
(* Where a broadcast has got to is not part of the state.  TInv says that  *)
(* there is some t, t[p] being the number of the last broadcast that p has *)
(* taken, for which                                                        *)
(*   - a node is behind the node above it and the messages between them    *)
(*     are newer than what it has taken and not newer than what the one    *)
(*     above has (Ordered);                                                *)
(*   - of the messages still under way, only those of the command awaited  *)
(*     can have an effect, and only at its Owner (Spent);                  *)
(*   - the connections are those of the array, or of the removal so far,   *)
(*     ChainEdges after so many commands (Shape);                          *)
(*   - the answers to come, counted by the leaves that have not had the    *)
(*     broadcast, are not more than those awaited (UnderWay).              *)
(***************************************************************************)
EXTENDS ClusterProofs

-----------------------------------------------------------------------------
(* The sockets, as long as no second connection waits for a process.       *)

\* Every connection is one that the other side has accepted, to the process of
\* an id of the array, and only running processes have any.
Wired ==
  /\ proc[NoId] = Control
  /\ \A q \in AllProcs, s \in SlotNames : slots[q][s] # NoChild =>
       /\ slots[q][s].id \in Ids /\ TreeHas(tree, slots[q][s].id)
       /\ slots[q][s].pid = proc[slots[q][s].id] /\ slots[q][s].pid \in Procs
       /\ peer[slots[q][s].pid] = q
       /\ q \in Procs => status[q] = "run"
  /\ \A q \in AllProcs : slots[q]["left"] = slots[q]["right"] => slots[q]["left"] = NoChild
  /\ \A c \in Procs : HasPeer(c) => \E s \in SlotNames : slots[peer[c]][s].pid = c

\* So the accepted peers tell everything.
Linked == {b \in Ids : TreeHas(tree, b) /\ HasPeer(proc[b])}

Alive(q) == q \in Procs => status[q] = "run"

WireFacts ==
  /\ \A q \in AllProcs, c \in Procs : (\E s \in SlotNames : slots[q][s].pid = c) <=> peer[c] = q
  /\ \A q \in AllProcs : ChildPids(q) = {c \in Procs : peer[c] = q}
  /\ \A q \in AllProcs, id \in Ids : HasChild(q, id) <=> TreeHas(tree, id) /\ peer[proc[id]] = q
  /\ \A id \in Ids : IsConnected(id) <=> id \in Linked
  /\ \A c \in Procs : HasPeer(c) => /\ peer[c] \in AllProcs /\ Alive(peer[c])
                                    /\ node[c] \in Linked /\ proc[node[c]] = c
  /\ Connections = {<<IdOf(peer[proc[b]]), b>> : b \in Linked}
  /\ \A q \in AllProcs : Alive(q) =>
       /\ IdOf(q) \in AnyId /\ TreeHas(tree, IdOf(q)) /\ proc[IdOf(q)] = q
       /\ IdOf(q) = NoId <=> q = Control

LEMMA Pids ==
  /\ NoPeer \notin AllProcs /\ Control \notin Procs /\ Control \in AllProcs
  /\ \A p \in Procs : p \in AllProcs /\ p # NoPeer
  /\ AllProcs = Procs \cup {Control}
  /\ "left" \in SlotNames /\ "right" \in SlotNames
  /\ \A s \in SlotNames : s = "left" \/ s = "right"
  /\ NoId \notin Ids /\ NoId \in AnyId /\ \A id \in Ids : id \in AnyId
  /\ NoChild.id = NoId /\ NoChild.pid = Control /\ NoChild \in Slot
BY MaxPidAssumption, IdsAssumption DEF NoPeer, AllProcs, Procs, Control, SlotNames, AnyId, NoChild, Slot

LEMMA SlotOf ==
  ASSUME slots \in Links, Wired, NEW q \in AllProcs, NEW s \in SlotNames
  PROVE  /\ slots[q][s] \in Slot
         /\ slots[q][s] = NoChild \/ (slots[q][s].id \in Ids /\ slots[q][s].pid \in Procs)
         /\ slots[q][s].id = NoId <=> slots[q][s] = NoChild
         /\ slots[q][s].pid \in Procs <=> slots[q][s] # NoChild
<1>1. slots[q][s] \in Slot
  BY DEF Links
<1> QED BY <1>1, Pids DEF Wired

LEMMA WiresHold == LinksOK /\ Books /\ BooksOK /\ Wired => WireFacts
<1> SUFFICES ASSUME LinksOK, Books, BooksOK, Wired PROVE WireFacts
  OBVIOUS
<1>1. /\ slots \in Links /\ peer \in [Procs -> AllProcs \cup {NoPeer}]
      /\ node \in [Procs -> AnyId] /\ proc \in [AnyId -> AllProcs]
  BY LinkFacts DEF BooksOK
<1>2. /\ \A p \in Procs : status[p] \notin {"unborn", "reaped"} =>
            node[p] \in Ids /\ TreeHas(tree, node[p]) /\ proc[node[p]] = p
      /\ \A id \in Ids : TreeHas(tree, id) => proc[id] \in Procs /\ node[proc[id]] = id
  BY DEF Books, Kept
<1>3. \A q \in AllProcs, c \in Procs : (\E s \in SlotNames : slots[q][s].pid = c) <=> peer[c] = q
  <2>1. ASSUME NEW q \in AllProcs, NEW c \in Procs, NEW s \in SlotNames, slots[q][s].pid = c
        PROVE  peer[c] = q
    BY <1>1, <2>1, SlotOf DEF Wired
  <2>2. ASSUME NEW q \in AllProcs, NEW c \in Procs, peer[c] = q
        PROVE  \E s \in SlotNames : slots[q][s].pid = c
    BY <2>2, Pids DEF Wired, HasPeer
  <2> QED BY <2>1, <2>2
<1>4. \A q \in AllProcs : ChildPids(q) = {c \in Procs : peer[c] = q}
  <2>1. ASSUME NEW q \in AllProcs, NEW c
        PROVE  c \in ChildPids(q) <=> c \in Procs /\ peer[c] = q
    <3>1. \A s \in SlotNames : slots[q][s].pid \in AllProcs
      BY <1>1 DEF Links, Slot
    <3>2. c \in ChildPids(q) <=> c # Control /\ \E s \in SlotNames : slots[q][s].pid = c
      BY DEF ChildPids
    <3> QED BY <1>3, <3>1, <3>2, Pids
  <2> QED BY <2>1
<1>5. ASSUME NEW q \in AllProcs, NEW id \in Ids
      PROVE  HasChild(q, id) <=> TreeHas(tree, id) /\ peer[proc[id]] = q
  <2>1. ASSUME NEW s \in SlotNames, slots[q][s].id = id
        PROVE  TreeHas(tree, id) /\ peer[proc[id]] = q
    <3>1. slots[q][s] # NoChild
      BY <2>1, Pids
    <3> QED BY <2>1, <3>1 DEF Wired
  <2>2. ASSUME TreeHas(tree, id), peer[proc[id]] = q
        PROVE  \E s \in SlotNames : slots[q][s].id = id
    <3>1. proc[id] \in Procs /\ node[proc[id]] = id
      BY <1>2, <2>2
    <3>2. PICK s \in SlotNames : slots[q][s].pid = proc[id]
      BY <1>3, <2>2, <3>1
    <3>3. slots[q][s] # NoChild
      BY <1>1, <3>1, <3>2, SlotOf
    <3>4. slots[q][s].id \in Ids /\ TreeHas(tree, slots[q][s].id) /\ proc[slots[q][s].id] = proc[id]
      BY <3>2, <3>3 DEF Wired
    <3>5. slots[q][s].id = id
      BY <1>2, <3>1, <3>4
    <3> QED BY <3>5
  <2> QED BY <2>1, <2>2 DEF HasChild
<1>6. \A id \in Ids : IsConnected(id) <=> id \in Linked
  <2>1. ASSUME NEW id \in Ids
        PROVE  IsConnected(id) <=> TreeHas(tree, id) /\ HasPeer(proc[id])
    <3>1. IsConnected(id) <=> TreeHas(tree, id) /\ peer[proc[id]] \in AllProcs
      BY <1>5 DEF IsConnected
    <3>2. TreeHas(tree, id) => (peer[proc[id]] \in AllProcs <=> HasPeer(proc[id]))
      BY <1>1, <1>2, Pids DEF HasPeer
    <3> QED BY <3>1, <3>2
  <2> QED BY <2>1 DEF Linked
<1>7. ASSUME NEW c \in Procs, HasPeer(c)
      PROVE  /\ peer[c] \in AllProcs /\ Alive(peer[c])
             /\ node[c] \in Linked /\ proc[node[c]] = c
  <2>1. peer[c] \in AllProcs
    BY <1>1, <1>7, Pids DEF HasPeer
  <2>2. PICK s \in SlotNames : slots[peer[c]][s].pid = c
    BY <1>3, <2>1
  <2>3. slots[peer[c]][s] # NoChild
    BY <1>1, <2>1, <2>2, SlotOf
  <2>4. /\ Alive(peer[c]) /\ slots[peer[c]][s].id \in Ids /\ TreeHas(tree, slots[peer[c]][s].id)
        /\ proc[slots[peer[c]][s].id] = c
    BY <2>1, <2>2, <2>3 DEF Wired, Alive
  <2>5. node[c] = slots[peer[c]][s].id
    BY <1>2, <2>4
  <2> QED BY <1>7, <2>1, <2>4, <2>5 DEF Linked
<1>8. ASSUME NEW q \in AllProcs, Alive(q)
      PROVE  /\ IdOf(q) \in AnyId /\ TreeHas(tree, IdOf(q)) /\ proc[IdOf(q)] = q
             /\ IdOf(q) = NoId <=> q = Control
  <2>1. CASE q = Control
    <3>1. tree[1] = NoId /\ Len(tree) \in Nat /\ Len(tree) > 0
      BY ArrayIds DEF Books, WellFormed
    <3>2. TreeHas(tree, NoId)
      BY <3>1 DEF TreeHas
    <3> QED BY <2>1, <3>2, Pids DEF IdOf, Wired
  <2>2. CASE q # Control
    <3>1. q \in Procs /\ status[q] = "run"
      BY <1>8, <2>2, Pids DEF Alive
    <3> QED BY <1>2, <2>2, <3>1, Pids DEF IdOf
  <2> QED BY <2>1, <2>2
<1>9. Connections = {<<IdOf(peer[proc[b]]), b>> : b \in Linked}
  <2>1. ASSUME NEW q \in AllProcs, NEW s \in SlotNames, \A p \in AllProcs : <<IdOf(q), slots[q][s].id>> # <<IdOf(p), NoId>>
        PROVE  <<IdOf(q), slots[q][s].id>> \in {<<IdOf(peer[proc[b]]), b>> : b \in Linked}
    <3>1. slots[q][s] # NoChild
      BY <2>1, Pids
    <3>2. /\ slots[q][s].id \in Ids /\ TreeHas(tree, slots[q][s].id)
          /\ peer[proc[slots[q][s].id]] = q
      BY <3>1 DEF Wired
    <3>3. slots[q][s].id \in Linked
      BY <1>2, <3>2, Pids DEF Linked, HasPeer
    <3> QED BY <3>2, <3>3
  <2>2. ASSUME NEW b \in Linked
        PROVE  /\ \E q \in AllProcs, s \in SlotNames : <<IdOf(peer[proc[b]]), b>> = <<IdOf(q), slots[q][s].id>>
               /\ \A p \in AllProcs : <<IdOf(peer[proc[b]]), b>> # <<IdOf(p), NoId>>
    <3>1. b \in Ids /\ b # NoId /\ TreeHas(tree, b) /\ HasPeer(proc[b]) /\ proc[b] \in Procs
      BY <1>2, <2>2, Pids DEF Linked
    <3>2. peer[proc[b]] \in AllProcs
      BY <1>7, <3>1
    <3>3. HasChild(peer[proc[b]], b)
      BY <1>5, <3>1, <3>2
    <3> QED BY <3>1, <3>2, <3>3 DEF HasChild
  <2> QED BY <2>1, <2>2 DEF Connections
<1> QED BY <1>3, <1>4, <1>5, <1>6, <1>7, <1>8, <1>9 DEF WireFacts

LEMMA WiresAfter == LinksOK' /\ Books' /\ BooksOK' /\ Wired' => WireFacts'
BY WiresHold, PTL

LEMMA PeersAre ==
  ASSUME peer \in [Procs -> AllProcs \cup {NoPeer}], NEW sl,
         NEW P \in [Procs -> AllProcs \cup {NoPeer}],
         \A q \in AllProcs, c \in Procs : (\E s \in SlotNames : sl[q][s].pid = c) <=> P[c] = q
  PROVE  PeersOf(sl) = P
<1>1. ASSUME NEW c \in Procs
      PROVE  LET claims == {q \in AllProcs : \E s \in SlotNames : sl[q][s].pid = c}
             IN  P[c] = IF peer[c] \in claims THEN peer[c]
                        ELSE IF claims = {} THEN NoPeer ELSE CHOOSE q \in claims : TRUE
  <2> DEFINE claims == {q \in AllProcs : \E s \in SlotNames : sl[q][s].pid = c}
  <2>1. claims = {q \in AllProcs : P[c] = q}
    OBVIOUS
  <2> HIDE DEF claims
  <2>2. P[c] \in AllProcs \/ P[c] = NoPeer
    OBVIOUS
  <2>3. CASE P[c] \in AllProcs
    <3>1. claims = {P[c]}
      BY <2>1, <2>3
    <3>2. claims # {} /\ (peer[c] \in claims => peer[c] = P[c])
      BY <3>1
    <3>3. (CHOOSE q \in claims : TRUE) \in claims
      BY <3>2
    <3> QED BY <3>1, <3>2, <3>3 DEF claims
  <2>4. CASE P[c] = NoPeer
    <3>1. claims = {}
      BY <2>1, <2>4, Pids
    <3> QED BY <2>4, <3>1 DEF claims
  <2> QED BY <2>2, <2>3, <2>4
<1>2. P = [c \in Procs |-> P[c]]
  OBVIOUS
<1> QED BY <1>1, <1>2, ZenonT(60) DEF PeersOf

LEMMA SlotChosen ==
  ASSUME slots \in Links, Wired, NEW q \in AllProcs
  PROVE  /\ \A child : (\E s \in SlotNames : slots[q][s].id = NoId) =>
              \E s \in SlotNames : /\ slots[q][s] = NoChild
                                   /\ Connected(slots[q], child) = [slots[q] EXCEPT ![s] = child]
         /\ \A id : HasChild(q, id) =>
              \E s \in SlotNames : /\ slots[q][s].id = id
                                   /\ SlotToClose(slots[q], id) = s
                                   /\ Closed(slots[q], id) = [slots[q] EXCEPT ![s] = NoChild]
<1>1. ASSUME NEW child, NEW s \in SlotNames, slots[q][s].id = NoId
      PROVE  \E r \in SlotNames : /\ slots[q][r] = NoChild
                                  /\ Connected(slots[q], child) = [slots[q] EXCEPT ![r] = child]
  <2>1. CASE slots[q]["left"].id = NoId
    BY <2>1, SlotOf, Pids DEF Connected
  <2>2. CASE slots[q]["left"].id # NoId
    <3>1. slots[q]["right"].id = NoId
      BY <1>1, <2>2, Pids
    <3> QED BY <2>2, <3>1, SlotOf, Pids DEF Connected
  <2> QED BY <2>1, <2>2
<1>2. ASSUME NEW id, NEW s \in SlotNames, slots[q][s].id = id
      PROVE  \E r \in SlotNames : /\ slots[q][r].id = id
                                  /\ SlotToClose(slots[q], id) = r
                                  /\ Closed(slots[q], id) = [slots[q] EXCEPT ![r] = NoChild]
  <2>1. CASE slots[q]["left"].id = id
    BY <2>1, Pids DEF SlotToClose, Closed
  <2>2. CASE slots[q]["left"].id # id
    <3>1. slots[q]["right"].id = id
      BY <1>2, <2>2, Pids
    <3> QED BY <2>2, <3>1, Pids DEF SlotToClose, Closed
  <2> QED BY <2>1, <2>2
<1> QED BY <1>1, <1>2 DEF HasChild

LEMMA WireConnect ==
  ASSUME LinksOK, Books, BooksOK, Wired, NEW q \in AllProcs, Alive(q),
         NEW id \in Ids, TreeHas(tree, id), ~HasPeer(proc[id]),
         \E s \in SlotNames : slots[q][s].id = NoId,
         NEW queue \in Queues(Reply),
         Rewire([slots EXCEPT ![q] = Connected(@, [id |-> id, pid |-> proc[id]])], queue),
         UNCHANGED <<status, tree, proc>>
  PROVE  /\ Wired'
         /\ peer' = [peer EXCEPT ![proc[id]] = q]
         /\ up' = [queue EXCEPT ![proc[id]] = <<>>]
<1> DEFINE child == [id |-> id, pid |-> proc[id]]
           c == proc[id]
<1>1. /\ slots \in Links /\ peer \in [Procs -> AllProcs \cup {NoPeer}]
      /\ c \in Procs /\ peer[c] = NoPeer
  BY LinkFacts DEF Books, Kept, HasPeer
<1>2. WireFacts
  BY WiresHold
<1>3. PICK s \in SlotNames : /\ slots[q][s] = NoChild
                             /\ Connected(slots[q], child) = [slots[q] EXCEPT ![s] = child]
  BY <1>1, SlotChosen, ZenonT(60)
<1>s. PICK sl : sl = [slots EXCEPT ![q] = [slots[q] EXCEPT ![s] = child]]
  OBVIOUS
<1>4. [slots EXCEPT ![q] = Connected(@, [id |-> id, pid |-> proc[id]])] = sl
  BY <1>1, <1>3, <1>s DEF Links
<1>5. Rewire(sl, queue)
  BY <1>4
<1> HIDE DEF child
<1>6. \A x \in AllProcs, r \in SlotNames : sl[x][r] = IF x = q /\ r = s THEN child ELSE slots[x][r]
  BY <1>1, <1>s DEF Links
<1>7. child.pid = c /\ child.id = id /\ child # NoChild
  BY Pids DEF child
<1>p. PICK P : P = [peer EXCEPT ![c] = q]
  OBVIOUS
<1>8. P \in [Procs -> AllProcs \cup {NoPeer}] /\ \A d \in Procs : d # c => P[d] = peer[d]
  BY <1>1, <1>p, Pids
<1>9. ASSUME NEW x \in AllProcs, NEW d \in Procs
      PROVE  (\E r \in SlotNames : sl[x][r].pid = d) <=> P[d] = x
  <2>1. (\E r \in SlotNames : slots[x][r].pid = d) <=> peer[d] = x
    BY <1>2 DEF WireFacts
  <2>2. CASE d = c
    <3>1. P[d] = q
      BY <1>1, <1>p, <2>2, <1>7
    <3>2. \A r \in SlotNames : slots[x][r].pid # c
      BY <1>1, <2>1, <2>2, Pids
    <3> QED BY <1>6, <1>7, <2>2, <3>1, <3>2
  <2>3. CASE d # c
    <3>1. P[d] = peer[d]
      BY <1>8, <2>3
    <3>2. slots[q][s].pid # d
      BY <1>3, Pids
    <3> QED BY <1>6, <1>7, <2>1, <2>3, <3>1, <3>2
  <2> QED BY <2>2, <2>3
<1>10. PeersOf(sl) = P
  BY <1>1, <1>8, <1>9, PeersAre
<1>11. slots' = sl /\ peer' = P /\ up' = [queue EXCEPT ![c] = <<>>]
  <2>1. peer[c] # q
    BY <1>1, Pids
  <2>2. up' = [x \in Procs |-> IF P[x] = peer[x] THEN queue[x] ELSE <<>>]
    BY <1>5, <1>10 DEF Rewire
  <2>3. \A x \in Procs : P[x] = peer[x] <=> x # c
    BY <1>1, <1>8, <1>p, <2>1
  <2>4. queue = [x \in Procs |-> queue[x]]
    BY DEF Queues
  <2>5. up' = [queue EXCEPT ![c] = <<>>]
    BY <2>2, <2>3, <2>4
  <2> QED BY <1>5, <1>10, <2>5 DEF Rewire
<1>12. Wired'
  <2>1. ASSUME NEW x \in AllProcs, NEW r \in SlotNames, sl[x][r] # NoChild
        PROVE  /\ sl[x][r].id \in Ids /\ TreeHas(tree, sl[x][r].id)
               /\ sl[x][r].pid = proc[sl[x][r].id] /\ sl[x][r].pid \in Procs
               /\ P[sl[x][r].pid] = x
               /\ x \in Procs => status[x] = "run"
    <3>1. CASE x = q /\ r = s
      BY <1>1, <1>6, <1>7, <1>p, <3>1 DEF Alive
    <3>2. CASE ~(x = q /\ r = s)
      <4>1. sl[x][r] = slots[x][r]
        BY <1>6, <3>2
      <4>2. /\ slots[x][r].id \in Ids /\ TreeHas(tree, slots[x][r].id)
            /\ slots[x][r].pid = proc[slots[x][r].id] /\ slots[x][r].pid \in Procs
            /\ peer[slots[x][r].pid] = x
            /\ x \in Procs => status[x] = "run"
        BY <2>1, <4>1 DEF Wired
      <4>3. slots[x][r].pid # c
        BY <1>1, <4>2, Pids
      <4> QED BY <1>8, <4>1, <4>2, <4>3
    <3> QED BY <3>1, <3>2
  <2>2. ASSUME NEW x \in AllProcs, sl[x]["left"] = sl[x]["right"]
        PROVE  sl[x]["left"] = NoChild
    <3>1. CASE x = q
      <4>1. \A r \in SlotNames : slots[x][r].pid # c
        BY <1>1, <1>2, Pids DEF WireFacts
      <4>2. "left" # "right"
        OBVIOUS
      <4> QED BY <1>6, <1>7, <2>2, <3>1, <4>1, <4>2, Pids
    <3>2. CASE x # q
      BY <1>6, <2>2, <3>2, Pids DEF Wired
    <3> QED BY <3>1, <3>2
  <2>3. ASSUME NEW d \in Procs, P[d] # NoPeer
        PROVE  \E r \in SlotNames : sl[P[d]][r].pid = d
    <3>1. P[d] \in AllProcs
      BY <1>8, <2>3
    <3> QED BY <1>9, <3>1
  <2>4. proc[NoId] = Control
    BY DEF Wired
  <2> QED BY <1>11, <2>1, <2>2, <2>3, <2>4 DEF Wired, HasPeer
<1> QED BY <1>11, <1>12, <1>p

LEMMA WireClose ==
  ASSUME LinksOK, Books, BooksOK, Wired, NEW q \in AllProcs,
         NEW id \in Ids, HasChild(q, id),
         NEW queue \in Queues(Reply),
         Rewire([slots EXCEPT ![q] = Closed(@, id)], queue),
         UNCHANGED <<status, tree, proc>>
  PROVE  /\ Wired'
         /\ peer' = [peer EXCEPT ![proc[id]] = NoPeer]
         /\ up' = [queue EXCEPT ![proc[id]] = <<>>]
<1> DEFINE c == proc[id]
<1>1. /\ slots \in Links /\ peer \in [Procs -> AllProcs \cup {NoPeer}]
  BY LinkFacts
<1>2. WireFacts
  BY WiresHold
<1>3. PICK s \in SlotNames : /\ slots[q][s].id = id
                             /\ Closed(slots[q], id) = [slots[q] EXCEPT ![s] = NoChild]
  BY <1>1, SlotChosen
<1>s. PICK sl : sl = [slots EXCEPT ![q] = [slots[q] EXCEPT ![s] = NoChild]]
  OBVIOUS
<1>4. [slots EXCEPT ![q] = Closed(@, id)] = sl
  BY <1>1, <1>3, <1>s DEF Links
<1>5. Rewire(sl, queue)
  BY <1>4
<1>6. \A x \in AllProcs, r \in SlotNames : sl[x][r] = IF x = q /\ r = s THEN NoChild ELSE slots[x][r]
  BY <1>1, <1>s DEF Links
<1>7. c \in Procs /\ peer[c] = q /\ slots[q][s].pid = c
  BY <1>3, Pids DEF Wired
<1>p. PICK P : P = [peer EXCEPT ![c] = NoPeer]
  OBVIOUS
<1>8. P \in [Procs -> AllProcs \cup {NoPeer}] /\ \A d \in Procs : d # c => P[d] = peer[d]
  BY <1>1, <1>p, Pids
<1>0. \A r \in SlotNames : slots[q][r].pid = c => r = s
  <2>1. ASSUME NEW r \in SlotNames, slots[q][r].pid = c, r # s
        PROVE  FALSE
    <3>1. slots[q][r] # NoChild /\ slots[q][s] # NoChild
      BY <1>7, <2>1, Pids
    <3>2. slots[q][r].id = id
      <4>1. slots[q][r].id \in Ids /\ TreeHas(tree, slots[q][r].id) /\ proc[slots[q][r].id] = c
        BY <2>1, <3>1 DEF Wired
      <4>2. TreeHas(tree, id)
        BY <1>3, <3>1 DEF Wired
      <4> QED BY <4>1, <4>2 DEF Books, Kept
    <3>3. slots[q][r] = slots[q][s]
      <4>1. slots[q][r] \in Slot /\ slots[q][s] \in Slot
        BY <1>1, SlotOf
      <4> QED BY <1>3, <1>7, <2>1, <3>2, <4>1 DEF Slot
    <3>4. slots[q]["left"] = slots[q]["right"]
      BY <2>1, <3>3, Pids
    <3> QED BY <3>1, <3>3, <3>4, Pids DEF Wired
  <2> QED BY <2>1
<1>9. ASSUME NEW x \in AllProcs, NEW d \in Procs
      PROVE  (\E r \in SlotNames : sl[x][r].pid = d) <=> P[d] = x
  <2>1. (\E r \in SlotNames : slots[x][r].pid = d) <=> peer[d] = x
    BY <1>2 DEF WireFacts
  <2>2. CASE d = c
    <3>1. P[d] = NoPeer
      BY <1>1, <1>p, <2>2, <1>7
    <3>2. \A r \in SlotNames : sl[x][r].pid # c
      <4>1. CASE x = q
        BY <1>0, <1>6, <1>7, <4>1, Pids
      <4>2. CASE x # q
        BY <1>6, <1>7, <2>1, <2>2, <4>2
      <4> QED BY <4>1, <4>2
    <3> QED BY <2>2, <3>1, <3>2, Pids
  <2>3. CASE d # c
    <3>1. P[d] = peer[d]
      BY <1>8, <2>3
    <3>2. slots[q][s].pid # d /\ NoChild.pid # d
      BY <1>7, <2>3, Pids
    <3> QED BY <1>6, <2>1, <2>3, <3>1, <3>2
  <2> QED BY <2>2, <2>3
<1>10. PeersOf(sl) = P
  BY <1>1, <1>8, <1>9, PeersAre
<1>11. slots' = sl /\ peer' = P /\ up' = [queue EXCEPT ![c] = <<>>]
  <2>1. peer[c] # NoPeer
    BY <1>7, Pids
  <2>2. up' = [x \in Procs |-> IF P[x] = peer[x] THEN queue[x] ELSE <<>>]
    BY <1>5, <1>10 DEF Rewire
  <2>3. \A x \in Procs : P[x] = peer[x] <=> x # c
    BY <1>1, <1>8, <1>p, <2>1
  <2>4. queue = [x \in Procs |-> queue[x]]
    BY DEF Queues
  <2>5. up' = [queue EXCEPT ![c] = <<>>]
    BY <2>2, <2>3, <2>4
  <2> QED BY <1>5, <1>10, <2>5 DEF Rewire
<1>12. Wired'
  <2>1. ASSUME NEW x \in AllProcs, NEW r \in SlotNames, sl[x][r] # NoChild
        PROVE  /\ sl[x][r].id \in Ids /\ TreeHas(tree, sl[x][r].id)
               /\ sl[x][r].pid = proc[sl[x][r].id] /\ sl[x][r].pid \in Procs
               /\ P[sl[x][r].pid] = x
               /\ x \in Procs => status[x] = "run"
    <3>1. sl[x][r] = slots[x][r] /\ ~(x = q /\ r = s)
      BY <1>6, <2>1
    <3>2. /\ slots[x][r].id \in Ids /\ TreeHas(tree, slots[x][r].id)
          /\ slots[x][r].pid = proc[slots[x][r].id] /\ slots[x][r].pid \in Procs
          /\ peer[slots[x][r].pid] = x
          /\ x \in Procs => status[x] = "run"
      BY <2>1, <3>1 DEF Wired
    <3>3. slots[x][r].pid # c
      BY <1>0, <1>7, <3>1, <3>2
    <3> QED BY <1>8, <3>1, <3>2, <3>3
  <2>2. ASSUME NEW x \in AllProcs, sl[x]["left"] = sl[x]["right"]
        PROVE  sl[x]["left"] = NoChild
    BY <1>6, <2>2, Pids DEF Wired
  <2>3. ASSUME NEW d \in Procs, P[d] # NoPeer
        PROVE  \E r \in SlotNames : sl[P[d]][r].pid = d
    <3>1. P[d] \in AllProcs
      BY <1>8, <2>3
    <3> QED BY <1>9, <3>1
  <2>4. proc[NoId] = Control
    BY DEF Wired
  <2> QED BY <1>11, <2>1, <2>2, <2>3, <2>4 DEF Wired, HasPeer
<1> QED BY <1>11, <1>12, <1>p

LEMMA WireEmpty ==
  ASSUME LinksOK, Books, BooksOK, Wired, NEW p \in Procs,
         NEW queue \in Queues(Reply),
         Rewire([slots EXCEPT ![p] = [s \in SlotNames |-> NoChild]], queue),
         UNCHANGED <<tree, proc>>, \A q \in Procs : q # p => status'[q] = status[q]
  PROVE  /\ Wired'
         /\ peer' = [c \in Procs |-> IF peer[c] = p THEN NoPeer ELSE peer[c]]
         /\ up' = [c \in Procs |-> IF peer[c] = p THEN <<>> ELSE queue[c]]
<1>1. slots \in Links /\ peer \in [Procs -> AllProcs \cup {NoPeer}]
  BY LinkFacts
<1>2. WireFacts
  BY WiresHold
<1>s. PICK sl : sl = [slots EXCEPT ![p] = [s \in SlotNames |-> NoChild]]
  OBVIOUS
<1>p. PICK P : P = [c \in Procs |-> IF peer[c] = p THEN NoPeer ELSE peer[c]]
  OBVIOUS
<1>3. \A x \in AllProcs, r \in SlotNames : sl[x][r] = IF x = p THEN NoChild ELSE slots[x][r]
  BY <1>1, <1>s, Pids DEF Links
<1>4. Rewire(sl, queue)
  BY <1>s
<1>5. P \in [Procs -> AllProcs \cup {NoPeer}] /\ \A d \in Procs : P[d] = IF peer[d] = p THEN NoPeer ELSE peer[d]
  BY <1>1, <1>p
<1>6. ASSUME NEW x \in AllProcs, NEW d \in Procs
      PROVE  (\E r \in SlotNames : sl[x][r].pid = d) <=> P[d] = x
  <2>1. (\E r \in SlotNames : slots[x][r].pid = d) <=> peer[d] = x
    BY <1>2 DEF WireFacts
  <2>2. x # NoPeer
    BY Pids
  <2> QED BY <1>3, <1>5, <2>1, <2>2, Pids
<1>7. PeersOf(sl) = P
  BY <1>1, <1>5, <1>6, PeersAre
<1>8. slots' = sl /\ peer' = P
  BY <1>4, <1>7 DEF Rewire
<1>9. up' = [c \in Procs |-> IF peer[c] = p THEN <<>> ELSE queue[c]]
  <2>1. up' = [c \in Procs |-> IF P[c] = peer[c] THEN queue[c] ELSE <<>>]
    BY <1>4, <1>7 DEF Rewire
  <2>2. \A c \in Procs : P[c] = peer[c] <=> peer[c] # p
    BY <1>5, Pids
  <2> QED BY <2>1, <2>2
<1>10. Wired'
  <2>1. ASSUME NEW x \in AllProcs, NEW r \in SlotNames, sl[x][r] # NoChild
        PROVE  /\ sl[x][r].id \in Ids /\ TreeHas(tree, sl[x][r].id)
               /\ sl[x][r].pid = proc[sl[x][r].id] /\ sl[x][r].pid \in Procs
               /\ P[sl[x][r].pid] = x
               /\ x \in Procs => status'[x] = "run"
    <3>1. sl[x][r] = slots[x][r] /\ x # p
      BY <1>3, <2>1
    <3>2. /\ slots[x][r].id \in Ids /\ TreeHas(tree, slots[x][r].id)
          /\ slots[x][r].pid = proc[slots[x][r].id] /\ slots[x][r].pid \in Procs
          /\ peer[slots[x][r].pid] = x
          /\ x \in Procs => status[x] = "run"
      BY <2>1, <3>1 DEF Wired
    <3> QED BY <1>5, <3>1, <3>2
  <2>2. ASSUME NEW x \in AllProcs, sl[x]["left"] = sl[x]["right"]
        PROVE  sl[x]["left"] = NoChild
    BY <1>3, <2>2, Pids DEF Wired
  <2>3. ASSUME NEW d \in Procs, P[d] # NoPeer
        PROVE  \E r \in SlotNames : sl[P[d]][r].pid = d
    <3>1. P[d] \in AllProcs
      BY <1>5, <2>3
    <3> QED BY <1>6, <3>1
  <2>4. proc[NoId] = Control
    BY DEF Wired
  <2> QED BY <1>8, <2>1, <2>2, <2>3, <2>4 DEF Wired, HasPeer
<1> QED BY <1>8, <1>9, <1>10, <1>p

\* A process with fewer than two children in the tree of connections has a slot.
LEMMA FreeSlot ==
  ASSUME LinksOK, Books, BooksOK, Wired, NEW q \in AllProcs, ~FullIn(Connections, IdOf(q))
  PROVE  \E s \in SlotNames : slots[q][s].id = NoId
<1> SUFFICES ASSUME \A s \in SlotNames : slots[q][s].id # NoId PROVE FALSE
  OBVIOUS
<1> DEFINE a == slots[q]["left"].id
           b == slots[q]["right"].id
<1>1. slots \in Links /\ WireFacts
  BY LinkFacts, WiresHold
<1>2. slots[q]["left"] # NoChild /\ slots[q]["right"] # NoChild
  BY Pids
<1>3. /\ a \in Ids /\ b \in Ids /\ HasChild(q, a) /\ HasChild(q, b)
      /\ slots[q]["left"].pid = proc[a] /\ slots[q]["right"].pid = proc[b]
  BY <1>2, Pids DEF Wired, HasChild
<1>4. a # b
  <2>1. slots[q]["left"] \in Slot /\ slots[q]["right"] \in Slot
    BY <1>1, SlotOf, Pids
  <2>2. a = b => slots[q]["left"] = slots[q]["right"]
    BY <1>3, <2>1 DEF Slot
  <2> QED BY <1>2, <2>2 DEF Wired
<1>5. ASSUME NEW i \in Ids, HasChild(q, i)
      PROVE  <<IdOf(q), i>> \in Connections
  <2>1. TreeHas(tree, i) /\ peer[proc[i]] = q
    BY <1>1, <1>5 DEF WireFacts
  <2>2. i \in Linked
    BY <2>1, Pids DEF Linked, HasPeer
  <2> QED BY <1>1, <2>1, <2>2 DEF WireFacts
<1>6. <<IdOf(q), a>> \in Connections /\ <<IdOf(q), b>> \in Connections
  BY <1>3, <1>5
<1> QED BY <1>3, <1>4, <1>6, Pids, SMTT(60) DEF FullIn

LEMMA ProcOf ==
  ASSUME Books
  PROVE  /\ \A id \in Ids : TreeHas(tree, id) => proc[id] \in Procs /\ node[proc[id]] = id
         /\ \A a, b \in Ids : TreeHas(tree, a) /\ TreeHas(tree, b) /\ proc[a] = proc[b] => a = b
BY DEF Books, Kept

\* The connections of the array when one socket, or all of a process, changes.
LEMMA EdgesConnect ==
  ASSUME LinksOK, Books, WireFacts, WireFacts', NEW q \in AllProcs, Alive(q),
         NEW id \in Ids, TreeHas(tree, id), peer' = [peer EXCEPT ![proc[id]] = q],
         ~HasPeer(proc[id]), UNCHANGED <<tree, proc, node>>
  PROVE  Connections' = Connections \cup {<<IdOf(q), id>>} /\ IsConnected(id)'
<1>1. peer \in [Procs -> AllProcs \cup {NoPeer}] /\ proc[id] \in Procs
  BY LinkFacts, ProcOf
<1>2. \A b \in Ids : TreeHas(tree, b) => peer'[proc[b]] = IF b = id THEN q ELSE peer[proc[b]]
  BY <1>1, ProcOf
<1>3. Linked' = Linked \cup {id}
  <2>1. q # NoPeer
    BY Pids
  <2> QED BY <1>2, <2>1 DEF Linked, HasPeer
<1>4. \A p : IdOf(p)' = IdOf(p)
  BY DEF IdOf
<1>5. Connections' = {<<IdOf(peer'[proc[b]]), b>> : b \in Linked'}
  BY <1>4 DEF WireFacts
<1>6. Connections = {<<IdOf(peer[proc[b]]), b>> : b \in Linked}
  BY DEF WireFacts
<1>7. id \notin Linked /\ \A b \in Linked : b \in Ids /\ TreeHas(tree, b) /\ b # id
  BY DEF Linked
<1>8. \A b \in Linked : peer'[proc[b]] = peer[proc[b]]
  BY <1>2, <1>7
<1>9. peer'[proc[id]] = q
  BY <1>2
<1>10. IsConnected(id)'
  BY <1>3 DEF WireFacts
<1> QED BY <1>3, <1>5, <1>6, <1>8, <1>9, <1>10

LEMMA EdgesClose ==
  ASSUME LinksOK, Books, WireFacts, WireFacts',
         NEW id \in Ids, TreeHas(tree, id), peer' = [peer EXCEPT ![proc[id]] = NoPeer],
         UNCHANGED <<tree, proc, node>>
  PROVE  Connections' = {e \in Connections : e[2] # id} /\ ~IsConnected(id)'
<1>1. peer \in [Procs -> AllProcs \cup {NoPeer}] /\ proc[id] \in Procs
  BY LinkFacts, ProcOf
<1>2. \A b \in Ids : TreeHas(tree, b) => peer'[proc[b]] = IF b = id THEN NoPeer ELSE peer[proc[b]]
  BY <1>1, ProcOf
<1>3. Linked' = Linked \ {id}
  BY <1>2 DEF Linked, HasPeer
<1>4. \A p : IdOf(p)' = IdOf(p)
  BY DEF IdOf
<1>5. Connections' = {<<IdOf(peer'[proc[b]]), b>> : b \in Linked'}
  BY <1>4 DEF WireFacts
<1>6. Connections = {<<IdOf(peer[proc[b]]), b>> : b \in Linked}
  BY DEF WireFacts
<1>7. \A b \in Linked' : peer'[proc[b]] = peer[proc[b]]
  BY <1>2, <1>3 DEF Linked
<1>8. ~IsConnected(id)'
  BY <1>3 DEF WireFacts
<1> QED BY <1>3, <1>5, <1>6, <1>7, <1>8

LEMMA EdgesEmpty ==
  ASSUME LinksOK, Books, WireFacts, WireFacts', NEW p \in Procs, Alive(p),
         peer' = [c \in Procs |-> IF peer[c] = p THEN NoPeer ELSE peer[c]],
         UNCHANGED <<tree, proc, node>>
  PROVE  Connections' = {e \in Connections : e[1] # node[p]}
<1>1. peer \in [Procs -> AllProcs \cup {NoPeer}]
  BY LinkFacts
<1>2. \A b \in Ids : TreeHas(tree, b) => peer'[proc[b]] = IF peer[proc[b]] = p THEN NoPeer ELSE peer[proc[b]]
  BY ProcOf
<1>3. Linked' = {b \in Linked : peer[proc[b]] # p}
  BY <1>2 DEF Linked, HasPeer
<1>4. \A q : IdOf(q)' = IdOf(q)
  BY DEF IdOf
<1>5. Connections' = {<<IdOf(peer'[proc[b]]), b>> : b \in Linked'}
  BY <1>4 DEF WireFacts
<1>6. Connections = {<<IdOf(peer[proc[b]]), b>> : b \in Linked}
  BY DEF WireFacts
<1>7. \A b \in Linked' : peer'[proc[b]] = peer[proc[b]]
  BY <1>2, <1>3 DEF Linked
<1>8. ASSUME NEW b \in Linked
      PROVE  IdOf(peer[proc[b]]) = node[p] <=> peer[proc[b]] = p
  <2>1. proc[b] \in Procs /\ HasPeer(proc[b])
    BY ProcOf DEF Linked
  <2>2. peer[proc[b]] \in AllProcs /\ Alive(peer[proc[b]])
    BY <2>1 DEF WireFacts
  <2>3. IdOf(p) = node[p] /\ p \in AllProcs
    BY Pids DEF IdOf
  <2>4. proc[IdOf(p)] = p /\ proc[IdOf(peer[proc[b]])] = peer[proc[b]]
    BY <2>2, <2>3 DEF WireFacts
  <2> QED BY <2>3, <2>4
<1> QED BY <1>3, <1>5, <1>6, <1>7, <1>8

-----------------------------------------------------------------------------
(* Broadcasts reach the nodes from above, in the order of their numbers.   *)

\* t[p] is the number of the last message p has taken.
Ordered(t) ==
  \A p \in Procs :
    /\ t[p] < nextUuid
    /\ \A i \in 1..Len(down[p]) : t[p] < down[p][i].uuid /\ down[p][i].uuid < nextUuid
    /\ \A i, j \in 1..Len(down[p]) : i < j => down[p][i].uuid < down[p][j].uuid
    /\ peer[p] \in Procs => /\ t[p] <= t[peer[p]]
                            /\ \A i \in 1..Len(down[p]) : down[p][i].uuid <= t[peer[p]]

\* p has not got this broadcast, nor one after it.
Behind(t, p, u) == t[p] < u /\ \A i \in 1..Len(down[p]) : down[p][i].uuid < u

\* What a step of p does to the messages: it takes the first one, and may pass it on.
Takes(p) ==
  /\ down[p] # <<>>
  /\ down'[p] = Tail(down[p]) \/ down'[p] = <<>>
  /\ \A c \in Procs : c # p =>
       down'[c] = down[c] \/ (peer[c] = p /\ down'[c] = Append(down[c], Taken(p)))

LEMMA Queue ==
  ASSUME down \in Queues(Message), NEW p \in Procs
  PROVE  /\ down[p] \in Seq(Message) /\ Len(down[p]) \in Nat
         /\ \A i \in 1..Len(down[p]) : down[p][i] \in Message /\ down[p][i].uuid \in Nat
<1>1. down[p] \in Seq(Message)
  BY DEF Queues
<1>2. Len(down[p]) \in Nat /\ \A i \in 1..Len(down[p]) : down[p][i] \in Message
  BY <1>1
<1>3. \A m \in Message : m.uuid \in Nat
  BY DEF Message
<1> QED BY <1>1, <1>2, <1>3

LEMMA TakenIs ==
  ASSUME down \in Queues(Message), NEW p \in Procs, down[p] # <<>>
  PROVE  /\ 1 \in 1..Len(down[p]) /\ Taken(p) = down[p][1] /\ Taken(p) \in Message
         /\ Taken(p).uuid \in Nat
         /\ Len(Tail(down[p])) = Len(down[p]) - 1
         /\ \A i \in 1..Len(Tail(down[p])) : i + 1 \in 1..Len(down[p]) /\ 1 < i + 1 /\ Tail(down[p])[i] = down[p][i + 1]
<1>1. down[p] \in Seq(Message)
  BY Queue
<1>2. /\ Head(down[p]) \in Message /\ Head(down[p]) = down[p][1] /\ 1 \in 1..Len(down[p])
      /\ Len(Tail(down[p])) = Len(down[p]) - 1
      /\ \A i \in 1..Len(Tail(down[p])) : i + 1 \in 1..Len(down[p]) /\ Tail(down[p])[i] = down[p][i + 1]
  BY <1>1, TailIs
<1>3. \A m \in Message : m.uuid \in Nat
  BY DEF Message
<1>4. \A i \in 1..Len(Tail(down[p])) : 1 < i + 1
  OBVIOUS
<1> QED BY <1>2, <1>3, <1>4 DEF Taken

LEMMA OrderedTake ==
  ASSUME LinksOK, BooksOK, NEW t \in [Procs -> Nat], Ordered(t), NEW p \in Procs, Takes(p),
         \A c \in Procs : \/ peer'[c] = peer[c] \/ peer'[c] = NoPeer
                          \/ peer'[c] = p /\ Behind(t, c, Taken(p).uuid),
         nextUuid' = nextUuid,
         NEW t2, t2 = [t EXCEPT ![p] = Taken(p).uuid]
  PROVE  /\ Ordered(t2)' /\ t2 \in [Procs -> Nat] /\ t[p] < Taken(p).uuid
         /\ \A c \in Procs : t2[c] = (IF c = p THEN Taken(p).uuid ELSE t[c]) /\ t[c] <= t2[c]
<1> DEFINE m == Taken(p)
<1>1. /\ down \in Queues(Message) /\ nextUuid \in Nat
  BY LinkFacts DEF BooksOK
<1>2. /\ 1 \in 1..Len(down[p]) /\ m = down[p][1] /\ m \in Message /\ m.uuid \in Nat
      /\ Len(Tail(down[p])) = Len(down[p]) - 1
      /\ \A i \in 1..Len(Tail(down[p])) : i + 1 \in 1..Len(down[p]) /\ 1 < i + 1 /\ Tail(down[p])[i] = down[p][i + 1]
  BY <1>1, TakenIs DEF Takes
<1> HIDE DEF m
<1>3. t2 = [t EXCEPT ![p] = m.uuid]
  BY DEF m
<1>4. t[p] < m.uuid /\ m.uuid < nextUuid
  BY <1>2 DEF Ordered
<1>5. t2 \in [Procs -> Nat]
  BY <1>2, <1>3
<1>6. \A c \in Procs : t2[c] \in Nat /\ t[c] \in Nat /\ t2[c] = (IF c = p THEN m.uuid ELSE t[c]) /\ t[c] <= t2[c]
  <2>1. \A c \in Procs : t2[c] \in Nat /\ t[c] \in Nat /\ t2[c] = (IF c = p THEN m.uuid ELSE t[c])
    BY <1>2, <1>3
  <2> QED BY <1>2, <1>4, <2>1
<1>7. peer[p] \in Procs => m.uuid <= t[peer[p]] /\ peer[p] # p
  BY <1>2, <1>4, <1>6 DEF Ordered
<1>8. ASSUME NEW c \in Procs
      PROVE  /\ t2[c] < nextUuid
             /\ \A i \in 1..Len(down'[c]) : t2[c] < down'[c][i].uuid /\ down'[c][i].uuid < nextUuid
             /\ \A i, j \in 1..Len(down'[c]) : i < j => down'[c][i].uuid < down'[c][j].uuid
             /\ peer'[c] \in Procs =>
                  /\ t2[c] <= t2[peer'[c]]
                  /\ \A i \in 1..Len(down'[c]) : down'[c][i].uuid <= t2[peer'[c]]
  <2>1. /\ t[c] < nextUuid
        /\ \A i \in 1..Len(down[c]) : t[c] < down[c][i].uuid /\ down[c][i].uuid < nextUuid
        /\ \A i, j \in 1..Len(down[c]) : i < j => down[c][i].uuid < down[c][j].uuid
        /\ peer[c] \in Procs => /\ t[c] <= t[peer[c]]
                                /\ \A i \in 1..Len(down[c]) : down[c][i].uuid <= t[peer[c]]
    BY DEF Ordered
  <2>2. /\ down[c] \in Seq(Message) /\ Len(down[c]) \in Nat
        /\ \A i \in 1..Len(down[c]) : down[c][i].uuid \in Nat
    BY <1>1, Queue
  <2>3. \/ peer'[c] = peer[c] \/ peer'[c] = NoPeer
        \/ peer'[c] = p /\ t[c] < m.uuid /\ \A i \in 1..Len(down[c]) : down[c][i].uuid < m.uuid
    BY DEF Behind, m
  <2>4. NoPeer \notin Procs
    BY Pids
  <2>5. CASE c = p
    <3>1. t2[c] = m.uuid
      BY <1>6, <2>5
    <3>2. peer'[c] # p
      BY <1>2, <1>4, <1>7, <2>3, <2>4, <2>5
    <3>3. peer'[c] \in Procs => peer'[c] = peer[c] /\ t2[peer'[c]] = t[peer[c]] /\ m.uuid <= t[peer[c]]
      BY <1>6, <1>7, <2>3, <2>4, <2>5, <3>2
    <3>4. CASE down'[c] = <<>>
      BY <1>4, <3>1, <3>3, <3>4
    <3>5. CASE down'[c] = Tail(down[p])
      <4>1. \A i \in 1..Len(down'[c]) : i \in Nat /\ i + 1 \in 1..Len(down[c]) /\ 1 < i + 1 /\ down'[c][i] = down[c][i + 1]
        BY <1>2, <2>5, <3>5
      <4>2. \A i \in 1..Len(down'[c]) : m.uuid < down'[c][i].uuid /\ down'[c][i].uuid < nextUuid
        BY <1>2, <2>1, <2>5, <4>1, ZenonT(60)
      <4>3. \A i, j \in 1..Len(down'[c]) : i < j => down'[c][i].uuid < down'[c][j].uuid
        <5>1. \A i, j \in 1..Len(down'[c]) : i < j => i + 1 < j + 1
          BY <4>1
        <5> QED BY <2>1, <4>1, <5>1
      <4>4. peer'[c] \in Procs => \A i \in 1..Len(down'[c]) : down'[c][i].uuid <= t[peer[c]]
        BY <2>1, <3>3, <4>1
      <4> QED BY <1>4, <3>1, <3>3, <4>2, <4>3, <4>4
    <3> QED BY <2>5, <3>4, <3>5 DEF Takes
  <2>6. CASE c # p
    <3>1. t2[c] = t[c] /\ t2[p] = m.uuid
      BY <1>6, <2>6
    <3>2. peer[c] = p => t[c] < m.uuid /\ \A i \in 1..Len(down[c]) : down[c][i].uuid < m.uuid
      BY <1>2, <1>4, <1>6, <2>1, <2>2, SMTT(60)
    <3>3. /\ peer'[c] \in Procs => t[c] <= t2[peer'[c]]
          /\ peer'[c] \in Procs => \A i \in 1..Len(down[c]) : down[c][i].uuid <= t2[peer'[c]]
      <4>1. CASE peer'[c] = p
        BY <1>2, <1>6, <2>1, <2>2, <2>3, <2>4, <3>1, <3>2, <4>1, SMTT(60)
      <4>2. CASE peer'[c] # p
        <5>1. peer'[c] \in Procs => peer'[c] = peer[c] /\ t2[peer[c]] = t[peer[c]]
          BY <1>6, <2>3, <2>4, <4>2
        <5> QED BY <2>1, <5>1
      <4> QED BY <4>1, <4>2
    <3>4. CASE down'[c] = down[c]
      BY <2>1, <3>1, <3>3, <3>4
    <3>5. CASE peer[c] = p /\ down'[c] = Append(down[c], m)
      <4>1. /\ Len(down'[c]) = Len(down[c]) + 1 /\ down'[c][Len(down[c]) + 1] = m
            /\ \A i \in 1..Len(down[c]) : down'[c][i] = down[c][i]
        BY <1>2, <2>2, <3>5, AppendIs
      <4>2. \A i \in 1..Len(down'[c]) : i \in 1..Len(down[c]) \/ i = Len(down[c]) + 1
        BY <2>2, <4>1
      <4>3. peer'[c] \in Procs => m.uuid <= t2[peer'[c]]
        <5>1. peer'[c] = p \/ peer'[c] = NoPeer
          BY <2>3, <3>5
        <5> QED BY <1>2, <2>4, <3>1, <5>1
      <4>4. \A i \in 1..Len(down'[c]) : t2[c] < down'[c][i].uuid /\ down'[c][i].uuid < nextUuid
        BY <1>4, <2>1, <3>1, <3>2, <3>5, <4>1, <4>2
      <4>5. \A i, j \in 1..Len(down'[c]) : i < j => down'[c][i].uuid < down'[c][j].uuid
        <5>1. ASSUME NEW i \in 1..Len(down'[c]), NEW j \in 1..Len(down'[c]), i < j
              PROVE  down'[c][i].uuid < down'[c][j].uuid
          <6>1. i \in 1..Len(down[c])
            BY <2>2, <4>1, <5>1
          <6> QED BY <2>1, <3>2, <3>5, <4>1, <4>2, <5>1, <6>1
        <5> QED BY <5>1
      <4>6. peer'[c] \in Procs => \A i \in 1..Len(down'[c]) : down'[c][i].uuid <= t2[peer'[c]]
        BY <3>3, <4>1, <4>2, <4>3
      <4> QED BY <2>1, <3>1, <3>3, <4>4, <4>5, <4>6
    <3> QED BY <2>6, <3>4, <3>5 DEF Takes, m
  <2> QED BY <2>5, <2>6
<1>9. Ordered(t2)'
  BY <1>8 DEF Ordered
<1> QED BY <1>4, <1>5, <1>6, <1>9 DEF m

\* A broadcast of the control node, to the processes it is connected to.
LEMMA OrderedBroadcast ==
  ASSUME LinksOK, BooksOK, NEW t \in [Procs -> Nat], Ordered(t),
         NEW m \in Message, m.uuid = nextUuid, nextUuid' = nextUuid + 1,
         peer' = peer, down' = Pushed(down, Control, m)
  PROVE  Ordered(t)'
<1>1. /\ down \in Queues(Message) /\ nextUuid \in Nat /\ Control \notin Procs
  BY LinkFacts, Pids DEF BooksOK
<1>2. ASSUME NEW c \in Procs
      PROVE  /\ t[c] < nextUuid + 1
             /\ \A i \in 1..Len(down'[c]) : t[c] < down'[c][i].uuid /\ down'[c][i].uuid < nextUuid + 1
             /\ \A i, j \in 1..Len(down'[c]) : i < j => down'[c][i].uuid < down'[c][j].uuid
             /\ peer[c] \in Procs =>
                  /\ t[c] <= t[peer[c]]
                  /\ \A i \in 1..Len(down'[c]) : down'[c][i].uuid <= t[peer[c]]
  <2>1. /\ t[c] < nextUuid
        /\ \A i \in 1..Len(down[c]) : t[c] < down[c][i].uuid /\ down[c][i].uuid < nextUuid
        /\ \A i, j \in 1..Len(down[c]) : i < j => down[c][i].uuid < down[c][j].uuid
        /\ peer[c] \in Procs => /\ t[c] <= t[peer[c]]
                                /\ \A i \in 1..Len(down[c]) : down[c][i].uuid <= t[peer[c]]
    BY DEF Ordered
  <2>2. /\ down[c] \in Seq(Message) /\ Len(down[c]) \in Nat /\ t[c] \in Nat
        /\ \A i \in 1..Len(down[c]) : down[c][i].uuid \in Nat
    BY <1>1, Queue
  <2>3. down'[c] = down[c] \/ (peer[c] = Control /\ down'[c] = Append(down[c], m))
    BY DEF Pushed
  <2>4. CASE down'[c] = down[c]
    BY <1>1, <2>1, <2>2, <2>4
  <2>5. CASE peer[c] = Control /\ down'[c] = Append(down[c], m)
    <3>1. /\ Len(down'[c]) = Len(down[c]) + 1 /\ down'[c][Len(down[c]) + 1] = m
          /\ \A i \in 1..Len(down[c]) : down'[c][i] = down[c][i]
      BY <2>2, <2>5, AppendIs
    <3>2. \A i \in 1..Len(down'[c]) : i \in 1..Len(down[c]) \/ i = Len(down[c]) + 1
      BY <2>2, <3>1
    <3>3. \A i \in 1..Len(down'[c]) : t[c] < down'[c][i].uuid /\ down'[c][i].uuid < nextUuid + 1
      <4>1. \A i \in 1..Len(down[c]) : t[c] < down'[c][i].uuid /\ down'[c][i].uuid < nextUuid + 1
        <5>1. \A i \in 1..Len(down[c]) : down[c][i].uuid < nextUuid + 1
          BY <1>1, <2>1, <2>2
        <5> QED BY <2>1, <3>1, <5>1
      <4>2. t[c] < m.uuid /\ m.uuid < nextUuid + 1
        BY <1>1, <2>1
      <4> QED BY <3>1, <3>2, <4>1, <4>2
    <3>4. \A i, j \in 1..Len(down'[c]) : i < j => down'[c][i].uuid < down'[c][j].uuid
      <4>1. ASSUME NEW i \in 1..Len(down'[c]), NEW j \in 1..Len(down'[c]), i < j
            PROVE  down'[c][i].uuid < down'[c][j].uuid
        <5>1. i \in 1..Len(down[c])
          BY <2>2, <3>1, <4>1
        <5> QED BY <2>1, <3>1, <3>2, <4>1, <5>1
      <4> QED BY <4>1
    <3> QED BY <1>1, <2>1, <2>2, <2>5, <3>3, <3>4, SMTT(60)
  <2> QED BY <2>3, <2>4, <2>5
<1> QED BY <1>2 DEF Ordered

\* Connections that end, or begin at the control node, and messages dropped.
LEMMA OrderedRewire ==
  ASSUME NEW t \in [Procs -> Nat], Ordered(t), nextUuid' = nextUuid,
         \A c \in Procs : down'[c] = down[c] \/ down'[c] = <<>>,
         \A c \in Procs : peer'[c] = peer[c] \/ peer'[c] = NoPeer \/ peer'[c] = Control
  PROVE  Ordered(t)'
<1>1. ASSUME NEW c \in Procs
      PROVE  /\ t[c] < nextUuid
             /\ \A i \in 1..Len(down'[c]) : t[c] < down'[c][i].uuid /\ down'[c][i].uuid < nextUuid
             /\ \A i, j \in 1..Len(down'[c]) : i < j => down'[c][i].uuid < down'[c][j].uuid
             /\ peer'[c] \in Procs =>
                  /\ t[c] <= t[peer'[c]]
                  /\ \A i \in 1..Len(down'[c]) : down'[c][i].uuid <= t[peer'[c]]
  <2>1. peer'[c] \in Procs => peer'[c] = peer[c]
    BY Pids
  <2>2. CASE down'[c] = down[c]
    BY <2>1, <2>2 DEF Ordered
  <2>3. CASE down'[c] = <<>>
    BY <2>1, <2>3 DEF Ordered
  <2> QED BY <2>2, <2>3
<1> QED BY <1>1 DEF Ordered

-----------------------------------------------------------------------------
(* One creation or one chain at a time.                                    *)

\* The broadcasts of creations and removals that are awaited, the command that
\* is under way, and the process it is for.
Top == {e \in outstanding : e.cmd # "exec"}

Want ==
  IF rmlist # <<>> THEN Current(rmlist[1])
  ELSE [cmd |-> "create", id |-> TreeLast(tree), parent |-> TreeLastParent(tree), pid |-> proc[TreeLast(tree)]]

Owner == proc[Addressee(tree, Want)]

Done(c) == IF c.cmd = "create" THEN IsConnected(c.id) ELSE HasEffect(c)

ChainOf(x) == [k \in 1..Len(RemoveCommands(tree, x)) |-> Addressed(RemoveCommands(tree, x)[k])]

Target == IF rcv.at = "wait" THEN rcv.rec.target ELSE rmlist[1].target

Effected == IF rcv.at = "wait" THEN rcv.rec.now
            ELSE rmlist[1].now + (IF HasEffect(Want) THEN 1 ELSE 0)

\* The connections are those of the array, or those of the chain so far.
Shape ==
  /\ ~Removing => /\ \A id \in Ids : TreeHas(tree, id) => status[proc[id]] = "run"
                  /\ Connections = IF Creating THEN Cut(tree) ELSE TreeEdges(tree)
  /\ Removing =>
       /\ Target \in Ids /\ TreeHas(tree, Target)
       /\ Connections = ChainEdges(tree, Target, Effected)
       /\ \A id \in Ids : TreeHas(tree, id) =>
            (status[proc[id]] = "run" <=> id # Target \/ Effected < Place(tree, Target))
       /\ rcv.at = "wait" => Effected = Len(RemoveCommands(tree, Target))
       /\ rcv.at # "wait" => rmlist[1].cmds = ChainOf(Target)

Resting == main = MainIdle /\ rcv = RcvIdle

Idle == Resting /\ rmlist = <<>> /\ Top = {} /\ ~Creating

Forking == /\ main = [MainIdle EXCEPT !.at = "create",
                                      !.c = [cmd |-> "create", id |-> TreeLast(tree),
                                             parent |-> NoId, pid |-> proc[TreeLast(tree)]]]
           /\ rcv = RcvIdle /\ rmlist = <<>> /\ Top = {} /\ Creating

CreateSent == Resting /\ rmlist = <<>> /\ Top # {} /\ Len(tree) > 1

RemoveReady ==
  /\ Len(rmlist) = 1 /\ Top = {} /\ ~HasEffect(Want)
  /\ \/ /\ main = [MainIdle EXCEPT !.at = "remove", !.c = Want]
        /\ rcv = RcvIdle /\ rmlist[1].now = 0
     \/ main = MainIdle /\ rcv = [at |-> "push", rec |-> rmlist[1]]

RemoveSent == Resting /\ Len(rmlist) = 1 /\ Top # {}

WaitNow == main = MainIdle /\ rcv.at = "wait" /\ rmlist = <<>> /\ Top = {}

Stage == Idle \/ Forking \/ CreateSent \/ RemoveReady \/ RemoveSent \/ WaitNow

\* What the command under way is, from the array alone.
WantFacts ==
  /\ Want.cmd \in {"create", "ping", "remove", "connect", "disconnect"}
  /\ Want.cmd = "create" <=> rmlist = <<>>
  /\ Want.id \in Ids /\ TreeHas(tree, Want.id) /\ Want.pid = proc[Want.id]
  /\ Addressee(tree, Want) \in AnyId /\ TreeHas(tree, Addressee(tree, Want))
  /\ Want.cmd = "remove" => Want.id = Target
  /\ Want.cmd = "connect" => Want.id # Target

LEMMA CreateNow ==
  ASSUME WellFormed(tree), rmlist = <<>>, Len(tree) > 1
  PROVE  WantFacts
<1>1. /\ Want.cmd = "create" /\ Want.id = TreeLast(tree) /\ Want.parent = TreeLastParent(tree)
      /\ Want.pid = proc[TreeLast(tree)]
  BY DEF Want
<1>2. /\ TreeLast(tree) \in Ids /\ TreeHas(tree, TreeLast(tree))
      /\ TreeLastParent(tree) \in AnyId /\ TreeHas(tree, TreeLastParent(tree))
  BY CutFacts
<1>3. Addressee(tree, Want) = TreeLastParent(tree)
  BY <1>1 DEF Addressee
<1> QED BY <1>1, <1>2, <1>3 DEF WantFacts

\* The current command of the only chain.
LEMMA ChainNow ==
  ASSUME Books, BooksOK, Len(rmlist) = 1, rcv.at # "wait", Target \in Ids, TreeHas(tree, Target),
         rmlist[1].cmds = ChainOf(Target)
  PROVE  LET k == rmlist[1].now
             c == RemoveCommands(tree, Target)[k + 1]
         IN  /\ Target = rmlist[1].target /\ k \in Nat /\ k < Len(RemoveCommands(tree, Target))
             /\ Want = [cmd |-> c.cmd, id |-> c.id, parent |-> c.parent, pid |-> proc[c.id]]
             /\ Addressee(tree, Want) = Addressee(tree, c)
             /\ NextCommand(tree, Target, k, c, ChainEdges(tree, Target, k))
<1> DEFINE k == rmlist[1].now
           cs == RemoveCommands(tree, Target)
           c == cs[k + 1]
<1>1. rmlist \in Seq(Rec) /\ rmlist # <<>> /\ 1 \in 1..Len(rmlist) /\ WellFormed(tree)
  <2>1. rmlist \in Seq(Rec) /\ WellFormed(tree)
    BY DEF BooksOK, Books
  <2>2. rmlist # <<>>
    OBVIOUS
  <2>3. 1 \in 1..Len(rmlist)
    OBVIOUS
  <2> QED BY <2>1, <2>2, <2>3
<1>2. rmlist[1] \in Rec /\ Unfinished(rmlist[1])
  BY <1>1 DEF Books, Chains
<1>3. k \in Nat /\ k < Len(rmlist[1].cmds)
  BY <1>2 DEF Unfinished, Rec
<1>4. Len(cs) \in Nat
  BY <1>1, PlanOf
<1>5. Len(rmlist[1].cmds) = Len(cs) /\ \A j \in 1..Len(cs) : rmlist[1].cmds[j] = Addressed(cs[j])
  BY <1>4 DEF ChainOf
<1>6. k + 1 \in 1..Len(cs)
  BY <1>3, <1>4, <1>5
<1>7. Want = Addressed(c)
  BY <1>1, <1>5, <1>6 DEF Want, Current
<1>8. NextCommand(tree, Target, k, c, ChainEdges(tree, Target, k))
  BY <1>1, <1>3, <1>5, PlanNext
<1>9. Addressee(tree, Want) = Addressee(tree, c)
  BY <1>7 DEF Addressed, Addressee
<1>10. Target = rmlist[1].target
  BY DEF Target
<1> QED BY <1>3, <1>5, <1>7, <1>8, <1>9, <1>10 DEF Addressed

LEMMA WantIs ==
  ASSUME Books, BooksOK, Shape, rcv.at # "wait",
         Len(rmlist) = 1 \/ (rmlist = <<>> /\ Len(tree) > 1)
  PROVE  WantFacts
<1>1. WellFormed(tree)
  BY DEF Books
<1>2. CASE rmlist = <<>> /\ Len(tree) > 1
  BY <1>1, <1>2, CreateNow
<1>3. CASE Len(rmlist) = 1
  <2>1. rmlist # <<>> /\ Removing
    BY <1>3 DEF Removing
  <2>2. Target \in Ids /\ TreeHas(tree, Target) /\ rmlist[1].cmds = ChainOf(Target)
    BY <2>1 DEF Shape
  <2> DEFINE k == rmlist[1].now
             c == RemoveCommands(tree, Target)[k + 1]
  <2>3. /\ Want = [cmd |-> c.cmd, id |-> c.id, parent |-> c.parent, pid |-> proc[c.id]]
        /\ Addressee(tree, Want) = Addressee(tree, c)
        /\ NextCommand(tree, Target, k, c, ChainEdges(tree, Target, k))
    BY <1>3, <2>2, ChainNow
  <2>4. Want.cmd = c.cmd /\ Want.id = c.id /\ Want.pid = proc[c.id]
    BY <2>3
  <2> HIDE DEF c, k
  <2> QED BY <2>1, <2>3, <2>4 DEF NextCommand, WantFacts
<1> QED BY <1>2, <1>3

\* Before the command has its effect it finds the connections it was planned for.
Ready ==
  /\ Addressee(tree, Want) = NoId \/ Rooted(Connections, Addressee(tree, Want))
  /\ Want.cmd \in {"create", "connect"} =>
       /\ ~IsConnected(Want.id) /\ ~FullIn(Connections, Want.parent)
       /\ status[proc[Want.id]] = "run"
  /\ Want.cmd = "disconnect" => peer[proc[Want.id]] = Owner
  /\ Want.cmd = "remove" => status[proc[Want.id]] = "run"

LEMMA WantReady ==
  ASSUME Books, BooksOK, WireFacts, Shape, ~Stopping, rcv.at # "wait", ~Done(Want),
         Len(rmlist) = 1 \/ (rmlist = <<>> /\ Len(tree) > 1)
  PROVE  /\ Ready
         /\ rmlist = <<>> => Creating /\ Connections = Cut(tree)
         /\ rmlist # <<>> => /\ Effected = rmlist[1].now
                             /\ Connections = ChainEdges(tree, Target, rmlist[1].now)
                             /\ Addressee(tree, Want) = NoId => rmlist[1].now # 0
<1>1. WellFormed(tree) /\ WantFacts
  BY WantIs DEF Books
<1>2. CASE rmlist = <<>> /\ Len(tree) > 1
  <2>1. /\ Want.cmd = "create" /\ Want.id = TreeLast(tree) /\ Want.parent = TreeLastParent(tree)
    BY <1>2 DEF Want
  <2>2. ~IsConnected(Want.id) /\ Creating /\ ~Removing
    BY <1>2, <2>1 DEF Done, Creating, Removing
  <2>3. Connections = Cut(tree) /\ status[proc[Want.id]] = "run"
    BY <1>1, <2>2 DEF Shape, WantFacts
  <2>4. Addressee(tree, Want) = TreeLastParent(tree)
    BY <2>1 DEF Addressee
  <2>5. /\ TreeLastParent(tree) = NoId \/ Rooted(Cut(tree), TreeLastParent(tree))
        /\ ~FullIn(Cut(tree), TreeLastParent(tree))
    BY <1>1, <1>2, CutFacts
  <2> QED BY <1>2, <2>1, <2>2, <2>3, <2>4, <2>5 DEF Ready
<1>3. CASE Len(rmlist) = 1
  <2>1. rmlist # <<>> /\ Removing
    BY <1>3 DEF Removing
  <2>2. /\ Target \in Ids /\ TreeHas(tree, Target) /\ rmlist[1].cmds = ChainOf(Target)
        /\ Connections = ChainEdges(tree, Target, Effected)
        /\ \A id \in Ids : TreeHas(tree, id) =>
             (status[proc[id]] = "run" <=> id # Target \/ Effected < Place(tree, Target))
    BY <2>1 DEF Shape
  <2> DEFINE k == rmlist[1].now
             c == RemoveCommands(tree, Target)[k + 1]
  <2>3. /\ Want = [cmd |-> c.cmd, id |-> c.id, parent |-> c.parent, pid |-> proc[c.id]]
        /\ Addressee(tree, Want) = Addressee(tree, c)
        /\ NextCommand(tree, Target, k, c, ChainEdges(tree, Target, k))
        /\ k \in Nat /\ k < Len(RemoveCommands(tree, Target))
    BY <1>3, <2>2, ChainNow
  <2>4. Want.cmd = c.cmd /\ Want.id = c.id /\ Want.parent = c.parent
    BY <2>3
  <2>5. ~HasEffect(Want)
    BY <1>1, <2>1 DEF WantFacts, Done
  <2>6. Effected = k
    BY <2>3, <2>5 DEF Effected
  <2>7. c.cmd = "connect" => ~FullIn(ChainEdges(tree, Target, k), c.parent)
    BY <1>1, <2>2, <2>3, PlanStep
  <2> HIDE DEF c, k
  <2>8. Connections = ChainEdges(tree, Target, k)
    BY <2>2, <2>6
  <2>9. Addressee(tree, Want) = NoId \/ Rooted(Connections, Addressee(tree, Want))
    BY <2>3, <2>8 DEF NextCommand
  <2>10. Want.cmd \in {"create", "connect"} =>
           /\ ~IsConnected(Want.id) /\ ~FullIn(Connections, Want.parent)
           /\ status[proc[Want.id]] = "run"
    <3>1. Want.cmd # "create"
      BY <1>1, <2>1 DEF WantFacts
    <3>2. Want.cmd = "connect" => ~IsConnected(Want.id)
      BY <2>5 DEF HasEffect
    <3>3. Want.cmd = "connect" => status[proc[Want.id]] = "run"
      BY <1>1, <2>2 DEF WantFacts
    <3> QED BY <2>4, <2>7, <2>8, <3>1, <3>2, <3>3
  <2>11. Want.cmd = "disconnect" => peer[proc[Want.id]] = Owner
    <3> SUFFICES ASSUME Want.cmd = "disconnect" PROVE peer[proc[Want.id]] = Owner
      OBVIOUS
    <3>1. <<Addressee(tree, Want), Want.id>> \in Connections
      BY <2>3, <2>4, <2>8 DEF NextCommand
    <3>2. PICK b \in Linked : <<Addressee(tree, Want), Want.id>> = <<IdOf(peer[proc[b]]), b>>
      BY <3>1 DEF WireFacts
    <3>3. b = Want.id /\ Addressee(tree, Want) = IdOf(peer[proc[b]])
      BY <3>2
    <3>4. proc[b] \in Procs /\ HasPeer(proc[b])
      BY ProcOf DEF Linked
    <3>5. peer[proc[b]] \in AllProcs /\ Alive(peer[proc[b]])
      BY <3>4 DEF WireFacts
    <3>6. proc[IdOf(peer[proc[b]])] = peer[proc[b]]
      BY <3>5 DEF WireFacts
    <3> QED BY <3>3, <3>6 DEF Owner
  <2>12. Want.cmd = "remove" => status[proc[Want.id]] = "run"
    <3>1. Want.cmd = "remove" => k + 1 = Place(tree, Target)
      BY <2>3, <2>4 DEF NextCommand
    <3>2. k < k + 1
      BY <2>3 DEF k
    <3> QED BY <1>1, <2>2, <2>6, <3>1, <3>2 DEF WantFacts
  <2>13. Addressee(tree, Want) = NoId => k # 0
    BY <2>3 DEF NextCommand
  <2> QED BY <2>1, <2>6, <2>8, <2>9, <2>10, <2>11, <2>12, <2>13 DEF Ready, k
<1> QED BY <1>2, <1>3

-----------------------------------------------------------------------------
(* "Not found" answers under way.                                          *)

\* The answers "not found" to the broadcast u that the control node has not
\* read, by process and place.
NotFounds(u) ==
  {z \in Procs \X Nat : /\ z[2] \in 1..Len(up[z[1]])
                        /\ up[z[1]][z[2]].uuid = u
                        /\ up[z[1]][z[2]].code = "NOT_FOUND"}

LEMMA ProcsFinite == IsFiniteSet(Procs) /\ MaxPid \in Nat
BY MaxPidAssumption, FS_Interval DEF Procs

LEMMA NotFoundsFinite ==
  ASSUME up \in Queues(Reply), NEW u
  PROVE  IsFiniteSet(NotFounds(u)) /\ Cardinality(NotFounds(u)) \in Nat
<1> DEFINE Row == [c \in Procs |-> {<<c, i>> : i \in 1..Len(up[c])}]
           Rows == {Row[c] : c \in Procs}
<1>1. ASSUME NEW c \in Procs
      PROVE  IsFiniteSet(Row[c])
  <2> DEFINE n == Len(up[c])
             g == [i \in 1..n |-> <<c, i>>]
             R == {<<c, i>> : i \in 1..n}
  <2>1. n \in Nat
    BY DEF Queues
  <2> HIDE DEF n
  <2>2. IsFiniteSet(1..n)
    BY <2>1, FS_Interval
  <2>3. g \in Surjection(1..n, R)
    BY DEF Surjection
  <2>4. IsFiniteSet(R)
    BY <2>2, <2>3, FS_Surjection
  <2> QED BY <2>4 DEF n
<1>2. Row \in Surjection(Procs, Rows)
  <2> HIDE DEF Row
  <2>1. Row = [c \in Procs |-> Row[c]]
    BY DEF Row
  <2> QED BY <2>1 DEF Surjection
<1>3. IsFiniteSet(Rows)
  <2> HIDE DEF Row, Rows
  <2> QED BY <1>2, ProcsFinite, FS_Surjection
<1>4. IsFiniteSet(UNION Rows)
  <2>1. \A T \in Rows : IsFiniteSet(T)
    BY <1>1
  <2> HIDE DEF Rows
  <2> QED BY <1>3, <2>1, FS_UNION
<1>5. NotFounds(u) \subseteq UNION Rows
  <2> SUFFICES ASSUME NEW z \in NotFounds(u) PROVE z \in UNION Rows
    OBVIOUS
  <2>1. z \in Procs \X Nat /\ z[1] \in Procs /\ z = <<z[1], z[2]>> /\ z[2] \in 1..Len(up[z[1]])
    BY DEF NotFounds
  <2>2. z \in Row[z[1]] /\ Row[z[1]] \in Rows
    BY <2>1
  <2> QED BY <2>2
<1> HIDE DEF Rows
<1> QED BY <1>4, <1>5, FS_Subset, FS_CardinalityType

LEMMA Fewer ==
  ASSUME NEW S, NEW T, IsFiniteSet(T), NEW f \in [S -> T], \A a, b \in S : f[a] = f[b] => a = b
  PROVE  IsFiniteSet(S) /\ Cardinality(S) <= Cardinality(T)
<1>1. f \in Injection(S, T)
  BY DEF Injection, IsInjective
<1> QED BY <1>1, FS_Injection

\* Answers are dropped, and p may write one.
LEMMA NotFoundsWritten ==
  ASSUME up \in Queues(Reply), up' \in Queues(Reply), NEW p \in Procs, NEW u,
         \A c \in Procs : \/ up'[c] = up[c] \/ up'[c] = <<>>
                          \/ c = p /\ \E a \in Reply : up'[c] = Append(up[c], a)
                                        /\ (a.uuid = u => a.code # "NOT_FOUND")
  PROVE  Cardinality(NotFounds(u)') <= Cardinality(NotFounds(u))
<1>1. NotFounds(u)' \subseteq NotFounds(u)
  <2> SUFFICES ASSUME NEW c \in Procs, NEW i \in Nat, i \in 1..Len(up'[c]),
                      up'[c][i].uuid = u, up'[c][i].code = "NOT_FOUND"
               PROVE  i \in 1..Len(up[c]) /\ up[c][i] = up'[c][i]
    BY DEF NotFounds
  <2>1. CASE up'[c] = up[c]
    BY <2>1
  <2>2. CASE up'[c] = <<>>
    BY <2>2
  <2>3. ASSUME NEW a \in Reply, up'[c] = Append(up[c], a), a.uuid = u => a.code # "NOT_FOUND"
        PROVE  i \in 1..Len(up[c]) /\ up[c][i] = up'[c][i]
    <3>1. up[c] \in Seq(Reply)
      BY DEF Queues
    <3>2. /\ Len(up'[c]) = Len(up[c]) + 1 /\ up'[c][Len(up[c]) + 1] = a /\ Len(up[c]) \in Nat
          /\ \A j \in 1..Len(up[c]) : up'[c][j] = up[c][j]
      BY <2>3, <3>1, AppendIs
    <3>3. i # Len(up[c]) + 1
      BY <2>3, <3>2
    <3> QED BY <3>2, <3>3
  <2> QED BY <2>1, <2>2, <2>3
<1> QED BY <1>1, NotFoundsFinite, FS_Subset

LEMMA NotFoundsAdded ==
  ASSUME up \in Queues(Reply), NEW p \in Procs, NEW u, NEW a \in Reply,
         up' = [up EXCEPT ![p] = Append(@, a)]
  PROVE  Cardinality(NotFounds(u)') <= Cardinality(NotFounds(u)) + 1
<1> DEFINE z == <<p, Len(up[p]) + 1>>
<1>1. /\ \A c \in Procs : c # p => up'[c] = up[c]
      /\ up'[p] = Append(up[p], a) /\ up[p] \in Seq(Reply)
  BY DEF Queues
<1>2. /\ Len(up'[p]) = Len(up[p]) + 1 /\ Len(up[p]) \in Nat
      /\ \A j \in 1..Len(up[p]) : up'[p][j] = up[p][j]
  BY <1>1, AppendIs
<1>3. NotFounds(u)' \subseteq NotFounds(u) \cup {z}
  <2> SUFFICES ASSUME NEW c \in Procs, NEW i \in Nat, i \in 1..Len(up'[c]), <<c, i>> # z
               PROVE  i \in 1..Len(up[c]) /\ up[c][i] = up'[c][i]
    BY DEF NotFounds
  <2> QED BY <1>1, <1>2
<1>4. IsFiniteSet(NotFounds(u)) /\ Cardinality(NotFounds(u)) \in Nat
  BY NotFoundsFinite
<1> HIDE DEF z
<1>5. IsFiniteSet(NotFounds(u) \cup {z}) /\ Cardinality(NotFounds(u) \cup {z}) <= Cardinality(NotFounds(u)) + 1
  <2> DEFINE T == NotFounds(u)
  <2>1. IsFiniteSet(T) /\ Cardinality(T) \in Nat
    BY <1>4
  <2> HIDE DEF T
  <2>2. /\ IsFiniteSet(T \cup {z})
        /\ Cardinality(T \cup {z}) = IF z \in T THEN Cardinality(T) ELSE Cardinality(T) + 1
    BY <2>1, FS_AddElement
  <2>3. IsFiniteSet(T \cup {z}) /\ Cardinality(T \cup {z}) <= Cardinality(T) + 1
    BY <2>1, <2>2
  <2> QED BY <2>3 DEF T
<1>6. Cardinality(NotFounds(u)') <= Cardinality(NotFounds(u) \cup {z}) /\ IsFiniteSet(NotFounds(u)')
  BY <1>3, <1>5, FS_Subset
<1>7. Cardinality(NotFounds(u)') \in Nat /\ Cardinality(NotFounds(u) \cup {z}) \in Nat
  BY <1>5, <1>6, FS_CardinalityType
<1> QED BY <1>4, <1>5, <1>6, <1>7

\* The first answer of c is read.
LEMMA NotFoundsRead ==
  ASSUME up \in Queues(Reply), NEW c \in Procs, up[c] # <<>>, NEW u,
         up' = [up EXCEPT ![c] = Tail(@)]
  PROVE  /\ Cardinality(NotFounds(u)') <= Cardinality(NotFounds(u))
         /\ Head(up[c]).uuid = u /\ Head(up[c]).code = "NOT_FOUND" =>
              Cardinality(NotFounds(u)') + 1 <= Cardinality(NotFounds(u))
<1> DEFINE S == NotFounds(u)'
           T == NotFounds(u)
           h == <<c, 1>>
           U == T \ {h}
           f == [z \in S |-> IF z[1] = c THEN <<c, z[2] + 1>> ELSE z]
<1>1. /\ up[c] \in Seq(Reply) /\ up'[c] = Tail(up[c])
      /\ \A d \in Procs : d # c => up'[d] = up[d]
  BY DEF Queues
<1>2. /\ Head(up[c]) = up[c][1] /\ 1 \in 1..Len(up[c]) /\ Len(up[c]) \in Nat
      /\ \A i \in 1..Len(up'[c]) : i + 1 \in 1..Len(up[c]) /\ up'[c][i] = up[c][i + 1]
  <2>1. PICK s \in Seq(Reply) : s = up[c] /\ s # <<>>
    BY <1>1
  <2>2. Head(s) = s[1] /\ 1 \in 1..Len(s) /\ \A i \in 1..Len(Tail(s)) : i + 1 \in 1..Len(s) /\ Tail(s)[i] = s[i + 1]
    BY <2>1, TailIs
  <2>3. up'[c] = Tail(s) /\ Len(s) \in Nat
    BY <1>1, <2>1
  <2> QED BY <2>1, <2>2, <2>3
<1>3. ASSUME NEW z \in S
      PROVE  f[z] \in U /\ z \in Procs \X Nat
  <2>1. /\ z \in Procs \X Nat /\ z[1] \in Procs /\ z[2] \in Nat /\ z = <<z[1], z[2]>>
        /\ z[2] \in 1..Len(up'[z[1]])
        /\ up'[z[1]][z[2]].uuid = u /\ up'[z[1]][z[2]].code = "NOT_FOUND"
    BY DEF NotFounds
  <2>2. CASE z[1] = c
    <3>1. /\ z[2] + 1 \in 1..Len(up[c]) /\ z[2] + 1 \in Nat /\ z[2] + 1 # 1
          /\ up[c][z[2] + 1].uuid = u /\ up[c][z[2] + 1].code = "NOT_FOUND"
      <4>1. z[2] \in 1..Len(up'[c]) /\ up'[c][z[2]].uuid = u /\ up'[c][z[2]].code = "NOT_FOUND"
        BY <2>1, <2>2
      <4>2. z[2] + 1 \in 1..Len(up[c]) /\ up'[c][z[2]] = up[c][z[2] + 1]
        BY <1>2, <4>1
      <4>3. z[2] + 1 \in Nat /\ z[2] + 1 # 1
        BY <2>1
      <4> QED BY <4>1, <4>2, <4>3
    <3>2. <<c, z[2] + 1>> \in U
      BY <3>1 DEF NotFounds
    <3> QED BY <2>1, <2>2, <3>2
  <2>3. CASE z[1] # c
    <3>1. up'[z[1]] = up[z[1]]
      BY <1>1, <2>1, <2>3
    <3>2. z \in U
      BY <2>1, <2>3, <3>1 DEF NotFounds
    <3> QED BY <2>1, <2>3, <3>2
  <2> QED BY <2>2, <2>3
<1>4. f \in [S -> U]
  <2> HIDE DEF S, U
  <2> QED BY <1>3
<1>5. \A x, y \in S : f[x] = f[y] => x = y
  <2> SUFFICES ASSUME NEW x \in S, NEW y \in S, f[x] = f[y] PROVE x = y
    OBVIOUS
  <2>1. x = <<x[1], x[2]>> /\ y = <<y[1], y[2]>> /\ x[2] \in Nat /\ y[2] \in Nat
    BY <1>3
  <2> HIDE DEF S
  <2> QED BY <2>1
<1>6. IsFiniteSet(T) /\ Cardinality(T) \in Nat
  BY NotFoundsFinite
<1> HIDE DEF S, T, f, h
<1>7. /\ IsFiniteSet(U) /\ Cardinality(U) \in Nat
      /\ Cardinality(U) = IF h \in T THEN Cardinality(T) - 1 ELSE Cardinality(T)
  BY <1>6, FS_RemoveElement, FS_CardinalityType
<1> HIDE DEF U
<1>8. IsFiniteSet(S) /\ Cardinality(S) <= Cardinality(U)
  BY <1>4, <1>5, <1>7, Fewer
<1>9. Cardinality(S) \in Nat
  BY <1>8, FS_CardinalityType
<1>10. Head(up[c]).uuid = u /\ Head(up[c]).code = "NOT_FOUND" => h \in T
  BY <1>2 DEF h, T, NotFounds
<1> QED BY <1>6, <1>7, <1>8, <1>9, <1>10 DEF S, T

\* The first answer of c is passed on by p.
LEMMA NotFoundsPassed ==
  ASSUME up \in Queues(Reply), NEW c \in Procs, NEW p \in Procs, up[c] # <<>>, NEW u,
         up' = [[up EXCEPT ![c] = Tail(@)] EXCEPT ![p] = Append(@, Head(up[c]))]
  PROVE  Cardinality(NotFounds(u)') <= Cardinality(NotFounds(u))
<1> DEFINE S == NotFounds(u)'
           T == NotFounds(u)
           last == <<p, Len(up'[p])>>
           f == [z \in S |-> IF z = last THEN <<c, 1>> ELSE IF z[1] = c THEN <<c, z[2] + 1>> ELSE z]
<1>1. /\ up[c] \in Seq(Reply) /\ up[p] \in Seq(Reply)
      /\ \A d \in Procs : d # c /\ d # p => up'[d] = up[d]
      /\ c # p => up'[c] = Tail(up[c]) /\ up'[p] = Append(up[p], Head(up[c]))
      /\ c = p => up'[p] = Append(Tail(up[c]), Head(up[c]))
  BY DEF Queues
<1>2. /\ Head(up[c]) = up[c][1] /\ Head(up[c]) \in Reply /\ 1 \in 1..Len(up[c]) /\ Len(up[c]) \in Nat
      /\ Tail(up[c]) \in Seq(Reply) /\ Len(Tail(up[c])) = Len(up[c]) - 1
      /\ \A i \in 1..Len(Tail(up[c])) : i + 1 \in 1..Len(up[c]) /\ Tail(up[c])[i] = up[c][i + 1]
  BY <1>1, TailIs
<1>3. /\ up'[p][Len(up'[p])] = up[c][1] /\ Len(up'[p]) \in Nat
      /\ \A i \in 1..Len(up'[p]) : i # Len(up'[p]) =>
           IF c = p THEN i + 1 \in 1..Len(up[c]) /\ up'[p][i] = up[c][i + 1]
           ELSE i \in 1..Len(up[p]) /\ up'[p][i] = up[p][i]
  <2>1. PICK s \in Seq(Reply) : s = IF c = p THEN Tail(up[c]) ELSE up[p]
    BY <1>1, <1>2
  <2>2. PICK a \in Reply : a = Head(up[c])
    BY <1>2
  <2>3. /\ Len(Append(s, a)) = Len(s) + 1 /\ \A i \in 1..Len(s) : Append(s, a)[i] = s[i]
        /\ Append(s, a)[Len(s) + 1] = a
    BY AppendIs
  <2>4. up'[p] = Append(s, a)
    BY <1>1, <2>1, <2>2
  <2>5. Len(s) \in Nat
    OBVIOUS
  <2>6. \A i \in 1..(Len(s) + 1) : i # Len(s) + 1 => i \in 1..Len(s)
    BY <2>5
  <2>7. c = p => \A i \in 1..Len(s) : i + 1 \in 1..Len(up[c]) /\ s[i] = up[c][i + 1]
    BY <1>2, <2>1
  <2>8. c # p => s = up[p]
    BY <2>1
  <2>9. a = up[c][1]
    BY <1>2, <2>2
  <2>10. Len(up'[p]) = Len(s) + 1 /\ \A i \in 1..Len(s) : up'[p][i] = s[i]
    BY <2>3, <2>4
  <2>11. up'[p][Len(s) + 1] = a
    BY <2>3, <2>4
  <2>12. \A i \in 1..Len(up'[p]) : i # Len(up'[p]) => i \in 1..Len(s) /\ up'[p][i] = s[i]
    BY <2>6, <2>10
  <2>13. Len(up'[p]) \in Nat /\ up'[p][Len(up'[p])] = up[c][1]
    BY <2>5, <2>9, <2>10, <2>11
  <2> QED BY <2>7, <2>8, <2>12, <2>13
<1>4. c # p => \A i \in 1..Len(up'[c]) : i + 1 \in 1..Len(up[c]) /\ up'[c][i] = up[c][i + 1]
  BY <1>1, <1>2
<1>5. ASSUME NEW z \in S
      PROVE  f[z] \in T /\ z \in Procs \X Nat /\ z[2] > 0
  <2>1. /\ z \in Procs \X Nat /\ z[1] \in Procs /\ z[2] \in Nat /\ z = <<z[1], z[2]>> /\ z[2] > 0
        /\ z[2] \in 1..Len(up'[z[1]])
        /\ up'[z[1]][z[2]].uuid = u /\ up'[z[1]][z[2]].code = "NOT_FOUND"
    BY DEF NotFounds
  <2>2. CASE z = last
    <3>1. z[1] = p /\ z[2] = Len(up'[p])
      BY <2>2
    <3>2. up[c][1].uuid = u /\ up[c][1].code = "NOT_FOUND"
      BY <1>3, <2>1, <3>1
    <3>3. <<c, 1>> \in T
      BY <1>2, <3>2 DEF NotFounds
    <3> QED BY <2>1, <2>2, <3>3
  <2>3. CASE z # last /\ z[1] = c
    <3>1. /\ z[2] + 1 \in 1..Len(up[c]) /\ z[2] + 1 \in Nat
          /\ up[c][z[2] + 1].uuid = u /\ up[c][z[2] + 1].code = "NOT_FOUND"
      <4>1. c = p => z[2] # Len(up'[p])
        BY <2>1, <2>3
      <4>2. z[2] \in 1..Len(up'[c]) /\ up'[c][z[2]].uuid = u /\ up'[c][z[2]].code = "NOT_FOUND"
        BY <2>1, <2>3
      <4>3. z[2] + 1 \in 1..Len(up[c]) /\ up'[c][z[2]] = up[c][z[2] + 1]
        BY <1>3, <1>4, <4>1, <4>2
      <4>4. z[2] + 1 \in Nat
        BY <2>1
      <4> QED BY <4>2, <4>3, <4>4
    <3>2. <<c, z[2] + 1>> \in T
      BY <3>1 DEF NotFounds
    <3> QED BY <2>1, <2>3, <3>2
  <2>4. CASE z # last /\ z[1] # c
    <3>1. z[2] \in 1..Len(up[z[1]]) /\ up'[z[1]][z[2]] = up[z[1]][z[2]]
      <4>1. z[1] = p => z[2] # Len(up'[p])
        BY <2>1, <2>4
      <4> QED BY <1>1, <1>3, <2>1, <2>4, <4>1, ZenonT(60)
    <3>2. z \in T
      BY <2>1, <3>1 DEF NotFounds
    <3> QED BY <2>1, <2>4, <3>2
  <2> QED BY <2>2, <2>3, <2>4
<1>6. f \in [S -> T]
  <2> HIDE DEF S, T
  <2> QED BY <1>5
<1>7. \A x, y \in S : f[x] = f[y] => x = y
  <2> SUFFICES ASSUME NEW x \in S, NEW y \in S, f[x] = f[y] PROVE x = y
    OBVIOUS
  <2>1. /\ x = <<x[1], x[2]>> /\ y = <<y[1], y[2]>> /\ x[2] \in Nat /\ y[2] \in Nat
        /\ x[2] > 0 /\ y[2] > 0
    BY <1>5
  <2> HIDE DEF S, last
  <2>2. x[2] + 1 # 1 /\ y[2] + 1 # 1
    BY <2>1
  <2> QED BY <2>1, <2>2
<1>8. IsFiniteSet(T)
  BY NotFoundsFinite
<1> HIDE DEF S, T, f
<1>9. Cardinality(S) <= Cardinality(T)
  BY <1>6, <1>7, <1>8, Fewer
<1> QED BY <1>9 DEF S, T

-----------------------------------------------------------------------------
(* The invariant.                                                          *)

\* The messages and the answers that are under way.
Sent == {m \in Message : \E p \in Procs : \E i \in 1..Len(down[p]) : m = down[p][i]}
Replied == {r \in Reply : \E p \in Procs : \E i \in 1..Len(up[p]) : r = up[p][i]}

\* Every process this message could still do anything at has had it.
Past(t, m) ==
  /\ m.id \in Ids
  /\ m.cmd \in {"create", "connect"} =>
       \A q \in Procs : status[q] = "run" /\ node[q] = m.parent => m.uuid <= t[q]
  /\ m.cmd = "disconnect" => \A q \in Procs : HasChild(q, m.id) => m.uuid <= t[q]
  /\ m.cmd = "remove" => \A q \in Procs : status[q] = "run" /\ node[q] = m.id => m.uuid <= t[q]

\* The message is the command under way, which has not got to its node.
Due(t, m) == \E e \in Top : e.uuid = m.uuid /\ t[Owner] < e.uuid

Spent(t) == \A m \in Sent : Due(t, m) \/ Past(t, m)

\* The leaves that have had the broadcast u, other than its addressee o.
Answerers(t, o, u) == {p \in Procs : u <= t[p] /\ p # o /\ ChildPids(p) = {}}

\* The command under way, as a broadcast that is awaited.
UnderWay(t, e) ==
  /\ nextUuid = e.uuid + 1
  /\ e.cmd = Want.cmd /\ e.id = Want.id
  /\ Owner \in Procs
  /\ \A m \in Sent : m.uuid = e.uuid => m.parent = Want.parent /\ m.pid = Want.pid
  /\ \A p \in Procs : peer[p] \in {Owner, NoPeer} => Behind(t, p, e.uuid)
  /\ e.cmd # "ping" => (e.uuid <= t[Owner] <=> Done(Want))
  /\ \A r \in Replied : r.uuid = e.uuid =>
       /\ r.code \in {"OK", "NOT_FOUND"}
       /\ r.code = "OK" => e.uuid <= t[Owner]
  /\ TreeLeaves(tree) + Cardinality(NotFounds(e.uuid)) <= e.count + Cardinality(Answerers(t, Owner, e.uuid))

\* A removed process that is still connected gets nothing any more, and the
\* only thing that is sent past it is its own disconnection.
GoneQuiet(t) ==
  \A x \in Procs : Gone(x) /\ HasPeer(x) =>
    /\ down[x] = <<>>
    /\ \A m \in Sent : t[x] < m.uuid => m.cmd = "disconnect" /\ m.id = node[x]

NoneStuck == ~HeartbeatOn => linger = {} /\ \A p \in Procs : status[p] # "stuck"

\* t[p] is the number of the last broadcast that p has taken.
TInv(t) ==
  /\ t \in [Procs -> Nat]
  /\ Wired /\ NoneStuck /\ Ordered(t) /\ Spent(t)
  /\ Stopping => Top = {}
  /\ ~Stopping => /\ Shape /\ Stage /\ GoneQuiet(t)
                  /\ \A e \in Top : Top = {e} /\ UnderWay(t, e)

Topology == \E t : TInv(t)

-----------------------------------------------------------------------------
(* Messages and answers under way.                                         *)

LEMMA SentIs ==
  ASSUME down \in Queues(Message)
  PROVE  /\ \A p \in Procs : \A i \in 1..Len(down[p]) : down[p][i] \in Sent
         /\ Sent \subseteq Message
BY Queue DEF Sent

LEMMA SentCopied ==
  ASSUME Copied(down, down'), down \in Queues(Message)
  PROVE  Sent' \subseteq Sent
<1> SUFFICES ASSUME NEW m \in Sent' PROVE m \in Sent
  OBVIOUS
<1>1. m \in Message /\ \E p \in Procs : \E i \in 1..Len(down'[p]) : m = down'[p][i]
  BY DEF Sent
<1>2. PICK p \in Procs : \E i \in 1..Len(down[p]) : m = down[p][i]
  BY <1>1 DEF Copied
<1> QED BY <1>1, <1>2 DEF Sent

LEMMA RepliedAdded ==
  ASSUME up \in Queues(Reply), NEW p, NEW a \in Reply, AnswerAdded(up, up', p, a)
  PROVE  Replied' \subseteq Replied \cup {a}
<1> SUFFICES ASSUME NEW r \in Replied', r # a PROVE r \in Replied
  OBVIOUS
<1>1. r \in Reply /\ \E q \in Procs : \E i \in 1..Len(up'[q]) : r = up'[q][i]
  BY DEF Replied
<1>2. PICK q \in Procs : \E i \in 1..Len(up[q]) : r = up[q][i]
  BY <1>1 DEF AnswerAdded
<1> QED BY <1>1, <1>2 DEF Replied

LEMMA RepliedShortened ==
  ASSUME up \in Queues(Reply), Shortened(up, up')
  PROVE  Replied' \subseteq Replied
<1> SUFFICES ASSUME NEW r \in Replied' PROVE r \in Replied
  OBVIOUS
<1>1. r \in Reply /\ \E q \in Procs : \E i \in 1..Len(up'[q]) : r = up'[q][i]
  BY DEF Replied
<1>2. PICK q \in Procs : \E i \in 1..Len(up[q]) : r = up[q][i]
  BY <1>1 DEF Shortened
<1> QED BY <1>1, <1>2 DEF Replied

\* What is under way is known, and older than what comes.
LEMMA SentTraced ==
  ASSUME LinksOK, Books
  PROVE  /\ \A m \in Sent : m.uuid < nextUuid /\ \A e \in outstanding : e.uuid = m.uuid => e.cmd = m.cmd /\ e.id = m.id
         /\ \A r \in Replied : r.uuid < nextUuid /\ \A e \in outstanding : e.uuid = r.uuid => e.cmd = r.cmd /\ e.id = r.id
         /\ \A p \in Procs : \A i \in 1..Len(down[p]) : down[p][i] \in Sent
<1>1. Traffic
  BY DEF Books
<1>2. down \in Queues(Message)
  BY LinkFacts
<1>3. ASSUME NEW m \in Sent PROVE Traced(m)
  BY <1>1 DEF Traffic, Sent
<1>4. ASSUME NEW r \in Replied PROVE Traced(r)
  BY <1>1 DEF Traffic, Replied
<1>5. \A p \in Procs : \A i \in 1..Len(down[p]) : down[p][i] \in Sent
  BY <1>2, SentIs
<1> QED BY <1>3, <1>4, <1>5 DEF Traced

-----------------------------------------------------------------------------
(* Who takes the command under way.                                        *)

\* What is known while the command under way is awaited.
LEMMA AwaitedNow ==
  ASSUME LinksOK, BooksOK, Books, NEW t, TInv(t), NEW e \in Top
  PROVE  /\ ~Stopping /\ Top = {e} /\ UnderWay(t, e) /\ Shape /\ Resting
         /\ Len(rmlist) = 1 \/ (rmlist = <<>> /\ Len(tree) > 1)
         /\ WireFacts /\ WantFacts
         /\ ~Done(Want) => Ready
         /\ Owner \in Procs /\ node[Owner] = Addressee(tree, Want)
         /\ e \in outstanding /\ e.uuid \in Nat /\ e.count \in Nat
<1>1. Top # {}
  OBVIOUS
<1>2. ~Stopping /\ Shape /\ Stage /\ Top = {e} /\ UnderWay(t, e) /\ Wired
  BY <1>1 DEF TInv
<1>3. CreateSent \/ RemoveSent
  BY <1>1, <1>2 DEF Stage, Idle, Forking, RemoveReady, WaitNow
<1>4. Resting /\ (Len(rmlist) = 1 \/ (rmlist = <<>> /\ Len(tree) > 1))
  BY <1>3 DEF CreateSent, RemoveSent
<1>5. WireFacts
  BY <1>2, WiresHold
<1>6. rcv.at # "wait"
  BY <1>4 DEF Resting, RcvIdle
<1>7. WantFacts
  BY <1>2, <1>4, <1>6, WantIs
<1>8. ~Done(Want) => Ready
  BY <1>2, <1>4, <1>5, <1>6, WantReady
<1>9. Owner \in Procs
  BY <1>2 DEF UnderWay
<1>10. Addressee(tree, Want) \in AnyId /\ TreeHas(tree, Addressee(tree, Want))
  BY <1>7 DEF WantFacts
<1>11. Addressee(tree, Want) # NoId
  BY <1>2, <1>9, Pids DEF Wired, Owner
<1>12. Addressee(tree, Want) \in Ids
  BY <1>10, <1>11 DEF AnyId
<1>13. node[Owner] = Addressee(tree, Want)
  BY <1>10, <1>12, ProcOf DEF Owner
<1>14. e \in outstanding /\ e.uuid \in Nat /\ e.count \in Nat
  BY DEF BooksOK, Top, Broadcasts
<1> QED BY <1>2, <1>4, <1>5, <1>7, <1>8, <1>9, <1>13, <1>14

LEMMA RunsAs ==
  ASSUME Books, NEW p \in Procs, status[p] = "run"
  PROVE  node[p] \in Ids /\ TreeHas(tree, node[p]) /\ proc[node[p]] = p
BY DEF Books, Kept

\* A command that changes the topology does so only at its addressee, and only
\* while it is awaited.
LEMMA TakenIsWanted ==
  ASSUME LinksOK, BooksOK, Books, NEW t, TInv(t), NEW p \in Procs, Taking(p),
         IsFor(p, Taken(p)),
         \/ Taken(p).cmd \in {"create", "connect"} /\ Taken(p).parent = node[p]
         \/ Taken(p).cmd \in {"disconnect", "remove"}
  PROVE  \E e \in Top :
           /\ Taken(p).uuid = e.uuid /\ p = Owner /\ ~Done(Want) /\ t[p] < e.uuid
           /\ Taken(p).cmd = Want.cmd /\ Taken(p).id = Want.id
           /\ Taken(p).parent = Want.parent /\ Taken(p).pid = Want.pid
<1> DEFINE m == Taken(p)
<1>1. down \in Queues(Message) /\ status[p] = "run" /\ down[p] # <<>>
  BY LinkFacts DEF Taking
<1>2. 1 \in 1..Len(down[p]) /\ m = down[p][1] /\ m \in Message /\ m.uuid \in Nat
  BY <1>1, TakenIs
<1>3. m \in Sent
  BY <1>1, <1>2, SentIs
<1>4. t \in [Procs -> Nat] /\ t[p] \in Nat /\ t[p] < m.uuid
  <2>1. t \in [Procs -> Nat] /\ Ordered(t)
    BY DEF TInv
  <2> QED BY <1>2, <2>1 DEF Ordered
<1>5. ~(m.uuid <= t[p])
  BY <1>2, <1>4
<1>6. m.cmd = "disconnect" => HasChild(p, m.id)
  BY DEF IsFor
<1>7. m.cmd = "remove" => node[p] = m.id
  BY DEF IsFor
<1>8. ~Past(t, m)
  BY <1>1, <1>5, <1>6, <1>7 DEF Past
<1>9. PICK e \in Top : e.uuid = m.uuid /\ t[Owner] < e.uuid
  BY <1>3, <1>8 DEF TInv, Spent, Due
<1>10. /\ UnderWay(t, e) /\ WireFacts /\ WantFacts /\ (~Done(Want) => Ready)
       /\ Owner \in Procs /\ node[Owner] = Addressee(tree, Want) /\ e \in outstanding
       /\ e.uuid \in Nat
  BY AwaitedNow
<1>11. /\ e.cmd = Want.cmd /\ e.id = Want.id /\ m.parent = Want.parent /\ m.pid = Want.pid
  BY <1>3, <1>9, <1>10 DEF UnderWay
<1>12. e.cmd = m.cmd /\ e.id = m.id
  BY <1>3, <1>9, <1>10, SentTraced
<1>13. m.cmd # "ping"
  BY DEF m
<1>14. ~(e.uuid <= t[Owner])
  BY <1>4, <1>9, <1>10
<1>15. ~Done(Want)
  BY <1>10, <1>12, <1>13, <1>14 DEF UnderWay
<1>16. node[p] \in Ids /\ TreeHas(tree, node[p]) /\ proc[node[p]] = p
  BY <1>1, RunsAs
<1>17. p = Owner
  <2>1. CASE m.cmd \in {"create", "connect"}
    <3>1. Addressee(tree, Want) = node[p]
      BY <1>11, <1>12, <2>1 DEF Addressee
    <3> QED BY <1>16, <3>1 DEF Owner
  <2>2. CASE m.cmd = "disconnect"
    <3>1. peer[proc[Want.id]] = Owner
      BY <1>10, <1>11, <1>12, <1>15, <2>2 DEF Ready
    <3>2. peer[proc[m.id]] = p
      <4>1. m.id \in Ids
        BY <1>10, <1>11, <1>12 DEF WantFacts
      <4> QED BY <1>6, <1>10, <2>2, <4>1, Pids DEF WireFacts
    <3> QED BY <1>11, <1>12, <3>1, <3>2
  <2>3. CASE m.cmd = "remove"
    <3>1. Addressee(tree, Want) = node[p]
      BY <1>7, <1>11, <1>12, <2>3 DEF Addressee
    <3> QED BY <1>16, <3>1 DEF Owner
  <2> QED BY <2>1, <2>2, <2>3
<1>18. t[p] < e.uuid
  BY <1>4, <1>9
<1> QED BY <1>9, <1>11, <1>12, <1>15, <1>17, <1>18 DEF m

\* The addressee knows the command for its own.
LEMMA OwnerKnows ==
  ASSUME LinksOK, BooksOK, Books, NEW t, TInv(t), NEW e \in Top,
         Taking(Owner), Taken(Owner).uuid = e.uuid
  PROVE  /\ IsFor(Owner, Taken(Owner)) /\ t[Owner] < e.uuid
         /\ Taken(Owner).cmd = Want.cmd /\ Taken(Owner).id = Want.id
         /\ Taken(Owner).parent = Want.parent
<1> DEFINE m == Taken(Owner)
<1>1. /\ UnderWay(t, e) /\ WireFacts /\ WantFacts /\ (~Done(Want) => Ready)
      /\ Owner \in Procs /\ node[Owner] = Addressee(tree, Want) /\ e \in outstanding
      /\ e.uuid \in Nat
  BY AwaitedNow
<1>2. down \in Queues(Message) /\ status[Owner] = "run" /\ down[Owner] # <<>>
  BY LinkFacts DEF Taking
<1>3. 1 \in 1..Len(down[Owner]) /\ m = down[Owner][1] /\ m \in Message /\ m.uuid \in Nat
  BY <1>1, <1>2, TakenIs
<1>4. m \in Sent
  BY <1>1, <1>2, <1>3, SentIs
<1>5. t \in [Procs -> Nat] /\ t[Owner] \in Nat /\ t[Owner] < e.uuid
  <2>1. t \in [Procs -> Nat] /\ Ordered(t)
    BY DEF TInv
  <2> QED BY <1>1, <1>3, <2>1 DEF Ordered
<1>6. m.parent = Want.parent /\ e.cmd = Want.cmd /\ e.id = Want.id
  BY <1>1, <1>4 DEF UnderWay
<1>7. e.cmd = m.cmd /\ e.id = m.id
  BY <1>1, <1>4, SentTraced
<1>8. ~(e.uuid <= t[Owner])
  BY <1>1, <1>5
<1>9. m.cmd # "ping" => ~Done(Want)
  BY <1>1, <1>7, <1>8 DEF UnderWay
<1>10. m.cmd = "disconnect" => HasChild(Owner, m.id)
  <2> SUFFICES ASSUME m.cmd = "disconnect" PROVE HasChild(Owner, m.id)
    OBVIOUS
  <2>1. peer[proc[Want.id]] = Owner
    BY <1>1, <1>6, <1>7, <1>9 DEF Ready
  <2>2. Want.id \in Ids /\ TreeHas(tree, Want.id)
    BY <1>1 DEF WantFacts
  <2> QED BY <1>1, <1>6, <1>7, <2>1, <2>2, Pids DEF WireFacts
<1>11. m.cmd \in {"create", "connect"} => node[Owner] = m.parent
  BY <1>1, <1>6, <1>7 DEF Addressee
<1>12. m.cmd \in {"ping", "remove"} => node[Owner] = m.id
  BY <1>1, <1>6, <1>7 DEF Addressee
<1>13. m.cmd \in {"create", "connect", "ping", "remove", "disconnect"}
  BY <1>1, <1>6, <1>7 DEF WantFacts
<1>14. IsFor(Owner, m)
  BY <1>10, <1>11, <1>12, <1>13 DEF IsFor
<1> QED BY <1>5, <1>6, <1>7, <1>14

-----------------------------------------------------------------------------
(* What a step of a node leaves as it is.                                  *)

LEMMA SameWant ==
  ASSUME UNCHANGED <<tree, proc, rmlist>>
  PROVE  Want' = Want /\ Owner' = Owner
<1>1. Want' = Want
  BY DEF Want
<1> QED BY <1>1 DEF Owner

LEMMA SameTop ==
  ASSUME outstanding' = outstanding
  PROVE  Top' = Top
BY DEF Top

\* The answers "not found" are at most one more, and then one more leaf has
\* had the broadcast.
LEMMA AnswerersFinite ==
  ASSUME NEW t, NEW o, NEW u
  PROVE  IsFiniteSet(Answerers(t, o, u)) /\ Cardinality(Answerers(t, o, u)) \in Nat
<1>1. Answerers(t, o, u) \subseteq Procs
  BY DEF Answerers
<1> QED BY <1>1, ProcsFinite, FS_Subset, FS_CardinalityType

LEMMA AnswerersAfter ==
  ASSUME NEW t, NEW o, NEW u
  PROVE  IsFiniteSet(Answerers(t, o, u)') /\ Cardinality(Answerers(t, o, u)') \in Nat
<1>1. Answerers(t, o, u)' \subseteq Procs
  BY DEF Answerers
<1> QED BY <1>1, ProcsFinite, FS_Subset, FS_CardinalityType

LEMMA NotFoundsTyped == LinksOK => \A u : Cardinality(NotFounds(u)) \in Nat
BY LinkFacts, NotFoundsFinite

LEMMA NotFoundsAfter == (LinksOK => \A u : Cardinality(NotFounds(u)) \in Nat)'
BY NotFoundsTyped, PTL

LEMMA AnswerersGrow ==
  ASSUME NEW t \in [Procs -> Nat], NEW t2 \in [Procs -> Nat], NEW o, NEW u \in Nat,
         \A c \in Procs : t[c] <= t2[c],
         \A c \in Procs : c # o /\ ChildPids(c) = {} => ChildPids(c)' = {}
  PROVE  /\ Cardinality(Answerers(t, o, u)) <= Cardinality(Answerers(t2, o, u)')
         /\ \A p \in Procs : p # o /\ t[p] < u /\ u <= t2[p] /\ ChildPids(p) = {} =>
              Cardinality(Answerers(t, o, u)) + 1 <= Cardinality(Answerers(t2, o, u)')
<1> DEFINE A == Answerers(t, o, u)
           B == Answerers(t2, o, u)'
<1>1. A \subseteq B
  <2> SUFFICES ASSUME NEW c \in Procs, u <= t[c], c # o, ChildPids(c) = {}
               PROVE  u <= t2[c] /\ ChildPids(c)' = {}
    BY DEF Answerers
  <2>1. t[c] \in Nat /\ t2[c] \in Nat /\ t[c] <= t2[c]
    OBVIOUS
  <2> QED BY <2>1
<1>2. IsFiniteSet(B)
  <2>1. B \subseteq Procs
    BY DEF Answerers
  <2> QED BY <2>1, ProcsFinite, FS_Subset
<1>3. IsFiniteSet(A) /\ Cardinality(A) \in Nat
  BY AnswerersFinite
<1>4. ASSUME NEW p \in Procs, p # o, t[p] < u, u <= t2[p], ChildPids(p) = {}
      PROVE  Cardinality(A) + 1 <= Cardinality(B)
  <2>1. p \in B
    BY <1>4 DEF Answerers
  <2>2. p \notin A
    <3>1. t[p] \in Nat /\ ~(u <= t[p])
      BY <1>4
    <3> QED BY <3>1 DEF Answerers
  <2> HIDE DEF A, B
  <2>3. A \cup {p} \subseteq B
    BY <1>1, <2>1
  <2>4. IsFiniteSet(A \cup {p}) /\ Cardinality(A \cup {p}) = Cardinality(A) + 1
    BY <1>3, <2>2, FS_AddElement
  <2> QED BY <1>2, <2>3, <2>4, FS_Subset
<1> HIDE DEF A, B
<1>5. Cardinality(A) <= Cardinality(B)
  BY <1>1, <1>2, FS_Subset
<1> QED BY <1>4, <1>5 DEF A, B

\* The command stays under way.
LEMMA UnderWayKept ==
  ASSUME LinksOK, LinksOK', BooksOK, Books, NEW t, TInv(t), NEW e \in Top,
         NEW t2 \in [Procs -> Nat], \A c \in Procs : t[c] <= t2[c],
         UNCHANGED <<tree, proc, rmlist, nextUuid>>,
         Sent' \subseteq Sent,
         \A c \in Procs : peer'[c] \in {Owner, NoPeer} => Behind(t2, c, e.uuid)',
         e.cmd # "ping" => (e.uuid <= t2[Owner] <=> Done(Want)'),
         \A r \in Replied' : r.uuid = e.uuid =>
           r \in Replied \/ (r.code \in {"OK", "NOT_FOUND"} /\ (r.code = "OK" => e.uuid <= t2[Owner])),
         \A c \in Procs : c # Owner /\ ChildPids(c) = {} => ChildPids(c)' = {},
         \/ Cardinality(NotFounds(e.uuid)') <= Cardinality(NotFounds(e.uuid))
         \/ /\ Cardinality(NotFounds(e.uuid)') <= Cardinality(NotFounds(e.uuid)) + 1
            /\ \E p \in Procs : p # Owner /\ t[p] < e.uuid /\ e.uuid <= t2[p] /\ ChildPids(p) = {}
  PROVE  UnderWay(t2, e)'
<1>1. Want' = Want /\ Owner' = Owner
  BY SameWant
<1>2. UnderWay(t, e) /\ Owner \in Procs /\ e.uuid \in Nat /\ e.count \in Nat
  BY AwaitedNow
<1>3. t \in [Procs -> Nat]
  BY DEF TInv
<1>4. nextUuid' = e.uuid + 1 /\ e.cmd = Want.cmd /\ e.id = Want.id
  BY <1>2 DEF UnderWay
<1>5. \A m \in Sent' : m.uuid = e.uuid => m.parent = Want.parent /\ m.pid = Want.pid
  BY <1>2 DEF UnderWay
<1>6. t[Owner] \in Nat /\ t2[Owner] \in Nat /\ t[Owner] <= t2[Owner]
  BY <1>2, <1>3
<1>7. e.uuid <= t[Owner] => e.uuid <= t2[Owner]
  BY <1>2, <1>6
<1>8. \A r \in Replied' : r.uuid = e.uuid =>
        /\ r.code \in {"OK", "NOT_FOUND"}
        /\ r.code = "OK" => e.uuid <= t2[Owner]
  <2> SUFFICES ASSUME NEW r \in Replied', r.uuid = e.uuid, r \in Replied
               PROVE  r.code \in {"OK", "NOT_FOUND"} /\ (r.code = "OK" => e.uuid <= t2[Owner])
    OBVIOUS
  <2> QED BY <1>2, <1>7 DEF UnderWay
<1>9. TreeLeaves(tree') + Cardinality(NotFounds(e.uuid)')
        <= e.count + Cardinality(Answerers(t2, Owner, e.uuid)')
  <2>0. PICK o \in Procs : o = Owner
    BY <1>2
  <2> DEFINE n == Cardinality(NotFounds(e.uuid))
             n2 == Cardinality(NotFounds(e.uuid)')
             a == Cardinality(Answerers(t, o, e.uuid))
             a2 == Cardinality(Answerers(t2, o, e.uuid)')
             l == TreeLeaves(tree)
  <2>1. l + n <= e.count + a
    BY <1>2, <2>0 DEF UnderWay
  <2>2. n \in Nat /\ n2 \in Nat
    BY LinkFacts, NotFoundsFinite, NotFoundsAfter
  <2>3. a \in Nat /\ a2 \in Nat
    BY AnswerersFinite, AnswerersAfter
  <2>4. l \in Nat
    BY ArrayIds DEF Books
  <2>5. /\ a <= a2
        /\ \A p \in Procs : p # o /\ t[p] < e.uuid /\ e.uuid <= t2[p] /\ ChildPids(p) = {} => a + 1 <= a2
    <3>1. \A c \in Procs : c # o /\ ChildPids(c) = {} => ChildPids(c)' = {}
      BY <2>0
    <3> QED BY <1>2, <1>3, <3>1, AnswerersGrow
  <2>6. n2 <= n \/ (n2 <= n + 1 /\ a + 1 <= a2)
    BY <2>0, <2>5
  <2>7. Answerers(t2, Owner, e.uuid)' = Answerers(t2, o, e.uuid)'
    BY <1>1, <2>0 DEF Answerers
  <2> HIDE DEF n, n2, a, a2, l
  <2>8. l + n2 <= e.count + a2
    BY <1>2, <2>1, <2>2, <2>3, <2>4, <2>5, <2>6
  <2>9. TreeLeaves(tree') = TreeLeaves(tree)
    OBVIOUS
  <2> QED BY <2>7, <2>8, <2>9 DEF l, n2, a2
<1> QED BY <1>1, <1>2, <1>4, <1>5, <1>8, <1>9 DEF UnderWay

-----------------------------------------------------------------------------
(* Steps that leave the topology as it is.                                 *)

LEMMA SameTopology ==
  ASSUME UNCHANGED <<status, slots, node, tree, proc, rmlist>>
  PROVE  /\ Connections' = Connections /\ \A id : IsConnected(id)' <=> IsConnected(id)
         /\ \A q, id : HasChild(q, id)' <=> HasChild(q, id)
         /\ \A q : ChildPids(q)' = ChildPids(q)
         /\ HasEffect(Want)' <=> HasEffect(Want)
         /\ Done(Want)' <=> Done(Want)
<1>1. Connections' = Connections
  BY DEF Connections, IdOf
<1>2. \A id : IsConnected(id)' <=> IsConnected(id)
  BY DEF IsConnected, HasChild
<1>3. Want' = Want
  BY SameWant
<1>4. \A c : HasEffect(c)' <=> HasEffect(c)
  BY <1>2 DEF HasEffect, Gone
<1>5. HasEffect(Want)' <=> HasEffect(Want)
  BY <1>2, <1>3 DEF HasEffect, Gone
<1>6. Done(Want)' <=> Done(Want)
  BY <1>2, <1>3, <1>5 DEF Done
<1>7. \A q, id : HasChild(q, id)' <=> HasChild(q, id)
  BY DEF HasChild
<1>8. \A q : ChildPids(q)' = ChildPids(q)
  BY DEF ChildPids
<1> QED BY <1>1, <1>2, <1>5, <1>6, <1>7, <1>8

LEMMA SameShape ==
  ASSUME UNCHANGED <<status, slots, node, tree, proc, rmlist>>, Stopping' <=> Stopping,
         rcv.at = "wait" \/ rcv'.at = "wait" => rcv' = rcv
  PROVE  /\ Shape => Shape'
         /\ Removing' <=> Removing
         /\ Creating' <=> Creating
         /\ Target' = Target /\ Effected' = Effected
<1>1. /\ Connections' = Connections /\ \A id : IsConnected(id)' <=> IsConnected(id)
      /\ HasEffect(Want)' <=> HasEffect(Want)
  BY SameTopology
<1>2. Want' = Want
  BY SameWant
<1>4. /\ Stopping' <=> Stopping
      /\ Removing' <=> Removing
      /\ Target' = Target /\ Effected' = Effected
  <2>1. Effected' = Effected
    BY <1>1 DEF Effected
  <2> QED BY <2>1 DEF Stopping, Removing, Target
<1>5. Creating' <=> Creating
  BY <1>1, <1>4 DEF Creating
<1>6. Shape => Shape'
  <3> SUFFICES ASSUME Shape PROVE Shape'
    OBVIOUS
  <3>1. ~Removing' => /\ \A id \in Ids : TreeHas(tree', id) => status'[proc'[id]] = "run"
                      /\ Connections' = IF Creating' THEN Cut(tree') ELSE TreeEdges(tree')
    BY <1>1, <1>4, <1>5 DEF Shape
  <3>2. Removing' =>
           /\ Target' \in Ids /\ TreeHas(tree', Target')
           /\ Connections' = ChainEdges(tree', Target', Effected')
           /\ \A id \in Ids : TreeHas(tree', id) =>
                (status'[proc'[id]] = "run" <=> id # Target' \/ Effected' < Place(tree', Target'))
           /\ rcv'.at = "wait" => Effected' = Len(RemoveCommands(tree', Target'))
           /\ rcv'.at # "wait" => rmlist'[1].cmds = ChainOf(Target)'
    <4>1. ChainOf(Target)' = ChainOf(Target)
      BY <1>4 DEF ChainOf, Addressed
    <4> QED BY <1>1, <1>4, <4>1 DEF Shape
  <3> QED BY <3>1, <3>2 DEF Shape
<1> QED BY <1>4, <1>5, <1>6

LEMMA SameStage ==
  ASSUME NEW t, TInv(t),
         UNCHANGED <<status, slots, peer, linger, node, tree, proc, rmlist, main, rcv>>,
         Top' = {} <=> Top = {}
  PROVE  /\ Wired' /\ NoneStuck' /\ Stopping' = Stopping
         /\ Stopping' => Top' = {}
         /\ ~Stopping' => Shape' /\ Stage'
<1>1. /\ Shape => Shape'
      /\ Stopping' = Stopping
      /\ Creating' <=> Creating
  <2>1. Stopping' = Stopping
    BY DEF Stopping
  <2> QED BY <2>1, SameShape
<1>2. Want' = Want
  BY SameWant
<1>3. Wired' /\ NoneStuck'
  BY DEF TInv, Wired, NoneStuck, HasPeer
<1>7. Stage => Stage'
  <2>1. HasEffect(Want)' <=> HasEffect(Want)
    BY SameTopology
  <2>2. Resting' <=> Resting
    BY DEF Resting
  <2>3. (Idle <=> Idle') /\ (Forking <=> Forking') /\ (CreateSent <=> CreateSent') /\ (RemoveSent <=> RemoveSent')
        /\ (WaitNow <=> WaitNow')
    BY <1>1, <2>2 DEF Idle, Forking, CreateSent, RemoveSent, WaitNow
  <2>4. RemoveReady <=> RemoveReady'
    BY <1>2, <2>1 DEF RemoveReady
  <2> QED BY <2>3, <2>4 DEF Stage
<1> QED BY <1>1, <1>3, <1>7 DEF TInv

-----------------------------------------------------------------------------
(* Messages go past or are due.                                            *)

LEMMA SpentKept ==
  ASSUME NEW t, TInv(t), NEW t2 \in [Procs -> Nat], \A c \in Procs : t[c] <= t2[c],
         LinksOK, BooksOK, Books,
         Sent' \subseteq Sent, UNCHANGED <<node, tree, proc, nextUuid, rmlist>>, Top' = Top,
         \A q \in Procs : status'[q] = "run" => status[q] = "run",
         \A q \in Procs : \A id : HasChild(q, id)' => HasChild(q, id) \/ nextUuid = t2[q] + 1,
         \A e \in Top : t[Owner] < e.uuid /\ ~(t2[Owner] < e.uuid) =>
           \A x \in Sent' : x.uuid = e.uuid => Past(t2, x)'
  PROVE  Spent(t2)'
<1>1. Top' = Top /\ Owner' = Owner
  BY SameWant
<1>2. t \in [Procs -> Nat] /\ Spent(t)
  BY DEF TInv
<1>3. ASSUME NEW m \in Sent', Past(t, m)
      PROVE  Past(t2, m)'
  <2>1. m \in Sent /\ m.uuid < nextUuid /\ m.uuid \in Nat /\ nextUuid \in Nat
    <3>1. m \in Sent /\ m.uuid < nextUuid
      BY <1>3, SentTraced
    <3>2. m \in Message
      BY <3>1 DEF Sent
    <3> QED BY <3>1, <3>2 DEF Message, BooksOK
  <2>2. \A q \in Procs : t[q] \in Nat /\ t2[q] \in Nat /\ t[q] <= t2[q]
    BY <1>2
  <2>3. \A q \in Procs : m.uuid <= t[q] => m.uuid <= t2[q]
    BY <2>1, <2>2
  <2>4. \A q \in Procs : nextUuid = t2[q] + 1 => m.uuid <= t2[q]
    BY <2>1, <2>2
  <2>5. m.cmd \in {"create", "connect"} =>
          \A q \in Procs : status'[q] = "run" /\ node'[q] = m.parent => m.uuid <= t2[q]
    BY <1>3, <2>3 DEF Past
  <2>6. m.cmd = "disconnect" => \A q \in Procs : HasChild(q, m.id)' => m.uuid <= t2[q]
    BY <1>3, <2>3, <2>4 DEF Past
  <2>7. m.cmd = "remove" => \A q \in Procs : status'[q] = "run" /\ node'[q] = m.id => m.uuid <= t2[q]
    BY <1>3, <2>3 DEF Past
  <2> QED BY <1>3, <2>5, <2>6, <2>7 DEF Past
<1>4. ASSUME NEW m \in Sent', Due(t, m)
      PROVE  Due(t2, m)' \/ Past(t2, m)'
  <2>1. PICK e \in Top : e.uuid = m.uuid /\ t[Owner] < e.uuid
    BY <1>4 DEF Due
  <2>2. CASE t2[Owner] < e.uuid
    BY <1>1, <2>1, <2>2 DEF Due
  <2>3. CASE ~(t2[Owner] < e.uuid)
    BY <2>1, <2>3
  <2> QED BY <2>2, <2>3
<1>5. \A m \in Sent' : Due(t, m) \/ Past(t, m)
  BY <1>2 DEF Spent
<1> QED BY <1>3, <1>4, <1>5 DEF Spent

LEMMA QuietKept ==
  ASSUME NEW t, TInv(t), GoneQuiet(t), NEW t2 \in [Procs -> Nat],
         LinksOK, BooksOK, Books,
         Sent' \subseteq Sent, UNCHANGED node,
         \A x \in Procs : Gone(x)' /\ HasPeer(x)' =>
           /\ down'[x] = <<>>
           /\ (Gone(x) /\ HasPeer(x) /\ t2[x] = t[x]) \/ nextUuid = t2[x] + 1
  PROVE  GoneQuiet(t2)'
<1> SUFFICES ASSUME NEW x \in Procs, Gone(x)', HasPeer(x)'
             PROVE  /\ down'[x] = <<>>
                    /\ \A m \in Sent' : t2[x] < m.uuid => m.cmd = "disconnect" /\ m.id = node'[x]
  BY DEF GoneQuiet
<1>1. CASE Gone(x) /\ HasPeer(x) /\ t2[x] = t[x]
  BY <1>1 DEF GoneQuiet
<1>2. CASE nextUuid = t2[x] + 1
  <2> SUFFICES ASSUME NEW m \in Sent' PROVE ~(t2[x] < m.uuid)
    OBVIOUS
  <2>1. m \in Sent /\ m.uuid < nextUuid
    BY SentTraced
  <2>2. m.uuid \in Nat /\ nextUuid \in Nat /\ t2[x] \in Nat
    BY <2>1 DEF Sent, Message, BooksOK
  <2> QED BY <1>2, <2>1, <2>2
<1> QED BY <1>1, <1>2

-----------------------------------------------------------------------------
(* A node takes a message and the topology stays.                          *)

\* What the number of the message tells about the command under way.
LEMMA TakenUnderWay ==
  ASSUME LinksOK, BooksOK, Books, NEW t, TInv(t), NEW p \in Procs, Taking(p), NEW e \in Top
  PROVE  /\ Taken(p).uuid \in Nat /\ Taken(p) \in Sent
         /\ Taken(p).uuid = e.uuid \/ Taken(p).uuid < e.uuid
         /\ Taken(p).uuid = e.uuid => /\ Taken(p).cmd = Want.cmd /\ Taken(p).id = Want.id /\ Taken(p).cmd # "exec"
                                      /\ e.cmd = Want.cmd
                                      /\ peer[p] \notin {Owner, NoPeer}
         /\ Taken(p).uuid = e.uuid /\ p = Owner => IsFor(p, Taken(p))
         /\ Taken(p).uuid = e.uuid /\ p = Owner /\ Taken(p).cmd \in {"create", "connect"} =>
              Taken(p).parent = node[p]
         /\ Taken(p).uuid = e.uuid /\ Taken(p).cmd = "ping" /\ IsFor(p, Taken(p)) => p = Owner
<1> DEFINE m == Taken(p)
<1>1. down \in Queues(Message) /\ status[p] = "run" /\ down[p] # <<>>
  BY LinkFacts DEF Taking
<1>2. 1 \in 1..Len(down[p]) /\ m = down[p][1] /\ m \in Message /\ m.uuid \in Nat
  BY <1>1, TakenIs
<1>3. m \in Sent
  BY <1>1, <1>2, SentIs
<1>4. /\ UnderWay(t, e) /\ WantFacts /\ Owner \in Procs /\ node[Owner] = Addressee(tree, Want)
      /\ e \in outstanding /\ e.uuid \in Nat
  BY AwaitedNow
<1>5. m.uuid < nextUuid /\ nextUuid = e.uuid + 1
  BY <1>3, <1>4, SentTraced DEF UnderWay
<1>6. m.uuid = e.uuid \/ m.uuid < e.uuid
  BY <1>2, <1>4, <1>5
<1>7. m.uuid = e.uuid => m.cmd = e.cmd /\ m.id = e.id
  BY <1>3, <1>4, SentTraced
<1>8. e.cmd # "exec" /\ e.cmd = Want.cmd /\ e.id = Want.id
  BY <1>4 DEF Top, UnderWay
<1>9. m.uuid = e.uuid => peer[p] \notin {Owner, NoPeer}
  <2> SUFFICES ASSUME m.uuid = e.uuid, peer[p] \in {Owner, NoPeer} PROVE FALSE
    OBVIOUS
  <2>1. Behind(t, p, e.uuid)
    BY <1>4 DEF UnderWay
  <2>2. m.uuid < e.uuid
    BY <1>2, <2>1 DEF Behind
  <2> QED BY <1>4, <2>2
<1>10. m.uuid = e.uuid /\ p = Owner => IsFor(p, m) /\ m.parent = Want.parent
  BY OwnerKnows
<1>11. m.uuid = e.uuid /\ p = Owner /\ m.cmd \in {"create", "connect"} => m.parent = node[p]
  BY <1>4, <1>7, <1>8, <1>10 DEF Addressee
<1>12. m.uuid = e.uuid /\ m.cmd = "ping" /\ IsFor(p, m) => p = Owner
  <2> SUFFICES ASSUME m.uuid = e.uuid, m.cmd = "ping", IsFor(p, m) PROVE p = Owner
    OBVIOUS
  <2>1. node[p] = Want.id /\ Want.cmd = "ping"
    BY <1>7, <1>8 DEF IsFor
  <2>2. proc[node[p]] = p
    BY <1>1, RunsAs
  <2> QED BY <2>1, <2>2 DEF Owner, Addressee
<1> QED BY <1>2, <1>3, <1>6, <1>7, <1>8, <1>9, <1>10, <1>11, <1>12 DEF m

LEMMA QuietTake ==
  ASSUME LinksOK, LinksOK', BooksOK, Books, NEW t, TInv(t), NEW p \in Procs, Taking(p), Takes(p),
         Copied(down, down'),
         UNCHANGED <<status, slots, peer, linger, node, tree, proc, outstanding, nextUuid, rmlist, main, rcv>>,
         IsFor(p, Taken(p)) =>
           /\ \/ Taken(p).cmd \in {"ping", "exec"}
              \/ Taken(p).cmd \in {"create", "connect"} /\ Taken(p).parent # node[p]
           /\ \A c \in Procs : c # p => down'[c] = down[c],
         \/ up' = up
         \/ \E code \in Codes, value \in Values \cup {NoValue} :
              /\ up' = Answered(p, code, value)
              /\ IF IsFor(p, Taken(p))
                 THEN Taken(p).cmd = "exec" \/ (Taken(p).cmd = "ping" /\ code = "OK")
                 ELSE code = "NOT_FOUND" /\ ChildPids(p) = {}
  PROVE  \E t2 : TInv(t2)'
<1> DEFINE m == Taken(p)
<1>0. PICK t2 : t2 = [t EXCEPT ![p] = m.uuid]
  OBVIOUS
<1>1. /\ down \in Queues(Message) /\ up \in Queues(Reply) /\ up' \in Queues(Reply)
      /\ status[p] = "run" /\ down[p] # <<>>
  <2>1. up' \in Queues(Reply)
    BY DEF LinksOK, LinkTypeOK, Queues
  <2> QED BY <2>1, LinkFacts DEF Taking
<1>2. t \in [Procs -> Nat] /\ Ordered(t) /\ Wired
  BY DEF TInv
<1>3. /\ Ordered(t2)' /\ t2 \in [Procs -> Nat] /\ t[p] < m.uuid
      /\ \A c \in Procs : t2[c] = (IF c = p THEN m.uuid ELSE t[c]) /\ t[c] <= t2[c]
  BY <1>0, <1>2, OrderedTake, ZenonT(60)
<1>4. /\ Wired' /\ NoneStuck' /\ Stopping' = Stopping /\ Top' = Top
      /\ Stopping' => Top' = {}
      /\ ~Stopping' => Shape' /\ Stage'
  <2>1. Top' = Top
    BY SameTop
  <2> QED BY <2>1, SameStage
<1>5. /\ \A q, id : HasChild(q, id)' <=> HasChild(q, id)
      /\ \A q : ChildPids(q)' = ChildPids(q)
      /\ Done(Want)' <=> Done(Want)
  BY SameTopology
<1>6. Sent' \subseteq Sent
  BY <1>1, SentCopied
<1>7. ASSUME NEW e \in Top
      PROVE  /\ UnderWay(t, e) /\ Owner \in Procs /\ e.uuid \in Nat /\ e \in outstanding
             /\ m.uuid \in Nat
             /\ m.uuid = e.uuid \/ m.uuid < e.uuid
             /\ m.uuid = e.uuid => m.cmd # "exec" /\ e.cmd = m.cmd /\ peer[p] \notin {Owner, NoPeer}
             /\ m.uuid = e.uuid /\ p = Owner => IsFor(p, m) /\ m.cmd = "ping"
             /\ m.uuid = e.uuid /\ IsFor(p, m) /\ m.cmd = "ping" => p = Owner
  <2>1. UnderWay(t, e) /\ Owner \in Procs /\ e.uuid \in Nat /\ e \in outstanding
    BY AwaitedNow
  <2> QED BY <2>1, TakenUnderWay
<1>8. Spent(t2)'
  <2>1. ASSUME NEW e \in Top, t[Owner] < e.uuid, ~(t2[Owner] < e.uuid), NEW x \in Sent', x.uuid = e.uuid
        PROVE  Past(t2, x)'
    <3>1. p = Owner /\ m.uuid = e.uuid
      BY <1>3, <1>7, <2>1
    <3>2. e.cmd = "ping"
      BY <1>7, <3>1
    <3>3. x.cmd = e.cmd /\ x.id = e.id
      BY <1>6, <1>7, <2>1, SentTraced
    <3>4. e.id \in Ids
      BY <1>7 DEF Books, AwaitedAreKnown
    <3> QED BY <3>2, <3>3, <3>4 DEF Past
  <2> HIDE DEF m
  <2> QED BY <1>3, <1>4, <1>5, <1>6, <2>1, SpentKept
<1>9. ~Stopping' => GoneQuiet(t2)'
  <2> SUFFICES ASSUME ~Stopping PROVE GoneQuiet(t2)'
    BY <1>4
  <2>1. GoneQuiet(t)
    BY DEF TInv
  <2>2. WireFacts
    BY <1>2, WiresHold
  <2>3. ASSUME NEW x \in Procs, Gone(x)', HasPeer(x)'
        PROVE  down'[x] = <<>> /\ Gone(x) /\ HasPeer(x) /\ t2[x] = t[x]
    <3>1. Gone(x) /\ HasPeer(x)
      BY <2>3 DEF Gone, HasPeer
    <3>2. x # p /\ t2[x] = t[x]
      BY <1>1, <1>3, <3>1 DEF Gone
    <3>3. down[x] = <<>>
      BY <2>1, <3>1 DEF GoneQuiet
    <3>4. ASSUME peer[x] = p, down'[x] # down[x]
          PROVE  FALSE
      <4>1. m \in Sent /\ m.uuid \in Nat
        <5>1. 1 \in 1..Len(down[p]) /\ m = down[p][1] /\ m.uuid \in Nat
          BY <1>1, TakenIs
        <5> QED BY <1>1, <5>1, SentIs
      <4>2. t[x] <= t[p] /\ t[x] \in Nat /\ t[p] \in Nat
        BY <1>2, <3>4 DEF Ordered
      <4>3. t[x] < m.uuid
        BY <1>3, <4>1, <4>2
      <4>4. m.cmd = "disconnect" /\ m.id = node[x]
        BY <2>1, <3>1, <4>1, <4>3 DEF GoneQuiet
      <4>5. node[x] \in Linked /\ proc[node[x]] = x
        BY <2>2, <3>1 DEF WireFacts
      <4>6. HasChild(p, node[x])
        BY <2>2, <3>4, <4>5, Pids DEF WireFacts, Linked
      <4>7. IsFor(p, m)
        BY <4>4, <4>6 DEF IsFor
      <4> QED BY <3>2, <3>4, <4>7
    <3> QED BY <3>1, <3>2, <3>3, <3>4 DEF Takes
  <2> HIDE DEF m
  <2> QED BY <1>3, <1>6, <2>1, <2>3, QuietKept
<1>10. ASSUME NEW e \in Top
       PROVE  UnderWay(t2, e)'
  <2>1. /\ UnderWay(t, e) /\ Owner \in Procs /\ e.uuid \in Nat /\ e \in outstanding
        /\ m.uuid \in Nat
        /\ m.uuid = e.uuid \/ m.uuid < e.uuid
        /\ m.uuid = e.uuid => m.cmd # "exec" /\ e.cmd = m.cmd /\ peer[p] \notin {Owner, NoPeer}
        /\ m.uuid = e.uuid /\ p = Owner => IsFor(p, m) /\ m.cmd = "ping"
        /\ m.uuid = e.uuid /\ IsFor(p, m) /\ m.cmd = "ping" => p = Owner
    BY <1>7
  <2>2. ASSUME NEW c \in Procs, peer'[c] \in {Owner, NoPeer}
        PROVE  Behind(t2, c, e.uuid)'
    <3>1. Behind(t, c, e.uuid) /\ peer[c] \in {Owner, NoPeer}
      BY <2>1, <2>2 DEF UnderWay
    <3>2. m \in Message /\ 1 \in 1..Len(down[p]) /\ m = down[p][1]
      BY <1>1, TakenIs
    <3>3. CASE c = p
      <4>1. m.uuid < e.uuid
        BY <2>1, <3>1, <3>3
      <4>2. \A i \in 1..Len(down'[c]) : \E j \in 1..Len(down[c]) : down'[c][i] = down[c][j]
        <5>1. \A i \in 1..Len(Tail(down[p])) : i + 1 \in 1..Len(down[p]) /\ Tail(down[p])[i] = down[p][i + 1]
          BY <1>1, TakenIs
        <5>2. down'[c] = Tail(down[p]) \/ down'[c] = <<>>
          BY <3>3 DEF Takes
        <5>3. CASE down'[c] = Tail(down[p])
          BY <3>3, <5>1, <5>3
        <5>4. CASE down'[c] = <<>>
          BY <5>4
        <5> QED BY <5>2, <5>3, <5>4
      <4>3. t2[c] < e.uuid
        BY <1>3, <3>3, <4>1
      <4> QED BY <3>1, <4>2, <4>3 DEF Behind
    <3>4. CASE c # p
      <4>1. t2[c] < e.uuid
        BY <1>3, <3>1, <3>4 DEF Behind
      <4>2. CASE down'[c] = down[c]
        BY <3>1, <4>1, <4>2 DEF Behind
      <4>3. CASE peer[c] = p /\ down'[c] = Append(down[c], m) /\ down'[c] # down[c]
        <5>1. p = Owner
          BY <3>1, <4>3, Pids
        <5>2. ~IsFor(p, m)
          BY <3>4, <4>3
        <5>3. m.uuid < e.uuid
          BY <2>1, <5>1, <5>2
        <5>4. PICK s \in Seq(Message) : s = down[c]
          BY <1>1 DEF Queues
        <5>5. \A i \in 1..Len(Append(s, m)) : Append(s, m)[i] = m \/ (i \in 1..Len(s) /\ Append(s, m)[i] = s[i])
          <6>1. /\ Len(Append(s, m)) = Len(s) + 1 /\ Len(s) \in Nat
                /\ \A i \in 1..Len(s) : Append(s, m)[i] = s[i]
                /\ Append(s, m)[Len(s) + 1] = m
            BY <3>2, AppendIs
          <6> QED BY <6>1
        <5>6. \A i \in 1..Len(down'[c]) : down'[c][i].uuid < e.uuid
          BY <3>1, <4>3, <5>3, <5>4, <5>5 DEF Behind
        <5> QED BY <4>1, <5>6 DEF Behind
      <4> QED BY <3>4, <4>2, <4>3 DEF Takes
    <3> QED BY <3>3, <3>4
  <2>3. e.cmd # "ping" => (e.uuid <= t2[Owner] <=> Done(Want)')
    <3> SUFFICES ASSUME e.cmd # "ping" PROVE e.uuid <= t2[Owner] <=> Done(Want)
      BY <1>5
    <3>1. e.uuid <= t[Owner] <=> Done(Want)
      BY <2>1 DEF UnderWay
    <3>2. t[Owner] \in Nat /\ t[p] \in Nat
      BY <1>2, <2>1
    <3>3. e.uuid <= t2[Owner] <=> e.uuid <= t[Owner]
      <4>1. CASE p # Owner
        BY <1>3, <2>1, <4>1
      <4>2. CASE p = Owner
        <5>1. m.uuid < e.uuid
          BY <2>1, <4>2
        <5>2. t2[Owner] = m.uuid /\ t[Owner] < m.uuid
          BY <1>3, <2>1, <4>2
        <5> QED BY <2>1, <3>2, <5>1, <5>2
      <4> QED BY <4>1, <4>2
    <3> QED BY <3>1, <3>3
  <2>4. CASE up' = up
    <3>1. \A r \in Replied' : r \in Replied
      BY <2>4 DEF Replied
    <3>2. Cardinality(NotFounds(e.uuid)') <= Cardinality(NotFounds(e.uuid))
      BY <1>1, <2>4, NotFoundsWritten
    <3> HIDE DEF m
    <3> QED BY <1>3, <1>5, <1>6, <2>2, <2>3, <3>1, <3>2, UnderWayKept
  <2>5. ASSUME NEW code \in Codes, NEW value \in Values \cup {NoValue}, up' = Answered(p, code, value),
               IF IsFor(p, Taken(p))
               THEN Taken(p).cmd = "exec" \/ (Taken(p).cmd = "ping" /\ code = "OK")
               ELSE code = "NOT_FOUND" /\ ChildPids(p) = {}
        PROVE  UnderWay(t2, e)'
    <3>1. PICK a : a = Answer(m, code, value)
      OBVIOUS
    <3>2. a \in Reply /\ a.uuid = m.uuid /\ a.code = code /\ AnswerAdded(up, up', p, a)
      BY <1>1, <2>5, <3>1, AnsweredIs
    <3>3. up' = [up EXCEPT ![p] = Append(@, a)]
      BY <2>5, <3>1 DEF Answered
    <3>4. Replied' \subseteq Replied \cup {a}
      BY <1>1, <3>2, RepliedAdded
    <3>5. \A r \in Replied' : r.uuid = e.uuid =>
            r \in Replied \/ (r.code \in {"OK", "NOT_FOUND"} /\ (r.code = "OK" => e.uuid <= t2[Owner]))
      <4> SUFFICES ASSUME a.uuid = e.uuid
                   PROVE  a.code \in {"OK", "NOT_FOUND"} /\ (a.code = "OK" => e.uuid <= t2[Owner])
        BY <3>4
      <4>1. m.uuid = e.uuid /\ m.cmd # "exec"
        BY <2>1, <3>2
      <4>2. CASE IsFor(p, m)
        <5>1. m.cmd = "ping" /\ code = "OK"
          BY <2>5, <4>1, <4>2
        <5>2. p = Owner
          BY <2>1, <4>1, <4>2, <5>1
        <5>3. t2[Owner] = e.uuid
          BY <1>3, <4>1, <5>2
        <5>4. e.uuid <= t2[Owner]
          BY <2>1, <5>3
        <5> QED BY <3>2, <5>1, <5>4
      <4>3. CASE ~IsFor(p, m)
        BY <2>5, <3>2, <4>3
      <4> QED BY <4>2, <4>3
    <3>6. \/ Cardinality(NotFounds(e.uuid)') <= Cardinality(NotFounds(e.uuid))
          \/ /\ Cardinality(NotFounds(e.uuid)') <= Cardinality(NotFounds(e.uuid)) + 1
             /\ \E q \in Procs : q # Owner /\ t[q] < e.uuid /\ e.uuid <= t2[q] /\ ChildPids(q) = {}
      <4>1. CASE a.uuid = e.uuid => a.code # "NOT_FOUND"
        <5>1. \A c \in Procs : \/ up'[c] = up[c] \/ up'[c] = <<>>
                               \/ c = p /\ \E b \in Reply : up'[c] = Append(up[c], b)
                                             /\ (b.uuid = e.uuid => b.code # "NOT_FOUND")
          BY <1>1, <3>2, <3>3, <4>1 DEF Queues
        <5> QED BY <1>1, <5>1, NotFoundsWritten
      <4>2. CASE a.uuid = e.uuid /\ a.code = "NOT_FOUND"
        <5>1. m.uuid = e.uuid /\ m.cmd # "exec"
          BY <2>1, <3>2, <4>2
        <5>2. ~IsFor(p, m)
          BY <2>5, <3>2, <4>2, <5>1
        <5>3. ChildPids(p) = {} /\ p # Owner
          BY <2>1, <2>5, <5>1, <5>2
        <5>4. t[p] < e.uuid /\ e.uuid <= t2[p]
          BY <1>3, <2>1, <5>1
        <5>5. Cardinality(NotFounds(e.uuid)') <= Cardinality(NotFounds(e.uuid)) + 1
          BY <1>1, <3>2, <3>3, NotFoundsAdded
        <5> QED BY <5>3, <5>4, <5>5
      <4> QED BY <4>1, <4>2
    <3> HIDE DEF m
    <3> QED BY <1>3, <1>5, <1>6, <2>2, <2>3, <3>5, <3>6, UnderWayKept
  <2> QED BY <2>4, <2>5
<1>11. ~Stopping' => \A e \in Top' : Top' = {e} /\ UnderWay(t2, e)'
  BY <1>4, <1>10 DEF TInv
<1>12. TInv(t2)'
  BY <1>3, <1>4, <1>8, <1>9, <1>11 DEF TInv
<1> QED BY <1>12

LEMMA NotItsOwnPeer ==
  ASSUME LinksOK, NEW t \in [Procs -> Nat], Ordered(t), NEW p \in Procs, down[p] # <<>>
  PROVE  peer[p] # p
<1>1. 1 \in 1..Len(down[p]) /\ Taken(p) = down[p][1] /\ Taken(p).uuid \in Nat
  BY LinkFacts, TakenIs
<1>2. t[p] < Taken(p).uuid /\ (peer[p] \in Procs => Taken(p).uuid <= t[peer[p]])
  BY <1>1 DEF Ordered
<1>3. t[p] \in Nat
  OBVIOUS
<1>4. peer[p] = p => FALSE
  BY <1>1, <1>2, <1>3
<1> QED BY <1>4

LEMMA RestTakes ==
  ASSUME LinksOK, NEW p \in Procs, Taking(p), down' = Rest(p)
  PROVE  Takes(p) /\ \A c \in Procs : c # p => down'[c] = down[c]
<1>1. down \in Queues(Message) /\ down[p] # <<>>
  BY LinkFacts DEF Taking
<1>2. \A c \in Procs : down'[c] = IF c = p THEN Tail(down[p]) ELSE down[c]
  BY <1>1 DEF Rest, Queues
<1> QED BY <1>1, <1>2 DEF Takes

LEMMA PushTakes ==
  ASSUME LinksOK, NEW t, TInv(t), NEW p \in Procs, Taking(p), down' = Pushed(Rest(p), p, Taken(p))
  PROVE  Takes(p)
<1>1. down \in Queues(Message) /\ down[p] # <<>>
  BY LinkFacts DEF Taking
<1>2. \A c \in Procs : Rest(p)[c] = IF c = p THEN Tail(down[p]) ELSE down[c]
  BY <1>1 DEF Rest, Queues
<1>3. peer[p] # p
  BY <1>1, NotItsOwnPeer DEF TInv
<1>4. \A c \in Procs : down'[c] = IF c \in ChildPids(p) /\ peer[c] = p
                                  THEN Append(Rest(p)[c], Taken(p)) ELSE Rest(p)[c]
  BY DEF Pushed
<1> QED BY <1>1, <1>2, <1>3, <1>4 DEF Takes

LEMMA QuietHandlers ==
  ASSUME LinksOK, BooksOK, Books, NEW t, TInv(t), NEW p \in Procs, UNCHANGED controlVars,
         \/ PushNext(p) \/ Ping(p) \/ Exec(p)
         \/ Connect(p) /\ Taken(p).parent # node[p]
  PROVE  \E t2 : TInv(t2)'
<1>1. UNCHANGED <<tree, proc, outstanding, nextUuid, rmlist, main, rcv>>
  BY DEF controlVars
<1>2. NodeNext(p)
  BY DEF NodeNext, TakeMessage
<1>3. Effect(p)
  BY <1>2, NodeEffect
<1>4. LinksOK' /\ Copied(down, down')
  BY <1>3 DEF Effect
<1>5. NoValue \in Values \cup {NoValue} /\ "OK" \in Codes /\ "NOT_FOUND" \in Codes /\ "CUSTOM" \in Codes
  BY DEF Codes
<1>6. dict[p] \in Values \cup {NoValue}
  BY LinkFacts
<1>7. CASE PushNext(p)
  <2>1. Taking(p) /\ ~IsFor(p, Taken(p)) /\ UNCHANGED <<status, slots, peer, linger, node>>
    BY <1>7 DEF PushNext
  <2>2. CASE down' = Pushed(Rest(p), p, Taken(p)) /\ up' = up
    <3>1. Takes(p)
      BY <2>1, <2>2, PushTakes
    <3> QED BY <1>1, <1>4, <2>1, <2>2, <3>1, QuietTake
  <2>3. CASE down' = Rest(p) /\ up' = Answered(p, "NOT_FOUND", NoValue) /\ ChildPids(p) = {}
    <3>1. Takes(p)
      BY <2>1, <2>3, RestTakes
    <3>2. \E code \in Codes, value \in Values \cup {NoValue} :
              /\ up' = Answered(p, code, value)
              /\ IF IsFor(p, Taken(p))
                 THEN Taken(p).cmd = "exec" \/ (Taken(p).cmd = "ping" /\ code = "OK")
                 ELSE code = "NOT_FOUND" /\ ChildPids(p) = {}
      BY <1>5, <2>1, <2>3
    <3> QED BY <1>1, <1>4, <2>1, <3>1, <3>2, QuietTake
  <2> QED BY <1>7, <2>2, <2>3 DEF PushNext
<1>8. CASE Ping(p)
  <2>1. /\ Taking(p) /\ IsFor(p, Taken(p)) /\ Taken(p).cmd = "ping" /\ down' = Rest(p)
        /\ up' = Answered(p, "OK", NoValue) /\ UNCHANGED <<status, slots, peer, linger, node>>
    BY <1>8 DEF Ping
  <2>2. Takes(p) /\ \A c \in Procs : c # p => down'[c] = down[c]
    BY <2>1, RestTakes
  <2>3. \E code \in Codes, value \in Values \cup {NoValue} :
              /\ up' = Answered(p, code, value)
              /\ IF IsFor(p, Taken(p))
                 THEN Taken(p).cmd = "exec" \/ (Taken(p).cmd = "ping" /\ code = "OK")
                 ELSE code = "NOT_FOUND" /\ ChildPids(p) = {}
    BY <1>5, <2>1
  <2> QED BY <1>1, <1>4, <2>1, <2>2, <2>3, QuietTake
<1>9. CASE Exec(p)
  <2>1. /\ Taking(p) /\ IsFor(p, Taken(p)) /\ Taken(p).cmd = "exec" /\ down' = Rest(p)
        /\ UNCHANGED <<status, slots, peer, linger, node>>
        /\ \/ up' = Answered(p, "CUSTOM", NoValue) \/ up' = Answered(p, "OK", dict[p])
           \/ up' = Answered(p, "OK", NoValue)
    BY <1>9 DEF Exec
  <2>2. Takes(p) /\ \A c \in Procs : c # p => down'[c] = down[c]
    BY <2>1, RestTakes
  <2>3. \E code \in Codes, value \in Values \cup {NoValue} :
              /\ up' = Answered(p, code, value)
              /\ IF IsFor(p, Taken(p))
                 THEN Taken(p).cmd = "exec" \/ (Taken(p).cmd = "ping" /\ code = "OK")
                 ELSE code = "NOT_FOUND" /\ ChildPids(p) = {}
    BY <1>5, <1>6, <2>1
  <2> QED BY <1>1, <1>4, <2>1, <2>2, <2>3, QuietTake
<1>10. CASE Connect(p) /\ Taken(p).parent # node[p]
  <2>1. /\ Taking(p) /\ Taken(p).cmd \in {"create", "connect"} /\ down' = Rest(p)
        /\ up' = up /\ UNCHANGED <<status, slots, peer, linger, node>>
    BY <1>10 DEF Connect
  <2>2. Takes(p) /\ \A c \in Procs : c # p => down'[c] = down[c]
    BY <2>1, RestTakes
  <2> QED BY <1>1, <1>4, <1>10, <2>1, <2>2, QuietTake
<1> QED BY <1>7, <1>8, <1>9, <1>10

-----------------------------------------------------------------------------
(* An answer is passed on, or read.                                        *)

\* Only answers go away, and they are no more than they were.
LEMMA AnswersKept ==
  ASSUME LinksOK, LinksOK', BooksOK, Books, NEW t, TInv(t),
         UNCHANGED <<status, slots, peer, linger, node, down, tree, proc, nextUuid, rmlist, main, rcv>>,
         Top' = Top, Replied' \subseteq Replied,
         \A u \in Nat : Cardinality(NotFounds(u)') <= Cardinality(NotFounds(u))
  PROVE  TInv(t)'
<1>1. t \in [Procs -> Nat] /\ Ordered(t) /\ \A c \in Procs : t[c] <= t[c]
  BY DEF TInv
<1>2. Ordered(t)'
  BY <1>1 DEF Ordered
<1>3. /\ Wired' /\ NoneStuck' /\ Stopping' = Stopping /\ Top' = Top
      /\ Stopping' => Top' = {}
      /\ ~Stopping' => Shape' /\ Stage'
  BY SameStage
<1>4. /\ \A q, id : HasChild(q, id)' <=> HasChild(q, id)
      /\ \A q : ChildPids(q)' = ChildPids(q)
      /\ Done(Want)' <=> Done(Want)
  BY SameTopology
<1>5. Sent' = Sent
  BY DEF Sent
<1>6. Spent(t)'
  BY <1>1, <1>3, <1>4, <1>5, SpentKept
<1>7. ~Stopping' => GoneQuiet(t)'
  <2> SUFFICES ASSUME ~Stopping PROVE GoneQuiet(t)'
    BY <1>3
  <2>1. GoneQuiet(t)
    BY DEF TInv
  <2> QED BY <1>5, <2>1 DEF GoneQuiet, Gone, HasPeer
<1>8. ASSUME NEW e \in Top PROVE UnderWay(t, e)'
  <2>1. UnderWay(t, e) /\ e.uuid \in Nat
    BY AwaitedNow
  <2>2. \A c \in Procs : peer'[c] \in {Owner, NoPeer} => Behind(t, c, e.uuid)'
    BY <2>1 DEF UnderWay, Behind
  <2>3. e.cmd # "ping" => (e.uuid <= t[Owner] <=> Done(Want)')
    BY <1>4, <2>1 DEF UnderWay
  <2> QED BY <1>1, <1>4, <1>5, <2>1, <2>2, <2>3, UnderWayKept
<1>9. ~Stopping' => \A e \in Top' : Top' = {e} /\ UnderWay(t, e)'
  BY <1>3, <1>8 DEF TInv
<1> QED BY <1>1, <1>2, <1>3, <1>6, <1>7, <1>9 DEF TInv

LEMMA PassedIs ==
  ASSUME up \in Queues(Reply), NEW c \in Procs, NEW p \in Procs, up[c] # <<>>,
         up' = [[up EXCEPT ![c] = Tail(@)] EXCEPT ![p] = Append(@, Head(up[c]))]
  PROVE  Replied' \subseteq Replied
<1>1. up[c] \in Seq(Reply)
  BY DEF Queues
<1>2. /\ Head(up[c]) \in Reply /\ Head(up[c]) = up[c][1] /\ 1 \in 1..Len(up[c])
      /\ Tail(up[c]) \in Seq(Reply)
      /\ \A i \in 1..Len(Tail(up[c])) : i + 1 \in 1..Len(up[c]) /\ Tail(up[c])[i] = up[c][i + 1]
  BY <1>1, TailIs
<1>3. PICK w \in Queues(Reply) : w = [up EXCEPT ![c] = Tail(@)]
  BY <1>2 DEF Queues
<1>4. PICK a \in Reply : a = Head(up[c])
  BY <1>2
<1>5. \A d \in Procs : w[d] = IF d = c THEN Tail(up[c]) ELSE up[d]
  BY <1>3 DEF Queues
<1>6. \A d \in Procs : up'[d] = IF d = p THEN Append(w[p], a) ELSE w[d]
  BY <1>3, <1>4 DEF Queues
<1>7. w[p] \in Seq(Reply)
  BY DEF Queues
<1>8. /\ Len(Append(w[p], a)) = Len(w[p]) + 1 /\ Len(w[p]) \in Nat
      /\ \A i \in 1..Len(w[p]) : Append(w[p], a)[i] = w[p][i]
      /\ Append(w[p], a)[Len(w[p]) + 1] = a
  BY <1>7, AppendIs
<1>9. a \in Replied
  BY <1>2, <1>4 DEF Replied
<1>10. ASSUME NEW d \in Procs, NEW i \in 1..Len(w[d]), w[d][i] \in Reply PROVE w[d][i] \in Replied
  BY <1>2, <1>5, <1>10, ZenonT(60) DEF Replied
<1>11. ASSUME NEW d \in Procs, NEW i \in 1..Len(up'[d]), up'[d][i] \in Reply PROVE up'[d][i] \in Replied
  <2>1. CASE d # p
    BY <1>6, <1>10, <1>11, <2>1
  <2>2. CASE d = p
    <3>1. up'[d] = Append(w[p], a)
      BY <1>6, <2>2
    <3>2. i = Len(w[p]) + 1 \/ i \in 1..Len(w[p])
      BY <1>8, <3>1, SMTT(60)
    <3>3. CASE i = Len(w[p]) + 1
      BY <1>8, <1>9, <3>1, <3>3
    <3>4. CASE i \in 1..Len(w[p])
      BY <1>8, <1>10, <1>11, <2>2, <3>1, <3>4
    <3> QED BY <3>2, <3>3, <3>4
  <2> QED BY <2>1, <2>2
<1>12. SUFFICES ASSUME NEW r \in Replied' PROVE r \in Replied
  OBVIOUS
<1>13. PICK d \in Procs : \E i \in 1..Len(up'[d]) : r = up'[d][i]
  BY DEF Replied
<1>14. r \in Reply
  BY DEF Replied
<1> QED BY <1>11, <1>13, <1>14

LEMMA PassUpKeeps ==
  ASSUME LinksOK, BooksOK, Books, NEW t, TInv(t), NEW p \in Procs, NEW s \in SlotNames,
         PassUp(p, s), UNCHANGED controlVars
  PROVE  TInv(t)'
<1>1. UNCHANGED <<tree, proc, outstanding, nextUuid, rmlist, main, rcv>>
  BY DEF controlVars
<1>2. NodeNext(p)
  BY DEF NodeNext
<1>3. Effect(p)
  BY <1>2, NodeEffect
<1>4. LinksOK'
  BY <1>3 DEF Effect
<1>5. PICK c : c = slots[p][s].pid
  OBVIOUS
<1>6. /\ c # Control /\ up[c] # <<>> /\ UNCHANGED <<status, slots, peer, down, linger, node>>
      /\ up' = [[up EXCEPT ![c] = Tail(@)] EXCEPT ![p] = Append(@, Head(up[c]))]
  BY <1>5 DEF PassUp
<1>7. c \in Procs
  BY <1>5, <1>6, LinkFacts, Pids DEF Links, Slot
<1>8. up \in Queues(Reply)
  BY LinkFacts
<1>9. Replied' \subseteq Replied
  BY <1>6, <1>7, <1>8, PassedIs
<1>10. \A u \in Nat : Cardinality(NotFounds(u)') <= Cardinality(NotFounds(u))
  BY <1>6, <1>7, <1>8, NotFoundsPassed
<1>11. Top' = Top
  BY <1>1, SameTop
<1> QED BY <1>1, <1>4, <1>6, <1>9, <1>10, <1>11, AnswersKept

-----------------------------------------------------------------------------
(* A command takes effect.                                                 *)

\* The cluster after k commands of the removal of x.
ShapeAt(x, k) ==
  /\ x \in Ids /\ TreeHas(tree, x)
  /\ Connections = ChainEdges(tree, x, k)
  /\ \A id \in Ids : TreeHas(tree, id) =>
       (status[proc[id]] = "run" <=> id # x \/ k < Place(tree, x))

LEMMA StepAt ==
  ASSUME Books, NEW x, NEW k \in Nat, ShapeAt(x, k), k < Len(RemoveCommands(tree, x)),
         NEW c, c = RemoveCommands(tree, x)[k + 1],
         Connections' = EffectOn(Connections, c), UNCHANGED <<tree, proc>>,
         \A id \in Ids : TreeHas(tree, id) =>
           (status'[proc[id]] = "run" <=> status[proc[id]] = "run" /\ ~(c.cmd = "remove" /\ id = c.id))
  PROVE  ShapeAt(x, k + 1)'
<1>1. WellFormed(tree) /\ x \in Ids /\ TreeHas(tree, x) /\ Connections = ChainEdges(tree, x, k)
  BY DEF Books, ShapeAt
<1>2. Connections' = ChainEdges(tree, x, k + 1)
  BY <1>1, PlanStep
<1>3. NextCommand(tree, x, k, c, ChainEdges(tree, x, k))
  BY <1>1, PlanNext
<1>4. (c.cmd = "remove" <=> k + 1 = Place(tree, x)) /\ (c.cmd = "remove" => c.id = x)
  BY <1>3 DEF NextCommand
<1>5. Place(tree, x) \in Nat
  BY DEF Place
<1>6. ASSUME NEW id \in Ids, TreeHas(tree, id)
      PROVE  status'[proc[id]] = "run" <=> id # x \/ k + 1 < Place(tree, x)
  <2>1. status[proc[id]] = "run" <=> id # x \/ k < Place(tree, x)
    BY <1>6 DEF ShapeAt
  <2>2. status'[proc[id]] = "run" <=> status[proc[id]] = "run" /\ ~(c.cmd = "remove" /\ id = c.id)
    BY <1>6
  <2>3. k + 1 < Place(tree, x) <=> k < Place(tree, x) /\ k + 1 # Place(tree, x)
    BY <1>5
  <2>4. CASE c.cmd = "remove"
    BY <1>4, <2>1, <2>2, <2>3, <2>4
  <2>5. CASE c.cmd # "remove"
    BY <1>4, <2>1, <2>2, <2>3, <2>5
  <2> QED BY <2>4, <2>5
<1> QED BY <1>1, <1>2, <1>6 DEF ShapeAt

\* What the command under way does to the connections.
Effective ==
  /\ Want.cmd \in {"create", "connect"} => Connections' = Connections \cup {<<Want.parent, Want.id>>}
  /\ Want.cmd = "disconnect" => Connections' = {e \in Connections : e[2] # Want.id}
  /\ Want.cmd = "remove" => Connections' = {e \in Connections : e[1] # Want.id}
  /\ \A id \in Ids : TreeHas(tree, id) =>
       (status'[proc[id]] = "run" <=> status[proc[id]] = "run" /\ ~(Want.cmd = "remove" /\ id = Want.id))

\* The chain goes on to the next command.
LEMMA ChainEffected ==
  ASSUME Books, BooksOK, WireFacts, Shape, ~Stopping, rcv.at # "wait", ~Done(Want), Len(rmlist) = 1,
         Want.cmd # "ping", Effective, UNCHANGED <<tree, proc>>,
         NEW x, x = Target, NEW k, k = rmlist[1].now
  PROVE  /\ ShapeAt(x, k + 1)'
         /\ Target \in Ids /\ TreeHas(tree, Target) /\ Target = rmlist[1].target
         /\ k \in Nat /\ k < Len(RemoveCommands(tree, Target))
         /\ rmlist[1].cmds = ChainOf(Target)
<1>1. Removing /\ rmlist # <<>>
  BY DEF Removing
<1>2. /\ Target \in Ids /\ TreeHas(tree, Target) /\ rmlist[1].cmds = ChainOf(Target)
      /\ \A id \in Ids : TreeHas(tree, id) =>
             (status[proc[id]] = "run" <=> id # Target \/ Effected < Place(tree, Target))
  BY <1>1 DEF Shape
<1>3. /\ Ready /\ Effected = rmlist[1].now /\ Connections = ChainEdges(tree, Target, rmlist[1].now)
  BY <1>1, WantReady
<1>5. PICK c : c = RemoveCommands(tree, Target)[k + 1]
  OBVIOUS
<1>6. /\ Target = rmlist[1].target /\ k \in Nat /\ k < Len(RemoveCommands(tree, Target))
      /\ Want = [cmd |-> c.cmd, id |-> c.id, parent |-> c.parent, pid |-> proc[c.id]]
      /\ NextCommand(tree, Target, k, c, ChainEdges(tree, Target, k))
  BY <1>2, <1>5, ChainNow
<1>7. Want.cmd = c.cmd /\ Want.id = c.id /\ Want.parent = c.parent
  BY <1>6
<1>9. ShapeAt(x, k)
  BY <1>2, <1>3 DEF ShapeAt
<1>10. c.cmd \in {"disconnect", "remove", "connect"}
  BY <1>6, <1>7 DEF NextCommand
<1>11. Connections' = EffectOn(Connections, c)
  <2>1. CASE c.cmd = "connect"
    <3>1. ~FullIn(Connections, c.parent)
      BY <1>3, <1>7, <2>1 DEF Ready
    <3> QED BY <1>7, <2>1, <3>1 DEF EffectOn, Effective
  <2>2. CASE c.cmd = "disconnect"
    BY <1>7, <2>2 DEF EffectOn, Effective
  <2>3. CASE c.cmd = "remove"
    BY <1>7, <2>3 DEF EffectOn, Effective
  <2> QED BY <1>10, <2>1, <2>2, <2>3
<1>12. \A id \in Ids : TreeHas(tree, id) =>
         (status'[proc[id]] = "run" <=> status[proc[id]] = "run" /\ ~(c.cmd = "remove" /\ id = c.id))
  BY <1>7 DEF Effective
<1>13. ShapeAt(x, k + 1)'
  BY <1>5, <1>6, <1>9, <1>11, <1>12, StepAt
<1> QED BY <1>2, <1>6, <1>13

\* The connections when a node has carried out the command under way.
LEMMA ShapeEffected ==
  ASSUME Books, BooksOK, WireFacts, Shape, ~Stopping, rcv.at # "wait", ~Done(Want),
         Len(rmlist) = 1 \/ (rmlist = <<>> /\ Len(tree) > 1),
         Want.cmd # "ping", Effective, Done(Want)', UNCHANGED <<tree, proc, rmlist, rcv, main>>
  PROVE  Shape'
<1>1. Want' = Want
  BY SameWant
<1>2. Removing' <=> Removing
  BY DEF Removing
<1>3. WellFormed(tree) /\ WantFacts
  BY WantIs DEF Books
<1>4. CASE Len(rmlist) = 1
  <2>1. Removing /\ rmlist # <<>>
    BY <1>4 DEF Removing
  <2>0. PICK x, k : x = Target /\ k = rmlist[1].now
    OBVIOUS
  <2>2. /\ ShapeAt(x, k + 1)'
        /\ Target \in Ids /\ TreeHas(tree, Target) /\ Target = rmlist[1].target
        /\ k \in Nat /\ rmlist[1].cmds = ChainOf(Target)
    BY <1>4, <2>0, ChainEffected
  <2>3. Target' = Target
    BY DEF Target
  <2>4. HasEffect(Want)'
    BY <1>1, <1>3, <2>1 DEF Done, WantFacts
  <2>5. Effected' = k + 1
    BY <1>1, <2>0, <2>2, <2>4 DEF Effected
  <2>6. rmlist'[1].cmds = ChainOf(Target)'
    BY <2>2, <2>3 DEF ChainOf, Addressed
  <2>7. /\ Target' \in Ids /\ TreeHas(tree', Target')
        /\ Connections' = ChainEdges(tree', Target', Effected')
        /\ \A id \in Ids : TreeHas(tree', id) =>
             (status'[proc'[id]] = "run" <=> id # Target' \/ Effected' < Place(tree', Target'))
    BY <2>0, <2>2, <2>3, <2>5 DEF ShapeAt
  <2> QED BY <1>2, <2>1, <2>6, <2>7 DEF Shape
<1>5. CASE rmlist = <<>> /\ Len(tree) > 1
  <2>1. Want.cmd = "create" /\ Want.id = TreeLast(tree) /\ Want.parent = TreeLastParent(tree)
    BY <1>5 DEF Want
  <2>2. ~Removing /\ ~Removing'
    BY <1>2, <1>5 DEF Removing
  <2>3. Creating /\ Connections = Cut(tree)
    BY <1>5, WantReady
  <2>4. Connections' = TreeEdges(tree)
    BY <1>3, <1>5, <2>1, <2>3, CutFacts DEF Effective
  <2>5. ~Creating'
    <3>1. IsConnected(TreeLast(tree))'
      BY <1>1, <2>1 DEF Done
    <3> QED BY <3>1 DEF Creating
  <2>6. \A id \in Ids : TreeHas(tree, id) => status'[proc[id]] = "run"
    BY <2>1, <2>2 DEF Shape, Effective
  <2> QED BY <2>2, <2>4, <2>5, <2>6 DEF Shape
<1> QED BY <1>4, <1>5

\* The step of the addressee that carries the command out.
LEMMA EffectiveKeeps ==
  ASSUME LinksOK, LinksOK', BooksOK, BooksOK', Books, Books', NEW t, TInv(t), NEW e \in Top,
         NEW p \in Procs, p = Owner, Taking(p), Taken(p).uuid = e.uuid, t[p] < e.uuid, ~Done(Want),
         Want.cmd # "ping",
         UNCHANGED <<node, tree, proc, outstanding, nextUuid, rmlist, main, rcv>>,
         Takes(p), \A c \in Procs : c # p => down'[c] = down[c],
         Copied(down, down'),
         Wired', NoneStuck', Effective, Done(Want)',
         \A q \in AllProcs : q # p => slots'[q] = slots[q],
         peer'[p] = peer[p],
         \A c \in Procs : \/ peer'[c] = peer[c] \/ (peer[c] = p /\ peer'[c] = NoPeer)
                          \/ (peer[c] = NoPeer /\ peer'[c] = p /\ status[c] = "run"),
         \A c \in Procs : \/ status'[c] = status[c]
                          \/ c = p /\ status[p] = "run" /\ status'[p] # "run" /\ down'[p] = <<>>,
         NEW a, a.uuid = e.uuid, a.code = "OK", Replied' \subseteq Replied \cup {a},
         Cardinality(NotFounds(e.uuid)') <= Cardinality(NotFounds(e.uuid))
  PROVE  \E t2 : TInv(t2)'
<1>0. PICK t2 : t2 = [t EXCEPT ![p] = Taken(p).uuid]
  OBVIOUS
<1>1. /\ ~Stopping /\ Top = {e} /\ UnderWay(t, e) /\ Shape /\ Resting /\ WireFacts /\ WantFacts
      /\ Len(rmlist) = 1 \/ (rmlist = <<>> /\ Len(tree) > 1)
      /\ Ready /\ e \in outstanding /\ e.uuid \in Nat
  BY AwaitedNow
<1>2. t \in [Procs -> Nat] /\ Wired /\ Ordered(t) /\ Stage /\ GoneQuiet(t)
  BY <1>1 DEF TInv
<1>3. /\ status[p] = "run" /\ peer[p] \notin {Owner, NoPeer} /\ Taken(p).cmd = Want.cmd /\ Taken(p).id = Want.id
  BY TakenUnderWay DEF Taking
<1>4. \A c \in Procs : peer[c] \in {Owner, NoPeer} => Behind(t, c, e.uuid)
  BY <1>1 DEF UnderWay
<1>5. /\ Ordered(t2)' /\ t2 \in [Procs -> Nat]
      /\ \A c \in Procs : t2[c] = (IF c = p THEN e.uuid ELSE t[c]) /\ t[c] <= t2[c]
  <2>1. \A c \in Procs : \/ peer'[c] = peer[c] \/ peer'[c] = NoPeer
                         \/ peer'[c] = p /\ Behind(t, c, Taken(p).uuid)
    BY <1>4
  <2>2. nextUuid' = nextUuid
    OBVIOUS
  <2>3. /\ Ordered(t2)' /\ t2 \in [Procs -> Nat]
        /\ \A c \in Procs : t2[c] = (IF c = p THEN Taken(p).uuid ELSE t[c]) /\ t[c] <= t2[c]
    <3>1. LinksOK /\ BooksOK /\ Takes(p) /\ p \in Procs /\ t \in [Procs -> Nat] /\ Ordered(t)
      BY <1>2
    <3> QED BY ONLY <1>0, <3>1, <2>1, <2>2, OrderedTake, ZenonT(60)
  <2> QED BY <2>3
<1>6. WireFacts' /\ Top' = Top /\ Want' = Want /\ Owner' = Owner
  BY WiresAfter, SameTop, SameWant
<1>7. ~Stopping' /\ rcv.at # "wait"
  BY <1>1 DEF Stopping, Resting, RcvIdle
<1>8. Shape'
  BY <1>1, <1>7, ShapeEffected
<1>9. Stage'
  <2>1. CreateSent \/ RemoveSent
    BY <1>2 DEF Stage, Idle, Forking, RemoveReady, WaitNow
  <2>2. CreateSent' \/ RemoveSent'
    BY <1>6, <2>1 DEF CreateSent, RemoveSent, Resting
  <2> QED BY <2>2 DEF Stage
<1>10. Sent' \subseteq Sent
  BY LinkFacts, SentCopied
<1>11. nextUuid = t2[p] + 1 /\ t2[p] = e.uuid /\ p # Control /\ p \in AllProcs
  BY <1>1, <1>5, Pids DEF UnderWay
<1>12. Spent(t2)'
  <2>1. \A q \in Procs : status'[q] = "run" => status[q] = "run"
    BY <1>3
  <2>2. \A q \in Procs : \A id : HasChild(q, id)' => HasChild(q, id) \/ nextUuid = t2[q] + 1
    BY <1>11, Pids DEF HasChild
  <2>3. ASSUME NEW x \in Sent', x.uuid = e.uuid PROVE Past(t2, x)'
    <3>1. x.cmd = e.cmd /\ x.id = e.id /\ x.parent = Want.parent /\ e.cmd = Want.cmd /\ e.id = Want.id
      BY <1>1, <1>10, <2>3, SentTraced DEF UnderWay
    <3>2. ASSUME NEW q \in Procs, status'[q] = "run", node'[q] = x.parent, x.cmd \in {"create", "connect"}
          PROVE  x.uuid <= t2[q]
      <4>1. status[q] = "run" /\ node[q] = Want.parent
        BY <2>1, <3>1, <3>2
      <4>2. proc[node[q]] = q
        BY <4>1, RunsAs
      <4>3. q = p
        BY <3>1, <3>2, <4>1, <4>2 DEF Owner, Addressee
      <4> QED BY <1>1, <1>11, <2>3, <4>3
    <3>3. x.cmd = "disconnect" => \A q \in Procs : ~HasChild(q, x.id)'
      <4> SUFFICES ASSUME x.cmd = "disconnect" PROVE \A q \in Procs : ~HasChild(q, x.id)'
        OBVIOUS
      <4>1. ~IsConnected(x.id)'
        BY <1>6, <3>1, ZenonT(60) DEF Done, HasEffect
      <4> QED BY <4>1, Pids DEF IsConnected
    <3>4. ASSUME NEW q \in Procs, status'[q] = "run", node'[q] = x.id, x.cmd = "remove"
          PROVE  FALSE
      <4>1. status[q] = "run" /\ node[q] = Want.id /\ Want.cmd = "remove"
        BY <2>1, <3>1, <3>4
      <4>2. proc[node[q]] = q
        BY <4>1, RunsAs
      <4>3. Gone(proc[Want.id])'
        BY <1>6, <4>1 DEF Done, HasEffect
      <4> QED BY <1>6, <3>4, <4>1, <4>2, <4>3 DEF Gone
    <3>5. x.id \in Ids
      BY <1>1, <3>1 DEF WantFacts
    <3> QED BY <3>2, <3>3, <3>4, <3>5 DEF Past
  <2>4. \A f \in Top : t[Owner] < f.uuid /\ ~(t2[Owner] < f.uuid) =>
           \A x \in Sent' : x.uuid = f.uuid => Past(t2, x)'
    BY <1>1, <2>3
  <2> QED BY <1>5, <1>6, <1>10, <2>1, <2>2, <2>4, SpentKept, ZenonT(60)
<1>13. GoneQuiet(t2)'
  <2>1. ASSUME NEW x \in Procs, Gone(x)', HasPeer(x)'
        PROVE  /\ down'[x] = <<>>
               /\ (Gone(x) /\ HasPeer(x) /\ t2[x] = t[x]) \/ nextUuid = t2[x] + 1
    <3>1. CASE x = p
      <4>1. status'[p] # "run"
        BY <2>1, <3>1 DEF Gone
      <4> QED BY <1>3, <1>11, <3>1, <4>1
    <3>2. CASE x # p
      <4>1. Gone(x)
        BY <2>1, <3>2 DEF Gone
      <4>2. status[x] # "run"
        BY <4>1 DEF Gone
      <4>3. HasPeer(x)
        BY <2>1, <4>2 DEF HasPeer
      <4>4. down[x] = <<>>
        BY <1>2, <4>1, <4>3 DEF GoneQuiet
      <4> QED BY <1>5, <3>2, <4>1, <4>3, <4>4
    <3> QED BY <3>1, <3>2
  <2> QED BY <1>2, <1>5, <1>10, <2>1, QuietKept
<1>14. UnderWay(t2, e)'
  <2>1. ASSUME NEW c \in Procs, peer'[c] \in {Owner, NoPeer} PROVE Behind(t2, c, e.uuid)'
    <3>1. c # p /\ peer[c] \in {Owner, NoPeer}
      BY <1>3, <2>1
    <3>2. Behind(t, c, e.uuid)
      BY <1>4, <3>1
    <3>3. t2[c] = t[c] /\ down'[c] = down[c]
      BY <1>5, <3>1
    <3> QED BY <3>2, <3>3 DEF Behind
  <2>2. e.cmd # "ping" => (e.uuid <= t2[Owner] <=> Done(Want)')
    BY <1>1, <1>11
  <2>3. \A r \in Replied' : r.uuid = e.uuid =>
           r \in Replied \/ (r.code \in {"OK", "NOT_FOUND"} /\ (r.code = "OK" => e.uuid <= t2[Owner]))
    BY <1>1, <1>11
  <2>4. \A c \in Procs : c # Owner /\ ChildPids(c) = {} => ChildPids(c)' = {}
    BY Pids, SMTT(60) DEF ChildPids
  <2> QED BY <1>5, <1>10, <2>1, <2>2, <2>3, <2>4, UnderWayKept
<1>15. t2 \in [Procs -> Nat] /\ \A f \in Top' : Top' = {f} /\ UnderWay(t2, f)'
  <2>1. \A f \in Top' : f = e
    BY <1>1, <1>6
  <2> QED BY <1>1, <1>5, <1>6, <1>14, <2>1
<1>16. t2 \in [Procs -> Nat] /\ Wired' /\ NoneStuck' /\ Ordered(t2)' /\ Spent(t2)'
  BY <1>5, <1>12
<1>17. TInv(t2)'
  BY <1>7, <1>8, <1>9, <1>13, <1>15, <1>16 DEF TInv
<1> QED BY <1>17

\* The answer of the node, and the answers that a changed connection drops.
LEMMA AnswerRewired ==
  ASSUME LinksOK, LinksOK', NEW p \in Procs, down[p] # <<>>,
         NEW queue, queue = Answered(p, "OK", NoValue),
         \A c \in Procs : up'[c] = queue[c] \/ up'[c] = <<>>
  PROVE  \E a : /\ a.uuid = Taken(p).uuid /\ a.code = "OK" /\ Replied' \subseteq Replied \cup {a}
                /\ \A u : Cardinality(NotFounds(u)') <= Cardinality(NotFounds(u))
<1>1. down \in Queues(Message) /\ up \in Queues(Reply) /\ up' \in Queues(Reply)
  <2>1. up' \in Queues(Reply)
    BY DEF LinksOK, LinkTypeOK, Queues
  <2> QED BY <2>1, LinkFacts
<1>2. PICK a : a = Answer(Taken(p), "OK", NoValue)
  OBVIOUS
<1>3. /\ a \in Reply /\ a.uuid = Taken(p).uuid /\ a.code = "OK"
      /\ queue \in Queues(Reply) /\ AnswerAdded(up, queue, p, a)
  BY <1>1, <1>2, CodeFacts, AnsweredIs
<1>4. AnswerAdded(up, up', p, a)
  BY <1>3, RewireAdds
<1>5. Replied' \subseteq Replied \cup {a}
  BY <1>1, <1>3, <1>4, RepliedAdded
<1>6. \A c \in Procs : queue[c] = IF c = p THEN Append(up[c], a) ELSE up[c]
  BY <1>1, <1>2 DEF Answered, Queues
<1>7. ASSUME NEW u PROVE Cardinality(NotFounds(u)') <= Cardinality(NotFounds(u))
  <2>1. \A c \in Procs : \/ up'[c] = up[c] \/ up'[c] = <<>>
                         \/ c = p /\ \E b \in Reply : up'[c] = Append(up[c], b)
                                        /\ (b.uuid = u => b.code # "NOT_FOUND")
    BY <1>3, <1>6
  <2> QED BY <1>1, <2>1, NotFoundsWritten
<1> QED BY <1>3, <1>5, <1>7

\* What a node that carries a command out knows.
LEMMA CarriesOut ==
  ASSUME LinksOK, LinksOK', BooksOK, BooksOK', Books, Books', NEW t, TInv(t),
         NEW p \in Procs, Taking(p), IsFor(p, Taken(p)),
         \/ Taken(p).cmd \in {"create", "connect"} /\ Taken(p).parent = node[p]
         \/ Taken(p).cmd \in {"disconnect", "remove"}
  PROVE  /\ \E e \in Top : Taken(p).uuid = e.uuid /\ t[p] < e.uuid
         /\ p = Owner /\ ~Done(Want) /\ Taken(p).cmd = Want.cmd /\ Taken(p).id = Want.id
         /\ Taken(p).parent = Want.parent /\ Taken(p).pid = Want.pid
         /\ WireFacts /\ WantFacts /\ Ready /\ Wired /\ NoneStuck /\ ~Stopping /\ GoneQuiet(t) /\ Ordered(t)
         /\ t \in [Procs -> Nat] /\ status[p] = "run" /\ node[p] \in Ids /\ TreeHas(tree, node[p]) /\ proc[node[p]] = p
         /\ proc[Want.id] \in Procs /\ IdOf(p) = node[p] /\ p \in AllProcs /\ Alive(p)
<1>1. PICK e \in Top :
           /\ Taken(p).uuid = e.uuid /\ p = Owner /\ ~Done(Want) /\ t[p] < e.uuid
           /\ Taken(p).cmd = Want.cmd /\ Taken(p).id = Want.id
           /\ Taken(p).parent = Want.parent /\ Taken(p).pid = Want.pid
  BY TakenIsWanted
<1>2. WireFacts /\ WantFacts /\ Ready /\ ~Stopping
  BY <1>1, AwaitedNow
<1>3. Wired /\ NoneStuck /\ GoneQuiet(t) /\ Ordered(t) /\ t \in [Procs -> Nat]
  BY <1>2 DEF TInv
<1>4. status[p] = "run"
  BY DEF Taking
<1>5. node[p] \in Ids /\ TreeHas(tree, node[p]) /\ proc[node[p]] = p
  BY <1>4, RunsAs
<1>6. proc[Want.id] \in Procs
  BY <1>2, ProcOf DEF WantFacts
<1>7. IdOf(p) = node[p] /\ p \in AllProcs /\ Alive(p)
  BY <1>4, Pids DEF IdOf, Alive
<1> QED BY <1>1, <1>2, <1>3, <1>4, <1>5, <1>6, <1>7

LEMMA ConnectKeeps ==
  ASSUME LinksOK, LinksOK', BooksOK, BooksOK', Books, Books', NEW t, TInv(t),
         NEW p \in Procs, Connect(p), Taken(p).parent = node[p], UNCHANGED controlVars
  PROVE  \E t2 : TInv(t2)'
<1>1. UNCHANGED <<tree, proc, outstanding, nextUuid, rmlist, main, rcv>>
  BY DEF controlVars
<1>2. /\ Taking(p) /\ Taken(p).cmd \in {"create", "connect"} /\ IsFor(p, Taken(p)) /\ down' = Rest(p)
      /\ HasPeer(p) /\ UNCHANGED <<status, linger, node>>
      /\ Rewire([slots EXCEPT ![p] = Connected(@, [id |-> Taken(p).id, pid |-> Taken(p).pid])],
                Answered(p, "OK", NoValue))
  BY DEF Connect
<1>3. PICK e \in Top : Taken(p).uuid = e.uuid /\ t[p] < e.uuid
  BY <1>2, CarriesOut
<1>4. /\ p = Owner /\ ~Done(Want) /\ Taken(p).cmd = Want.cmd /\ Taken(p).id = Want.id
      /\ Taken(p).parent = Want.parent /\ Taken(p).pid = Want.pid
      /\ WireFacts /\ WantFacts /\ Ready /\ Wired /\ NoneStuck
      /\ status[p] = "run" /\ proc[Want.id] \in Procs /\ IdOf(p) = node[p] /\ p \in AllProcs /\ Alive(p)
  BY <1>2, CarriesOut
<1>5. PICK id \in Ids : id = Want.id /\ TreeHas(tree, id) /\ Want.pid = proc[id]
  BY <1>4 DEF WantFacts
<1>6. PICK queue : queue = Answered(p, "OK", NoValue)
  OBVIOUS
<1>7. down \in Queues(Message) /\ up \in Queues(Reply) /\ down[p] # <<>> /\ slots \in Links
      /\ peer \in [Procs -> AllProcs \cup {NoPeer}]
  BY <1>2, LinkFacts DEF Taking
<1>8. queue \in Queues(Reply)
  <2>1. PICK a : a = Answer(Taken(p), "OK", NoValue)
    OBVIOUS
  <2> QED BY <1>6, <1>7, <2>1, CodeFacts, AnsweredIs
<1>9. ~HasPeer(proc[id])
  BY <1>2, <1>4, <1>5 DEF Ready, WireFacts, Linked
<1>10. \E s \in SlotNames : slots[p][s].id = NoId
  <2>1. ~FullIn(Connections, IdOf(p))
    BY <1>2, <1>4 DEF Ready
  <2> QED BY <1>4, <2>1, FreeSlot
<1>11. Rewire([slots EXCEPT ![p] = Connected(@, [id |-> id, pid |-> proc[id]])], queue)
  BY <1>2, <1>4, <1>5, <1>6
<1>12. /\ Wired' /\ peer' = [peer EXCEPT ![proc[id]] = p] /\ up' = [queue EXCEPT ![proc[id]] = <<>>]
  BY <1>1, <1>2, <1>4, <1>5, <1>8, <1>9, <1>10, <1>11, WireConnect
<1>13. WireFacts'
  BY <1>12, WiresAfter
<1>14. Connections' = Connections \cup {<<IdOf(p), id>>} /\ IsConnected(id)'
  BY <1>1, <1>2, <1>4, <1>5, <1>9, <1>12, <1>13, EdgesConnect
<1>15. Effective
  BY <1>2, <1>4, <1>5, <1>14 DEF Effective
<1>16. Done(Want)'
  <2>1. Want' = Want
    BY <1>1, SameWant
  <2> QED BY <1>2, <1>4, <1>5, <1>14, <2>1 DEF Done, HasEffect
<1>17. Takes(p) /\ \A c \in Procs : c # p => down'[c] = down[c]
  BY <1>2, RestTakes
<1>18. \A q \in AllProcs : q # p => slots'[q] = slots[q]
  BY <1>7, <1>11 DEF Rewire, Links
<1>19. proc[id] # p
  BY <1>2, <1>9
<1>20. peer'[p] = peer[p]
  BY <1>5, <1>7, <1>12, <1>19
<1>21. \A c \in Procs : \/ peer'[c] = peer[c] \/ (peer[c] = p /\ peer'[c] = NoPeer)
                        \/ (peer[c] = NoPeer /\ peer'[c] = p /\ status[c] = "run")
  <2>1. status[proc[id]] = "run"
    BY <1>2, <1>4, <1>5 DEF Ready
  <2> QED BY <1>4, <1>5, <1>7, <1>9, <1>12, <2>1 DEF HasPeer
<1>22. PICK a : /\ a.uuid = Taken(p).uuid /\ a.code = "OK" /\ Replied' \subseteq Replied \cup {a}
                /\ \A u : Cardinality(NotFounds(u)') <= Cardinality(NotFounds(u))
  <2>1. \A c \in Procs : up'[c] = queue[c] \/ up'[c] = <<>>
    BY <1>8, <1>12 DEF Queues
  <2> QED BY <1>6, <1>7, <2>1, AnswerRewired
<1>23. Copied(down, down')
  BY <1>2, <1>7, RestIs
<1>24. NoneStuck' /\ Want.cmd # "ping"
  BY <1>2, <1>4 DEF NoneStuck
<1> QED BY <1>1, <1>2, <1>3, <1>4, <1>12, <1>15, <1>16, <1>17, <1>18, <1>20, <1>21, <1>22, <1>23, <1>24, EffectiveKeeps

\* With the heartbeat off no message is lost with a connection that is closed.
LEMMA NoLinger ==
  ASSUME NEW t, GoneQuiet(t), NEW q \in AllProcs, NEW pids \in SUBSET AllProcs, ~HeartbeatOn
  PROVE  LingersAfterClose(q, pids) = {linger}
<1>1. ASSUME NEW c \in pids \ {Control}, Gone(c), peer[c] = q, down[c] # <<>> PROVE FALSE
  <2>1. c \in Procs
    BY Pids
  <2>2. HasPeer(c)
    BY <1>1, <2>1, Pids DEF HasPeer
  <2> QED BY <1>1, <2>1, <2>2 DEF GoneQuiet
<1> QED BY <1>1 DEF LingersAfterClose

LEMMA DisconnectKeeps ==
  ASSUME LinksOK, LinksOK', BooksOK, BooksOK', Books, Books', NEW t, TInv(t),
         NEW p \in Procs, Disconnect(p), UNCHANGED controlVars
  PROVE  \E t2 : TInv(t2)'
<1> DEFINE closed == {slots[p][SlotToClose(slots[p], Taken(p).id)].pid}
<1>1. UNCHANGED <<tree, proc, outstanding, nextUuid, rmlist, main, rcv>>
  BY DEF controlVars
<1>2. /\ Taking(p) /\ Taken(p).cmd = "disconnect" /\ IsFor(p, Taken(p)) /\ down' = Rest(p)
      /\ HasPeer(p) /\ UNCHANGED <<status, node>> /\ HasChild(p, Taken(p).id)
      /\ Rewire([slots EXCEPT ![p] = Closed(@, Taken(p).id)], Answered(p, "OK", NoValue))
      /\ linger' \in LingersAfterClose(p, closed)
  BY DEF Disconnect, IsFor
<1>3. PICK e \in Top : Taken(p).uuid = e.uuid /\ t[p] < e.uuid
  BY <1>2, CarriesOut
<1>4. /\ p = Owner /\ ~Done(Want) /\ Taken(p).cmd = Want.cmd /\ Taken(p).id = Want.id
      /\ WireFacts /\ WantFacts /\ Ready /\ Wired /\ NoneStuck /\ GoneQuiet(t) /\ Ordered(t) /\ t \in [Procs -> Nat]
      /\ status[p] = "run" /\ proc[Want.id] \in Procs /\ IdOf(p) = node[p] /\ p \in AllProcs /\ Alive(p)
  BY <1>2, CarriesOut
<1>5. PICK id \in Ids : id = Want.id /\ TreeHas(tree, id) /\ Want.pid = proc[id]
  BY <1>4 DEF WantFacts
<1>6. PICK queue : queue = Answered(p, "OK", NoValue)
  OBVIOUS
<1>7. down \in Queues(Message) /\ up \in Queues(Reply) /\ down[p] # <<>> /\ slots \in Links
      /\ peer \in [Procs -> AllProcs \cup {NoPeer}]
  BY <1>2, LinkFacts DEF Taking
<1>8. queue \in Queues(Reply)
  <2>1. PICK a : a = Answer(Taken(p), "OK", NoValue)
    OBVIOUS
  <2> QED BY <1>6, <1>7, <2>1, CodeFacts, AnsweredIs
<1>9. HasChild(p, id) /\ peer[proc[id]] = p
  BY <1>2, <1>4, <1>5 DEF Ready
<1>11. Rewire([slots EXCEPT ![p] = Closed(@, id)], queue)
  BY <1>2, <1>4, <1>5, <1>6
<1>12. /\ Wired' /\ peer' = [peer EXCEPT ![proc[id]] = NoPeer] /\ up' = [queue EXCEPT ![proc[id]] = <<>>]
  BY <1>1, <1>2, <1>4, <1>8, <1>9, <1>11, WireClose
<1>13. WireFacts'
  BY <1>12, WiresAfter
<1>14. Connections' = {f \in Connections : f[2] # id} /\ ~IsConnected(id)'
  BY <1>1, <1>2, <1>4, <1>5, <1>12, <1>13, EdgesClose
<1>15. Effective
  BY <1>2, <1>4, <1>5, <1>14 DEF Effective
<1>16. Done(Want)'
  <2>1. Want' = Want
    BY <1>1, SameWant
  <2> QED BY <1>2, <1>4, <1>5, <1>14, <2>1 DEF Done, HasEffect
<1>17. Takes(p) /\ \A c \in Procs : c # p => down'[c] = down[c]
  BY <1>2, RestTakes
<1>18. \A q \in AllProcs : q # p => slots'[q] = slots[q]
  BY <1>7, <1>11 DEF Rewire, Links
<1>19. proc[id] # p
  BY <1>4, <1>7, <1>9, NotItsOwnPeer
<1>20. peer'[p] = peer[p]
  BY <1>4, <1>5, <1>7, <1>12, <1>19
<1>21. \A c \in Procs : \/ peer'[c] = peer[c] \/ (peer[c] = p /\ peer'[c] = NoPeer)
                        \/ (peer[c] = NoPeer /\ peer'[c] = p /\ status[c] = "run")
  BY <1>4, <1>5, <1>7, <1>9, <1>12
<1>22. PICK a : /\ a.uuid = Taken(p).uuid /\ a.code = "OK" /\ Replied' \subseteq Replied \cup {a}
                /\ \A u : Cardinality(NotFounds(u)') <= Cardinality(NotFounds(u))
  <2>1. \A c \in Procs : up'[c] = queue[c] \/ up'[c] = <<>>
    BY <1>8, <1>12 DEF Queues
  <2> QED BY <1>6, <1>7, <2>1, AnswerRewired
<1>23. Copied(down, down')
  BY <1>2, <1>7, RestIs
<1>24. NoneStuck' /\ Want.cmd # "ping"
  <2>1. closed \in SUBSET AllProcs
    <3>1. SlotToClose(slots[p], Taken(p).id) \in SlotNames
      BY DEF SlotToClose, SlotNames
    <3> QED BY <1>4, <1>7, <3>1 DEF Links, Slot
  <2> HIDE DEF closed
  <2>2. ~HeartbeatOn => linger' = linger
    BY <1>2, <1>4, <2>1, NoLinger
  <2>3. Want.cmd # "ping"
    BY <1>2, <1>4
  <2> QED BY <1>2, <1>4, <2>2, <2>3 DEF NoneStuck
<1> QED BY <1>1, <1>2, <1>3, <1>4, <1>12, <1>15, <1>16, <1>17, <1>18, <1>20, <1>21, <1>22, <1>23, <1>24, EffectiveKeeps, SMTT(60)

LEMMA RemoveKeeps ==
  ASSUME LinksOK, LinksOK', BooksOK, BooksOK', Books, Books', NEW t, TInv(t),
         NEW p \in Procs, Remove(p), UNCHANGED controlVars
  PROVE  \E t2 : TInv(t2)'
<1>1. UNCHANGED <<tree, proc, outstanding, nextUuid, rmlist, main, rcv>>
  BY DEF controlVars
<1>2. /\ Taking(p) /\ Taken(p).cmd = "remove" /\ IsFor(p, Taken(p)) /\ down' = [down EXCEPT ![p] = <<>>]
      /\ HasPeer(p) /\ UNCHANGED node /\ node[p] = Taken(p).id
      /\ Rewire([slots EXCEPT ![p] = [s \in SlotNames |-> NoChild]], Answered(p, "OK", NoValue))
      /\ linger' \in LingersAfterClose(p, ChildPids(p))
      /\ status' = [status EXCEPT ![p] = IF p \in linger' THEN "stuck" ELSE "zombie"]
  BY DEF Remove, IsFor, nodeVars
<1>3. PICK e \in Top : Taken(p).uuid = e.uuid /\ t[p] < e.uuid
  BY <1>2, CarriesOut
<1>4. /\ p = Owner /\ ~Done(Want) /\ Taken(p).cmd = Want.cmd /\ Taken(p).id = Want.id
      /\ WireFacts /\ WantFacts /\ Ready /\ Wired /\ NoneStuck /\ GoneQuiet(t) /\ Ordered(t) /\ t \in [Procs -> Nat]
      /\ status[p] = "run" /\ proc[Want.id] \in Procs /\ IdOf(p) = node[p] /\ p \in AllProcs /\ Alive(p)
      /\ proc[node[p]] = p
  BY <1>2, CarriesOut
<1>6. PICK queue : queue = Answered(p, "OK", NoValue)
  OBVIOUS
<1>7. down \in Queues(Message) /\ up \in Queues(Reply) /\ down[p] # <<>> /\ slots \in Links
      /\ peer \in [Procs -> AllProcs \cup {NoPeer}]
      /\ status \in [Procs -> {"unborn", "run", "stuck", "zombie", "reaped"}]
  BY <1>2, LinkFacts DEF Taking
<1>8. queue \in Queues(Reply)
  <2>1. PICK a : a = Answer(Taken(p), "OK", NoValue)
    OBVIOUS
  <2> QED BY <1>6, <1>7, <2>1, CodeFacts, AnsweredIs
<1>9. ~HeartbeatOn => linger' = {}
  <2>1. ChildPids(p) \in SUBSET AllProcs
    <3>1. \A s \in SlotNames : slots[p][s].pid \in AllProcs
      BY <1>4, <1>7 DEF Links, Slot
    <3> QED BY <3>1 DEF ChildPids
  <2>2. ~HeartbeatOn => LingersAfterClose(p, ChildPids(p)) = {linger}
    BY <1>4, <2>1, NoLinger
  <2> QED BY <1>2, <1>4, <2>2 DEF NoneStuck
<1>10. PICK ended \in {"zombie", "stuck"} : status' = [status EXCEPT ![p] = ended]
  BY <1>2
<1>28. status'[p] = ended /\ \A q \in Procs : q # p => status'[q] = status[q]
  BY <1>7, <1>10
<1>11. Rewire([slots EXCEPT ![p] = [s \in SlotNames |-> NoChild]], queue)
  BY <1>2, <1>6
<1>12. /\ Wired' /\ peer' = [c \in Procs |-> IF peer[c] = p THEN NoPeer ELSE peer[c]]
       /\ up' = [c \in Procs |-> IF peer[c] = p THEN <<>> ELSE queue[c]]
  <2>1. \A q \in Procs : q # p => status'[q] = status[q]
    BY <1>28
  <2> QED BY <1>1, <1>4, <1>8, <1>11, <2>1, WireEmpty
<1>13. WireFacts'
  BY <1>12, WiresAfter
<1>14. Connections' = {f \in Connections : f[1] # node[p]}
  BY <1>1, <1>2, <1>4, <1>12, <1>13, EdgesEmpty
<1>15. Effective
  <2>1. ASSUME NEW id \in Ids, TreeHas(tree, id)
        PROVE  status'[proc[id]] = "run" <=> status[proc[id]] = "run" /\ ~(Want.cmd = "remove" /\ id = Want.id)
    <3>1. proc[id] \in Procs /\ node[proc[id]] = id
      BY <2>1, ProcOf
    <3>2. CASE proc[id] = p
      BY <1>2, <1>4, <1>28, <3>1, <3>2
    <3>3. CASE proc[id] # p
      BY <1>2, <1>4, <1>28, <3>1, <3>3
    <3> QED BY <3>2, <3>3
  <2> QED BY <1>2, <1>4, <1>14, <2>1 DEF Effective
<1>16. Done(Want)'
  <2>1. Want' = Want
    BY <1>1, SameWant
  <2>2. status'[proc'[Want.id]] = ended
    BY <1>1, <1>2, <1>4, <1>28
  <2> QED BY <1>2, <1>4, <1>10, <2>1, <2>2 DEF Done, HasEffect, Gone
<1>17. Takes(p) /\ (\A c \in Procs : c # p => down'[c] = down[c]) /\ down'[p] = <<>>
  BY <1>2, <1>7 DEF Takes, Queues
<1>18. \A q \in AllProcs : q # p => slots'[q] = slots[q]
  BY <1>7, <1>11 DEF Rewire, Links
<1>20. peer'[p] = peer[p]
  BY <1>4, <1>7, <1>12, NotItsOwnPeer
<1>21. \A c \in Procs : \/ peer'[c] = peer[c] \/ (peer[c] = p /\ peer'[c] = NoPeer)
                        \/ (peer[c] = NoPeer /\ peer'[c] = p /\ status[c] = "run")
  BY <1>7, <1>12
<1>22. PICK a : /\ a.uuid = Taken(p).uuid /\ a.code = "OK" /\ Replied' \subseteq Replied \cup {a}
                /\ \A u : Cardinality(NotFounds(u)') <= Cardinality(NotFounds(u))
  <2>1. \A c \in Procs : up'[c] = queue[c] \/ up'[c] = <<>>
    BY <1>8, <1>12 DEF Queues
  <2> QED BY <1>6, <1>7, <2>1, AnswerRewired
<1>23. Copied(down, down')
  BY <1>2, <1>7, EmptiedQueue
<1>24. NoneStuck' /\ Want.cmd # "ping"
  <2>1. Want.cmd # "ping"
    BY <1>2, <1>4
  <2>2. ~HeartbeatOn => status'[p] # "stuck"
    BY <1>2, <1>7, <1>9
  <2> QED BY <1>4, <1>9, <1>28, <2>1, <2>2 DEF NoneStuck
<1>25. \A c \in Procs : \/ status'[c] = status[c]
                        \/ c = p /\ status[p] = "run" /\ status'[p] # "run" /\ down'[p] = <<>>
  BY <1>4, <1>17, <1>28
<1>26. /\ LinksOK /\ LinksOK' /\ BooksOK /\ BooksOK' /\ Books /\ Books' /\ TInv(t)
       /\ p \in Procs /\ UNCHANGED node
  BY <1>2
<1>27. /\ Taking(p) /\ Taken(p).uuid = e.uuid /\ e \in Top /\ t[p] < e.uuid /\ p = Owner /\ ~Done(Want)
       /\ Wired' /\ Takes(p)
  BY <1>2, <1>3, <1>4, <1>12, <1>17
<1> QED BY ONLY <1>1, <1>15, <1>16, <1>17, <1>18, <1>20, <1>21, <1>22, <1>23, <1>24, <1>25, <1>26, <1>27, EffectiveKeeps

\* Any step of a node.
LEMMA NodeKeepsT ==
  ASSUME LinksOK, LinksOK', BooksOK, BooksOK', Books, Books', NEW t, TInv(t),
         NEW p \in Procs, NodeNext(p), UNCHANGED controlVars
  PROVE  \E t2 : TInv(t2)'
<1>1. CASE PushNext(p) \/ Ping(p) \/ Exec(p) \/ (Connect(p) /\ Taken(p).parent # node[p])
  BY <1>1, QuietHandlers
<1>2. CASE Connect(p) /\ Taken(p).parent = node[p]
  BY <1>2, ConnectKeeps
<1>3. CASE Disconnect(p)
  BY <1>3, DisconnectKeeps
<1>4. CASE Remove(p)
  BY <1>4, RemoveKeeps
<1>5. CASE \E s \in SlotNames : PassUp(p, s)
  <2>1. TInv(t)'
    BY <1>5, PassUpKeeps
  <2> QED BY <2>1
<1> QED BY <1>1, <1>2, <1>3, <1>4, <1>5 DEF NodeNext, TakeMessage
===============================================================================
