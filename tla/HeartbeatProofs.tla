--------------------------- MODULE HeartbeatProofs ---------------------------
(***************************************************************************)
(* The heartbeat, with any tree, any number of threads, and nodes that     *)
(* come, go and move: the map of counters has the nodes of the array, a    *)
(* line about a node comes in time, and none about a node that lives and   *)
(* stays connected.                                                        *)
(***************************************************************************)
EXTENDS Heartbeat, TLAPS

-----------------------------------------------------------------------------
(* The invariant.                                                          *)

\* A worker that waits after `heartbeat 0' has been cut short.
WaitsWhileOn == ~cut /\ (\E w \in Workers : worker[w] = "wait") => heartbeat_time > 0

\* Is m the node n, or on the way from it to the control node, when A[c] is
\* the parent of c?
OnLineage(A, m, n) ==
  \A S \in SUBSET Nodes : n \in S /\ (\A c \in S : A[c] \in Nodes => A[c] \in S)
                            => m \in S

\* A ping that will come to n, or a pong of n.
Within(n, q) == \E i \in 1..Len(q) : q[i] = n
CarriesFor(m, n) == pings[m] > 0 \/ Within(n, pongs[m])

SteadyReached == \A n \in steady : Reaches(n)

\* As long as a node is counted that has stayed connected, its ping or its
\* pong is under way.
Carried ==
  \A n \in steady : nodes_ping_map[n] > 0
                       => \E m \in Nodes : OnLineage(above, m, n) /\ CarriesFor(m, n)

OneWorker == ~beside => \A v, w \in Workers : worker[v] # "none" /\ worker[w] # "none" => v = w

Waiting == \E w \in Workers : worker[w] = "wait"

\* The counter of a node is the number of whole silent periods, and one more
\* for the period that runs; a node reported had the counter at the limit.
Counted(n) ==
  IF Waiting
  THEN /\ nodes_ping_map[n] = silent[n] + 1
       /\ reports[n] > 0 => nodes_ping_map[n] = Many
  ELSE /\ silent[n] \in 0..Limit
       /\ nodes_ping_map[n] = silent[n] \/ (nodes_ping_map[n] = Many /\ silent[n] = Limit)
       /\ reports[n] > 0 => nodes_ping_map[n] >= Limit

CountsSilence == Orderly => \A n \in DOMAIN nodes_ping_map : Counted(n)

IInv == /\ HeartbeatTypeOK /\ WaitsWhileOn /\ OneWorker /\ CountsSilence
        /\ SteadyReached /\ Carried

-----------------------------------------------------------------------------
(* The tree.                                                               *)

\* Is there a path from the control node to n in the set R, when A[c] is the
\* parent of c?
ReachedIn(A, R, n) ==
  \A S \in SUBSET Nodes : (\A c \in R : A[c] = Control \/ A[c] \in S => c \in S) => n \in S

Running == {c \in Nodes : status[c] = "run"}

LEMMA ReachesIn == \A n \in Nodes : Reaches(n) <=> ReachedIn(above, Running, n)
BY DEF Reaches, ReachedIn, Running

LEMMA ReachesInAfter == \A n \in Nodes : Reaches(n)' <=> ReachedIn(above', Running', n)
BY DEF Reaches, ReachedIn, Running

\* One step at a time.
LEMMA ReachedStep ==
  ASSUME NEW A, NEW R \in SUBSET Nodes, NEW n \in R, A[n] = Control \/ ReachedIn(A, R, A[n])
  PROVE  ReachedIn(A, R, n)
<1> SUFFICES ASSUME NEW S \in SUBSET Nodes,
                    \A c \in R : A[c] = Control \/ A[c] \in S => c \in S
             PROVE  n \in S
  BY DEF ReachedIn
<1>1. A[n] = Control \/ A[n] \in S
  BY DEF ReachedIn
<1> QED BY <1>1

LEMMA ReachedAbove ==
  ASSUME NEW A, NEW R \in SUBSET Nodes, NEW n \in Nodes, ReachedIn(A, R, n)
  PROVE  n \in R /\ (A[n] = Control \/ (A[n] \in Nodes /\ ReachedIn(A, R, A[n])))
<1> DEFINE S == {c \in R : A[c] = Control \/ (A[c] \in Nodes /\ ReachedIn(A, R, A[c]))}
<1>1. ASSUME NEW c \in R, A[c] = Control \/ A[c] \in S
      PROVE  c \in S
  <2>1. CASE A[c] = Control
    BY <2>1
  <2>2. CASE A[c] \in S
    <3>1. ReachedIn(A, R, A[c])
      BY <2>2, ReachedStep
    <3> QED BY <2>2, <3>1
  <2> QED BY <1>1, <2>1, <2>2
<1>2. S \in SUBSET Nodes
  OBVIOUS
<1>3. n \in S
  <2> HIDE DEF S
  <2> QED BY <1>1, <1>2 DEF ReachedIn
<1> QED BY <1>3

LEMMA LineageSelf == \A A : \A n \in Nodes : OnLineage(A, n, n)
BY DEF OnLineage

LEMMA LineageUp ==
  ASSUME NEW A, NEW n \in Nodes, NEW m \in Nodes, OnLineage(A, m, n), A[m] \in Nodes
  PROVE  OnLineage(A, A[m], n)
BY DEF OnLineage

LEMMA LineageOfAbove ==
  ASSUME NEW A, NEW n \in Nodes, A[n] \in Nodes, NEW m \in Nodes, OnLineage(A, m, A[n])
  PROVE  OnLineage(A, m, n)
BY DEF OnLineage

\* Below a node on the way to n, unless it is n, there is another.
LEMMA LineageDown ==
  ASSUME NEW A, NEW n \in Nodes, NEW m \in Nodes, OnLineage(A, m, n), m # n
  PROVE  \E c \in Nodes : OnLineage(A, c, n) /\ A[c] = m
<1> DEFINE S == {n} \cup {d \in Nodes : \E c \in Nodes : OnLineage(A, c, n) /\ A[c] = d}
<1>1. S \in SUBSET Nodes /\ n \in S
  OBVIOUS
<1>2. ASSUME NEW d \in S, A[d] \in Nodes
      PROVE  A[d] \in S
  <2>1. d \in Nodes /\ OnLineage(A, d, n)
    <3>1. CASE d = n
      BY <3>1, LineageSelf
    <3>2. CASE d # n
      <4>1. PICK c \in Nodes : OnLineage(A, c, n) /\ A[c] = d
        BY <3>2
      <4> QED BY <4>1, LineageUp
    <3> QED BY <3>1, <3>2
  <2> QED BY <1>2, <2>1
<1>3. m \in S
  <2> HIDE DEF S
  <2> QED BY <1>1, <1>2 DEF OnLineage
<1> QED BY <1>3

LEMMA LineageReached ==
  ASSUME NEW A, NEW R \in SUBSET Nodes, NEW n \in Nodes, ReachedIn(A, R, n),
         NEW m \in Nodes, OnLineage(A, m, n)
  PROVE  ReachedIn(A, R, m) /\ m \in R
<1> DEFINE S == {c \in Nodes : ReachedIn(A, R, c)}
<1>1. S \in SUBSET Nodes /\ n \in S
  OBVIOUS
<1>2. ASSUME NEW c \in S, A[c] \in Nodes
      PROVE  A[c] \in S
  <2>1. A[c] # Control
    BY <1>2, HeartbeatAssumption
  <2> QED BY <1>2, <2>1, ReachedAbove
<1>3. m \in S
  <2> HIDE DEF S
  <2> QED BY <1>1, <1>2 DEF OnLineage
<1> QED BY <1>3, ReachedAbove

\* The way from a node that is reached begins at a child of the control node.
LEMMA LineageTop ==
  ASSUME NEW A, NEW R \in SUBSET Nodes, NEW n \in Nodes, ReachedIn(A, R, n)
  PROVE  \E m \in Nodes : OnLineage(A, m, n) /\ A[m] = Control
<1> DEFINE S == {c \in Nodes : \E m \in Nodes : OnLineage(A, m, c) /\ A[m] = Control}
<1>1. S \in SUBSET Nodes
  OBVIOUS
<1>2. ASSUME NEW c \in R, A[c] = Control \/ A[c] \in S
      PROVE  c \in S
  <2>1. CASE A[c] = Control
    BY <2>1, LineageSelf
  <2>2. CASE A[c] \in S
    <3>1. PICK m \in Nodes : OnLineage(A, m, A[c]) /\ A[m] = Control
      BY <2>2
    <3>2. OnLineage(A, m, c)
      BY <2>2, <3>1, LineageOfAbove
    <3> QED BY <3>1, <3>2
  <2> QED BY <1>2, <2>1, <2>2
<1>3. n \in S
  <2> HIDE DEF S
  <2> QED BY <1>1, <1>2 DEF ReachedIn
<1> QED BY <1>3

\* The way to a node is the same as long as every node on it has its parent.
LEMMA LineageSame ==
  ASSUME NEW A, NEW B, NEW n \in Nodes,
         \A m \in Nodes : OnLineage(A, m, n) => B[m] = A[m],
         NEW m \in Nodes
  PROVE  OnLineage(A, m, n) <=> OnLineage(B, m, n)
<1>1. ASSUME OnLineage(A, m, n) PROVE OnLineage(B, m, n)
  <2> SUFFICES ASSUME NEW S \in SUBSET Nodes, n \in S, \A c \in S : B[c] \in Nodes => B[c] \in S
               PROVE  m \in S
    BY DEF OnLineage
  <2> DEFINE T == {c \in S : OnLineage(A, c, n)}
  <2>1. ASSUME NEW c \in T, A[c] \in Nodes
        PROVE  A[c] \in T
    <3>1. A[c] \in S
      BY <2>1
    <3>2. OnLineage(A, A[c], n)
      BY <2>1, LineageUp
    <3> QED BY <3>1, <3>2
  <2>2. n \in T /\ T \in SUBSET Nodes
    BY LineageSelf
  <2>3. m \in T
    <3> HIDE DEF T
    <3> QED BY <1>1, <2>1, <2>2 DEF OnLineage
  <2> QED BY <2>3
<1>2. ASSUME OnLineage(B, m, n) PROVE OnLineage(A, m, n)
  <2> DEFINE T == {c \in Nodes : OnLineage(A, c, n)}
  <2>1. ASSUME NEW c \in T, B[c] \in Nodes
        PROVE  B[c] \in T
    <3>1. B[c] = A[c]
      BY <2>1
    <3>2. OnLineage(A, A[c], n)
      BY <2>1, <3>1, LineageUp
    <3> QED BY <2>1, <3>1, <3>2
  <2>2. n \in T /\ T \in SUBSET Nodes
    BY LineageSelf
  <2>3. m \in T
    <3> HIDE DEF T
    <3> QED BY <1>2, <2>1, <2>2 DEF OnLineage
  <2> QED BY <2>3
<1> QED BY <1>1, <1>2

-----------------------------------------------------------------------------
(* The types.                                                              *)

LEMMA PingedType ==
  ASSUME NEW q \in [Nodes -> Nat], NEW p
  PROVE  Pinged(q, p) \in [Nodes -> Nat]
BY DEF Pinged

\* The entries of the map are the nodes of the array.
Entries == {n \in Nodes : status[n] # "absent"}

Statuses == {"absent", "run", "dead", "exited"}

LEMMA ResetType ==
  ASSUME HeartbeatTypeOK, NEW n \in Nodes
  PROVE  Reset(n) \in [Entries -> 0..Many]
BY DEF HeartbeatTypeOK, Reset, Entries, Many

LEMMA TypeNext == HeartbeatTypeOK /\ [Next]_vars => HeartbeatTypeOK'
<1> SUFFICES ASSUME HeartbeatTypeOK, [Next]_vars PROVE HeartbeatTypeOK'
  OBVIOUS
<1> USE HeartbeatAssumption
<1>1. CASE Start
  <2>1. worker' \in [Workers -> {"none", "test", "wait"}]
    BY <1>1 DEF Start, HeartbeatTypeOK
  <2>2. heartbeat_time' \in {0, 1} /\ beside' \in BOOLEAN
    <3>1. beside \in BOOLEAN
      BY DEF HeartbeatTypeOK
    <3>2. beside' = (beside \/ \E w \in Workers : worker[w] # "none") \/ beside' = beside
      BY <1>1, Zenon DEF Start
    <3>3. beside' \in BOOLEAN
      BY <3>1, <3>2
    <3>4. heartbeat_time' = 1
      BY <1>1 DEF Start
    <3> QED BY <3>3, <3>4
  <2>3. silent' \in [Nodes -> -1..Limit]
    BY <1>1 DEF Start, HeartbeatTypeOK, NotSilent, Limit
  <2> QED BY <1>1, <2>1, <2>2, <2>3 DEF Start, HeartbeatTypeOK
<1>2. CASE Stop
  BY <1>2 DEF Stop, HeartbeatTypeOK, NotSilent, Limit
<1>3. ASSUME NEW w \in Workers, Begin(w)
      PROVE  HeartbeatTypeOK'
  <2>1. Pinged(pings, Control) \in [Nodes -> Nat]
    BY PingedType DEF HeartbeatTypeOK
  <2>2. pings' \in [Nodes -> Nat]
    BY <1>3, <2>1 DEF Begin, HeartbeatTypeOK
  <2>3. nodes_ping_map' \in [Entries -> 0..Many]
    <3>1. nodes_ping_map \in [Entries -> 0..Many]
      BY DEF HeartbeatTypeOK, Entries
    <3> QED BY <1>3, <3>1 DEF Begin, Many
  <2>4. worker' \in [Workers -> {"none", "test", "wait"}]
    BY <1>3 DEF Begin, HeartbeatTypeOK
  <2>5. UNCHANGED <<status, above, pongs, userVars, history>>
    BY <1>3 DEF Begin
  <2>6. steady' \subseteq Nodes
    BY <1>3 DEF Begin, HeartbeatTypeOK
  <2> QED BY <2>2, <2>3, <2>4, <2>5, <2>6 DEF HeartbeatTypeOK, userVars, history, Entries
<1>4. ASSUME NEW w \in Workers, End(w)
      PROVE  HeartbeatTypeOK'
  <2>1. worker' \in [Workers -> {"none", "test", "wait"}]
    BY <1>4 DEF End, HeartbeatTypeOK
  <2>2. reports' \in [Nodes -> 0..2]
    BY <1>4 DEF End, HeartbeatTypeOK
  <2>3. silent' \in [Nodes -> -1..Limit]
    BY <1>4 DEF End, HeartbeatTypeOK, Limit
  <2>4. upsets' \in 0..MaxUpsets
    BY <1>4 DEF End, HeartbeatTypeOK
  <2>5. late' \in BOOLEAN
    <3>1. late' = (late \/ TooSoon)
      BY <1>4 DEF End
    <3>2. TooSoon \in BOOLEAN
      BY DEF TooSoon
    <3> QED BY <3>1, <3>2
  <2>6. UNCHANGED <<heartbeat_time, nodes_ping_map, status, above, pings, pongs, cut, beside, steady>>
    BY <1>4 DEF End
  <2> QED BY <2>1, <2>2, <2>3, <2>4, <2>5, <2>6 DEF HeartbeatTypeOK
<1>5. ASSUME NEW w \in Workers, NEW c \in Nodes, Collect(w, c)
      PROVE  HeartbeatTypeOK'
  <2> DEFINE n == Head(pongs[c])
  <2>1. pongs[c] \in Seq(Nodes) /\ pongs[c] # <<>>
    BY <1>5 DEF Collect, HeartbeatTypeOK
  <2>2. n \in Nodes /\ Tail(pongs[c]) \in Seq(Nodes)
    BY <2>1
  <2>3. pongs' \in [Nodes -> Seq(Nodes)]
    BY <1>5, <2>2 DEF Collect, HeartbeatTypeOK
  <2>4. nodes_ping_map' \in [Entries -> 0..Many]
    BY <1>5, <2>2, ResetType DEF Collect, Heard
  <2>5. reports' \in [Nodes -> 0..2] /\ silent' \in [Nodes -> -1..Limit]
    BY <1>5, <2>2, SMTT(60) DEF Collect, Heard, HeartbeatTypeOK, Limit
  <2>6. UNCHANGED <<worker, status, above, pings, userVars, cut, beside, late, steady>>
    BY <1>5 DEF Collect
  <2> QED BY <2>3, <2>4, <2>5, <2>6, SMTT(60) DEF HeartbeatTypeOK, userVars, Entries
<1>6. ASSUME NEW n \in Nodes, Pong(n)
      PROVE  HeartbeatTypeOK'
  <2>1. [pings EXCEPT ![n] = @ - 1] \in [Nodes -> Nat]
    BY <1>6 DEF Pong, HeartbeatTypeOK
  <2>2. pings' \in [Nodes -> Nat]
    BY <1>6, <2>1, PingedType DEF Pong
  <2>3. Append(pongs[n], n) \in Seq(Nodes)
    BY DEF HeartbeatTypeOK
  <2>4. pongs' \in [Nodes -> Seq(Nodes)]
    BY <1>6, <2>3 DEF Pong, HeartbeatTypeOK
  <2> QED BY <1>6, <2>2, <2>4 DEF Pong, HeartbeatTypeOK, userVars, history
<1>7. ASSUME NEW n \in Nodes, NEW c \in Nodes, PassPong(n, c)
      PROVE  HeartbeatTypeOK'
  <2>1. pongs[c] \in Seq(Nodes) /\ pongs[c] # <<>> /\ pongs[n] \in Seq(Nodes)
    BY <1>7 DEF PassPong, HeartbeatTypeOK
  <2>2. Head(pongs[c]) \in Nodes /\ Tail(pongs[c]) \in Seq(Nodes)
    BY <2>1
  <2>3. \A q \in Seq(Nodes) : Append(q, Head(pongs[c])) \in Seq(Nodes)
    BY <2>2
  <2>4. pongs' \in [Nodes -> Seq(Nodes)]
    BY <1>7, <2>2, <2>3 DEF PassPong, HeartbeatTypeOK
  <2> QED BY <1>7, <2>4 DEF PassPong, HeartbeatTypeOK, userVars, history
<1>8. ASSUME NEW n \in Nodes, Crash(n)
      PROVE  HeartbeatTypeOK'
  <2>1. status' \in [Nodes -> Statuses] /\ pings' \in [Nodes -> Nat] /\ upsets' \in 0..MaxUpsets
    BY <1>8 DEF Crash, HeartbeatTypeOK, Statuses
  <2>2. Entries' = Entries
    BY <1>8 DEF Crash, HeartbeatTypeOK, Entries
  <2>3. PICK k \in 0..Len(pongs[n]) : pongs' = [pongs EXCEPT ![n] = SubSeq(@, 1, k)]
    BY <1>8 DEF Crash
  <2>4. pongs[n] \in Seq(Nodes)
    BY DEF HeartbeatTypeOK
  <2>5. SubSeq(pongs[n], 1, k) \in Seq(Nodes)
    BY <2>4
  <2>6. pongs' \in [Nodes -> Seq(Nodes)]
    BY <2>3, <2>5 DEF HeartbeatTypeOK
  <2>7. steady' \subseteq Nodes
    BY <1>8 DEF Crash, SteadyAfter, HeartbeatTypeOK
  <2>8. UNCHANGED <<heartbeat_time, worker, nodes_ping_map, above, history>>
    BY <1>8 DEF Crash
  <2> QED BY <2>1, <2>2, <2>6, <2>7, <2>8 DEF HeartbeatTypeOK, history, Entries, Statuses
<1>9. ASSUME NEW c \in Nodes, Detach(c)
      PROVE  HeartbeatTypeOK'
  <2>1. above' \in [Nodes -> Nodes \cup {Control, Nobody}] /\ upsets' \in 0..MaxUpsets
    BY <1>9 DEF Detach, HeartbeatTypeOK
  <2>2. <<>> \in Seq(Nodes)
    OBVIOUS
  <2>3. pongs' \in [Nodes -> Seq(Nodes)]
    BY <1>9, <2>2 DEF Detach, HeartbeatTypeOK
  <2>4. steady' \subseteq Nodes
    BY <1>9 DEF Detach, SteadyAfter, HeartbeatTypeOK
  <2>5. UNCHANGED <<heartbeat_time, worker, nodes_ping_map, status, pings, history>>
    BY <1>9 DEF Detach
  <2> QED BY <2>1, <2>3, <2>4, <2>5 DEF HeartbeatTypeOK, history
<1>10. ASSUME NEW c \in Nodes, NEW p \in Nodes \cup {Control}, Attach(c, p)
       PROVE  HeartbeatTypeOK'
  <2>1. above' \in [Nodes -> Nodes \cup {Control, Nobody}]
    BY <1>10 DEF Attach, HeartbeatTypeOK
  <2>2. steady' \subseteq Nodes
    BY <1>10 DEF Attach, SteadyAfter, HeartbeatTypeOK
  <2>3. UNCHANGED <<worker, nodes_ping_map, status, pings, pongs, userVars, history>>
    BY <1>10 DEF Attach
  <2> QED BY <2>1, <2>2, <2>3 DEF HeartbeatTypeOK, history, userVars
<1>11. ASSUME NEW n \in Nodes, Exit(n)
       PROVE  HeartbeatTypeOK'
  <2>1. status' \in [Nodes -> Statuses] /\ pings' \in [Nodes -> Nat] /\ upsets' \in 0..MaxUpsets
    BY <1>11 DEF Exit, HeartbeatTypeOK, Statuses
  <2>2. above' \in [Nodes -> Nodes \cup {Control, Nobody}]
    BY <1>11 DEF Exit, HeartbeatTypeOK
  <2>3. Entries' = Entries
    BY <1>11 DEF Exit, HeartbeatTypeOK, Entries
  <2>4. <<>> \in Seq(Nodes)
    OBVIOUS
  <2>5. pongs' \in [Nodes -> Seq(Nodes)]
    BY <1>11, <2>4 DEF Exit, HeartbeatTypeOK
  <2>6. steady' \subseteq Nodes
    BY <1>11 DEF Exit, SteadyAfter, HeartbeatTypeOK
  <2>7. UNCHANGED <<heartbeat_time, worker, nodes_ping_map, history>>
    BY <1>11 DEF Exit
  <2> QED BY <2>1, <2>2, <2>3, <2>5, <2>6, <2>7 DEF HeartbeatTypeOK, history, Entries, Statuses
<1>12. ASSUME NEW n \in Nodes, Forget(n)
       PROVE  HeartbeatTypeOK'
  <2>1. status' \in [Nodes -> Statuses]
    BY <1>12 DEF Forget, HeartbeatTypeOK, Statuses
  <2>2. nodes_ping_map' \in [Entries' -> 0..Many]
    <3>1. nodes_ping_map \in [Entries -> 0..Many] /\ Entries' = Entries \ {n}
      BY <1>12 DEF Forget, HeartbeatTypeOK, Entries
    <3> QED BY <1>12, <3>1 DEF Forget
  <2>3. UNCHANGED <<worker, above, pings, pongs, userVars, history, steady>>
    BY <1>12 DEF Forget
  <2> QED BY <2>1, <2>2, <2>3 DEF HeartbeatTypeOK, history, userVars, Entries, Statuses
<1>13. ASSUME NEW n \in Nodes, NEW p \in Nodes \cup {Control}, Create(n, p)
       PROVE  HeartbeatTypeOK'
  <2>1. status' \in [Nodes -> Statuses] /\ above' \in [Nodes -> Nodes \cup {Control, Nobody}]
    BY <1>13 DEF Create, HeartbeatTypeOK, Statuses
  <2>2. nodes_ping_map' \in [Entries' -> 0..Many]
    <3>1. nodes_ping_map \in [Entries -> 0..Many] /\ Entries' = Entries \cup {n}
      BY <1>13 DEF Create, HeartbeatTypeOK, Entries
    <3> QED BY <1>13, <3>1 DEF Create, Many
  <2>3. reports' \in [Nodes -> 0..2] /\ silent' \in [Nodes -> -1..Limit]
    BY <1>13 DEF Create, HeartbeatTypeOK, Limit
  <2>4. steady' \subseteq Nodes
    BY <1>13 DEF Create, SteadyAfter, HeartbeatTypeOK
  <2>5. UNCHANGED <<worker, pings, pongs, userVars, cut, beside, late>>
    BY <1>13 DEF Create
  <2> QED BY <2>1, <2>2, <2>3, <2>4, <2>5 DEF HeartbeatTypeOK, Entries, Statuses, userVars
<1>14. CASE UNCHANGED vars
  BY <1>14 DEF vars, HeartbeatTypeOK
<1> QED BY <1>1, <1>2, <1>3, <1>4, <1>5, <1>6, <1>7, <1>8, <1>9, <1>10, <1>11, <1>12, <1>13, <1>14
        DEF Next, WorkerStep, NodeStep, TreeStep

-----------------------------------------------------------------------------
(* The tree and the threads.                                               *)

\* The steps that change a thread, or whether it should go on.
LEMMA ThreadSteps ==
  ASSUME [Next]_vars
  PROVE  \/ Start \/ Stop
         \/ \E w \in Workers : Begin(w) \/ End(w)
         \/ UNCHANGED <<heartbeat_time, worker, cut, beside>>
BY ZenonT(60) DEF Next, WorkerStep, NodeStep, TreeStep, Collect, Pong, PassPong, Crash, Detach, Attach,
       Exit, Forget, Create, vars, userVars, history

LEMMA ThreadsNext ==
  ASSUME HeartbeatTypeOK, WaitsWhileOn, OneWorker, [Next]_vars
  PROVE  WaitsWhileOn' /\ OneWorker'
<1>1. CASE Start
  <2>1. WaitsWhileOn'
    BY <1>1 DEF Start, WaitsWhileOn
  <2>2. CASE UNCHANGED <<worker, beside>>
    BY <2>1, <2>2 DEF OneWorker
  <2>3. ASSUME NEW w \in Workers, worker' = [worker EXCEPT ![w] = "test"],
               beside' = (beside \/ \E v \in Workers : worker[v] # "none")
        PROVE  OneWorker'
    <3> SUFFICES ASSUME ~beside', NEW u \in Workers, NEW v \in Workers, worker'[u] # "none", worker'[v] # "none"
                 PROVE  u = v
      BY DEF OneWorker
    <3>1. \A x \in Workers : worker[x] = "none"
      BY <2>3
    <3> QED BY <2>3, <3>1 DEF HeartbeatTypeOK
  <2> QED BY <1>1, <2>1, <2>2, <2>3 DEF Start
<1>2. CASE Stop
  BY <1>2 DEF Stop, HeartbeatTypeOK, WaitsWhileOn, OneWorker
<1>3. ASSUME NEW w \in Workers, Begin(w)
      PROVE  WaitsWhileOn' /\ OneWorker'
  BY <1>3, ZenonT(60) DEF Begin, HeartbeatTypeOK, WaitsWhileOn, OneWorker, userVars, history
<1>4. ASSUME NEW w \in Workers, End(w)
      PROVE  WaitsWhileOn' /\ OneWorker'
  BY <1>4 DEF End, HeartbeatTypeOK, WaitsWhileOn, OneWorker, userVars
<1>5. CASE UNCHANGED <<heartbeat_time, worker, cut, beside>>
  BY <1>5 DEF WaitsWhileOn, OneWorker
<1> QED BY <1>1, <1>2, <1>3, <1>4, <1>5, ThreadSteps

-----------------------------------------------------------------------------
(* Pings and pongs on their way.                                           *)

LEMMA WithinAppend ==
  ASSUME NEW q \in Seq(Nodes), NEW n \in Nodes
  PROVE  Within(n, Append(q, n)) /\ \A x : Within(x, q) => Within(x, Append(q, n))
<1>1. Len(Append(q, n)) = Len(q) + 1 /\ Len(q) \in Nat /\ Append(q, n)[Len(q) + 1] = n
      /\ \A i \in 1..Len(q) : Append(q, n)[i] = q[i]
  OBVIOUS
<1> QED BY <1>1 DEF Within

LEMMA WithinTail ==
  ASSUME NEW q \in Seq(Nodes), q # <<>>, NEW x, Within(x, q), x # Head(q)
  PROVE  Within(x, Tail(q))
<1>1. PICK i \in 1..Len(q) : q[i] = x
  BY DEF Within
<1>2. i # 1 /\ Len(q) \in Nat
  BY <1>1
<1>3. i - 1 \in 1..Len(Tail(q)) /\ Tail(q)[i - 1] = x
  BY <1>1, <1>2
<1> QED BY <1>3 DEF Within

\* A ping that a process passes on gets to each of its children that runs.
LEMMA PingedGets ==
  ASSUME NEW q \in [Nodes -> Nat], NEW p
  PROVE  /\ \A c \in Nodes : Pinged(q, p)[c] >= q[c]
         /\ \A c \in Running : above[c] = p => Pinged(q, p)[c] > 0
BY DEF Pinged, Running, Children

\* Of the way from the control node to a node that stays connected.
LEMMA SteadyWay ==
  ASSUME SteadyReached, steady \subseteq Nodes, NEW n \in steady,
         NEW m \in Nodes, OnLineage(above, m, n)
  PROVE  /\ m \in Running /\ Reaches(m)
         /\ above[m] = Control \/ (above[m] \in Nodes /\ Reaches(above[m]))
<1>1. n \in Nodes /\ ReachedIn(above, Running, n) /\ Running \in SUBSET Nodes
  BY ReachesIn DEF SteadyReached, Running
<1>2. ReachedIn(above, Running, m) /\ m \in Running
  BY <1>1, LineageReached
<1>3. above[m] = Control \/ (above[m] \in Nodes /\ ReachedIn(above, Running, above[m]))
  BY <1>1, <1>2, ReachedAbove
<1> QED BY <1>2, <1>3, ReachesIn

\* What is left to show of a step.
LEMMA CarriedIf ==
  ASSUME \A n \in steady' : nodes_ping_map'[n] > 0
                             => \E m \in Nodes : OnLineage(above', m, n)
                                                /\ (pings'[m] > 0 \/ Within(n, pongs'[m]))
  PROVE  Carried'
BY DEF Carried, CarriesFor

LEMMA BeginCarried ==
  ASSUME HeartbeatTypeOK, Carried, NEW w \in Workers, Begin(w)
  PROVE  Carried'
<1>1. CASE UNCHANGED <<nodes_ping_map, pings, steady>>
  BY <1>1 DEF Begin, Carried, CarriesFor, userVars, history
<1>2. CASE pings' = Pinged(pings, Control) /\ steady' = {n \in Nodes : Reaches(n)}
  <2> SUFFICES ASSUME NEW n \in steady'
               PROVE  \E m \in Nodes : OnLineage(above', m, n) /\ pings'[m] > 0
    BY CarriedIf
  <2>1. n \in Nodes /\ Reaches(n) /\ above' = above
    BY <1>2 DEF Begin
  <2>2. ReachedIn(above, Running, n) /\ Running \in SUBSET Nodes
    BY <2>1, ReachesIn DEF Running
  <2>3. PICK m \in Nodes : OnLineage(above, m, n) /\ above[m] = Control
    BY <2>1, <2>2, LineageTop
  <2>4. m \in Running
    BY <2>1, <2>2, <2>3, LineageReached
  <2>5. pings \in [Nodes -> Nat]
    BY DEF HeartbeatTypeOK
  <2>6. pings'[m] > 0
    BY <1>2, <2>3, <2>4, <2>5, PingedGets
  <2> QED BY <2>1, <2>3, <2>6
<1> QED BY <1>1, <1>2 DEF Begin

LEMMA CollectCarried ==
  ASSUME HeartbeatTypeOK, SteadyReached, Carried, NEW w \in Workers, NEW c \in Nodes, Collect(w, c)
  PROVE  Carried'
<1> SUFFICES ASSUME NEW n \in steady', nodes_ping_map'[n] > 0
             PROVE  \E m \in Nodes : OnLineage(above', m, n) /\ (pings'[m] > 0 \/ Within(n, pongs'[m]))
  BY CarriedIf
<1>1. n \in Nodes /\ n \in steady /\ status[n] = "run" /\ above' = above /\ pings' = pings
  <2>1. n \in steady /\ above' = above /\ pings' = pings
    BY DEF Collect
  <2>2. n \in Nodes /\ steady \subseteq Nodes
    BY <2>1 DEF HeartbeatTypeOK
  <2>3. n \in Running
    BY <2>1, <2>2, SteadyWay, LineageSelf
  <2> QED BY <2>1, <2>3 DEF Running
<1>2. pongs[c] \in Seq(Nodes) /\ pongs[c] # <<>> /\ pongs' = [pongs EXCEPT ![c] = Tail(pongs[c])]
  BY DEF Collect, HeartbeatTypeOK
<1>3. n # Head(pongs[c]) /\ nodes_ping_map[n] > 0
  <2>1. nodes_ping_map' = Reset(Head(pongs[c]))
    BY DEF Collect, Heard
  <2>2. n \in DOMAIN nodes_ping_map
    BY <1>1 DEF HeartbeatTypeOK
  <2>3. nodes_ping_map'[n] = IF n = Head(pongs[c]) THEN 0 ELSE nodes_ping_map[n]
    BY <2>1, <2>2 DEF Reset
  <2> QED BY <2>3
<1>4. PICK m \in Nodes : OnLineage(above, m, n) /\ (pings[m] > 0 \/ Within(n, pongs[m]))
  BY <1>1, <1>3 DEF Carried, CarriesFor
<1>5. Within(n, pongs[m]) => Within(n, pongs'[m])
  <2>1. CASE m = c
    BY <1>2, <1>3, <2>1, WithinTail DEF HeartbeatTypeOK
  <2>2. CASE m # c
    BY <1>2, <2>2 DEF HeartbeatTypeOK
  <2> QED BY <2>1, <2>2
<1> QED BY <1>1, <1>4, <1>5

LEMMA PongCarried ==
  ASSUME HeartbeatTypeOK, SteadyReached, Carried, NEW x \in Nodes, Pong(x)
  PROVE  Carried'
<1> SUFFICES ASSUME NEW n \in steady', nodes_ping_map'[n] > 0
             PROVE  \E m \in Nodes : OnLineage(above', m, n) /\ (pings'[m] > 0 \/ Within(n, pongs'[m]))
  BY CarriedIf
<1> DEFINE q == [pings EXCEPT ![x] = @ - 1]
<1>1. above' = above /\ steady' = steady /\ nodes_ping_map' = nodes_ping_map /\ pings' = Pinged(q, x)
      /\ pongs' = [pongs EXCEPT ![x] = Append(pongs[x], x)]
  BY DEF Pong
<1>2. q \in [Nodes -> Nat]
  BY SMTT(60) DEF Pong, HeartbeatTypeOK
<1>3. n \in Nodes /\ n \in steady /\ steady \subseteq Nodes
  BY <1>1 DEF HeartbeatTypeOK
<1>5. PICK m \in Nodes : OnLineage(above, m, n) /\ (pings[m] > 0 \/ Within(n, pongs[m]))
  BY <1>1, <1>3 DEF Carried, CarriesFor
<1>6. pongs[x] \in Seq(Nodes) /\ pongs'[x] = Append(pongs[x], x)
  BY <1>1 DEF HeartbeatTypeOK
<1>7. Within(n, pongs[m]) => Within(n, pongs'[m])
  <2>1. CASE m = x
    BY <1>6, <2>1, WithinAppend
  <2>2. CASE m # x
    BY <1>1, <2>2 DEF HeartbeatTypeOK
  <2> QED BY <2>1, <2>2
<1>8. CASE pings[m] > 0 /\ m # x
  <2>1. q[m] = pings[m] /\ pings'[m] >= q[m]
    BY <1>1, <1>2, <1>8, PingedGets DEF HeartbeatTypeOK
  <2>2. pings'[m] > 0
    <3> HIDE DEF q
    <3>1. pings'[m] \in Nat /\ q[m] \in Nat
      BY <1>1, <1>2, PingedType
    <3> QED BY <1>8, <2>1, <3>1
  <2> QED BY <1>1, <1>5, <2>2
<1>9. CASE m = x /\ n = x
  BY <1>1, <1>5, <1>6, <1>9, WithinAppend
<1>10. CASE m = x /\ n # x
  <2>1. PICK c \in Nodes : OnLineage(above, c, n) /\ above[c] = x
    BY <1>3, <1>5, <1>10, LineageDown
  <2>2. c \in Running
    BY <1>3, <2>1, SteadyWay
  <2>3. pings'[c] > 0
    <3> HIDE DEF q
    <3> QED BY <1>1, <1>2, <2>1, <2>2, PingedGets
  <2> QED BY <1>1, <2>1, <2>3
<1> QED BY <1>1, <1>5, <1>7, <1>8, <1>9, <1>10

LEMMA PassPongCarried ==
  ASSUME HeartbeatTypeOK, Carried, NEW x \in Nodes, NEW c \in Nodes, PassPong(x, c)
  PROVE  Carried'
<1> SUFFICES ASSUME NEW n \in steady', nodes_ping_map'[n] > 0
             PROVE  \E m \in Nodes : OnLineage(above', m, n) /\ (pings'[m] > 0 \/ Within(n, pongs'[m]))
  BY CarriedIf
<1> DEFINE r == Head(pongs[c])
<1>1. above' = above /\ steady' = steady /\ nodes_ping_map' = nodes_ping_map /\ pings' = pings
      /\ above[c] = x /\ pongs[c] # <<>>
      /\ pongs' = [pongs EXCEPT ![c] = Tail(@), ![x] = Append(@, r)]
  BY DEF PassPong, Children
<1>2. n \in Nodes /\ n \in steady
  BY <1>1 DEF HeartbeatTypeOK
<1>3. PICK m \in Nodes : OnLineage(above, m, n) /\ (pings[m] > 0 \/ Within(n, pongs[m]))
  BY <1>1, <1>2 DEF Carried, CarriesFor
<1>4. pongs \in [Nodes -> Seq(Nodes)]
  BY DEF HeartbeatTypeOK
<1>5. r \in Nodes /\ Tail(pongs[c]) \in Seq(Nodes)
  BY <1>1, <1>4
<1>6. \E q \in Seq(Nodes) : /\ pongs'[x] = Append(q, r)
                            /\ x # c => q = pongs[x]
                            /\ x = c => q = Tail(pongs[c])
  <2>1. CASE x = c
    BY <1>1, <1>4, <1>5, <2>1
  <2>2. CASE x # c
    BY <1>1, <1>4, <1>5, <2>2
  <2> QED BY <2>1, <2>2
<1>7. PICK q \in Seq(Nodes) : /\ pongs'[x] = Append(q, r)
                              /\ x # c => q = pongs[x]
                              /\ x = c => q = Tail(pongs[c])
  BY <1>6
<1>8. Within(r, pongs'[x]) /\ \A y : Within(y, q) => Within(y, pongs'[x])
  <2> HIDE DEF r
  <2> QED BY <1>5, <1>7, WithinAppend
<1>9. CASE Within(n, pongs[m]) /\ m = c
  <2>1. CASE n = r
    <3>1. OnLineage(above, x, n)
      BY <1>1, <1>2, <1>3, <1>9, LineageUp
    <3> QED BY <1>1, <1>8, <2>1, <3>1
  <2>2. CASE n # r
    <3>1. Within(n, Tail(pongs[c]))
      BY <1>1, <1>4, <1>9, <2>2, WithinTail
    <3>2. CASE x = c
      BY <1>1, <1>3, <1>7, <1>8, <1>9, <3>1, <3>2
    <3>3. CASE x # c
      <4>1. pongs'[c] = Tail(pongs[c])
        BY <1>1, <1>4, <3>3
      <4> QED BY <1>1, <1>3, <1>9, <3>1, <4>1
    <3> QED BY <3>2, <3>3
  <2> QED BY <2>1, <2>2
<1>10. CASE Within(n, pongs[m]) /\ m # c
  <2>1. CASE m = x
    BY <1>1, <1>3, <1>7, <1>8, <1>10, <2>1
  <2>2. CASE m # x
    <3>1. pongs'[m] = pongs[m]
      BY <1>1, <1>4, <1>10, <2>2
    <3> QED BY <1>1, <1>3, <1>10, <3>1
  <2> QED BY <2>1, <2>2
<1> QED BY <1>1, <1>3, <1>9, <1>10

\* A step of the tree: on the way to a node that stays connected, nothing has
\* changed.
OnItsWay(x) == above'[x] = above[x] /\ pings'[x] = pings[x] /\ pongs'[x] = pongs[x]

LEMMA TreeCarried ==
  ASSUME HeartbeatTypeOK, Carried, steady' \subseteq steady,
         \A n \in steady' :
            /\ nodes_ping_map'[n] = nodes_ping_map[n]
            /\ \/ \A m \in Nodes : OnLineage(above, m, n) => OnItsWay(m)
               \/ \A m \in Nodes : OnLineage(above', m, n) => OnItsWay(m)
  PROVE  Carried'
<1> SUFFICES ASSUME NEW n \in steady', nodes_ping_map'[n] > 0
             PROVE  \E m \in Nodes : OnLineage(above', m, n) /\ (pings'[m] > 0 \/ Within(n, pongs'[m]))
  BY CarriedIf
<1>1. n \in Nodes /\ n \in steady /\ nodes_ping_map[n] > 0
  BY DEF HeartbeatTypeOK
<1>2. PICK m \in Nodes : OnLineage(above, m, n) /\ (pings[m] > 0 \/ Within(n, pongs[m]))
  BY <1>1 DEF Carried, CarriesFor
<1>3. OnLineage(above', m, n) /\ OnItsWay(m)
  <2>1. CASE \A y \in Nodes : OnLineage(above, y, n) => OnItsWay(y)
    <3>1. \A y \in Nodes : OnLineage(above, y, n) => above'[y] = above[y]
      BY <2>1 DEF OnItsWay
    <3>2. OnLineage(above, m, n) <=> OnLineage(above', m, n)
      BY <1>1, <3>1, LineageSame
    <3> QED BY <1>2, <2>1, <3>2
  <2>2. CASE \A y \in Nodes : OnLineage(above', y, n) => OnItsWay(y)
    <3>1. \A y \in Nodes : OnLineage(above', y, n) => above[y] = above'[y]
      BY <2>2 DEF OnItsWay
    <3>2. OnLineage(above', m, n) <=> OnLineage(above, m, n)
      BY <1>1, <3>1, LineageSame
    <3> QED BY <1>2, <2>2, <3>2
  <2> QED BY <2>1, <2>2
<1> QED BY <1>2, <1>3 DEF OnItsWay

\* The way to a node that is still connected after the step.
LEMMA WayAfter ==
  ASSUME SteadyAfter, steady \subseteq Nodes, NEW n \in steady',
         NEW m \in Nodes, OnLineage(above', m, n)
  PROVE  m \in Running' /\ above'[m] # Nobody
<1>1. n \in Nodes /\ Reaches(n)'
  BY DEF SteadyAfter
<1>2. ReachedIn(above', Running', n) /\ Running' \in SUBSET Nodes
  BY <1>1, ReachesInAfter DEF Running
<1>3. ReachedIn(above', Running', m) /\ m \in Running'
  BY <1>1, <1>2, LineageReached
<1>4. above'[m] = Control \/ above'[m] \in Nodes
  BY <1>2, <1>3, ReachedAbove
<1> QED BY <1>3, <1>4, HeartbeatAssumption

\* The way to a node that was connected before it.
LEMMA WayBefore ==
  ASSUME HeartbeatTypeOK, SteadyReached, NEW n \in steady, NEW m \in Nodes, OnLineage(above, m, n)
  PROVE  m \in Running /\ above[m] # Nobody
<1>1. steady \subseteq Nodes
  BY DEF HeartbeatTypeOK
<1>2. m \in Running /\ (above[m] = Control \/ above[m] \in Nodes)
  BY <1>1, SteadyWay
<1> QED BY <1>2, HeartbeatAssumption

LEMMA SteadySmaller ==
  ASSUME SteadyAfter
  PROVE  steady' \subseteq steady
BY DEF SteadyAfter

LEMMA TreeStepsCarried ==
  ASSUME HeartbeatTypeOK, SteadyReached, Carried, NEW x \in Nodes, TreeStep(x)
  PROVE  Carried'
<1>0. steady \subseteq Nodes
  BY DEF HeartbeatTypeOK
<1>1. CASE Crash(x)
  <2>1. SteadyAfter /\ above' = above /\ nodes_ping_map' = nodes_ping_map /\ x \notin Running'
        /\ \A m \in Nodes : m # x => pings'[m] = pings[m] /\ pongs'[m] = pongs[m]
    BY <1>1 DEF Crash, HeartbeatTypeOK, Running
  <2>2. ASSUME NEW n \in steady', NEW m \in Nodes, OnLineage(above', m, n)
        PROVE  OnItsWay(m)
    <3>1. m # x
      BY <1>0, <2>1, <2>2, WayAfter
    <3> QED BY <2>1, <3>1 DEF OnItsWay
  <2> QED BY <2>1, <2>2, SteadySmaller, TreeCarried
<1>2. CASE Detach(x)
  <2>1. SteadyAfter /\ nodes_ping_map' = nodes_ping_map /\ pings' = pings /\ above'[x] = Nobody
        /\ \A m \in Nodes : m # x => above'[m] = above[m] /\ pongs'[m] = pongs[m]
    BY <1>2 DEF Detach, HeartbeatTypeOK
  <2>2. ASSUME NEW n \in steady', NEW m \in Nodes, OnLineage(above', m, n)
        PROVE  OnItsWay(m)
    <3>1. m # x
      BY <1>0, <2>1, <2>2, WayAfter
    <3> QED BY <2>1, <3>1 DEF OnItsWay
  <2> QED BY <2>1, <2>2, SteadySmaller, TreeCarried
<1>3. ASSUME NEW p \in Nodes \cup {Control}, Attach(x, p)
      PROVE  Carried'
  <2>1. SteadyAfter /\ nodes_ping_map' = nodes_ping_map /\ pings' = pings /\ pongs' = pongs
        /\ above[x] = Nobody /\ \A m \in Nodes : m # x => above'[m] = above[m]
    BY <1>3 DEF Attach, HeartbeatTypeOK
  <2>2. ASSUME NEW n \in steady', NEW m \in Nodes, OnLineage(above, m, n)
        PROVE  OnItsWay(m)
    <3>1. n \in steady
      BY <2>1, SteadySmaller
    <3>2. m # x
      BY <2>1, <2>2, <3>1, WayBefore
    <3> QED BY <2>1, <3>2 DEF OnItsWay
  <2> QED BY <2>1, <2>2, SteadySmaller, TreeCarried
<1>4. CASE Exit(x)
  <2>1. SteadyAfter /\ nodes_ping_map' = nodes_ping_map /\ x \notin Running'
    BY <1>4 DEF Exit, HeartbeatTypeOK, Running
  <2>2. \A m \in Nodes : /\ above[m] = x => above'[m] = Nobody
                         /\ above[m] # x => above'[m] = above[m] /\ pongs'[m] = pongs[m]
                         /\ m # x => pings'[m] = pings[m]
    BY <1>4 DEF Exit, HeartbeatTypeOK
  <2>3. ASSUME NEW n \in steady', NEW m \in Nodes, OnLineage(above', m, n)
        PROVE  OnItsWay(m)
    <3>1. m # x /\ above'[m] # Nobody
      BY <1>0, <2>1, <2>3, WayAfter
    <3> QED BY <2>2, <3>1 DEF OnItsWay
  <2> QED BY <2>1, <2>3, SteadySmaller, TreeCarried
<1>5. CASE Forget(x)
  <2>1. above' = above /\ steady' = steady /\ pings' = pings /\ pongs' = pongs /\ x \notin Running
    BY <1>5 DEF Forget, Running
  <2>2. ASSUME NEW n \in steady'
        PROVE  nodes_ping_map'[n] = nodes_ping_map[n]
    <3>1. n \in steady /\ n \in Nodes
      BY <1>0, <2>1
    <3>2. n \in Running
      BY <3>1, WayBefore, LineageSelf
    <3>3. n # x /\ n \in DOMAIN nodes_ping_map
      BY <2>1, <3>2 DEF HeartbeatTypeOK, Running
    <3> QED BY <1>5, <3>3 DEF Forget
  <2>3. ASSUME NEW m \in Nodes
        PROVE  OnItsWay(m)
    BY <2>1 DEF OnItsWay
  <2> QED BY <2>1, <2>2, <2>3, TreeCarried
<1>6. ASSUME NEW p \in Nodes \cup {Control}, Create(x, p)
      PROVE  Carried'
  <2>1. SteadyAfter /\ pings' = pings /\ pongs' = pongs /\ x \notin Running
        /\ \A m \in Nodes : m # x => above'[m] = above[m]
    BY <1>6 DEF Create, HeartbeatTypeOK, Running
  <2>2. ASSUME NEW n \in steady'
        PROVE  n \in steady /\ n \in Running /\ n # x
    <3>1. n \in steady /\ n \in Nodes
      BY <1>0, <2>1, SteadySmaller
    <3> QED BY <2>1, <3>1, WayBefore, LineageSelf
  <2>3. ASSUME NEW n \in steady'
        PROVE  nodes_ping_map'[n] = nodes_ping_map[n]
    <3>1. n # x /\ n \in DOMAIN nodes_ping_map
      BY <2>2 DEF HeartbeatTypeOK, Running
    <3> QED BY <1>6, <3>1 DEF Create
  <2>4. ASSUME NEW n \in steady', NEW m \in Nodes, OnLineage(above, m, n)
        PROVE  OnItsWay(m)
    <3>1. m # x
      BY <2>1, <2>2, <2>4, WayBefore
    <3> QED BY <2>1, <3>1 DEF OnItsWay
  <2> QED BY <2>1, <2>3, <2>4, SteadySmaller, TreeCarried
<1> QED BY <1>1, <1>2, <1>3, <1>4, <1>5, <1>6 DEF TreeStep

LEMMA CarriedNext == HeartbeatTypeOK /\ SteadyReached /\ Carried /\ [Next]_vars => Carried'
<1> SUFFICES ASSUME HeartbeatTypeOK, SteadyReached, Carried, [Next]_vars PROVE Carried'
  OBVIOUS
<1>1. CASE UNCHANGED <<nodes_ping_map, above, pings, pongs, steady>>
  BY <1>1 DEF Carried, CarriesFor
<1>2. \/ UNCHANGED <<nodes_ping_map, above, pings, pongs, steady>>
      \/ \E w \in Workers : Begin(w) \/ \E c \in Nodes : Collect(w, c)
      \/ \E n \in Nodes : Pong(n) \/ (\E c \in Nodes : PassPong(n, c)) \/ TreeStep(n)
  BY DEF Next, Start, Stop, WorkerStep, NodeStep, End, vars
<1> QED BY <1>1, <1>2, BeginCarried, CollectCarried, PongCarried, PassPongCarried, TreeStepsCarried

\* The nodes that have stayed connected are connected.
LEMMA SteadyNext == HeartbeatTypeOK /\ SteadyReached /\ [Next]_vars => SteadyReached'
<1> SUFFICES ASSUME HeartbeatTypeOK, SteadyReached, [Next]_vars, NEW n \in steady'
             PROVE  Reaches(n)'
  BY DEF SteadyReached
<1>0. steady \subseteq Nodes
  BY DEF HeartbeatTypeOK
<1>1. CASE UNCHANGED <<status, above>> /\ (n \in steady \/ (n \in Nodes /\ Reaches(n)))
  BY <1>1 DEF SteadyReached, Reaches
<1>2. CASE SteadyAfter
  BY <1>2 DEF SteadyAfter
<1>3. ASSUME NEW x \in Nodes, Forget(x)
      PROVE  Reaches(n)'
  <2>1. above' = above /\ n \in steady
    BY <1>3 DEF Forget
  <2>2. Running' = Running
    BY <1>3 DEF Forget, Running, HeartbeatTypeOK
  <2>3. Reaches(n) /\ n \in Nodes
    BY <1>0, <2>1 DEF SteadyReached
  <2> QED BY <2>1, <2>2, <2>3, ReachesIn, ReachesInAfter
<1>4. ASSUME NEW w \in Workers, Begin(w)
      PROVE  UNCHANGED <<status, above>> /\ (n \in steady \/ (n \in Nodes /\ Reaches(n)))
  BY <1>4 DEF Begin
<1>5. \/ UNCHANGED <<status, above, steady>> \/ SteadyAfter
      \/ \E w \in Workers : Begin(w)
      \/ \E x \in Nodes : Forget(x)
  BY DEF Next, Start, Stop, WorkerStep, NodeStep, TreeStep, End, Collect, Pong, PassPong, Crash, Detach,
         Attach, Exit, Create, vars
<1> QED BY <1>1, <1>2, <1>3, <1>4, <1>5

-----------------------------------------------------------------------------
(* The counters.                                                           *)

\* What a step can do to one thread and to no other.
LEMMA TheOne ==
  ASSUME HeartbeatTypeOK, OneWorker, ~beside, NEW w \in Workers, worker[w] # "none"
  PROVE  /\ Waiting <=> worker[w] = "wait"
         /\ \A s \in {"none", "test", "wait"} :
              worker' = [worker EXCEPT ![w] = s] => (Waiting' <=> s = "wait")
BY ZenonT(60) DEF HeartbeatTypeOK, OneWorker, Waiting

LEMMA StartCounts ==
  ASSUME CountsSilence, Start
  PROVE  CountsSilence'
<1> SUFFICES ASSUME Orderly', NEW n \in DOMAIN nodes_ping_map'
             PROVE  Counted(n)'
  BY DEF CountsSilence
<1>1. UNCHANGED <<nodes_ping_map, reports, cut>>
  BY DEF Start
<1>2. CASE UNCHANGED <<worker, silent, beside>>
  BY <1>1, <1>2 DEF CountsSilence, Orderly, Counted, Waiting
<1>3. ASSUME NEW w \in Workers, worker[w] = "none", worker' = [worker EXCEPT ![w] = "test"],
             beside' = (beside \/ \E v \in Workers : worker[v] # "none"),
             silent' = IF beside' THEN NotSilent ELSE silent
      PROVE  Counted(n)'
  <2>0. ~beside' /\ ~beside /\ \A v \in Workers : worker[v] = "none"
    BY <1>3 DEF Orderly
  <2>1. ~beside /\ silent' = silent /\ ~Waiting /\ ~Waiting'
    BY <1>3, <2>0 DEF Waiting
  <2>2. Orderly
    BY <1>1, <2>1 DEF Orderly
  <2>3. Counted(n)
    BY <1>1, <2>2 DEF CountsSilence
  <2> QED BY <1>1, <2>1, <2>3 DEF Counted
<1> QED BY <1>2, <1>3 DEF Start

LEMMA StopCounts ==
  ASSUME CountsSilence, Stop
  PROVE  CountsSilence'
<1> SUFFICES ASSUME Orderly', NEW n \in DOMAIN nodes_ping_map'
             PROVE  Counted(n)'
  BY DEF CountsSilence
<1>1. UNCHANGED <<nodes_ping_map, reports, beside, worker>> /\ ~cut /\ silent' = silent
  BY DEF Stop, Orderly
<1>2. Counted(n)
  BY <1>1 DEF CountsSilence, Orderly
<1> QED BY <1>1, <1>2 DEF Counted, Waiting

LEMMA BeginCounts ==
  ASSUME HeartbeatTypeOK, OneWorker, CountsSilence, NEW w \in Workers, Begin(w)
  PROVE  CountsSilence'
<1> SUFFICES ASSUME Orderly', NEW n \in DOMAIN nodes_ping_map'
             PROVE  Counted(n)'
  BY DEF CountsSilence
<1>1. UNCHANGED <<reports, silent, cut, beside>> /\ worker[w] = "test"
  BY DEF Begin, history
<1>2. n \in DOMAIN nodes_ping_map
  BY DEF Begin
<1>3. Orderly /\ ~beside
  BY <1>1 DEF Orderly
<1>4. Counted(n)
  BY <1>2, <1>3 DEF CountsSilence
<1>5. ~Waiting /\ \A s \in {"none", "test", "wait"} :
                    worker' = [worker EXCEPT ![w] = s] => (Waiting' <=> s = "wait")
  BY <1>1, <1>3, TheOne
<1>6. nodes_ping_map[n] \in 0..Many
  BY <1>2 DEF HeartbeatTypeOK
<1>7. CASE worker' = [worker EXCEPT ![w] = "none"] /\ UNCHANGED nodes_ping_map
  <2>1. ~Waiting'
    BY <1>5, <1>7
  <2> QED BY <1>1, <1>4, <1>5, <1>7, <2>1 DEF Counted
<1>8. CASE /\ worker' = [worker EXCEPT ![w] = "wait"]
           /\ nodes_ping_map' = [m \in DOMAIN nodes_ping_map |->
                                   IF nodes_ping_map[m] = Many THEN Many ELSE nodes_ping_map[m] + 1]
  <2>1. Waiting'
    BY <1>5, <1>8
  <2>2. nodes_ping_map'[n] = IF nodes_ping_map[n] = Many THEN Many ELSE nodes_ping_map[n] + 1
    BY <1>2, <1>8
  <2> QED BY <1>1, <1>4, <1>5, <1>6, <2>1, <2>2 DEF Counted, Many, Limit
<1> QED BY <1>7, <1>8 DEF Begin

LEMMA EndCounts ==
  ASSUME HeartbeatTypeOK, OneWorker, CountsSilence, NEW w \in Workers, End(w)
  PROVE  CountsSilence'
<1> SUFFICES ASSUME Orderly', NEW n \in DOMAIN nodes_ping_map'
             PROVE  Counted(n)'
  BY DEF CountsSilence
<1>1. UNCHANGED <<nodes_ping_map, cut, beside>> /\ worker[w] = "wait"
      /\ worker' = [worker EXCEPT ![w] = "test"]
  BY DEF End
<1>2. n \in DOMAIN nodes_ping_map /\ n \in Nodes /\ nodes_ping_map[n] \in 0..Many
      /\ silent[n] \in -1..Limit /\ reports[n] \in 0..2
  BY <1>1 DEF HeartbeatTypeOK
<1>3. Orderly /\ ~beside
  BY <1>1 DEF Orderly
<1>4. Counted(n) /\ Waiting /\ ~Waiting'
  BY <1>1, <1>2, <1>3, TheOne DEF CountsSilence
<1>5. silent'[n] = IF silent[n] < Limit THEN silent[n] + 1 ELSE silent[n]
  BY <1>2, <1>3 DEF End
<1>6. reports'[n] > 0 => reports[n] > 0 \/ nodes_ping_map[n] = Limit
  BY <1>2 DEF End, Reported
<1> QED BY <1>1, <1>2, <1>4, <1>5, <1>6 DEF Counted, Many, Limit

LEMMA CollectCounts ==
  ASSUME HeartbeatTypeOK, CountsSilence, NEW w \in Workers, NEW c \in Nodes, Collect(w, c)
  PROVE  CountsSilence'
<1> SUFFICES ASSUME Orderly', NEW n \in DOMAIN nodes_ping_map'
             PROVE  Counted(n)'
  BY DEF CountsSilence
<1> DEFINE r == Head(pongs[c])
<1>1. UNCHANGED <<worker, cut, beside>> /\ worker[w] = "wait" /\ Heard(r)
  BY DEF Collect
<1>2. Orderly /\ Waiting /\ Waiting'
  BY <1>1 DEF Orderly, Waiting
<1>3. n \in DOMAIN nodes_ping_map /\ n \in Nodes
      /\ nodes_ping_map'[n] = IF n = r THEN 0 ELSE nodes_ping_map[n]
  BY <1>1 DEF Heard, Reset, HeartbeatTypeOK
<1>4. silent'[n] = (IF n = r THEN -1 ELSE silent[n]) /\ reports'[n] = (IF n = r THEN 0 ELSE reports[n])
  BY <1>1, <1>2, <1>3 DEF Heard, HeartbeatTypeOK
<1>5. Counted(n)
  BY <1>2, <1>3 DEF CountsSilence
<1> HIDE DEF r
<1> QED BY <1>2, <1>3, <1>4, <1>5 DEF Counted

LEMMA CreateCounts ==
  ASSUME HeartbeatTypeOK, CountsSilence, NEW x \in Nodes, NEW p \in Nodes \cup {Control}, Create(x, p)
  PROVE  CountsSilence'
<1> SUFFICES ASSUME Orderly', NEW n \in DOMAIN nodes_ping_map'
             PROVE  Counted(n)'
  BY DEF CountsSilence
<1>1. UNCHANGED <<worker, cut, beside>>
      /\ nodes_ping_map' = [m \in DOMAIN nodes_ping_map \cup {x} |->
                              IF m = x THEN 0 ELSE nodes_ping_map[m]]
  BY DEF Create
<1>2. Orderly /\ (Waiting' <=> Waiting)
  BY <1>1 DEF Orderly, Waiting
<1>3. n \in Nodes /\ nodes_ping_map'[n] = (IF n = x THEN 0 ELSE nodes_ping_map[n])
      /\ (n # x => n \in DOMAIN nodes_ping_map)
  BY <1>1 DEF HeartbeatTypeOK
<1>4. silent'[n] = (IF n = x THEN (IF Waiting THEN -1 ELSE 0) ELSE silent[n])
      /\ reports'[n] = (IF n = x THEN 0 ELSE reports[n])
  BY <1>2, <1>3 DEF Create, HeartbeatTypeOK, Waiting
<1>5. n # x => Counted(n)
  BY <1>2, <1>3 DEF CountsSilence
<1> QED BY <1>2, <1>3, <1>4, <1>5 DEF Counted, Limit

LEMMA ForgetCounts ==
  ASSUME CountsSilence, NEW x \in Nodes, Forget(x)
  PROVE  CountsSilence'
<1> SUFFICES ASSUME Orderly', NEW n \in DOMAIN nodes_ping_map'
             PROVE  Counted(n)'
  BY DEF CountsSilence
<1>1. UNCHANGED <<worker, reports, silent, cut, beside>>
      /\ nodes_ping_map' = [m \in DOMAIN nodes_ping_map \ {x} |-> nodes_ping_map[m]]
  BY DEF Forget, history
<1>2. n \in DOMAIN nodes_ping_map /\ nodes_ping_map'[n] = nodes_ping_map[n]
  BY <1>1
<1>3. Counted(n)
  BY <1>1, <1>2 DEF CountsSilence, Orderly
<1> QED BY <1>1, <1>2, <1>3 DEF Counted, Waiting

LEMMA CountsNext == HeartbeatTypeOK /\ OneWorker /\ CountsSilence /\ [Next]_vars => CountsSilence'
<1>1. UNCHANGED <<worker, nodes_ping_map, reports, silent, cut, beside>> /\ CountsSilence
        => CountsSilence'
  BY DEF CountsSilence, Orderly, Counted, Waiting
<1>2. [Next]_vars => \/ UNCHANGED <<worker, nodes_ping_map, reports, silent, cut, beside>>
                     \/ Start \/ Stop
                     \/ \E w \in Workers : Begin(w) \/ End(w) \/ \E c \in Nodes : Collect(w, c)
                     \/ \E n \in Nodes : Forget(n) \/ \E p \in Nodes \cup {Control} : Create(n, p)
  BY DEF Next, WorkerStep, NodeStep, TreeStep, Pong, PassPong, Crash, Detach, Attach, Exit, vars, history
<1> QED BY <1>1, <1>2, StartCounts, StopCounts, BeginCounts, EndCounts, CollectCounts,
           CreateCounts, ForgetCounts

-----------------------------------------------------------------------------
(* The theorems.                                                           *)

LEMMA InitInv == Init => IInv
<1> SUFFICES ASSUME Init PROVE IInv
  OBVIOUS
<1>1. <<>> \in Seq(Nodes)
  OBVIOUS
<1>2. HeartbeatTypeOK
  <2>1. pongs \in [Nodes -> Seq(Nodes)]
    BY <1>1 DEF Init
  <2>2. nodes_ping_map \in [{n \in Nodes : status[n] # "absent"} -> 0..Many]
    BY DEF Init, Many
  <2>3. {cut, beside, late} \subseteq BOOLEAN
    BY DEF Init
  <2>4. upsets \in 0..MaxUpsets /\ above \in [Nodes -> Nodes \cup {Control, Nobody}]
        /\ steady \subseteq Nodes
    BY HeartbeatAssumption DEF Init
  <2>5. silent \in [Nodes -> -1..Limit] /\ reports \in [Nodes -> 0..2] /\ pings \in [Nodes -> Nat]
        /\ worker \in [Workers -> {"none", "test", "wait"}]
        /\ status \in [Nodes -> {"absent", "run", "dead", "exited"}] /\ heartbeat_time \in {0, 1}
    BY DEF Init, NotSilent, Limit
  <2> QED BY <2>1, <2>2, <2>3, <2>4, <2>5 DEF HeartbeatTypeOK
<1>3. SteadyReached /\ Carried
  BY DEF Init, SteadyReached, Carried
<1>4. WaitsWhileOn /\ OneWorker
  BY DEF Init, WaitsWhileOn, OneWorker
<1>5. CountsSilence
  BY DEF Init, CountsSilence, Counted, Waiting, NotSilent, Limit
<1> QED BY <1>2, <1>3, <1>4, <1>5 DEF IInv

LEMMA NextInv == IInv /\ [Next]_vars => IInv'
BY TypeNext, ThreadsNext, SteadyNext, CarriedNext, CountsNext DEF IInv

LEMMA Invariance == Spec => []IInv
<1> QED BY InitInv, NextInv, PTL DEF Spec

\* The counters are those of the nodes in the array, whatever the tree is at
\* first and however its nodes are created, removed and moved, even if a pong
\* comes in after its node has been removed (control_node.c:503).
THEOREM TypeCorrect == Spec => []HeartbeatTypeOK
<1>1. IInv => HeartbeatTypeOK
  BY DEF IInv
<1> QED BY <1>1, Invariance, PTL

\* A line is printed by the end of a period only.
LEMMA OnlyEndReports ==
  ASSUME HeartbeatTypeOK, [Next]_vars, NEW n \in Nodes, reports'[n] > reports[n]
  PROVE  \E w \in Workers : End(w) /\ n \in Reported
<1>1. reports[n] \in 0..2
  BY DEF HeartbeatTypeOK
<1>2. reports' # reports
  BY <1>1
<1>3. ASSUME NEW r \in Nodes, reports' = [reports EXCEPT ![r] = 0]
      PROVE  FALSE
  BY <1>1, <1>3 DEF HeartbeatTypeOK
<1>4. ASSUME NEW w \in Workers, NEW c \in Nodes, Collect(w, c)
      PROVE  FALSE
  <2>1. pongs[c] \in Seq(Nodes) /\ pongs[c] # <<>>
    BY <1>4 DEF Collect, HeartbeatTypeOK
  <2>2. Head(pongs[c]) \in Nodes
    BY <2>1
  <2> QED BY <1>3, <1>4, <2>2 DEF Collect, Heard
<1>5. ASSUME NEW x \in Nodes, NEW p \in Nodes \cup {Control}, Create(x, p)
      PROVE  FALSE
  BY <1>3, <1>5 DEF Create
<1>6. \E w \in Workers : End(w)
  BY <1>2, <1>4, <1>5 DEF Next, Start, Stop, WorkerStep, NodeStep, TreeStep, Begin, Pong,
                          PassPong, Crash, Detach, Attach, Exit, Forget, vars, history
<1>7. PICK w \in Workers : End(w)
  BY <1>6
<1>8. n \in Reported
  BY <1>1, <1>7 DEF End
<1> QED BY <1>7, <1>8

\* With any tree and any number of threads, a line about a node is printed
\* after four whole silent periods, and once per silence (control_node.c:24
\* and 529-531).
THEOREM InTimeCorrect == Spec => ReportedInTime
<1>1. IInv /\ [Next]_vars
        => [\A n \in Nodes : Orderly' /\ reports'[n] > reports[n]
              => silent'[n] >= Limit /\ reports[n] = 0]_vars
  <2> SUFFICES ASSUME IInv, [Next]_vars, NEW n \in Nodes, Orderly', reports'[n] > reports[n]
               PROVE  silent'[n] >= Limit /\ reports[n] = 0
    OBVIOUS
  <2>1. HeartbeatTypeOK /\ OneWorker /\ CountsSilence
    BY DEF IInv
  <2>2. PICK w \in Workers : End(w) /\ n \in Reported
    BY <2>1, OnlyEndReports
  <2>3. n \in DOMAIN nodes_ping_map /\ nodes_ping_map[n] = Limit
    BY <2>2 DEF Reported
  <2>4. Orderly /\ Waiting
    BY <2>2 DEF End, Orderly, Waiting
  <2>5. Counted(n)
    BY <2>1, <2>3, <2>4 DEF CountsSilence
  <2>6. silent[n] \in -1..Limit /\ reports[n] \in 0..2
    BY <2>1 DEF HeartbeatTypeOK
  <2>7. silent[n] = Limit - 1 /\ reports[n] = 0
    BY <2>3, <2>4, <2>5, <2>6 DEF Counted, Limit, Many
  <2>8. silent'[n] = silent[n] + 1
    BY <2>2, <2>4, <2>7 DEF End, Limit
  <2> QED BY <2>6, <2>7, <2>8 DEF Limit
<1> QED BY <1>1, Invariance, PTL DEF Spec, ReportedInTime

\* If periods are longer than a round trip and none is ended early, no line is
\* printed about a node that has been reached ever since the last ping went
\* out, by any number of threads that read the same sockets (control_node.c:
\* 513-533, compute_node.c:76-93), in any tree and while other nodes are moved,
\* removed and created in it (mq_node.c:23-41, 93-126).
THEOREM LiveCorrect == Spec => LiveNotReported
<1>1. IInv /\ [Next]_vars
        => [\A n \in Nodes : ~cut' /\ ~late' /\ reports'[n] > reports[n] => n \notin steady]_vars
  <2> SUFFICES ASSUME IInv, [Next]_vars, NEW n \in Nodes, ~cut', ~late',
                      reports'[n] > reports[n], n \in steady
               PROVE  FALSE
    OBVIOUS
  <2>1. HeartbeatTypeOK /\ WaitsWhileOn /\ SteadyReached /\ Carried /\ steady \subseteq Nodes
    BY DEF IInv, HeartbeatTypeOK
  <2>2. PICK w \in Workers : End(w) /\ n \in Reported
    BY <2>1, OnlyEndReports
  <2>3. nodes_ping_map[n] > 0
    BY <2>2 DEF Reported, Limit
  <2>4. PICK m \in Nodes : OnLineage(above, m, n) /\ (pings[m] > 0 \/ Within(n, pongs[m]))
    BY <2>1, <2>3 DEF Carried, CarriesFor
  <2>5. m \in Running /\ Reaches(m) /\ Reached(above[m])
    BY <2>1, <2>4, SteadyWay DEF Reached
  <2>6. Within(n, pongs[m]) => pongs[m] # <<>>
    BY DEF Within
  <2>7. InFlight
    BY <2>4, <2>5, <2>6 DEF InFlight, Running
  <2>8. heartbeat_time > 0
    BY <2>1, <2>2 DEF End, WaitsWhileOn
  <2>9. late'
    BY <2>2, <2>7, <2>8 DEF End, TooSoon
  <2> QED BY <2>9
<1> QED BY <1>1, Invariance, PTL DEF Spec, LiveNotReported
=============================================================================
