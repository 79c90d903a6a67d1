------------------------------- MODULE Heartbeat -------------------------------
(***************************************************************************)
(* The heartbeat of lab6: the main thread starts and stops a worker thread *)
(* (control_node.c, cmd_heartbeat), the worker counts periods without a    *)
(* pong per node and sends a ping down the tree (heartbeat_worker), and    *)
(* every compute node answers a ping, passes it to its children and passes *)
(* their pongs to its parent (the second half of the loop of compute_node  *)
(* .c), over the second pair of sockets.                                   *)
(*                                                                         *)
(* How long a period lasts is the clock's business: it may end at any      *)
(* point.  Lengths other than zero are therefore one value.                *)
(*                                                                         *)
(* The receiver thread goes on meanwhile: nodes are created, leave their   *)
(* parent, get another one and exit, and their ping sockets are closed and *)
(* opened with the main ones.  Which node does so when is the business of  *)
(* the chains of RemoveChain and Cluster; here the steps come in any       *)
(* order, so whatever order the chain of a removal has is one of them.     *)
(***************************************************************************)
EXTENDS Integers, Sequences, FiniteSets

CONSTANTS
  Nodes,        \* compute nodes
  Control,      \* the control process
  Nobody,       \* in place of the parent of a node that no one is connected to
  FirstAbove,   \* the parent of a node at the beginning
  Workers,      \* heartbeat threads that may ever run at once
  MaxUpsets     \* bound: `heartbeat 0' commands, nodes detached, removed and
                \* dead, and periods that end before their pongs are in

ASSUME HeartbeatAssumption ==
  /\ Control \notin Nodes
  /\ Nobody \notin Nodes \cup {Control}
  /\ FirstAbove \in [Nodes -> Nodes \cup {Control}]
  /\ MaxUpsets \in Nat

Limit == 4
Many == 5         \* Limit + 1 and above, which the code tells apart from Limit only

VARIABLES
  heartbeat_time,   \* 0, or 1 for any other value
  worker,           \* a thread: "none", "test" the loop's condition, "wait"
  nodes_ping_map,   \* periods begun since the last pong, of the nodes in the map
  status,           \* of a node: "absent", "run", "dead", or "exited" for as
                    \* long as the chain that removes it goes on
  above,            \* whose child sockets are connected to a node
  pings,            \* pings queued for a node
  pongs,            \* pongs a node has sent and its parent has not read
  upsets,           \* how often what MaxUpsets bounds has happened
  reports,          \* history: lines about a node since its last pong, up to 2
  silent,           \* history: whole periods that began after the last pong of a
                    \* node, up to Limit, -1 during the period of the pong; kept
                    \* while there is one worker and no period ends early
  cut,              \* history: has `heartbeat 0' ended a period early?
  beside,           \* history: has a worker been started beside another?
  late,             \* history: has a period ended before its pongs were in?
  steady            \* history: the nodes that have been reached at every moment
                    \* since the last ping went out

userVars == <<heartbeat_time, upsets>>
history == <<reports, silent, cut, beside, late>>
vars == <<heartbeat_time, worker, nodes_ping_map, status, above, pings, pongs,
          upsets, reports, silent, cut, beside, late, steady>>

Children(p) == {c \in Nodes : above[c] = p}
Up(p) == p \in {Control} \cup {n \in Nodes : status[n] = "run"}

\* Is there a path of live processes from the control node to n?
Reaches(n) ==
  \A S \in SUBSET Nodes :
    (\A c \in Nodes : status[c] = "run" /\ (above[c] = Control \/ above[c] \in S) => c \in S)
      => n \in S

Reached(p) == p = Control \/ (p \in Nodes /\ Reaches(p))

\* After a step that changes the tree.
SteadyAfter == steady' = {n \in steady : Reaches(n)'}

\* mqn_push of a ping by p to its children; nobody reads those of one that is
\* gone.
Pinged(q, p) ==
  [c \in Nodes |-> IF c \in Children(p) /\ status[c] = "run" THEN q[c] + 1 ELSE q[c]]

NotSilent == [n \in Nodes |-> 0]

\* One worker at a time, and no period of it ended early.
Orderly == ~cut /\ ~beside

Init ==
  /\ heartbeat_time = 0
  /\ worker = [w \in Workers |-> "none"]
  /\ nodes_ping_map = [n \in Nodes |-> 0]
  /\ status = [n \in Nodes |-> "run"]
  /\ above = FirstAbove
  /\ pings = [n \in Nodes |-> 0]
  /\ pongs = [n \in Nodes |-> <<>>]
  /\ upsets = 0
  /\ reports = [n \in Nodes |-> 0]
  /\ silent = NotSilent
  /\ cut = FALSE /\ beside = FALSE /\ late = FALSE
  /\ steady = {}

-----------------------------------------------------------------------------
(* The main thread.                                                        *)

\* `heartbeat TIME': a worker is created if the last value was 0, whether or
\* not the worker of an earlier command has seen that value.
Start ==
  /\ heartbeat_time' = 1
  /\ \/ /\ heartbeat_time = 0
        /\ \E w \in Workers :
             /\ worker[w] = "none"
             /\ worker' = [worker EXCEPT ![w] = "test"]
        /\ beside' = (beside \/ \E w \in Workers : worker[w] # "none")
        /\ silent' = IF beside' THEN NotSilent ELSE silent
     \/ heartbeat_time # 0 /\ UNCHANGED <<worker, silent, beside>>
  /\ UNCHANGED <<nodes_ping_map, status, above, pings, pongs, upsets,
                 reports, cut, late, steady>>

\* `heartbeat 0'.
Stop ==
  /\ upsets < MaxUpsets
  /\ heartbeat_time' = 0
  /\ upsets' = upsets + 1
  /\ cut' = (cut \/ \E w \in Workers : worker[w] = "wait")
  /\ silent' = IF cut' THEN NotSilent ELSE silent
  /\ UNCHANGED <<worker, nodes_ping_map, status, above, pings, pongs,
                 reports, beside, late, steady>>

-----------------------------------------------------------------------------
(* A worker.                                                               *)

\* Variant: the loop does not look at heartbeat_time.
BeginAlways(w) ==
  /\ worker[w] = "test"
  /\ worker' = [worker EXCEPT ![w] = "wait"]
  /\ UNCHANGED <<nodes_ping_map, pings, status, above, pongs, userVars, history, steady>>

\* The head of the loop: every counter is raised and a ping sent to both
\* children, or the thread ends.
Begin(w) ==
  /\ worker[w] = "test"
  /\ \/ /\ heartbeat_time > 0
        /\ worker' = [worker EXCEPT ![w] = "wait"]
        /\ nodes_ping_map' = [n \in DOMAIN nodes_ping_map |->
                                IF nodes_ping_map[n] = Many THEN Many
                                ELSE nodes_ping_map[n] + 1]
        /\ pings' = Pinged(pings, Control)
        /\ steady' = {n \in Nodes : Reaches(n)}
     \/ /\ heartbeat_time = 0
        /\ worker' = [worker EXCEPT ![w] = "none"]
        /\ UNCHANGED <<nodes_ping_map, pings, steady>>
  /\ UNCHANGED <<status, above, pongs, userVars, history>>

\* Variant: every counter is reset, whoever the pong names.
AllReset(n) == [m \in DOMAIN nodes_ping_map |-> 0]

\* Variant: no look whether the node is in the map.
ResetOrPut(n) == [m \in DOMAIN nodes_ping_map \cup {n} |->
                    IF m = n THEN 0 ELSE nodes_ping_map[m]]

\* A pong of a node without an entry changes nothing.
Reset(n) == [m \in DOMAIN nodes_ping_map |-> IF m = n THEN 0 ELSE nodes_ping_map[m]]

\* receive_pong_from_socket takes a pong of the node n.
Heard(n) ==
  /\ nodes_ping_map' = Reset(n)
  /\ reports' = [reports EXCEPT ![n] = 0]
  /\ silent' = [silent EXCEPT ![n] = IF Orderly THEN -1 ELSE 0]

Collect(w, c) ==
  /\ worker[w] = "wait"
  /\ c \in Children(Control)
  /\ pongs[c] # <<>>
  /\ Heard(Head(pongs[c]))
  /\ pongs' = [pongs EXCEPT ![c] = Tail(@)]
  /\ UNCHANGED <<worker, status, above, pings, userVars, cut, beside, late, steady>>

\* Is a ping or pong still under way that will get through?
InFlight ==
  \E n \in Nodes : \/ status[n] = "run" /\ Reaches(n) /\ pings[n] > 0
                   \/ Reached(above[n]) /\ pongs[n] # <<>>

\* The time of the period is over before.
TooSoon == heartbeat_time > 0 /\ InFlight

\* Variant: `>=' for `=='.
ReportedAtLeast == {n \in DOMAIN nodes_ping_map : nodes_ping_map[n] >= Limit}

\* The nodes the end of a period prints a line about.
Reported == {n \in DOMAIN nodes_ping_map : nodes_ping_map[n] = Limit}

\* The end of a period, because its time is over or because of `heartbeat
\* 0'.
End(w) ==
  /\ worker[w] = "wait"
  /\ IF TooSoon THEN upsets < MaxUpsets /\ upsets' = upsets + 1 ELSE UNCHANGED upsets
  /\ worker' = [worker EXCEPT ![w] = "test"]
  /\ reports' = [n \in Nodes |-> IF n \in Reported /\ reports[n] < 2 THEN reports[n] + 1
                                 ELSE reports[n]]
  /\ silent' = [n \in Nodes |-> IF Orderly /\ silent[n] < Limit THEN silent[n] + 1
                                ELSE silent[n]]
  /\ late' = (late \/ TooSoon)
  /\ UNCHANGED <<heartbeat_time, nodes_ping_map, status, above, pings, pongs, cut, beside,
                 steady>>

-----------------------------------------------------------------------------
(* A compute node.                                                         *)

\* Variant: the ping is answered and not passed on.
PongOnly(n) ==
  /\ status[n] = "run" /\ pings[n] > 0
  /\ Up(above[n])
  /\ pongs' = [pongs EXCEPT ![n] = Append(@, n)]
  /\ pings' = [pings EXCEPT ![n] = @ - 1]
  /\ UNCHANGED <<worker, nodes_ping_map, status, above, userVars, history, steady>>

\* It answers a ping and passes it on.  Writing to its parent waits for one.
Pong(n) ==
  /\ status[n] = "run" /\ pings[n] > 0
  /\ Up(above[n])
  /\ pongs' = [pongs EXCEPT ![n] = Append(@, n)]
  /\ pings' = Pinged([pings EXCEPT ![n] = @ - 1], n)
  /\ UNCHANGED <<worker, nodes_ping_map, status, above, userVars, history, steady>>

\* It passes a pong of its child c on.
PassPong(n, c) ==
  /\ status[n] = "run" /\ c \in Children(n) /\ pongs[c] # <<>>
  /\ Up(above[n])
  /\ pongs' = [pongs EXCEPT ![c] = Tail(@), ![n] = Append(@, Head(pongs[c]))]
  /\ UNCHANGED <<worker, nodes_ping_map, status, above, pings, userVars, history, steady>>

\* External: the process dies; pongs it has not sent yet may be lost.
Crash(n) ==
  /\ status[n] = "run" /\ upsets < MaxUpsets
  /\ upsets' = upsets + 1
  /\ status' = [status EXCEPT ![n] = "dead"]
  /\ pings' = [pings EXCEPT ![n] = 0]
  /\ \E k \in 0..Len(pongs[n]) : pongs' = [pongs EXCEPT ![n] = SubSeq(@, 1, k)]
  /\ UNCHANGED <<heartbeat_time, worker, nodes_ping_map, above, history>>
  /\ SteadyAfter

-----------------------------------------------------------------------------
(* Commands of the receiver thread, and nodes that carry them out.         *)

\* mqn_close: the ping socket of a child is closed with the main one.  Pings
\* written before still arrive, pongs not read yet are dropped.
Detach(c) ==
  /\ Reached(above[c])
  /\ \/ status[c] = "exited" /\ UNCHANGED upsets
     \/ status[c] # "exited" /\ upsets < MaxUpsets /\ upsets' = upsets + 1
  /\ above' = [above EXCEPT ![c] = Nobody]
  /\ pongs' = [pongs EXCEPT ![c] = <<>>]
  /\ UNCHANGED <<heartbeat_time, worker, nodes_ping_map, status, pings, history>>
  /\ SteadyAfter

\* mqn_connect.
Attach(c, p) ==
  /\ above[c] = Nobody /\ status[c] \in {"run", "dead"}
  /\ Reached(p)
  /\ above' = [above EXCEPT ![c] = p]
  /\ UNCHANGED <<worker, nodes_ping_map, status, pings, pongs, userVars, history>>
  /\ SteadyAfter

\* mqn_destroy by a node that is removed, whether it has children or not.
\* Pongs it has written still arrive, those it has not read are dropped.
Exit(n) ==
  /\ status[n] = "run" /\ Reaches(n) /\ upsets < MaxUpsets
  /\ upsets' = upsets + 1
  /\ status' = [status EXCEPT ![n] = "exited"]
  /\ above' = [c \in Nodes |-> IF above[c] = n THEN Nobody ELSE above[c]]
  /\ pings' = [pings EXCEPT ![n] = 0]
  /\ pongs' = [c \in Nodes |-> IF above[c] = n THEN <<>> ELSE pongs[c]]
  /\ UNCHANGED <<heartbeat_time, worker, nodes_ping_map, history>>
  /\ SteadyAfter

\* The end of the chain: the entry of the node is taken out.  Pongs of it that
\* have gone further up are still on their way.
Forget(n) ==
  /\ status[n] = "exited" /\ above[n] = Nobody
  /\ status' = [status EXCEPT ![n] = "absent"]
  /\ nodes_ping_map' = [m \in DOMAIN nodes_ping_map \ {n} |-> nodes_ping_map[m]]
  /\ UNCHANGED <<worker, above, pings, pongs, userVars, history, steady>>

\* A node is created below p: no entry before, and one with 0 after.
Create(n, p) ==
  /\ status[n] = "absent" /\ Reached(p)
  /\ status' = [status EXCEPT ![n] = "run"]
  /\ above' = [above EXCEPT ![n] = p]
  /\ nodes_ping_map' = [m \in DOMAIN nodes_ping_map \cup {n} |->
                          IF m = n THEN 0 ELSE nodes_ping_map[m]]
  /\ reports' = [reports EXCEPT ![n] = 0]
  /\ silent' = [silent EXCEPT ![n] =
                  IF Orderly /\ \E w \in Workers : worker[w] = "wait" THEN -1 ELSE 0]
  /\ UNCHANGED <<worker, pings, pongs, userVars, cut, beside, late>>
  /\ SteadyAfter

WorkerStep(w) == Begin(w) \/ End(w) \/ \E c \in Nodes : Collect(w, c)
NodeStep(n) == Pong(n) \/ \E c \in Nodes : PassPong(n, c)
TreeStep(n) == \/ Crash(n) \/ Detach(n) \/ Exit(n) \/ Forget(n)
               \/ \E p \in Nodes \cup {Control} : Attach(n, p) \/ Create(n, p)

Next == \/ Start \/ Stop
        \/ \E w \in Workers : WorkerStep(w)
        \/ \E n \in Nodes : NodeStep(n) \/ TreeStep(n)

Spec == Init /\ [][Next]_vars

\* Threads and nodes keep running.  Every pass of the waiting loop takes some
\* processor time, which is what a period is measured in, so a period ends.
\* A socket with a pong in it is read by every pass.
FairSpec ==
  /\ Spec
  /\ \A w \in Workers : /\ WF_vars(Begin(w) \/ End(w))
                        /\ \A c \in Nodes : WF_vars(Collect(w, c))
  /\ \A n \in Nodes : /\ WF_vars(Pong(n))
                      /\ \A c \in Nodes : WF_vars(PassPong(n, c))

-----------------------------------------------------------------------------
\* nodes_ping_map has an entry for each node of the tree and for no other, also
\* when a pong comes in after its node has been removed.
HeartbeatTypeOK ==
  /\ heartbeat_time \in {0, 1}
  /\ worker \in [Workers -> {"none", "test", "wait"}]
  /\ nodes_ping_map \in [{n \in Nodes : status[n] # "absent"} -> 0..Many]
  /\ status \in [Nodes -> {"absent", "run", "dead", "exited"}]
  /\ above \in [Nodes -> Nodes \cup {Control, Nobody}]
  /\ pings \in [Nodes -> Nat]
  /\ pongs \in [Nodes -> Seq(Nodes)]
  /\ upsets \in 0..MaxUpsets
  /\ reports \in [Nodes -> 0..2]
  /\ silent \in [Nodes -> -1..Limit]
  /\ {cut, beside, late} \subseteq BOOLEAN
  /\ steady \subseteq Nodes

\* A line about a node is printed only after four whole periods without a
\* signal from it (the help text, control_node.c:24), and once per silence: a
\* node is reported again only after a pong.  So it is as long as the user lets
\* periods run out.
ReportedInTime ==
  [][\A n \in Nodes : Orderly' /\ reports'[n] > reports[n]
        => silent'[n] >= Limit /\ reports[n] = 0]_vars

\* If periods are longer than a round trip and none is ended early, no line
\* is printed about a node that has been reached ever since the last ping went
\* out, even by two workers that read the same sockets and raise the same
\* counters, and while other nodes are moved, removed and created around it.
\* (A node that was detached meanwhile may have missed periods, and be reported.)
LiveNotReported ==
  [][\A n \in Nodes : ~cut' /\ ~late' /\ reports'[n] > reports[n] => n \notin steady]_vars

\* A node that has died is reported in the end, if the heartbeat stays on
\* and there is one worker.
DeadReported ==
  \A n \in Nodes :
    <>[](status[n] = "dead" /\ heartbeat_time > 0 /\ Orderly) => <>(reports[n] > 0)

\* The same whatever the user has done before, as the help text has it:
\* `if there is no signal from the node for 4*TIME milliseconds, then a line
\* about the node's unavailability is displayed' (control_node.c:24).
SilenceReported ==
  \A n \in Nodes :
    <>[](status[n] = "dead" /\ heartbeat_time > 0) => <>(reports[n] > 0)

\* After the last `heartbeat 0' every worker ends.
WorkersEnd == <>[](heartbeat_time = 0) => <>[](\A w \in Workers : worker[w] = "none")
=============================================================================
