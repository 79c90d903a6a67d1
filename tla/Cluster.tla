------------------------------- MODULE Cluster -------------------------------
(***************************************************************************)
(* The distributed system of lab6: the control node (ControlNode), the     *)
(* compute nodes (ComputeNode) and the sockets between them (MqNode).      *)
(***************************************************************************)
EXTENDS ControlNode, FiniteSets

CONSTANTS
  Patience,      \* which answers the user waits for before the next command:
                 \* "none", "topology" (creations and removals) or "all"
  Seed,          \* ids of the compute nodes the cluster starts with
  MaxCommands,   \* bound: commands the user gives
  MaxCrashes,    \* bound: processes that die by themselves
  CrashesMidway, \* may a process die while a command is under way?
  InputEnds      \* may the user close the input (Ctrl-D), waiting as for a command?

ASSUME ClusterAssumption ==
  /\ Patience \in {"none", "topology", "all"}
  /\ Seed \in Seq(Ids) /\ \A j, k \in 1..Len(Seed) : Seed[j] = Seed[k] => j = k
  /\ Len(Seed) <= MaxPid
  /\ MaxCommands \in Nat
  /\ MaxCrashes \in Nat
  /\ {CrashesMidway, InputEnds} \subseteq BOOLEAN

VARIABLES issued,    \* how many commands the user has given
          patient,   \* did the user wait for all answers before each of them?
          crashes    \* how many processes died by themselves

vars == <<linkVars, nodeVars, controlVars, issued, patient, crashes>>

\* A cluster the user has built by creating the ids of Seed, one after the
\* other; with Seed = << >>, the control node alone.
Init ==
  LET t == <<NoId>> \o Seed
      Slot(k) == IF k <= Len(t) THEN [id |-> t[k], pid |-> k - 1] ELSE NoChild
  IN  /\ status = [p \in Procs |-> IF p <= Len(Seed) THEN "run" ELSE "unborn"]
      /\ slots = [p \in AllProcs |->
                    [s \in SlotNames |-> IF s = "left" THEN Slot(2 * p + 2)
                                                       ELSE Slot(2 * p + 3)]]
      /\ peer = [p \in Procs |-> IF p <= Len(Seed) THEN ((p + 1) \div 2) - 1 ELSE NoPeer]
      /\ down = [p \in Procs |-> <<>>]
      /\ up = [p \in Procs |-> <<>>]
      /\ linger = {}
      /\ node = [p \in Procs |-> IF p <= Len(Seed) THEN Seed[p] ELSE NoId]
      /\ dict = [p \in Procs |-> NoValue]
      /\ tree = t
      /\ proc = [id \in AnyId |-> IF TreeHas(Seed, id) THEN TreeIndex(Seed, id) ELSE Control]
      /\ outstanding = {}
      /\ nextUuid = 1
      /\ rmlist = <<>>
      /\ main = MainIdle
      /\ rcv = RcvIdle
      /\ printed = [uuid |-> 0, cmd |-> "exec", id |-> NoId, code |-> "OK", value |-> NoValue]
      /\ issued = 0
      /\ patient = TRUE
      /\ crashes = 0

\* Every creation and removal has been answered.
Settled == /\ main = MainIdle
           /\ rcv = RcvIdle
           /\ rmlist = <<>>
           /\ \A e \in outstanding : e.cmd # "create"

Quiet == Settled /\ outstanding = {}

UserReady == CASE Patience = "none"     -> TRUE
               [] Patience = "topology" -> Settled
               [] Patience = "all"      -> Quiet

User == /\ UserReady /\ issued < MaxCommands
        /\ \E id \in Ids : \/ CmdCreate(id)
                           \/ CmdRemove(id)
                           \/ \E arg \in Values \cup {Get} : CmdExec(id, arg)
        /\ issued' = issued + 1
        /\ patient' = (patient /\ Quiet)
        /\ UNCHANGED crashes

UserEnds == /\ UserReady /\ InputEnds
            /\ EndOfInput
            /\ UNCHANGED <<issued, patient, crashes>>

MainPush == /\ PushCreate \/ PushFirstRemove \/ KillNode \/ WaitNode \/ Exit
            /\ UNCHANGED <<issued, patient, crashes>>

Receiver == ReceiverNext /\ UNCHANGED <<issued, patient, crashes>>

Node(p) == NodeNext(p) /\ UNCHANGED <<controlVars, issued, patient, crashes>>

NodeCrash(p) == /\ crashes < MaxCrashes
                /\ CrashesMidway \/ Quiet
                /\ Crash(p)
                /\ crashes' = crashes + 1
                /\ UNCHANGED <<controlVars, issued, patient>>

Next == \/ User \/ UserEnds
        \/ MainPush
        \/ Receiver
        \/ \E p \in Procs : Node(p) \/ NodeCrash(p)

Spec == Init /\ [][Next]_vars

\* Both threads of the control node and the loop of every node run for ever:
\* each polls all its sockets in every round.  (With the heartbeat on a node
\* without a peer would wait to write its pong.)  The user need not go on.
Fairness ==
  /\ WF_vars(MainPush)
  /\ \A s \in SlotNames : WF_vars(Receive(s) /\ UNCHANGED <<issued, patient, crashes>>)
  /\ WF_vars((PushNextRemove \/ Reap) /\ UNCHANGED <<issued, patient, crashes>>)
  /\ \A p \in Procs :
       /\ WF_vars(TakeMessage(p) /\ UNCHANGED <<controlVars, issued, patient, crashes>>)
       /\ \A s \in SlotNames : WF_vars(PassUp(p, s) /\ UNCHANGED <<controlVars, issued, patient, crashes>>)

FairSpec == Spec /\ Fairness

-----------------------------------------------------------------------------
Cmd == [cmd : Commands, id : AnyId, parent : AnyId, pid : AllProcs]
Rec == [target : AnyId, cmds : Seq(Cmd), now : Nat]

\* Nor does an answer find the list without its removal: the receiver is never
\* "lost" (control_node.c:356-361).
TypeOK ==
  /\ LinkTypeOK(Message, Reply)
  /\ node \in [Procs -> AnyId]
  /\ dict \in [Procs -> Values \cup {NoValue}]
  /\ tree \in Seq(AnyId)
  /\ proc \in [AnyId -> AllProcs]
  /\ outstanding \subseteq [uuid : Nat, cmd : Commands, id : AnyId, count : Nat \ {0}]
  /\ nextUuid \in Nat
  /\ rmlist \in Seq(Rec)
  /\ main \in [at : {"idle", "create", "remove", "kill", "wait", "exit"}, c : Cmd, i : Nat]
  /\ rcv \in [at : {"idle", "push", "wait"}, rec : Rec]
  /\ printed \in Reply
  /\ issued \in 0..MaxCommands
  /\ patient \in BOOLEAN
  /\ crashes \in 0..MaxCrashes

\* Every command of a chain that is awaited, or about to be pushed, belongs to
\* exactly one removal that waits for it, and the other way round, even when
\* removals overlap and rec_remove gives an answer to the wrong one of two
\* that wait for the same command (control_node.c:343-354).
Awaited(cmd, id) ==
  Cardinality({e \in outstanding : e.cmd = cmd /\ e.id = id})
  + (IF main.at = "remove" /\ main.c.cmd = cmd /\ main.c.id = id THEN 1 ELSE 0)
  + (IF rcv.at = "push" /\ Current(rcv.rec).cmd = cmd /\ Current(rcv.rec).id = id THEN 1 ELSE 0)

Waiting(cmd, id) ==
  Cardinality({i \in DOMAIN rmlist : Current(rmlist[i]).cmd = cmd /\ Current(rmlist[i]).id = id})

RecordsMatchAwaited ==
  \A cmd \in ChainCommands, id \in Ids : Awaited(cmd, id) = Waiting(cmd, id)

\* What the receiver waits for, and then removes from the array, is in the
\* array: waitpid(-1) is never called, the array never loses another node.
ReapFindsNode == rcv.at = "wait" => TreeHas(tree, rcv.rec.target)

\* Nodes move while broadcasts are on their way down, and still what waits for
\* a node is in the order of the broadcasts, each once, and older than what
\* waits for the process above it (mq_node.c:83-88).
BroadcastsInOrder ==
  \A p \in Procs :
    /\ \A i, j \in DOMAIN down[p] : i < j => down[p][i].uuid < down[p][j].uuid
    /\ peer[p] \in Procs =>
         \A i \in DOMAIN down[p], j \in DOMAIN down[peer[p]] :
           down[p][i].uuid < down[peer[p]][j].uuid

\* With the heartbeat off no removed process hangs in zmq_ctx_destroy, where
\* waitpid would block the receiver for ever (mq_node.c:122,
\* control_node.c:376).  With the heartbeat on it may: a removed child stays
\* connected until the chain gets to it, and pings are passed on to it.
NoStuckProcess == ~HeartbeatOn => \A p \in Procs : status[p] # "stuck"

\* Once the user has all answers, the processes that run are those of the
\* array, and each is connected to its parent's process.
ProcessesMatchTree ==
  Settled => \A p \in Procs :
    status[p] = "run" <=> /\ node[p] \in Ids
                          /\ TreeHas(tree, node[p])
                          /\ proc[node[p]] = p
                          /\ HasPeer(p)
                          /\ HasChild(peer[p], node[p])

Exited == main.at = "exit"

\* A program whose input has ended after the creations and removals had been
\* answered leaves no process behind, running or hanging (control_node.c:129-132).
NothingLeftRunning ==
  Exited => \A p \in Procs : status[p] \in {"unborn", "reaped"}

\* `exec' on a node of the array is answered by that node: never with "not
\* found", and a value it reports is the one the node holds.
ExecAnswered ==
  [][printed' # printed =>
       LET p == proc[printed'.id]
       IN  /\ TreeHas(tree, printed'.id)
           /\ printed'.code # "NOT_FOUND"
           /\ printed'.value # NoValue => dict[p] = printed'.value]_vars

\* With the heartbeat off every command of a user who waits for each answer is
\* answered in the end, and both threads are idle again, or the program ends,
\* if the input has.
EveryCommandAnswered == ~HeartbeatOn => []<>(patient => Quiet \/ Exited)

\* With the heartbeat off creations and removals come to an end even when
\* values are stored and read meanwhile: chains do not wait for one another,
\* for a detached node that cannot answer, or for a process that does not exit.
RemovalsComplete == ~HeartbeatOn => []<>(Settled \/ Exited)

\* The comment at control_node.c:239 says of the removal of a node that is not
\* the last: "check that the last node is available, then detach it".  So,
\* when its chain has gone past the first command, the last node runs.
LastNodeChecked ==
  \A i \in DOMAIN rmlist :
    rmlist[i].now > 0 /\ Len(rmlist[i].cmds) > 2 => status[rmlist[i].cmds[2].pid] = "run"

-----------------------------------------------------------------------------
(* The abstract system RemoveChain.                                        *)

IdOf(p) == IF p = Control THEN NoId ELSE node[p]

Connections ==
  {<<IdOf(p), slots[p][s].id>> : p \in AllProcs, s \in SlotNames} \ {<<IdOf(p), NoId>> : p \in AllProcs}

IsConnected(id) == \E p \in AllProcs : HasChild(p, id)

\* Has the current command of a removal had its effect, before its answer?
HasEffect(c) ==
  CASE c.cmd = "ping"       -> FALSE
    [] c.cmd = "disconnect" -> ~IsConnected(c.id)
    [] c.cmd = "connect"    -> IsConnected(c.id)
    [] c.cmd = "remove"     -> Gone(proc[c.id])

Stopping == main.at \in {"kill", "wait", "exit"}
Removing == rmlist # <<>> \/ rcv.at = "wait"
Creating == ~Removing /\ ~Stopping /\ Len(tree) > 1 /\ ~IsConnected(TreeLast(tree))

Abstract == INSTANCE RemoveChain WITH
  Trees  <- {<<NoId>> \o Seed},
  edges  <- IF Stopping THEN {} ELSE Connections,
  op     <- IF Stopping THEN "stop" ELSE IF Removing THEN "remove" ELSE IF Creating THEN "create" ELSE "none",
  target <- IF rcv.at = "wait" THEN rcv.rec.target
            ELSE IF Removing THEN rmlist[1].target
            ELSE IF Creating THEN TreeLast(tree) ELSE NoId,
  done   <- IF rcv.at = "wait" THEN rcv.rec.now
            ELSE IF Removing
            THEN rmlist[1].now + (IF HasEffect(Current(rmlist[1])) THEN 1 ELSE 0)
            ELSE 0

\* A user who waits for the answers sees the topology change as in RemoveChain:
\* one creation or chain at a time, each command once and in the order planned.
ImplementsRemoveChain == Abstract!Spec
=============================================================================
