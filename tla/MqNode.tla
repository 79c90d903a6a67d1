-------------------------------- MODULE MqNode --------------------------------
(***************************************************************************)
(* The sockets between the processes of lab6 (structures/mq_node.c).       *)
(*                                                                         *)
(* Every process owns a bound ZMQ_PAIR socket for its parent and up to two *)
(* connected ones for its children.  A PAIR socket has one peer: a second  *)
(* connection to the same bound socket waits until the first one is gone.  *)
(* libzmq itself is modelled by what the code relies on:                   *)
(*   - messages of one connection are delivered once and in order;         *)
(*   - what a parent wrote before it closed its socket still arrives, what *)
(*     it did not read yet is dropped;                                     *)
(*   - writing to a child never blocks, even if the child is gone, but     *)
(*     writing to the parent blocks while there is no peer;                *)
(*   - zmq_ctx_destroy does not return while a closed socket holds         *)
(*     messages that can no longer be delivered.                           *)
(* An address is the number of the process bound to it.                    *)
(*                                                                         *)
(* A ping socket goes with each of these sockets, and is opened, closed    *)
(* and destroyed with it.  What goes through them is in module Heartbeat;  *)
(* here it matters only for zmq_ctx_destroy: while the heartbeat is on,    *)
(* pings may have been passed on to a child that is gone                   *)
(* (compute_node.c:80-81).  A node that the heartbeat blocks, because it   *)
(* has no peer to write a pong to, takes no step meanwhile, which is a     *)
(* behaviour of the model.                                                 *)
(***************************************************************************)
EXTENDS BalancedTree

CONSTANTS
  MaxPid,       \* bound: how many compute processes may ever be forked
  HeartbeatOn   \* may the user have turned the heartbeat on?

ASSUME MaxPidAssumption == MaxPid \in Nat
ASSUME HeartbeatOnAssumption == HeartbeatOn \in BOOLEAN

Control == 0                       \* the control process
Procs == 1..MaxPid                 \* compute processes, in the order of fork
AllProcs == Procs \cup {Control}
NoPeer == MaxPid + 1
SlotNames == {"left", "right"}
NoChild == [id |-> NoId, pid |-> Control]    \* an empty child slot: NULL, -1

VARIABLES
  status,   \* of a compute process: "unborn", "run", "stuck" in
            \* zmq_ctx_destroy, "zombie", "reaped"
  slots,    \* the child slots of a process: ids and addresses
  peer,     \* whose connection the bound socket of a process has accepted
  down,     \* messages on their way from the peer to a process
  up,       \* answers on their way from a process to its peer
  linger    \* processes with undeliverable messages in a closed socket

linkVars == <<status, slots, peer, down, up, linger>>

ChildPids(p) == {slots[p][s].pid : s \in SlotNames} \ {Control}

HasChild(p, id) == \E s \in SlotNames : slots[p][s].id = id

HasPeer(p) == peer[p] # NoPeer

Gone(p) == status[p] \in {"stuck", "zombie", "reaped"}

\* Variant: the left slot is taken whether it is free or not.
ConnectedLeft(pair, child) == [pair EXCEPT !["left"] = child]

\* mqn_connect: the left slot if it is free, else the right one, else nothing.
Connected(pair, child) ==
  IF pair["left"].id = NoId THEN [pair EXCEPT !["left"] = child]
  ELSE IF pair["right"].id = NoId THEN [pair EXCEPT !["right"] = child]
  ELSE pair

\* Variant: both branches of mqn_close clear the left slot.
SlotToCloseLeft(pair, id) == "left"

\* mqn_close: the left slot if it holds the id, else the right one.
SlotToClose(pair, id) == IF pair["left"].id = id THEN "left" ELSE "right"

Closed(pair, id) == [pair EXCEPT ![SlotToClose(pair, id)] = NoChild]

\* What linger may be once p has closed its sockets of the children pids:
\* what was written to a child that is gone stays undeliverable, in the main
\* socket what is on its way, in the ping socket a ping or none.
LingersAfterClose(p, pids) ==
  LET gone == {c \in pids \ {Control} : Gone(c)}
  IN  IF \E c \in gone : peer[c] = p /\ down[c] # <<>> THEN {linger \cup {p}}
      ELSE IF HeartbeatOn /\ gone # {} THEN {linger, linger \cup {p}}
      ELSE {linger}

\* Variant: the message goes to the left child only.
PushedLeft(q, p, m) ==
  [c \in Procs |-> IF c = slots[p]["left"].pid /\ peer[c] = p THEN Append(q[c], m) ELSE q[c]]

\* mqn_push_all by p, on the queues q: only the accepted peer gets through.
Pushed(q, p, m) ==
  [c \in Procs |-> IF c \in ChildPids(p) /\ peer[c] = p THEN Append(q[c], m) ELSE q[c]]

\* The accepted peers once the slots are sl: a connection that waited takes
\* over when the accepted one is closed.
PeersOf(sl) ==
  [c \in Procs |->
     LET claims == {q \in AllProcs : \E s \in SlotNames : sl[q][s].pid = c}
     IN  IF peer[c] \in claims THEN peer[c]
         ELSE IF claims = {} THEN NoPeer
         ELSE CHOOSE q \in claims : TRUE]

\* The slots change to sl; answers the old peer has not read are dropped.
\* queue is what the answers would be if no peer changed.
Rewire(sl, queue) ==
  /\ slots' = sl
  /\ peer' = PeersOf(sl)
  /\ up' = [c \in Procs |-> IF PeersOf(sl)[c] = peer[c] THEN queue[c] ELSE <<>>]

-----------------------------------------------------------------------------
LinkTypeOK(Message, Reply) ==
  /\ status \in [Procs -> {"unborn", "run", "stuck", "zombie", "reaped"}]
  /\ slots \in [AllProcs -> [SlotNames -> [id : AnyId, pid : AllProcs]]]
  /\ peer \in [Procs -> AllProcs \cup {NoPeer}]
  /\ down \in [Procs -> Seq(Message)]
  /\ up \in [Procs -> Seq(Reply)]
  /\ linger \subseteq AllProcs
=============================================================================
