------------------------------ MODULE ComputeNode ------------------------------
(***************************************************************************)
(* A compute node of lab6 (compute_node.c): a process of the tree that     *)
(* answers the commands meant for it, passes the others to its children    *)
(* and passes the children's answers to its parent.  One action per        *)
(* command handler; the process p is a parameter.                          *)
(*                                                                         *)
(* A node stores values by name.  Names do not interact, so one name is    *)
(* enough: dict[p] is the value stored under it.                           *)
(***************************************************************************)
EXTENDS MqNode

CONSTANTS Values,     \* values `exec' stores
          NoValue,    \* nothing stored, or no value in an answer
          Get         \* the argument of an `exec' that reads

ASSUME ValuesAssumption == NoValue \notin Values /\ Get \notin Values

VARIABLES
  node,     \* NODE_ID of a process, NoId before its fork
  dict      \* CHI_MAP

nodeVars == <<node, dict>>

Commands == {"create", "ping", "remove", "connect", "disconnect", "exec"}
Codes == {"OK", "NOT_FOUND", "CUSTOM"}

\* pid is the address that goes with a "create" or a "connect", arg what an
\* "exec" carries.
Message == [uuid : Nat, cmd : Commands, id : AnyId, parent : AnyId,
            pid : AllProcs, arg : Values \cup {NoValue, Get}]

Reply == [uuid : Nat, cmd : Commands, id : AnyId, code : Codes,
          value : Values \cup {NoValue}]

Answer(m, code, value) ==
  [uuid |-> m.uuid, cmd |-> m.cmd, id |-> m.id, code |-> code, value |-> value]

\* The next message of p, and its queue without it.
Taking(p) == status[p] = "run" /\ down[p] # <<>>
Taken(p) == Head(down[p])

\* Variant: the message stays in the queue.
RestKept(p) == down

Rest(p) == [down EXCEPT ![p] = Tail(@)]

\* mqn_reply waits for a peer.
Answered(p, code, value) == [up EXCEPT ![p] = Append(@, Answer(Taken(p), code, value))]

IsFor(p, m) ==
  CASE m.cmd \in {"connect", "create"} -> node[p] \in {m.id, m.parent}
    [] m.cmd = "disconnect"            -> HasChild(p, m.id)
    [] OTHER                           -> node[p] = m.id

\* push_next, the last branch of every handler.
PushNext(p) ==
  /\ Taking(p)
  /\ ~IsFor(p, Taken(p))
  /\ \/ /\ ChildPids(p) # {}
        /\ down' = Pushed(Rest(p), p, Taken(p))
        /\ UNCHANGED up
     \/ /\ ChildPids(p) = {}
        /\ HasPeer(p)
        /\ down' = Rest(p)
        /\ up' = Answered(p, "NOT_FOUND", NoValue)
  /\ UNCHANGED <<status, slots, peer, linger, node, dict>>

Ping(p) ==
  /\ Taking(p)
  /\ Taken(p).cmd = "ping"
  /\ IsFor(p, Taken(p))
  /\ HasPeer(p)
  /\ down' = Rest(p)
  /\ up' = Answered(p, "OK", NoValue)
  /\ UNCHANGED <<status, slots, peer, linger, node, dict>>

\* A name that has a value keeps it: hashmap_put does not replace.
Exec(p) ==
  LET m == Taken(p)
  IN  /\ Taking(p)
      /\ m.cmd = "exec"
      /\ IsFor(p, m)
      /\ HasPeer(p)
      /\ down' = Rest(p)
      /\ \/ m.arg = Get /\ dict[p] = NoValue /\ up' = Answered(p, "CUSTOM", NoValue)
         \/ m.arg = Get /\ dict[p] # NoValue /\ up' = Answered(p, "OK", dict[p])
         \/ m.arg # Get /\ dict[p] # NoValue /\ up' = Answered(p, "CUSTOM", NoValue)
         \/ m.arg # Get /\ dict[p] = NoValue /\ up' = Answered(p, "OK", NoValue)
      /\ dict' = [dict EXCEPT ![p] = IF m.arg # Get /\ @ = NoValue THEN m.arg ELSE @]
      /\ UNCHANGED <<status, slots, peer, linger, node>>

\* The parent of the new connection makes it and answers; the node that is
\* to be connected drops the message without an answer.
Connect(p) ==
  LET m == Taken(p)
  IN  /\ Taking(p)
      /\ m.cmd \in {"connect", "create"}
      /\ IsFor(p, m)
      /\ down' = Rest(p)
      /\ IF m.parent = node[p]
         THEN /\ HasPeer(p)
              /\ Rewire([slots EXCEPT ![p] = Connected(@, [id |-> m.id, pid |-> m.pid])],
                        Answered(p, "OK", NoValue))
         ELSE UNCHANGED <<slots, peer, up>>
      /\ UNCHANGED <<status, linger, node, dict>>

Disconnect(p) ==
  LET m == Taken(p)
  IN  /\ Taking(p)
      /\ m.cmd = "disconnect"
      /\ IsFor(p, m)
      /\ HasPeer(p)
      /\ down' = Rest(p)
      /\ Rewire([slots EXCEPT ![p] = Closed(@, m.id)], Answered(p, "OK", NoValue))
      /\ linger' \in LingersAfterClose(p, {slots[p][SlotToClose(slots[p], m.id)].pid})
      /\ UNCHANGED <<status, node, dict>>

\* The node answers, closes its sockets and exits, unless some socket of it
\* holds messages for a child that is gone.
Remove(p) ==
  /\ Taking(p)
  /\ Taken(p).cmd = "remove"
  /\ IsFor(p, Taken(p))
  /\ HasPeer(p)
  /\ down' = [down EXCEPT ![p] = <<>>]
  /\ Rewire([slots EXCEPT ![p] = [s \in SlotNames |-> NoChild]],
            Answered(p, "OK", NoValue))
  /\ linger' \in LingersAfterClose(p, ChildPids(p))
  /\ status' = [status EXCEPT ![p] = IF p \in linger' THEN "stuck" ELSE "zombie"]
  /\ UNCHANGED nodeVars

\* Variant: only the left child's socket is read.
PassUpLeft(p, s) ==
  LET c == slots[p]["left"].pid
  IN  /\ status[p] = "run" /\ s = "left"
      /\ c # Control
      /\ peer[c] = p
      /\ up[c] # <<>>
      /\ HasPeer(p)
      /\ up' = [[up EXCEPT ![c] = Tail(@)] EXCEPT ![p] = Append(@, Head(up[c]))]
      /\ UNCHANGED <<status, slots, peer, down, linger, node, dict>>

\* An answer of a child is passed on.
PassUp(p, s) ==
  LET c == slots[p][s].pid
  IN  /\ status[p] = "run"
      /\ c # Control
      /\ peer[c] = p
      /\ up[c] # <<>>
      /\ HasPeer(p)
      /\ up' = [[up EXCEPT ![c] = Tail(@)] EXCEPT ![p] = Append(@, Head(up[c]))]
      /\ UNCHANGED <<status, slots, peer, down, linger, node, dict>>

\* External: the process dies; answers it has not sent yet may be lost.
Crash(p) ==
  /\ status[p] = "run"
  /\ status' = [status EXCEPT ![p] = "zombie"]
  /\ down' = [down EXCEPT ![p] = <<>>]
  /\ \E n \in 0..Len(up[p]) :
       Rewire([slots EXCEPT ![p] = [s \in SlotNames |-> NoChild]],
              [up EXCEPT ![p] = SubSeq(@, 1, n)])
  /\ UNCHANGED <<linger, node, dict>>

TakeMessage(p) == \/ PushNext(p) \/ Ping(p) \/ Exec(p)
                  \/ Connect(p) \/ Disconnect(p) \/ Remove(p)

NodeNext(p) == TakeMessage(p) \/ \E s \in SlotNames : PassUp(p, s)
=============================================================================
