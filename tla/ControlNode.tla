------------------------------ MODULE ControlNode ------------------------------
(***************************************************************************)
(* The control node of lab6 (control_node.c): the main thread, which reads *)
(* commands, and the receiver thread, which takes the answers and drives   *)
(* the chains of removals.  They share the array TREE, the list of         *)
(* removals, the map of awaited answers and the sockets, with no lock; a   *)
(* step of the model is a stretch of one thread between two points where   *)
(* the other may come in.                                                  *)
(***************************************************************************)
EXTENDS ComputeNode

SeqExt == INSTANCE SequencesExt

VARIABLES
  tree,         \* TREE, as ids (module BalancedTree)
  proc,         \* the pid stored in TREE with an id: the last one forked for it
  outstanding,  \* answer_count_map: the uuids whose answers are awaited, with
                \* the count; cmd and id tell what the broadcast was
  nextUuid,     \* stands for uuid_generate_random: all are different
  rmlist,       \* remove_list, newest first
  main,         \* what the main thread is about to push
  rcv,          \* what the receiver thread is about to do
  printed       \* the last answer rec_exec printed

controlVars == <<tree, proc, outstanding, nextUuid, rmlist, main, rcv, printed>>

ChainCommands == {"ping", "remove", "connect", "disconnect"}

\* A command of a chain with the address copied into it when it is planned.
Addressed(c) == [cmd |-> c.cmd, id |-> c.id, parent |-> c.parent, pid |-> proc[c.id]]

NoCommand == [cmd |-> "ping", id |-> NoId, parent |-> NoId, pid |-> Control]

\* A remove_struct: its commands, and how many have been answered.
NoRecord == [target |-> NoId, cmds |-> <<>>, now |-> 0]
Current(rec) == rec.cmds[rec.now + 1]

\* The list of removals (rm_list.c): insertion at its beginning, and removal.

ListInsertFront(l, rec) == <<rec>> \o l

\* Variant: the first record goes, whichever is meant.
ListRemoveFirst(l, i) == Tail(l)

ListRemove(l, i) == SeqExt!RemoveAt(l, i)

\* i counts the elements of TREE in the loop at the end of main.
MainIdle == [at |-> "idle", c |-> NoCommand, i |-> 1]
RcvIdle == [at |-> "idle", rec |-> NoRecord]

\* answer_count_push and mqn_push_all: the awaited answers are recorded before
\* the message leaves.
Broadcast(c, arg) ==
  LET m == [uuid |-> nextUuid, cmd |-> c.cmd, id |-> c.id, parent |-> c.parent,
            pid |-> c.pid, arg |-> arg]
      e == [uuid |-> nextUuid, cmd |-> c.cmd, id |-> c.id, count |-> TreeLeaves(tree)]
  IN  /\ nextUuid' = nextUuid + 1
      /\ outstanding' = outstanding \cup {e}
      /\ down' = Pushed(down, Control, m)

-----------------------------------------------------------------------------
(* The main thread.                                                        *)

\* Fork a process for the id and add it to the array.
CmdCreate(id) ==
  /\ main = MainIdle
  /\ ~TreeHas(tree, id)
  /\ \E p \in Procs :
       /\ status[p] = "unborn"
       /\ \A q \in 1..(p - 1) : status[q] # "unborn"
       /\ status' = [status EXCEPT ![p] = "run"]
       /\ node' = [node EXCEPT ![p] = id]
       /\ proc' = [proc EXCEPT ![id] = p]
       /\ main' = [MainIdle EXCEPT !.at = "create",
                                  !.c = [cmd |-> "create", id |-> id,
                                         parent |-> NoId, pid |-> p]]
  /\ tree' = TreeAdd(tree, id)
  /\ UNCHANGED <<slots, peer, down, up, linger, dict, outstanding, nextUuid,
                 rmlist, rcv, printed>>

\* push_create: the parent is read from the array as it is now.
PushCreate ==
  LET parent == TreeLastParent(tree)
  IN  /\ main.at = "create"
      /\ main' = MainIdle
      /\ \/ /\ parent = NoId
            /\ Rewire([slots EXCEPT ![Control] =
                         Connected(@, [id |-> main.c.id, pid |-> main.c.pid])], up)
            /\ UNCHANGED <<down, outstanding, nextUuid>>
         \/ /\ parent # NoId
            /\ Broadcast([main.c EXCEPT !.parent = parent], NoValue)
            /\ UNCHANGED <<slots, peer, up>>
      /\ UNCHANGED <<status, linger, nodeVars, tree, proc, rmlist, rcv, printed>>

\* Plan the chain of the removal, and put it in front of the list.
CmdRemove(id) ==
  LET commands == RemoveCommands(tree, id)
      rec == [target |-> id,
              cmds   |-> [k \in 1..Len(commands) |-> Addressed(commands[k])],
              now    |-> 0]
  IN  /\ main = MainIdle
      /\ TreeHas(tree, id)
      /\ rmlist' = ListInsertFront(rmlist, rec)
      /\ main' = [MainIdle EXCEPT !.at = "remove", !.c = Current(rec)]
      /\ UNCHANGED <<linkVars, nodeVars, tree, proc, outstanding, nextUuid, rcv, printed>>

\* push_next_remove called by cmd_remove, on its own copy of the record: the
\* first command of a chain always goes to the nodes.
PushFirstRemove ==
  /\ main.at = "remove"
  /\ main' = MainIdle
  /\ Broadcast(main.c, NoValue)
  /\ UNCHANGED <<status, slots, peer, up, linger, nodeVars, tree, proc, rmlist,
                 rcv, printed>>

CmdExec(id, arg) ==
  /\ main = MainIdle
  /\ TreeHas(tree, id)
  /\ Broadcast([cmd |-> "exec", id |-> id, parent |-> NoId, pid |-> Control], arg)
  /\ UNCHANGED <<status, slots, peer, up, linger, nodeVars, tree, proc, rmlist,
                 main, rcv, printed>>

\* The end of the input: the loop over the array begins.
EndOfInput ==
  /\ main = MainIdle
  /\ main' = [MainIdle EXCEPT !.at = "kill"]
  /\ UNCHANGED <<linkVars, nodeVars, tree, proc, outstanding, nextUuid, rmlist,
                 rcv, printed>>

\* The process of an element, as the array is now.
ProcessAt(i) == proc[tree[i + 1]]

\* Variant: the last element is left alone.
MoreToKillButLast == main.i < Len(tree) - 1

\* The condition of the loop.
MoreToKill == main.i < Len(tree)

\* kill and SIGKILL end a process even when it hangs, and do nothing to one
\* that has ended.
KillNode ==
  LET p == ProcessAt(main.i)
  IN  /\ main.at = "kill" /\ MoreToKill
      /\ main' = [main EXCEPT !.at = "wait", !.c.pid = p]
      /\ \/ /\ status[p] = "run"
            /\ Crash(p)
         \/ /\ status[p] # "run"
            /\ status' = [status EXCEPT ![p] = IF @ = "stuck" THEN "zombie" ELSE @]
            /\ UNCHANGED <<slots, peer, down, up, linger, nodeVars>>
      /\ UNCHANGED <<tree, proc, outstanding, nextUuid, rmlist, rcv, printed>>

\* waitpid: the element is read again.  If the receiver has made the array too
\* short for it, the memory behind it still has the element as it was.
WaitNode ==
  LET p == IF main.i < Len(tree) THEN ProcessAt(main.i) ELSE main.c.pid
  IN  /\ main.at = "wait"
      /\ status[p] \in {"zombie", "reaped"}
      /\ status' = [status EXCEPT ![p] = "reaped"]
      /\ main' = [main EXCEPT !.at = "kill", !.i = @ + 1]
      /\ UNCHANGED <<slots, peer, down, up, linger, nodeVars, tree, proc, outstanding,
                     nextUuid, rmlist, rcv, printed>>

\* main returns, and the receiver thread ends with it.
Exit ==
  /\ main.at = "kill" /\ ~MoreToKill
  /\ main' = [main EXCEPT !.at = "exit"]
  /\ UNCHANGED <<linkVars, nodeVars, tree, proc, outstanding, nextUuid, rmlist,
                 rcv, printed>>

-----------------------------------------------------------------------------
(* The receiver thread.                                                    *)

\* rec_remove: the answer is for the first removal of the list that waits for
\* this command and id.  With none, the code goes on with the list's barrier
\* and whatever record it saw last, and the model with "lost".
RecRemove(cmd, id, ok) ==
  LET waiting == {i \in DOMAIN rmlist : Current(rmlist[i]).cmd = cmd
                                        /\ Current(rmlist[i]).id = id}
      first == CHOOSE i \in waiting : \A j \in waiting : i <= j
      rec == [rmlist[first] EXCEPT !.now = @ + 1]
  IN  \/ /\ waiting = {}
         /\ rcv' = [RcvIdle EXCEPT !.at = "lost"]
         /\ UNCHANGED rmlist
      \/ /\ waiting # {} /\ ~ok
         /\ rmlist' = ListRemove(rmlist, first)
         /\ rcv' = RcvIdle
      \/ /\ waiting # {} /\ ok /\ rec.now < Len(rec.cmds)
         /\ rmlist' = [rmlist EXCEPT ![first] = rec]
         /\ rcv' = [at |-> "push", rec |-> rec]
      \/ /\ waiting # {} /\ ok /\ rec.now >= Len(rec.cmds)
         /\ rmlist' = ListRemove(rmlist, first)
         /\ rcv' = [at |-> "wait", rec |-> rec]

\* Variant: one "not found" more than there are leaves is waited for.
IsFinalLate(r, e) == r.code # "NOT_FOUND" \/ e.count = 0

\* "Not found" is final when it is the last answer awaited.
IsFinal(r, e) == r.code # "NOT_FOUND" \/ e.count = 1

\* receive_process, for the next answer from one of the control's sockets.
Receive(s) ==
  LET c == slots[Control][s].pid
      r == Head(up[c])
  IN  /\ rcv = RcvIdle /\ main.at # "exit"
      /\ c # Control
      /\ peer[c] = Control
      /\ up[c] # <<>>
      /\ up' = [up EXCEPT ![c] = Tail(@)]
      /\ \/ /\ \A e \in outstanding : e.uuid # r.uuid
            /\ UNCHANGED <<outstanding, rmlist, rcv, printed>>
         \/ \E e \in outstanding :
              LET final == IsFinal(r, e)
              IN  /\ e.uuid = r.uuid
                  /\ outstanding' = IF final
                                    THEN outstanding \ {e}
                                    ELSE (outstanding \ {e}) \cup {[e EXCEPT !.count = @ - 1]}
                  /\ printed' = IF r.cmd = "exec" /\ final THEN r ELSE printed
                  /\ IF r.cmd \in ChainCommands /\ final
                     THEN RecRemove(r.cmd, r.id, r.code = "OK")
                     ELSE UNCHANGED <<rmlist, rcv>>
      /\ UNCHANGED <<status, slots, peer, down, linger, nodeVars, tree, proc,
                     nextUuid, main>>

\* push_next_remove called by rec_remove: a command for the control node's own
\* sockets is done and answered at once, any other is broadcast.
PushNextRemove ==
  LET c == Current(rcv.rec)
      own == \/ c.cmd = "disconnect" /\ HasChild(Control, c.id)
             \/ c.cmd = "connect" /\ c.parent = NoId
  IN  /\ rcv.at = "push" /\ main.at # "exit"
      /\ \/ /\ c.cmd = "disconnect" /\ own
            /\ Rewire([slots EXCEPT ![Control] = Closed(@, c.id)], up)
            /\ linger' \in LingersAfterClose(Control, {slots[Control][SlotToClose(slots[Control], c.id)].pid})
            /\ RecRemove(c.cmd, c.id, TRUE)
            /\ UNCHANGED <<down, outstanding, nextUuid>>
         \/ /\ c.cmd = "connect" /\ own
            /\ Rewire([slots EXCEPT ![Control] = Connected(@, [id |-> c.id, pid |-> c.pid])], up)
            /\ RecRemove(c.cmd, c.id, TRUE)
            /\ UNCHANGED <<down, outstanding, nextUuid, linger>>
         \/ /\ ~own
            /\ Broadcast(c, NoValue)
            /\ rcv' = RcvIdle
            /\ UNCHANGED <<slots, peer, up, rmlist, linger>>
      /\ UNCHANGED <<status, nodeVars, tree, proc, main, printed>>

\* The end of rec_remove: waitpid on the pid found for the id, then the array.
Reap ==
  LET p == proc[rcv.rec.target]
  IN  /\ rcv.at = "wait" /\ main.at # "exit"
      /\ TreeHas(tree, rcv.rec.target)
      /\ status[p] \in {"zombie", "reaped"}
      /\ status' = [status EXCEPT ![p] = "reaped"]
      /\ tree' = TreeRemove(tree, rcv.rec.target)
      /\ rcv' = RcvIdle
      /\ UNCHANGED <<slots, peer, down, up, linger, nodeVars, proc, outstanding,
                     nextUuid, rmlist, main, printed>>

ReceiverNext == \/ \E s \in SlotNames : Receive(s)
                \/ PushNextRemove
                \/ Reap
=============================================================================
