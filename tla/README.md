# Verification of MAI-OS

The repository holds the laboratory works and the course project of an
operating systems course: six independent groups of C and C++ programs. This
directory holds TLA+ models of all of them, what TLC checks of these models, and
proofs about nine of their components. The largest are the two distributed systems: `src/lab6`, a
tree of compute processes over ZeroMQ, and `src/KP`, a messenger over named
pipes.

Contents: inventory · lab6 · KP · lab2 to lab5 · runs · preconditions ·
fairness · proofs · findings · what is not modelled · plan.

## 1. Inventory

### lab6: a tree of compute processes

| Part | State | Operations | Correct means |
|---|---|---|---|
| Control node, main thread (`control_node.c`) | reads commands; shares `TREE`, `remove_list`, `answer_count_map`, the sockets | `cmd_create` (fork, array, connect), `cmd_remove` (plans a chain of commands), `cmd_exec`, `cmd_heartbeat`, the kills at the end of the input | every command is answered; when all answers are there, the processes are connected as the array says; none is left at the end |
| Control node, receiver thread | the same, no lock | `receive_process`, `rec_create`, `rec_remove` (next command of a chain), `rec_exec`, waitpid and `btree_remove` | an answer belongs to the removal that waits for it; the array loses the removed node and no other |
| Control node, heartbeat threads | `heartbeat_time`, `nodes_ping_map` | `heartbeat_worker`, `receive_pong_from_socket` | a dead node is reported, a live one is not, and a worker ends |
| Compute node (`compute_node.c`) | id, two child sockets, a map of values | connect, disconnect, remove, exec, ping; passes commands down and answers up | acts on the commands meant for it, passes on each other one exactly once |
| Sockets (`structures/mq_node.c`) | parent socket, two child slots | connect, close, destroy, push, push_all, reply, receive | no child is lost silently; exit does not hang |
| Array of nodes (`structures/balanced_tree.c`) | ids and pids, in the order of a binary heap | add, find, last, parent, left, right, remove | ids are unique; the last element takes the place of the removed one |
| List of removals (`structures/rm_list.c`) | xor-linked ring with a barrier | begin, end, next, insert, remove, get, set | a sequence; an iterator comes to the end |

The parts interact by broadcasts: the control node sends each command, with a
fresh uuid, to all its children; a node that is not meant passes it on, or
answers "not found" if it is a leaf. So one command has as many answers as the
tree has leaves, at most one of them not "not found". A removal is a *chain* of up to seven
such commands, sent one by one as the answers come. What is hard: two threads without locks;
nodes that are moved while broadcasts are on their way; removals that overlap;
counts of answers computed from the array while the processes are connected
differently; processes that die; `zmq_ctx_destroy`, which may block.

### KP: a messenger

| Part | State | Operations | Correct means |
|---|---|---|---|
| Server (`server/server.cpp`) | users and their flag `authorized`, group chats with members, private chats, counter of messages | login, logout, private, create, join, push_msg, get_msg, chats | chats and members agree; a message goes where its author meant it to |
| Client (`client/client.cpp`, `messenger.cpp`) | state (not logged in, menu, group chat, private chat), login, open chat, last message id | commands of the user, F2, F12, choice of a chat; an updater thread that polls; a receiver thread | the screen shows the chat without gaps; the program can be left |
| Named pipes (`structs/fifo_pipe.cpp`) | a FIFO opened anew for every message | `put_message`, `get_message` | no message twice or out of order; nobody waits for ever in `open` |
| Text interface (`tui/*.cpp`) | windows, text, list of chats with a mark | keys, updates of the list, redrawing | the mark stays in the list and on its chat; the screen shows what the server has answered |
| Parsing (`funcs/string_parser.cpp`) | none | split at separators | - |

All requests go through one pipe; each client has one for its answers. The
server has one thread, which *waits in open* until the client takes the answer.
What is hard: three threads of a client share its state; answers that come
after the user has gone elsewhere; messages lost by the pipe; a client that
leaves while the server answers it.

### lab2 to lab5

| Part | State | Operations | Correct means |
|---|---|---|---|
| lab2, parent and child (`main.c`, `child.c`) | two bounded pipes, the line in hand | send a line, poll an error, close; read, write to the file or answer an error | valid lines reach the file in order; the two never wait for each other |
| lab3, average of 128-bit numbers (`main.c`) | one file position behind a mutex, the mean so far behind another | create and join threads; lock, `fread`, unlock, count | each number counts once; the memory asked for is kept |
| lab3, conversions (`string_utils.c`, `generate_hex128.c`) | a file of numbers | write, read back | what is read is what was written |
| lab4, parent and child (`main.c`, `child.c`) | two mapped files, signals, mutexes copied by value | copy a chunk, kill, wait; a handler that reads | lines typed one by one arrive; the end of the input does always |
| lab5, two gcd and pi libraries (`prog2.c`, `lib1.c`, `lib2.c`) | the loaded library | change, call | both give the same result |
| error printing of lab4, lab6 | none | print | - |

`PROJECT.json` has the hazards, each at its line, and the properties for them.

## 2. lab6: modules

```
BalancedTree <-- RemoveChain              (TreeProofs <- RemoveChainProofs)
     ^               ^ implements
   MqNode <- ComputeNode <- ControlNode <- Cluster <- MCCluster
        (TreeProofs <- ClusterProofs <- TopologyNodeProofs <- TopologyProofs)
XorList  -- implements -->  RecordList     (PartsProofs)
Heartbeat <- MCHeartbeat                   (HeartbeatProofs)
```

* **BalancedTree** - the array as a sequence of ids, `NoId` for the control node
  at place 1 (array index 0); `TreeRemove`, `TreeParent` ... are the functions of
  `balanced_tree.c`, `RemoveCommands` the chain `cmd_remove` computes: a prefix
  (`NumberCommands`) of a fixed array of seven.
* **RemoveChain** - the abstract system, with no message and no thread: one
  creation or removal at a time, each command of the chain one step on the set
  of connections `edges`; `Stop` is the end of the control node, with all
  processes. `Trees` are the arrays it may start with.
* **MqNode** - slots, accepted peer, the queues `down` and `up` of each
  connection. libzmq is modelled from its use: order and no duplicates on a
  connection; one accepted peer per bound PAIR socket, a second one waits; what
  a parent wrote before closing arrives, what it did not read is dropped; a send
  to the parent blocks without a peer; messages to a process that is gone keep
  `zmq_ctx_destroy` from returning. A ping socket goes with each of these sockets and is opened, closed and destroyed
  with it. What goes through it is in Heartbeat; here it matters for `zmq_ctx_destroy` only: if the user may have turned the
  heartbeat on (`HeartbeatOn`), pings may have been passed on to a child that is gone, so a process that
  closes the socket of such a child may linger or not (`LingersAfterClose`).
* **ComputeNode** - one action per handler of `compute_node.c`, `PushNext` for
  the last branch they share, `PassUp` for answers of children, `Crash` for a
  process killed from outside.
* **ControlNode** - both threads. `main` and `rcv` hold what a thread is about to
  do at the points where the other may come in: between the fork and the
  push of a creation, between the plan of a removal and its first command,
  between an answer and the next command, before and after `waitpid`, and at
  the end of the input between a kill, its `waitpid` and the next element of the
  array (`KillNode`, `WaitNode`, `Exit`).
* **Cluster** - the composition, user, crashes, fairness and properties.
  `Patience` says which answers the user waits for; `Seed` the nodes a run
  starts with, as creations leave them; `patient` records whether the user has
  waited for everything so far.
* **XorList**, **RecordList** - the xor-linked list and the sequence with an iterator it
  implements. Xor is the symmetric difference of sets of addresses, so a
  word serves as an address only if all others have cancelled. `ControlNode`
  uses a sequence for the list, which is what this refinement justifies.
* **Heartbeat** - `cmd_heartbeat`, any number of worker threads, and the second
  pair of sockets of every node. A period is measured by `clock()`, which counts
  processor time, so it may end at any point. The tree changes meanwhile (`above`): a node, with what is below it,
  is detached (`Detach`: the pongs not yet read are dropped) and connected elsewhere (`Attach`), exits (`Exit`), is taken out of the
  map (`Forget`) or is created (`Create`). Which chain has them in which order is the business of RemoveChain and Cluster; here
  they come in any order, so that of `cmd_remove` is one of them. `MaxUpsets` bounds what disturbs the
  heartbeat. History: `reports` and `silent`, lines printed about a node and whole periods without a pong of it;
  `cut`, `beside` and `late`, whether the user has stopped a worker in the middle of a period or started one beside
  another, and whether a period has ended before its pongs were in; `steady`, the nodes that have been reached at every moment
  since the last ping went out.

State and code: `tree`/`TREE`, `outstanding`/`answer_count_map` (with the command
the broadcast carried), `rmlist`/`remove_list`, `slots`, `peer`/`mq_node`,
`dict`/`CHI_MAP`, `status`/what `waitpid` sees. One name of the map of values is
enough because names do not interact. `hashmap_put` of the code does not replace a value;
the model follows it.

## 3. KP: modules

```
FifoPipe -- implements --> LossyPipe                   (PartsProofs)
ChatServer <- ChatClient <- Messenger <- MCMessenger   (MessengerProofs)
ChatList                                               (PartsProofs)
```

* **FifoPipe** - `put_message` and `get_message` in three steps each: open,
  transfer, close. The kernel: an open waits for the other side, a read for data
  or for the last writer to close, a write without a reader is lost (SIGPIPE
  is ignored and the stream not looked at), and when everybody has closed the
  pipe the contents are gone. The reader's stream takes all there is and the
  program uses the first line only.
* **LossyPipe** - what that amounts to: messages of a writer in order, at most
  once each, some lost.
* **ChatServer** - one operator per request. A message is its id, author, and,
  for the text, the chat it was written in. `pending` is the answer the server
  waits to get rid of.
* **ChatClient** - a record per client: the client object, the requests its input
  thread and its updater wait to put, and what is on the screen. A request is
  made up in one step (`Ask`, `UpdateChat`) and gets into the pipe in another
  (`Send`), so the receiver may change the state between them.
* **Messenger** - pipes as sequences that may lose messages (`Lossy`), a put
  possible only while the server is between two requests. Several requests of
  one client in the pipe at once are rarer in the code than in the model, so
  the model allows more.
* **ChatList** - `cmd_chats`, which sorts the chats by their last message, and the list on
  the screen, which the receiver replaces in `update_chats` while the input
  thread moves a mark over it. The list is left alone when its first row has
  not changed. An update has a beginning and an end; a key whose handler uses the
  list between them is a data race, `undefined`, and the model stops there. There is one client, whose users log in and
  out in turn. Requests (`asked`) and answers (`coming`) are delayed or lost, so an answer may come for a user who has gone. A logout
  clears the list (`LogoutClear`) before its request is put (`LogoutPut`), and an answer in between fills it again. It
  does not clear the screen: what is in the window (`InWindow`) comes to the screen when the user goes to it.

Not in the model of KP: the list of all messages (written, never read), length limits,
the text of errors, and the mode and login being read in several steps of
`update_chat` and `cmd_push`. In Messenger `cmd_chats` is a query; `Listed` is what
its answer lets the user choose.

## 4. lab2 to lab5: modules

* **LinePipes** (lab2) - both processes and both pipes with their bounds; a line
  is a sequence of characters, of which only a capital letter and the newline
  matter. `Poll` is the read with a timeout of one millisecond: it takes an
  error line that is there, or any time finds none.
* **Averaging** (lab3) - `main` and its threads, the mutex around `fread` and the
  file position, creation of a thread that fails. A number is known by where it
  begins; `counted` says how often each has gone into the mean.
* **HexNumbers** (lab3) - the conversions both ways, digit by digit, between the
  program that writes a file and the one that reads it. The 128 bits are `Power[Digits]`,
  as many powers of 16 as a number has digits; what a shift drops is a remainder.
* **SharedChunks** (lab4) - the mapped file cell by cell, written by the parent and
  read in the child's signal handler; one pending signal at most in each direction; a signal before the
  handler is set kills the child; the structure with the mutexes
  (`StructureSize` cells) lies where the first line is written, and a byte of it
  may be zero or not.
* **Subsequences** - `Among`, what is left of a sequence of lines when only some
  count; LinePipes and SharedChunks state their properties with it.
* **SwitchedGcd** (lab5) - both loops round by round, an `int` of limited width,
  and the change of the library between two calls.
* **MCParts** - the parts that do not depend on one another, in one run: XorList,
  FifoPipe, LinePipes, SharedChunks, Averaging, HexNumbers, SwitchedGcd, ChatList.
  `program` picks the part a behaviour is about; the others stay as they begin,
  so the states add up and do not multiply, and every part's properties are
  about the behaviours of its own specification.

## 5. Runs

| Run | Question | Bounds |
|---|---|---|
| `remove_chain` | Does every planned chain end with the connections of the array, without a connect at a full node? | six ids: arrays up to seven elements, three levels, so that the removed node has 0, 1 or 2 children and the last node is its child, its sibling, itself or none of these |
| `cluster_moves` | Are processes connected as the array says whenever creations and removals are answered; do removed processes exit; do broadcasts stay in order; does exec print what the node holds? | five nodes in three levels, six processes, two commands: two changes, or an exec while a node moves; heartbeat off |
| `cluster_overlap` | Do answers and removals pair up when the user waits for nothing and a process dies at any moment? | two nodes and a third, three commands, one crash: three overlapping removals of a node, or a removal during a creation; heartbeat on |
| `cluster_answers` | Are all commands answered in the end, does the end of the input leave no process behind, and do threads, broadcasts, counts and sockets together implement RemoveChain? | three nodes and a fourth, two commands and the end of the input, the user waiting for creations and removals, fair threads; heartbeat off |
| `cluster_last_crashed` | Is the last node checked, as a comment says? (violated) | three nodes, one crash, one removal; heartbeat on |
| `heartbeat` | Is a line about a node printed after four silent periods, never about one that lives and stays connected, in the end about one that is dead; does every worker end? | two nodes, at first in a chain, two workers, two upsets: a `heartbeat 0`, a node detached, removed or dead, a period that ends early |
| `heartbeat_restart` | Is a silent node always reported, as the help text says? (violated) | the same |
| `messenger_safety` | Are chats, members, logins and screens consistent? | two clients, two logins, a group, five inputs in all, lossy pipes, exits, symmetry |
| `messenger_readers` | Does every message of an open chat get to the screen? | two clients, four inputs, fair threads, no loss |
| `messenger_private` | Does a private message go to the one the chat is with? (violated) | three logins, six inputs |
| `messenger_exit` | Does the program end after F12? (violated) | one client, three inputs |
| `parts` | Is the xor-linked ring a sequence, the named pipe a lossy one; do the lines of lab2 and lab4 get through; does each number of lab3 count once; do lab5's libraries agree; does the list of chats show what the server has answered? | below |

Bounds of `parts`. XorList: four elements, two records; any call at any place,
memory reused. FifoPipe: two writers, two puts each. LinePipes: four lines of
three kinds, four characters of input, two error lines, so both pipes fill up.
SharedChunks: three lines, up to one character longer than a chunk, a page of two chunks. Averaging: one to three threads, a
memory of less than a record, two records, four; a file that is empty, shorter than a
record, of two records, of four and a half. HexNumbers: two digits, two numbers. SwitchedGcd: arguments from -3 to 8 in a
width of ten. ChatList: two users of one client, two chats, two messages of two texts, one of which may repeat
another, an answer under way, and a mark that goes down once on an empty list.

Why the bounds are enough. The chain depends only on which of the neighbours of
the removed node the last node is, and whether the node has children: seven
places show every case, and the proofs (section 8) cover all sizes. For the detailed
cluster five nodes have chains of every length, a node that moves with
broadcasts in flight below it, and a process that exits with children. A third writer, client or overlapping removal
would add no kind of step: each property relates two of them. In `messenger_safety` five
inputs let two users log in, one of them create a group and the other join it
or talk to the first, and write; a second user at the *same* client needs six
and is beyond this run. Two workers of the heartbeat are the least that raise one counter
twice between two tests, and two nodes the least of which one is cut off by the other's death or removal and
connected elsewhere. Of the list of chats two users are enough for an
answer to one to come when the other is there, and two chats for the first row to be the same with others below it. Pipes, FIFO, list of chats and averaging threads are proved for
every bound where section 8 says so.

`CHECK_DEADLOCK FALSE` is said where the user may stop typing, where a program
ends, or, in the messenger, where a client has left the server waiting.

Each property has a *variant*: a definition the code might have had by mistake
(a dropped check, the wrong slot, a count off by one), kept beside the one it
replaces and named after it. With the variant in its place the run finds the
property violated.

## 6. Preconditions of the properties

Many properties are about some users only. The others really see something
else, and nothing in the repository promises them more, unless section 9 says so.

* `RecordsMatchAwaited`, `ReapFindsNode` - with removals
  that overlap, an answer is given to the first record that waits for the same
  command and id, maybe of another removal. That is harmless: the
  records that wait for a command are as many as the answers to come. That an
  answer finds a record at all is part of `TypeOK`, of the thread's `rcv`.
* `ProcessesMatchTree` is claimed when creations and removals are answered, for a user who waits for
  them. With overlapping commands or a dead process, connections and array
  do part: the code makes no attempt to repair them.
* `EveryCommandAnswered` is about a user who has waited for every answer. An
  `exec` given *during* a removal can go unanswered, because its broadcast
  is behind the `remove` in the queue of the node that exits, or an answer is
  dropped with a closed socket; `RemovalsComplete` does not depend on it.
* `NoStuckProcess`, `EveryCommandAnswered`, `RemovalsComplete` are claimed with the heartbeat off (`~HeartbeatOn`). With
  it on, a node passes pings on to its children whether or not they are there (`compute_node.c:80-81`), and a chain has
  a node exit before its parent disconnects it. The pings of this time stay in the parent's closed
  ping socket, and when the parent is removed in its turn `zmq_ctx_destroy` (`mq_node.c:122`) waits for them to be
  delivered: the process hangs, the receiver hangs in `waitpid`, and neither this removal nor what
  comes after it is answered. The other properties do not depend on it; `cluster_overlap` checks its own with the heartbeat on.
* `NothingLeftRunning` is about a user who has waited for creations and removals
  before closing the input. With one who has not, the receiver may move the last
  node to a place of the array that the loop of kills has passed.
* `ReportedInTime`, `DeadReported` are about a heartbeat whose workers have run
  one at a time, with no period cut short by `heartbeat 0` (`Orderly`);
  `LiveNotReported` about periods longer than a round trip, none of them cut short (`~late`, `~cut`), and nodes that
  have been reached all the time since the last ping (`steady`). A removal detaches and connects live nodes with
  all that is below them, so one that has missed four periods meanwhile may be reported just when it is back. A worker
  that finds itself beside another is what section 9 shows.
* `NothingSkipped`, `MessagesReachReaders` are about the first chat a client
  opens. In later ones an answer for the chat just left sets
  `last_update_id`, and older messages of the new chat are then never asked for.
* `OneClientPerLogin`, `AuthorsAreMembers` are claimed while users have
  waited for the answers to their commands. Otherwise a late answer to join puts a client that has logged
  out back into the chat.
* `NothingLost` is about writers that put one at a time (`apart`); with two at
  once the second message is dropped, as `ImplementsLossyPipe` allows.
* `ParentReturns` is about lines of one length (`EqualLines`). With long and short
  ones the pipe of errors can fill up while the parent writes a long line, and
  both processes wait for ever.
* `SpacedLinesArrive` is about a user who waits until a line has been dealt with
  and types lines shorter than a chunk (`spaced`, `AllShort`). Lines typed ahead
  are lost, or overwritten while they are read.
* `SameResult` is about positive arguments (`Positive`): with a zero, the second
  library divides by it.
* `ScreenShowsAnswer` compares rows if no text has been repeated in a chat (`~repeated`): the same text, sent
  again to the chat on top, leaves its first row as it was. Nor may an answer have come, since the list was cleared, for
  a user who was logging out or had done so (`~late`, `messenger.cpp:143-146`): its rows stay for the
  next user if his first row is the same. And an empty list is shown as such only when its window is chosen, since
  until then the old rows stay on the screen (`tui.cpp:238-250`).

## 7. Fairness

* lab6: the receiver thread and each node loop for ever and poll all their
  sockets in every round (`control_node.c:490-496`, `compute_node.c:50-97`): weak
  fairness for each action on each socket. The main thread goes on with a
  command it has begun. The user is not fair. What is concluded from it is claimed with the heartbeat off: with it on, a
  node that has no peer to write a pong to stops until it gets one.
* Heartbeat: weak fairness for each worker and for each node's reading of each of its
  sockets, which are loops too. What the user does, and what dies, is not fair.
* FifoPipe: the reader is a loop; a writer that has begun goes on. Nobody must
  begin.
* LinePipes, SharedChunks: both processes are scheduled, and a pending signal is
  delivered. The user may stop typing at any time.
* Messenger: weak fairness for the server's loop, receivers and updaters. A put
  can get in only between two requests of the server, so it has strong
  fairness; the justification is `PutsComplete` of FifoPipe, where a writer that waits in
  `open` is let in by the reader's next `open`. Users are not fair.

## 8. Proofs

All theorems are about every value of the constants. They rest on the assumptions the modules state of their
constants, and on nothing else; a theorem about some users or nodes only names them in its statement.

**TreeProofs** and **RemoveChainProofs** (for every set of ids, so for arrays of every size):

* `TypeCorrect`: `Spec => []ChainTypeOK`, with the control node first in the array and no id in it twice;
* `TopologyCorrect`: whenever no operation is under way the connections are
  the edges of the array;
* `SlotsCorrect`: a connect never meets a node with two children.

`TopologyMatchesTree` speaks of quiet states only, so it is not inductive: nothing
in it says what the connections are in the middle of a chain. The
invariant `IInv` says it, `ChainEdges(t, x, k)` being the connections after k
commands of the removal of x from t: the last node cut, the children of x cut
off, x isolated, then the last node put into its place, under the parent first and over
the left and right child after. The argument:

1. lemmas on heap positions (`Halves`, `Index`, `Neighbours`): parents and
   children as arithmetic with halves;
2. `PlanIs`: the chain has 2 commands for the last node and otherwise 5, 6
   or 7, as x has (without the last node) no, one or two children;
3. `SlotsFree`, `CreateFindsSlot`: the two slots of the parent of a connect are
   not both taken, so `Effect` adds the edge;
4. `ChainStep`: a command takes `ChainEdges(t, x, k)` to `ChainEdges(t, x, k + 1)`;
5. `ChainEnds`: after the last command `ChainEdges` is
   `TreeEdges(TreeRemove(t, x))`;
6. one lemma per action, and `Invariant`.

Through `RemoveChainImplemented` (below) these facts are about the detailed cluster
too. The steps 1 to 5 are in TreeProofs, which both proofs use.

**PartsProofs** holds the proofs about the parts that the run `parts` checks, which share nothing. Each part has
an inductive invariant of its own. `PartsCorrect` states all the invariants the run checks, and `PartsTypeCorrect` the types
of all eight parts (`PartsTypeOK`), of the specification of the run itself: a step of it is a step of one part and leaves
the others alone.

*Averaging* (any number of threads, any memory, any length of the file):
`AveragingTypeCorrect`; `MemoryCorrect`, the buffers of the threads are never more than
the memory asked for; `CountCorrect`, each whole number of the file is counted
exactly once. `EachNumberOnce` speaks of the end only. The invariant adds `Joined` (a thread
that `main` has joined has ended), `Pieces` (what each thread has in hand lies
between whole records, before the file position, and apart from the others')
and `CountedSoFar` (a number before the file position is in the hand of one
thread or has been counted once, one behind it has not been counted). That each piece is a
whole number of records is arithmetic on `piece_size`, in lemmas of its own.

*FifoPipe* (any number of writers and messages): `PipeImplements`, every step
of FifoPipe is a step of LossyPipe or none, which needs no invariant;
`NothingLostCorrect`, with an invariant that says that there is one message in the
pipe at a time and that all put so far have arrived or are in it.

*ChatList* (any users, chats, texts and number of messages, any answers under way): `ScreenCorrect` and
`ChoiceCorrect`. That the comparison of first rows does for the whole list is not inductive as
it stands: the invariant `ChatListInv` says that of all lists of a user, the server's, those in the answers under way to
him and the client's, two that begin alike *are* alike (`ListsSame`). A new message keeps this because it
was never said before, while the first row of every list was (`ListsSaid`).

*XorList* (any number of elements and records, memory reused): `RingCorrect` (`RingWhole`) and `ListImplements`
(`ImplementsRecordList`), every function of `rm_list.c` is a step of a sequence with an iterator. The invariant says
that some sequence of different elements is *arranged*: each word is the xor of
the neighbours, the elements are those in use, and the iterator stands at a place of it (`Arranged`). That each
word is one of addresses of the ring, which is its type, needs it too (`XorWords`).
`InsertLinks` and `RemoveLinks` show that the four words a call changes are the words of the longer or shorter
sequence; they rest on the laws of xor alone. `Walk` is a recursive function of
the number of steps; that it goes through the sequence is proved by induction, for which `Induction` is derived from
the least number principle.

*SwitchedGcd* (ints of any width, any arguments): `GcdCorrect` (`SameResult`). A round of Euclid's algorithm leaves the
set of common divisors as it is (`SameDivisors`) and ends at a number that is its own greatest divisor; the
naive loop starts above every common divisor and passes none. So the invariant says that the greatest common
divisor of what a call has in hand is that of its arguments. No step overflows, because a remainder is
smaller than its divisor (`RemBound`).

*HexNumbers* (any width, any number of records): `ReadBackCorrect` (`ReadBack`). What the shifts have left of
a number at a digit (`ShiftsLeave`) is what the reader has added up when it gets there, so by induction over the
digits no bit is shifted out before the last one is read (`NumberBack`). The invariant says where the digits of each
number are in the file. Powers of 16 are a recursive function; `Recursion` shows that such a function exists and
`PowerIs` what it satisfies.

*LinePipes* (any lines, any number of them, any capacity of both pipes): `FileCompleteCorrect` (`FileComplete`). The
property speaks of whole lines, while the processes move single characters. The invariant joins the two: what the
child has read of a line, what is in the pipe and what the parent has left to write are together the lines sent and
not dealt with, cut at the newlines (`Cut`), and the file is what is valid among those that were dealt with
(`DealtWith`). `Stages` adds which descriptors are still open. A newline that the child reads ends exactly the
next line (`LineRead`), because a line has none before its end.

*SharedChunks* (any texts, any size of a chunk and of the mapping): `SpacedLinesArriveCorrect`
(`SpacedLinesArrive`). The mutexes exclude nothing, so what the property needs has to come from the order of steps
alone. `LinesOneByOne` is a disjunction: no line is on its way (`Awaited`), or one is being copied
(`BeingSent`: the cells before `at` are its first characters), or its single signal is pending or the child is
at its `i`-th cell (`BeingRead`), or the input has ended. `Within` is what the types need: the parent writes no cell
past its line, and the last cell of the mapping is never written, so the child's loop stops inside it. TLC checked
both first, in 148,029 states.

**MessengerProofs** (any clients, logins, groups and private partners, pipes of any length,
messages that get lost, no bound on what is typed that the proof uses):
`TypeCorrect`, `ServerCorrect` (`ServerConsistent`), `ReadersCorrect` (`NothingSkipped`),
`AuthorsCorrect` (`AuthorsAreMembers`) and `LoginsCorrect` (`OneClientPerLogin`). One
invariant, `IInv`, gives them all. Its parts, in the order in which each needs the ones before:

* `TypeOK`, `IdsBounded` (an id in a list is at most the counter)
  and `Origins` (a request or answer under way names the client it came from or goes to);
* `ServerInv`, `ServerConsistent` without its count, and nobody is called `System`;
* `Numbered` and `ReadersServed`. `NothingSkipped` is not inductive: an
  answer under way may raise the last id when it comes. The invariant says of every
  `get_msg` request under way that what lies before the id it asks from is
  shown, and of every answer that what lies before its last id is shown or in
  the answer itself. So a duplicated request, an overtaken answer or a lost one leaves no gap;
* `Patience`, under `patient` only: a client has one command under way at most (`OneAsked`,
  through its input, the pipe, the server's pending answer and the pipe back),
  which is still of the user logged in (`SameUser`), each login is held by one
  client, which has logged in or will when the answer comes, and for as long as it is the server
  has the login as authorized and no logout of it is under way (`OneHolder`), and a client in a group chat, or about to be, belongs to the group
  (`Belongs`), so that what it writes is by a member (`HeardInGroups`).

Before the proof TLC checked `IInv` on the constants of the run `MessengerSafety`, 2.5
million states. The server's handlers are
summed up once (`ServedCases`, `Replies`), the client's steps once (`ClientSteps`), and
each part of the invariant is carried over the summaries.

**ClusterProofs** (any ids, processes, seed, commands and crashes, removals that overlap):
`TypeCorrect` (`TypeOK`, with the part that the receiver is never *lost*: no answer
comes for which no removal waits), `RecordsCorrect` (`RecordsMatchAwaited`), `ReapCorrect`
(`ReapFindsNode`), and `NothingLeftCorrect` (`NothingLeftRunning`), which assumes a user who waits for
creations and removals.

The argument does not ask which process is connected to which. All it uses of the processes is
that they pass on what they get, make up answers to messages they have, and answer `remove`
once, because they stop after it; `Effect` sums this up, and every step of every process is shown to be one of its
cases. Upon it the invariant `IInv` is built, in this order:

* the array is well formed, and a chain is as `cmd_remove` plans it: 2, 5, 6 or 7 commands, one of them `remove`, of
  the node it is for, at place 1 or 3;
* `AwaitedAreKnown`, `Traffic`: an awaited broadcast is known by its number, and
  what is under way with this number has its command and id. So an answer taken from
  `outstanding` is for the very command that a record waits for, and
  `RecordsMatchAwaited`, which counts the two by command and id, survives `rec_remove` even if
  it gives the answer to the record of another removal;
* `Kept`: a process not yet reaped is in the array under its id, with its pid;
* `RemovedOnce`: the OK of a `remove` is under way, or a chain has gone past this
  command, or the receiver waits for the process; one of them at most, once, for a process
  in the array that does not run. This is why two removals of one node do not take it from the
  array twice;
* `Fresh`: no message, socket or chain has the address of a process not yet forked or not
  yet connected, so the array still has a node when `push_create` looks for its parent;
* `Calm`: once the input has ended nothing changes the array, and the loop over it leaves
  reaped processes behind.

TLC checked `IInv` first: 748,000 states on the constants of the run `cluster_overlap`, 49,000 on those of
`cluster_answers`, and without an error on the first 8.7 million of a larger instance.

**TopologyNodeProofs** and **TopologyProofs** (any ids, processes, seed and commands; any order of threads, nodes
and messages): `BroadcastsCorrect` (`BroadcastsInOrder`), `NoStuckCorrect` (`NoStuckProcess`), `ProcessesCorrect`
(`ProcessesMatchTree`) and `RemoveChainImplemented` (`ImplementsRemoveChain`). The second is about a heartbeat that is off,
the others about either. `BroadcastsInOrder` orders what waits in the queues of a process and of the one above it; that it is
also newer than what the process has taken is not in the property, but in the invariant (`Ordered`). All assume what the runs of these
properties assume: a user who waits until creations and removals are answered (`Patience # "none"`) and no process that
dies by itself (`MaxCrashes = 0`). Without the one or the other, connections and array do part (sections 6 and 9). `exec` need not be waited
for: its messages and answers may be under way in any number while the nodes they pass are moved.

ClusterProofs leaves open who is connected to whom; here that is the question. What a message may still do
depends on which nodes have seen it, which is not part of the state. The invariant, `Topology`, is that
*some* function t fits, t[p] being the number of the last broadcast that p has taken (`TInv`):

* `Wired`: every connection is to a process of the array and has been accepted by it, so none waits behind another;
* `Ordered`: what is on its way to p is newer than t[p] and not newer than what the process above p has taken. A process
  that is connected anew is behind the broadcast that connects it, so no broadcast is missed or comes twice;
* `Spent`: of the creations and removals under way only the one awaited can still change a connection, at the one
  process it is addressed to (`Owner`), once;
* `Shape`, `Stage`: the connections are those of the array, or `ChainEdges` after as many commands as the list
  of removals says, one more if the current one has had its effect; and this command finds its slot free
  (`WantReady`, from `ChainStep`);
* `GoneQuiet`, `NoneStuck`: a removed process that is still connected is sent nothing, and of the messages under way only the
  command that cuts it off is new to it; so, with the heartbeat off, none closes its sockets with a message left in them, and `waitpid` returns;
* `UnderWay`: the counting. `control_node.c` gives a command up as not found once as many leaves as the array has
  have said so. The answers "not found", read and unread (`NotFounds`), are no more than the leaves, other than the
  addressee, that have had the broadcast (`Answerers`); and these are fewer than the leaves of the array, since
  at most half of a set of processes that is closed upwards, with one more below it, are leaves (`HalfLeaves`). So no
  creation or removal is given up too early.

Each step of a node or of the control node keeps `TInv`, with t advanced at the process that takes a message. For the
refinement the variables of RemoveChain are written as expressions of the cluster's (`AEdges`, `AOp` ...);
a state is one of four situations (`Situation`), and a step leaves the situation alone or is a step of RemoveChain.

TLC checked `TInv`, with t added as a variable, before the proof: in all 49,000 states on the constants of `ClusterAnswers`, and
on those of `ClusterMoves`.

**HeartbeatProofs** (any nodes and workers, any tree at first; nodes that are created, detached, connected elsewhere, removed and
die, in any order): `TypeCorrect` (`HeartbeatTypeOK`, so a pong that comes after its node has been removed leaves no entry behind),
`InTimeCorrect` (`ReportedInTime`) and `LiveCorrect` (`LiveNotReported`). Neither of the two is inductive. Their
invariant, which TLC checked first in all 334,819 states of the run, says besides the types

* `WaitsWhileOn`, a worker that waits after `heartbeat 0` has been cut short, and `SteadyReached`, nodes of `steady` are reached;
* `Carried`: while a node of `steady` has not been heard since the last ping, a ping or a pong of it is at some node
  between the two (`OnLineage`). Each step of a node moves it on by one; only the control node takes
  it out, and then clears the counter. So a period that is not `TooSoon` ends with
  the counters of such nodes at 0. What is detached, exits or dies is on the way to nodes that are reached no
  longer and leave `steady`; the ways of the others are as before (`LineageSame`, `TreeStepsCarried`);
* `OneWorker` and `CountsSilence`: with one worker at a time a counter is the number of whole silent periods, with one more
  for the period that runs, and a node that has been reported is at the limit or beyond.

`Reaches` is the least set of nodes above a node, not a walk along a path, so no induction is needed.

Every invariant, every refinement and every action property of a passing run but one is a theorem. Only model-checked
are `ExecAnswered`, for which the counting of `UnderWay` would have to be done for `exec` too, the liveness properties and everything else
under fairness, which the prover does not reach, and the four properties that are violated.

Assumptions on the constants are those of the modules (`...Assumption`), which TLC evaluates in the runs. Two are there
for the proofs only: the mapping of lab4 has room for a chunk (it is a whole page) and its characters are not
the zero byte or an end of line. Slow leaves name their prover and a time limit, several times what they take.

## 9. Findings

1. `LastNodeChecked` (`control_node.c:246`): a comment says the chain checks that the
   last node is available before it is detached; the code pings the node that is to
   be removed. With a dead last node the chain goes on: the target is gone, and the
   chain stops half-way when a child of the target is to be connected to the
   dead node.
2. `PrivateReachesAddressee` (`server.cpp:266`): a private message is put into the
   sender's *first* private chat, whoever it is with.
3. `ExitCompletes` (`messenger.cpp:37`): F12 cancels the receiver before
   `cmd_logout`. A server that has an answer for this client then waits for
   ever in `open`, so the client's logout, the exit, and all other clients wait too.
4. `SilenceReported` (`control_node.c:530`): the help text says a line is displayed
   about a node that has been silent for four periods. `heartbeat 0` and
   `heartbeat N` within one period leave two workers that raise the same
   counters; the counter of a dead node goes from 3 to 5 between two tests for
   4, and the line never comes.

## 10. Not modelled, and why

* Races inside one call (two threads in `realloc`, `free`, the hash map, a vector or a
  `std::string`) are undefined behaviour with no state to describe; the models
  interleave whole calls, or the parts of one at the points named above.
* Failures of `fork`, `malloc`, `mmap` and other system calls: the programs print an error and
  end. (The failing `pthread_create` of lab3 is modelled: it is where `main` goes on.)
* The wait of a second peer on a PAIR socket is simplified to its taking over when the first is gone.
* Ping sockets in Cluster: what goes through them is in Heartbeat, without the chains; Cluster has of them only what
  they may do to `zmq_ctx_destroy`.
* KP: the input line, the text shown, colours, resizing, and the splitting of
  requests at separators: output, or functions without a state. Names of chats
  are taken to be distinct.
* lab3: `args_parsing` is what the initial states assume; the rounding of `long
  double` is left out; `int128_to_hex` writes one byte past its array
  (`string_utils.c:36`), which is undefined.
* lab5: pi is a sum of floating point numbers.
* Error printing.

## 11. Plan

Every part with a state is modelled. Next theorems:

1. What follows from the topology for a user who also waits for `exec`: that no answer is lost.
2. FileComplete and SpacedLinesArrive for the error lines too: what `shown` and `printed` are at the end.

Next in the models: F2 against a late answer, and `update_chat` in several steps.
