------------------------------ MODULE PartsProofs ------------------------------
(***************************************************************************)
(* Proofs about the parts that MCParts checks in one run and that do not   *)
(* depend on one another: FifoPipe, Averaging, ChatList, XorList,          *)
(* SwitchedGcd, HexNumbers, LinePipes and SharedChunks, each with an       *)
(* invariant of its own; and, from these, that all eight of them keep      *)
(* their types (PartsTypeOK).                                              *)
(***************************************************************************)
EXTENDS MCParts, FiniteSetTheorems, SequenceTheorems, WellFoundedInduction, TLAPS

-----------------------------------------------------------------------------
(* Induction, and functions defined by recursion.                          *)

LEMMA Least ==
  ASSUME NEW S \in SUBSET Nat, S # {}
  PROVE  \E n \in S : \A m \in S : n <= m
<1> DEFINE R == {p \in Nat \X Nat : p[1] < p[2]}
<1>1. IsWellFoundedOn(R, Nat)
  BY NatLessThanWellFounded DEF OpToRel
<1>2. PICK u \in S : \A y \in S : ~ (<<y, u>> \in R)
  <2> HIDE DEF R
  <2> QED BY <1>1, WFMin
<1>3. ASSUME NEW y \in S PROVE u <= y
  <2>1. <<y, u>> \in Nat \X Nat
    OBVIOUS
  <2>2. ~ (y < u)
    BY <1>2, <2>1
  <2> QED BY <2>2
<1> QED BY <1>3

LEMMA Induction ==
  ASSUME NEW S, 0 \in S, \A n \in Nat : n \in S => n + 1 \in S
  PROVE  Nat \subseteq S
<1> DEFINE T == Nat \ S
<1>1. ASSUME T # {} PROVE FALSE
  <2>1. PICK n \in T : \A m \in T : n <= m
    BY <1>1, Least
  <2>2. n - 1 \in Nat /\ n - 1 \notin T
    BY <2>1
  <2> QED BY <2>1, <2>2
<1> QED BY <1>1

\* The function with a first value and, for each next one, what a function
\* makes of the one before.
Iterates(f, X, base, next) ==
  f \in [Nat -> X] /\ f[0] = base /\ \A n \in Nat : f[n + 1] = next[<<n, f[n]>>]

LEMMA Recursion ==
  ASSUME NEW X, NEW base \in X, NEW next \in [Nat \X X -> X]
  PROVE  \E f : Iterates(f, X, base, next)
<1> DEFINE Begins(n, g) == /\ g \in [0..n -> X] /\ g[0] = base
                           /\ \A k \in 0..(n - 1) : g[k + 1] = next[<<k, g[k]>>]
           S == {n \in Nat : \E g : Begins(n, g)}
<1>1. Nat \subseteq S
  <2>1. 0 \in S
    <3>1. Begins(0, [k \in 0..0 |-> base])
      OBVIOUS
    <3> QED BY <3>1
  <2>2. ASSUME NEW n \in Nat, n \in S PROVE n + 1 \in S
    <3>1. PICK g : Begins(n, g)
      BY <2>2
    <3> DEFINE h == [k \in 0..(n + 1) |-> IF k = n + 1 THEN next[<<n, g[n]>>] ELSE g[k]]
    <3>2. g[n] \in X /\ next[<<n, g[n]>>] \in X
      BY <3>1
    <3>3. h \in [0..(n + 1) -> X] /\ h[0] = base
      BY <3>1, <3>2
    <3>4. h[n + 1] = next[<<n, g[n]>>] /\ \A l \in 0..n : h[l] = g[l]
      <4>1. n + 1 \in 0..(n + 1) /\ \A l \in 0..n : l \in 0..(n + 1) /\ l # n + 1
        OBVIOUS
      <4> QED BY <4>1
    <3> HIDE DEF h
    <3>5. ASSUME NEW k \in 0..n PROVE h[k + 1] = next[<<k, h[k]>>]
      <4>1. CASE k = n
        BY <3>4, <4>1
      <4>2. CASE k # n
        <5>1. k \in 0..(n - 1) /\ k + 1 \in 0..n
          BY <4>2
        <5>2. h[k + 1] = g[k + 1] /\ h[k] = g[k]
          BY <3>4, <5>1
        <5> QED BY <3>1, <5>1, <5>2
      <4> QED BY <4>1, <4>2
    <3>6. 0..((n + 1) - 1) = 0..n /\ n + 1 \in Nat
      OBVIOUS
    <3>7. Begins(n + 1, h)
      BY <3>3, <3>5, <3>6
    <3> QED BY <3>6, <3>7
  <2> QED
    <3> HIDE DEF S
    <3> QED BY <2>1, <2>2, Induction
<1>2. ASSUME NEW n \in Nat, NEW m \in Nat, NEW g, NEW h, Begins(n, g), Begins(m, h)
      PROVE  \A k \in Nat : k <= n /\ k <= m => g[k] = h[k]
  <2> DEFINE T == {k \in Nat : k <= n /\ k <= m => g[k] = h[k]}
  <2>1. 0 \in T
    BY <1>2
  <2>2. ASSUME NEW k \in Nat, k \in T PROVE k + 1 \in T
    <3> SUFFICES ASSUME k + 1 <= n, k + 1 <= m
                 PROVE  g[k + 1] = h[k + 1]
      OBVIOUS
    <3>1. k \in 0..(n - 1) /\ k \in 0..(m - 1) /\ g[k] = h[k]
      BY <2>2
    <3> QED BY <1>2, <3>1
  <2>3. Nat \subseteq T
    <3> HIDE DEF T
    <3> QED BY <2>1, <2>2, Induction
  <2> QED BY <2>3
<1> DEFINE Part(n) == CHOOSE g : Begins(n, g)
           f == [n \in Nat |-> Part(n)[n]]
<1>3. ASSUME NEW n \in Nat PROVE Begins(n, Part(n))
  <2>1. \E g : Begins(n, g)
    BY <1>1
  <2> HIDE DEF Begins
  <2> QED BY <2>1
<1> HIDE DEF Part
<1>4. f \in [Nat -> X]
  <2>1. ASSUME NEW n \in Nat PROVE Part(n)[n] \in X
    BY <1>3
  <2> QED BY <2>1
<1>5. f[0] = base
  BY <1>3
<1>6. ASSUME NEW n \in Nat PROVE f[n + 1] = next[<<n, f[n]>>]
  <2>1. n + 1 \in Nat /\ n \in 0..((n + 1) - 1)
    OBVIOUS
  <2>2. Begins(n, Part(n)) /\ Begins(n + 1, Part(n + 1))
    BY <1>3, <2>1
  <2>3. Part(n + 1)[n + 1] = next[<<n, Part(n + 1)[n]>>]
    BY <2>1, <2>2
  <2>4. Part(n + 1)[n] = Part(n)[n]
    <3>1. n <= n + 1 /\ n <= n
      OBVIOUS
    <3> HIDE DEF Begins
    <3> QED BY <1>2, <2>1, <2>2, <3>1
  <2>5. f[n + 1] = Part(n + 1)[n + 1] /\ f[n] = Part(n)[n]
    BY <2>1
  <2> QED BY <2>3, <2>4, <2>5
<1> QED
  <2>1. Iterates(f, X, base, next)
    <3> HIDE DEF f
    <3> QED BY <1>4, <1>5, <1>6 DEF Iterates
  <2> QED BY <2>1

-----------------------------------------------------------------------------
(***************************************************************************)
(* FifoPipe, for any number of writers and of messages.                    *)
(*                                                                         *)
(* That the pipe implements LossyPipe needs no invariant: whatever the     *)
(* state, each step loses the whole contents of the pipe or nothing.  That *)
(* nothing is lost when the puts are apart does: there is then one writer  *)
(* at a time, and one message, which is read before the reader closes.     *)
(***************************************************************************)

\* With puts that are apart there is one writer, and its message is read while
\* the reader has the pipe open.
OneAtATime ==
  /\ \A w \in Writers : writer[w] # "opening"
  /\ \A v, w \in Writers : v # w => writer[v] = "idle" \/ writer[w] = "idle"
  /\ \A w \in Writers : writer[w] = "open" => getter = "open" /\ buf = <<>>
  /\ getter = "opening" => \A w \in Writers : writer[w] = "idle"
  /\ buf # <<>> => getter = "open" /\ Len(buf) = 1

Arrives(w, n) == \E h \in 1..Len(got \o buf) : (got \o buf)[h] = <<w, n>>

AllArrive == \A w \in Writers : \A n \in 1..puts[w] : Arrives(w, n)

FifoInv == FifoTypeOK /\ (apart => OneAtATime /\ AllArrive)

-----------------------------------------------------------------------------
(* The refinement.                                                         *)

LEMMA AllMayBeLost == \A s : Channel!LeftOf(<<>>, s)
<1>1. ASSUME NEW s PROVE Channel!LeftOf(<<>>, s)
  <2> DEFINE f == [h \in DOMAIN <<>> |-> h]
  <2>1. DOMAIN <<>> = {}
    OBVIOUS
  <2>2. f \in [DOMAIN <<>> -> DOMAIN s]
    BY <2>1
  <2> QED BY <2>1, <2>2 DEF Channel!LeftOf
<1> QED BY <1>1

LEMMA StepImplements == [FifoNext]_fifoVars => [Channel!Next]_Channel!pipeVars
<1>1. ASSUME NEW w \in Writers, PutNext(w) PROVE [Channel!Next]_Channel!pipeVars
  <2>1. CASE PutOpen(w)
    BY <2>1 DEF PutOpen, Channel!pipeVars
  <2>2. CASE PutWrite(w)
    <3>1. Channel!Put(w)
      BY <2>2 DEF PutWrite, Channel!Put, Channel!Message
    <3> QED BY <3>1 DEF Channel!Next
  <2>3. CASE PutClose(w)
    BY <2>3, AllMayBeLost DEF PutClose, Channel!Next, Channel!Lose, Channel!pipeVars
  <2> QED BY <1>1, <2>1, <2>2, <2>3 DEF PutNext
<1>2. CASE GetOpen
  BY <1>2 DEF GetOpen, Channel!pipeVars
<1>3. CASE GetRead
  BY <1>3, AllMayBeLost DEF GetRead, LeftInPipe, Channel!Next, Channel!Receive, Channel!pipeVars
<1>4. CASE GetClose
  BY <1>4, AllMayBeLost DEF GetClose, Channel!Next, Channel!Lose, Channel!pipeVars
<1>5. CASE UNCHANGED fifoVars
  BY <1>5 DEF fifoVars, Channel!pipeVars
<1> QED BY <1>1, <1>2, <1>3, <1>4, <1>5 DEF FifoNext, Get

\* Whoever opens, writes and closes when, a message arrives at most once, and
\* after the earlier ones of its writer that arrive.
THEOREM PipeImplements == FifoSpec => ImplementsLossyPipe
<1>1. FifoInit => Channel!Init
  BY DEF FifoInit, Channel!Init
<1> QED BY <1>1, StepImplements, PTL DEF FifoSpec, ImplementsLossyPipe, Channel!Spec

-----------------------------------------------------------------------------
(* Puts that are apart.                                                    *)

LEMMA OneElement ==
  ASSUME NEW S, NEW s \in Seq(S), Len(s) = 1
  PROVE  \E e \in S : s = <<e>> /\ Head(s) = e
<1>1. PICK e \in S : e = s[1]
  BY ElementOfSeq, SMTT(60)
<1>2. <<e>> \in Seq(S) /\ Len(<<e>>) = 1 /\ <<e>>[1] = e
  OBVIOUS
<1>3. \A h \in 1..Len(s) : s[h] = <<e>>[h]
  BY <1>1, <1>2
<1>4. s = <<e>>
  BY <1>2, <1>3, SeqEqual
<1> QED BY <1>1, <1>4

LEMMA TypeStep ==
  ASSUME FifoTypeOK, FifoNext
  PROVE  FifoTypeOK'
<1>1. ASSUME NEW w \in Writers, PutNext(w) PROVE FifoTypeOK'
  <2>1. CASE PutOpen(w)
    BY <2>1 DEF PutOpen, FifoTypeOK, ReaderHere
  <2>2. CASE PutWrite(w)
    <3>1. <<w, puts[w] + 1>> \in Writers \X Nat
      BY DEF FifoTypeOK
    <3> QED BY <2>2, <3>1 DEF PutWrite, FifoTypeOK
  <2>3. CASE PutClose(w)
    BY <2>3 DEF PutClose, FifoTypeOK
  <2> QED BY <1>1, <2>1, <2>2, <2>3 DEF PutNext
<1>2. CASE GetOpen
  BY <1>2 DEF GetOpen, Woken, FifoTypeOK
<1>3. CASE GetRead
  <2>1. buf # <<>> => Append(got, Head(buf)) \in Seq(Writers \X Nat)
    BY DEF FifoTypeOK
  <2>2. CASE buf # <<>> /\ got' = Append(got, Head(buf)) /\ buf' = <<>>
    <3>1. buf' \in Seq(Writers \X Nat) /\ got' \in Seq(Writers \X Nat)
      BY <2>1, <2>2
    <3> QED BY <1>3, <3>1 DEF GetRead, FifoTypeOK
  <2>3. CASE UNCHANGED <<buf, got>>
    BY <1>3, <2>3 DEF GetRead, FifoTypeOK
  <2> QED BY <1>3, <2>2, <2>3 DEF GetRead, LeftInPipe
<1>4. CASE GetClose
  BY <1>4 DEF GetClose, FifoTypeOK
<1> QED BY <1>1, <1>2, <1>3, <1>4 DEF FifoNext, Get

LEMMA OneAtATimeStep ==
  ASSUME FifoTypeOK, apart => OneAtATime, FifoNext, apart'
  PROVE  apart /\ OneAtATime'
<1>1. ASSUME NEW w \in Writers, PutNext(w) PROVE apart /\ OneAtATime'
  <2>1. CASE PutOpen(w)
    BY <2>1 DEF PutOpen, OneAtATime, FifoTypeOK, ReaderHere, WritersHere
  <2>2. CASE PutWrite(w)
    <3>1. apart /\ OneAtATime /\ writer[w] = "open" /\ getter = "open" /\ buf = <<>>
      BY <2>2 DEF PutWrite, OneAtATime
    <3>2. buf' = <<<<w, puts[w] + 1>>>>
      BY <2>2, <3>1 DEF PutWrite, ReaderHere
    <3> QED BY <2>2, <3>1, <3>2, ZenonT(60) DEF PutWrite, OneAtATime, FifoTypeOK
  <2>3. CASE PutClose(w)
    BY <2>3 DEF PutClose, OneAtATime, FifoTypeOK
  <2> QED BY <1>1, <2>1, <2>2, <2>3 DEF PutNext
<1>2. CASE GetOpen
  BY <1>2 DEF GetOpen, Woken, OneAtATime, FifoTypeOK, WritersHere
<1>3. CASE GetRead
  BY <1>3 DEF GetRead, LeftInPipe, Drained, WritersHere, OneAtATime, FifoTypeOK
<1>4. CASE GetClose
  BY <1>4 DEF GetClose, OneAtATime, FifoTypeOK
<1> QED BY <1>1, <1>2, <1>3, <1>4 DEF FifoNext, Get

\* The messages that have been read or will be stay the same, but for the one
\* that is written.
LEMMA ArriveStep ==
  ASSUME FifoTypeOK, OneAtATime, AllArrive, FifoNext
  PROVE  AllArrive'
<1> DEFINE all == got \o buf
<1>1. all \in Seq(Writers \X Nat)
  BY DEF FifoTypeOK
<1>2. ASSUME UNCHANGED <<all, puts>> PROVE AllArrive'
  BY <1>2 DEF AllArrive, Arrives
<1>3. ASSUME NEW w \in Writers, PutWrite(w) PROVE AllArrive'
  <2> DEFINE m == <<w, puts[w] + 1>>
  <2>1. all' = Append(all, m)
    <3>1. buf = <<>> /\ getter = "open"
      BY <1>3 DEF PutWrite, OneAtATime
    <3>2. buf' = <<m>> /\ got' = got
      BY <1>3, <3>1 DEF PutWrite, ReaderHere
    <3> QED BY <3>1, <3>2 DEF FifoTypeOK
  <2>2. puts' = [puts EXCEPT ![w] = @ + 1] /\ puts[w] \in Nat
    BY <1>3 DEF PutWrite, FifoTypeOK
  <2> HIDE DEF all
  <2>3. ASSUME NEW v \in Writers, NEW n \in 1..puts'[v]
        PROVE  \E h \in 1..Len(all') : all'[h] = <<v, n>>
    <3>1. CASE v = w /\ n = puts[w] + 1
      BY <1>1, <2>1, <3>1
    <3>2. CASE n \in 1..puts[v]
      <4>1. PICK h \in 1..Len(all) : all[h] = <<v, n>>
        BY <3>2 DEF AllArrive, Arrives, all
      <4>2. m \in Writers \X Nat
        BY <2>2
      <4>3. Len(Append(all, m)) = Len(all) + 1 /\ Append(all, m)[h] = all[h]
        BY <1>1, <4>1, <4>2
      <4> QED BY <1>1, <2>1, <4>1, <4>3, SMTT(60)
    <3> QED BY <2>2, <3>1, <3>2 DEF FifoTypeOK
  <2> QED BY <2>3 DEF AllArrive, Arrives, all
<1>4. ASSUME NEW w \in Writers, PutOpen(w) \/ PutClose(w) PROVE UNCHANGED <<all, puts>>
  BY <1>4 DEF PutOpen, PutClose, OneAtATime, ReaderHere
<1>5. ASSUME GetOpen \/ GetClose PROVE UNCHANGED <<all, puts>>
  BY <1>5 DEF GetOpen, GetClose, OneAtATime
<1>6. ASSUME GetRead PROVE UNCHANGED <<all, puts>>
  <2>1. CASE buf # <<>>
    <3>1. Len(buf) = 1 /\ buf' = <<>> /\ got' = Append(got, Head(buf)) /\ puts' = puts
      BY <1>6, <2>1 DEF GetRead, Drained, LeftInPipe, OneAtATime
    <3>2. PICK e \in Writers \X Nat : buf = <<e>> /\ Head(buf) = e
      BY <3>1, OneElement DEF FifoTypeOK
    <3>3. got \o <<e>> = Append(got, e) /\ Append(got, e) \o <<>> = Append(got, e)
      BY <3>2 DEF FifoTypeOK
    <3>4. got' = Append(got, e)
      BY <3>1, <3>2
    <3>5. got' \o buf' = got \o buf
      BY <3>1, <3>2, <3>3, <3>4
    <3> QED BY <3>1, <3>5
  <2>2. CASE buf = <<>>
    BY <1>6, <2>2 DEF GetRead
  <2> QED BY <2>1, <2>2
<1> QED BY <1>2, <1>3, <1>4, <1>5, <1>6 DEF FifoNext, Get, PutNext

LEMMA FifoStepInv == FifoInv /\ [FifoNext]_fifoVars => FifoInv'
<1>1. ASSUME FifoInv, FifoNext PROVE FifoInv'
  BY <1>1, TypeStep, OneAtATimeStep, ArriveStep DEF FifoInv
<1>2. ASSUME FifoInv, UNCHANGED fifoVars PROVE FifoInv'
  BY <1>2 DEF FifoInv, fifoVars, FifoTypeOK, OneAtATime, AllArrive, Arrives
<1> QED BY <1>1, <1>2

LEMMA FifoInitInv == FifoInit => FifoInv
BY DEF FifoInit, FifoInv, FifoTypeOK, OneAtATime, AllArrive

LEMMA FifoInvariant == FifoSpec => []FifoInv
BY FifoInitInv, FifoStepInv, PTL DEF FifoSpec

LEMMA FifoInvLost == FifoInv => NothingLost
BY DEF FifoInv, AllArrive, Arrives, NothingLost

\* However many writers there are, a put that begins when the reader waits and
\* no other writer is there delivers its message.
THEOREM NothingLostCorrect == FifoSpec => []NothingLost
BY FifoInvLost, FifoInvariant, PTL

-----------------------------------------------------------------------------
(***************************************************************************)
(* Averaging, for any number of threads, any memory and files of any       *)
(* length.                                                                 *)
(*                                                                         *)
(* EachNumberOnce speaks of the end only.  The invariant says what has     *)
(* been counted at any time: the numbers before the file's position,       *)
(* except those in a piece that a thread has read and not yet worked       *)
(* through; and that such pieces begin with a number and do not overlap.   *)
(***************************************************************************)

Threads == 1..MaxThreads

\* The thread has a piece that it has not counted yet.
HasPiece(t) == worker[t] \in {"unlock", "count"}

End(p) == p.from + p.read_count

\* A piece begins where a number does, and ends at the end of the file unless
\* it fills the buffer.
PieceOK(p) ==
  /\ p.from % RecordSize = 0 \/ p.read_count = 0
  /\ End(p) <= position
  /\ p.read_count <= piece_size
  /\ p.read_count < piece_size => End(p) = filesize

Apart(p, q) == End(p) <= q.from \/ End(q) <= p.from

Pieces ==
  /\ position % RecordSize = 0 \/ position = filesize
  /\ \A t \in Threads : HasPiece(t) => PieceOK(piece[t])
  /\ \A t, u \in Threads : t # u /\ HasPiece(t) /\ HasPiece(u) => Apart(piece[t], piece[u])
  /\ \A t \in Threads : worker[t] = "end" => position = filesize

Waits(place) == \E t \in Threads : HasPiece(t) /\ InPiece(piece[t], place)

CountedSoFar ==
  \A place \in Places :
    counted[place] = IF Number(place) /\ place < position /\ ~Waits(place) THEN 1 ELSE 0

\* What main knows of the threads.
Joined ==
  /\ \A t \in Threads : t > created => worker[t] = "none"
  /\ main \in {"start", "create"} => joined = 0
  /\ main # "error" => \A t \in 1..joined : worker[t] = "end"
  /\ main = "done" => joined = max_threads

AveragingInv ==
  /\ AveragingTypeOK
  /\ Joined
  /\ main # "error" => Pieces /\ CountedSoFar

-----------------------------------------------------------------------------
(* Arithmetic.                                                             *)

\* The shares of all threads together fit into the memory, and each is a whole
\* number of records.
LEMMA Shares ==
  ASSUME NEW total \in Nat, NEW threads \in Nat \ {0}
  PROVE  /\ ThreadMemory(total, threads) \in Nat
         /\ ThreadMemory(total, threads) % RecordSize = 0
         /\ \A n \in 0..threads : n * ThreadMemory(total, threads) <= total
<1> DEFINE share == total \div threads
           own == ThreadMemory(total, threads)
<1>1. share \in Nat /\ threads * share <= total
  OBVIOUS
<1>2. own \in Nat /\ own % RecordSize = 0 /\ own <= share
  BY <1>1 DEF ThreadMemory, RecordSize
<1> HIDE DEF share, own
<1>3. \A n \in 0..threads : n * own <= threads * own
  BY <1>2
<1>4. threads * own <= threads * share
  BY <1>1, <1>2
<1>5. ASSUME NEW n \in 0..threads PROVE n * own <= total
  BY <1>1, <1>2, <1>3, <1>4
<1> QED BY <1>2, <1>5 DEF own

\* The numbers counted in a piece are those that lie in it as a whole.
LEMMA WholeNumbers ==
  ASSUME NEW p \in [from : Nat, read_count : Nat],
         p.from % RecordSize = 0 \/ p.read_count = 0,
         NEW place \in Nat
  PROVE  InPiece(p, place) <=> /\ place % RecordSize = 0
                               /\ p.from <= place
                               /\ place + RecordSize <= End(p)
BY DEF InPiece, RecordSize, End

LEMMA PieceSize ==
  ASSUME AveragingTypeOK
  PROVE  /\ piece_size \in Nat
         /\ piece_size % RecordSize = 0
         /\ \A n \in 0..max_threads : n * piece_size <= max_memory
<1>1. max_memory \in Nat /\ max_threads \in Nat \ {0}
  BY AveragingAssumption DEF AveragingTypeOK
<1> QED BY <1>1, Shares DEF piece_size

-----------------------------------------------------------------------------
(* The invariant.                                                          *)

LEMMA AveragingInitInv == AveragingInit => AveragingInv
<1> SUFFICES ASSUME AveragingInit
             PROVE  AveragingInv
  OBVIOUS
<1>1. AveragingTypeOK
  BY AveragingAssumption DEF AveragingInit, AveragingTypeOK, Places, NoThread
<1>2. Joined
  BY DEF AveragingInit, Joined, Threads
<1>3. Pieces
  BY DEF AveragingInit, Pieces, HasPiece, Threads, RecordSize
<1>4. CountedSoFar
  BY DEF AveragingInit, CountedSoFar, Places
<1> QED BY <1>1, <1>2, <1>3, <1>4 DEF AveragingInv

LEMMA AveragingTypeStep ==
  ASSUME AveragingTypeOK, Joined, AveragingNext
  PROVE  AveragingTypeOK'
<1>1. options' = options /\ Places' = Places
  BY DEF AveragingNext, MainStep, WorkerStep, Start, CreateThread, CreateFails, Created,
         JoinThread, PrintResult, Lock, Fread, Unlock, Count, options, Places
<1>2. piece_size \in Nat
  BY PieceSize
<1>3. ASSUME MainStep PROVE AveragingTypeOK'
  <2>1. created' \in 0..max_threads /\ joined' \in 0..created'
    <3>1. CASE JoinThread
      <4>1. joined + 1 <= created
        BY <3>1, AveragingAssumption DEF JoinThread, AveragingTypeOK, Joined, Threads
      <4> QED BY <3>1, <4>1, AveragingAssumption DEF JoinThread, AveragingTypeOK
    <3>2. CASE CreateThread
      BY <3>2, AveragingAssumption DEF CreateThread, AveragingTypeOK
    <3>3. CASE Start \/ CreateFails \/ Created \/ PrintResult
      BY <3>3 DEF Start, CreateFails, Created, PrintResult, AveragingTypeOK
    <3> QED BY <1>3, <3>1, <3>2, <3>3 DEF MainStep
  <2>2. main' \in {"start", "create", "join", "done", "error"}
    BY <1>3 DEF MainStep, Start, CreateThread, CreateFails, Created, JoinThread, PrintResult,
                AveragingTypeOK
  <2>3. worker' \in [Threads -> {"none", "lock", "read", "unlock", "count", "end"}]
    BY <1>3 DEF MainStep, Start, CreateThread, CreateFails, Created, JoinThread, PrintResult,
                AveragingTypeOK, Threads
  <2>4. UNCHANGED <<FILE_MUTEX, position, piece, counted>>
    BY <1>3 DEF MainStep, Start, CreateThread, CreateFails, Created, JoinThread, PrintResult
  <2> QED BY <1>1, <2>1, <2>2, <2>3, <2>4 DEF AveragingTypeOK, options, Threads
<1>4. ASSUME NEW t \in Threads, WorkerStep(t) PROVE AveragingTypeOK'
  <2>1. UNCHANGED <<main, created, joined>>
    BY <1>4 DEF WorkerStep, Lock, Fread, Unlock, Count
  <2>2. worker' \in [Threads -> {"none", "lock", "read", "unlock", "count", "end"}]
    BY <1>4, SMTT(60) DEF WorkerStep, Lock, Fread, Unlock, Count, AveragingTypeOK, Threads
  <2>3. FILE_MUTEX' \in 0..MaxThreads
    BY <1>4, AveragingAssumption, SMTT(60)
    DEF WorkerStep, Lock, Fread, Unlock, Count, AveragingTypeOK, NoThread, Threads
  <2>4. /\ position' \in 0..filesize
        /\ piece' \in [Threads -> [from : 0..filesize, read_count : 0..filesize]]
    <3>1. CASE Fread(t)
      <4>1. filesize \in Nat
        BY AveragingAssumption DEF AveragingTypeOK
      <4> DEFINE left == filesize - position
                 n == IF left < piece_size THEN left ELSE piece_size
      <4>2. n \in 0..filesize /\ position + n \in 0..filesize
        BY <1>2, <4>1 DEF AveragingTypeOK
      <4>3. position' = position + n /\ piece' = [piece EXCEPT ![t] = [from |-> position, read_count |-> n]]
        BY <3>1 DEF Fread
      <4> HIDE DEF n
      <4> QED BY <4>2, <4>3 DEF AveragingTypeOK, Threads
    <3>2. CASE ~Fread(t)
      BY <1>4, <3>2 DEF WorkerStep, Lock, Unlock, Count, AveragingTypeOK, Threads
    <3> QED BY <3>1, <3>2
  <2>5. counted' \in [Places -> Nat]
    BY <1>4 DEF WorkerStep, Lock, Fread, Unlock, Count, AveragingTypeOK
  <2> QED BY <1>1, <2>1, <2>2, <2>3, <2>4, <2>5 DEF AveragingTypeOK, options, Threads
<1>5. MainStep \/ \E t \in Threads : WorkerStep(t)
  BY DEF AveragingNext, Threads
<1> QED BY <1>3, <1>4, <1>5

LEMMA JoinedStep ==
  ASSUME AveragingTypeOK, Joined, AveragingNext
  PROVE  Joined'
<1>1. /\ max_threads \in Nat /\ max_threads <= MaxThreads /\ MaxThreads \in Nat
      /\ created \in Nat /\ joined \in Nat /\ created <= max_threads /\ joined <= created
      /\ worker \in [Threads -> {"none", "lock", "read", "unlock", "count", "end"}]
  BY AveragingAssumption DEF AveragingTypeOK, Threads
<1>2. CASE Start
  BY <1>2 DEF Start, options, Joined
<1>3. CASE CreateThread
  BY <1>1, <1>3 DEF CreateThread, options, Joined, Threads
<1>4. CASE CreateFails
  BY <1>4 DEF CreateFails, options, Joined, Threads
<1>5. CASE Created
  BY <1>5 DEF Created, options, Joined
<1>6. CASE JoinThread
  <2>1. \A t \in 1..(joined + 1) : worker[t] = "end"
    BY <1>1, <1>6 DEF JoinThread, Joined
  <2> QED BY <1>1, <1>6, <2>1 DEF JoinThread, options, Joined
<1>7. CASE PrintResult
  BY <1>7 DEF PrintResult, options, Joined
<1>8. ASSUME NEW t \in Threads, WorkerStep(t) PROVE Joined'
  <2>1. /\ UNCHANGED <<options, main, created, joined>>
        /\ worker[t] \in {"lock", "read", "unlock", "count"}
        /\ \A u \in Threads \ {t} : worker'[u] = worker[u]
    BY <1>1, <1>8 DEF WorkerStep, Lock, Fread, Unlock, Count
  <2>2. t <= created /\ (main # "error" => t \notin 1..joined)
    BY <1>1, <2>1 DEF Joined, Threads
  <2> QED BY <1>1, <2>1, <2>2 DEF Joined, options, Threads
<1> QED BY <1>2, <1>3, <1>4, <1>5, <1>6, <1>7, <1>8 DEF AveragingNext, MainStep, Threads

\* The steps that leave the file and the pieces as they are.
LEMMA OtherSteps ==
  ASSUME AveragingTypeOK, Joined, AveragingNext, main' # "error",
         ~\E t \in Threads : Fread(t) \/ Count(t)
  PROVE  /\ UNCHANGED <<options, position, piece, counted>>
         /\ \A t \in Threads : /\ HasPiece(t)' <=> HasPiece(t)
                               /\ worker'[t] = "end" => worker[t] = "end"
<1>1. worker \in [Threads -> {"none", "lock", "read", "unlock", "count", "end"}]
  BY DEF AveragingTypeOK, Threads
<1>2. CASE MainStep
  <2>1. CASE CreateThread
    <3>1. \A t \in Threads : worker'[t] = worker[t] \/ (worker[t] = "none" /\ worker'[t] = "lock")
      BY <1>1, <2>1, AveragingAssumption DEF CreateThread, Joined, AveragingTypeOK, Threads
    <3> QED BY <2>1, <3>1 DEF CreateThread, HasPiece
  <2>2. CASE Start \/ Created \/ JoinThread \/ PrintResult
    BY <2>2 DEF Start, Created, JoinThread, PrintResult, HasPiece
  <2> QED BY <1>2, <2>1, <2>2 DEF MainStep, CreateFails
<1>3. ASSUME NEW t \in Threads, Lock(t) \/ Unlock(t)
      PROVE  /\ UNCHANGED <<options, position, piece, counted>>
             /\ \A u \in Threads : /\ HasPiece(u)' <=> HasPiece(u)
                                   /\ worker'[u] = "end" => worker[u] = "end"
  BY <1>1, <1>3 DEF Lock, Unlock, HasPiece
<1> QED BY <1>2, <1>3 DEF AveragingNext, WorkerStep, Threads

\* What fread returns.
LEMMA ReadStep ==
  ASSUME AveragingTypeOK, Pieces, NEW t \in Threads, Fread(t)
  PROVE  \E n \in 0..filesize :
           /\ n <= piece_size
           /\ n < piece_size => position + n = filesize
           /\ position + n <= filesize
           /\ position' = position + n
           /\ piece' = [piece EXCEPT ![t] = [from |-> position, read_count |-> n]]
           /\ position % RecordSize = 0 \/ n = 0
<1>1. filesize \in Nat /\ position \in 0..filesize /\ piece_size \in Nat
  BY PieceSize, AveragingAssumption DEF AveragingTypeOK
<1> DEFINE left == filesize - position
           n == IF left < piece_size THEN left ELSE piece_size
<1>2. /\ n \in 0..filesize
      /\ n <= piece_size
      /\ n < piece_size => position + n = filesize
      /\ position + n <= filesize
      /\ position % RecordSize = 0 \/ n = 0
  BY <1>1 DEF Pieces
<1>3. /\ position' = position + n
      /\ piece' = [piece EXCEPT ![t] = [from |-> position, read_count |-> n]]
  BY DEF Fread
<1> HIDE DEF n
<1> QED BY <1>2, <1>3

LEMMA PiecesStep ==
  ASSUME AveragingTypeOK, Joined, Pieces, AveragingNext, main' # "error"
  PROVE  Pieces'
<1>1. /\ filesize \in Nat /\ position \in 0..filesize
      /\ piece_size \in Nat /\ piece_size % RecordSize = 0
      /\ worker \in [Threads -> {"none", "lock", "read", "unlock", "count", "end"}]
      /\ piece \in [Threads -> [from : 0..filesize, read_count : 0..filesize]]
  BY PieceSize, AveragingAssumption DEF AveragingTypeOK, Threads
<1>2. CASE ~\E t \in Threads : Fread(t) \/ Count(t)
  <2>1. /\ UNCHANGED <<options, position, piece, counted>>
        /\ \A t \in Threads : /\ HasPiece(t)' <=> HasPiece(t)
                              /\ worker'[t] = "end" => worker[t] = "end"
    BY <1>2, OtherSteps
  <2>2. piece_size' = piece_size /\ filesize' = filesize
    BY <2>1 DEF options, piece_size
  <2> QED BY <2>1, <2>2 DEF Pieces, PieceOK, Apart, End
<1>3. ASSUME NEW t \in Threads, Fread(t) PROVE Pieces'
  <2>1. PICK n \in 0..filesize :
          /\ n <= piece_size
          /\ n < piece_size => position + n = filesize
          /\ position + n <= filesize
          /\ position' = position + n
          /\ piece' = [piece EXCEPT ![t] = [from |-> position, read_count |-> n]]
          /\ position % RecordSize = 0 \/ n = 0
    BY <1>3, ReadStep
  <2>2. /\ piece_size' = piece_size /\ filesize' = filesize
        /\ worker' = [worker EXCEPT ![t] = "unlock"] /\ worker[t] = "read"
    BY <1>3 DEF Fread, options, piece_size
  <2>3. \A u \in Threads \ {t} : /\ piece'[u] = piece[u] /\ worker'[u] = worker[u]
                                 /\ HasPiece(u)' <=> HasPiece(u)
    BY <1>1, <2>1, <2>2 DEF HasPiece
  <2>4. piece'[t] = [from |-> position, read_count |-> n] /\ worker'[t] = "unlock"
    BY <1>1, <2>1, <2>2
  <2>5. position' % RecordSize = 0 \/ position' = filesize'
    <3>1. CASE n < piece_size
      BY <2>1, <2>2, <3>1
    <3>2. CASE n = piece_size /\ position % RecordSize = 0
      BY <1>1, <2>1, <3>2 DEF RecordSize
    <3>3. CASE n = 0
      BY <1>1, <2>1, <2>2, <3>3 DEF Pieces
    <3> QED BY <1>1, <2>1, <3>1, <3>2, <3>3
  <2>6. ASSUME NEW u \in Threads, HasPiece(u)' PROVE PieceOK(piece[u])'
    <3>1. CASE u = t
      BY <1>1, <2>1, <2>2, <2>4, <3>1 DEF PieceOK, End
    <3>2. CASE u # t
      <4>1. PieceOK(piece[u]) /\ piece'[u] = piece[u] /\ piece[u] \in [from : 0..filesize, read_count : 0..filesize]
        BY <1>1, <2>3, <2>6, <3>2 DEF Pieces
      <4> QED BY <1>1, <2>1, <2>2, <4>1 DEF PieceOK, End
    <3> QED BY <3>1, <3>2
  <2>7. ASSUME NEW u \in Threads \ {t}, HasPiece(u) PROVE End(piece[u]) <= position
    BY <2>7 DEF Pieces, PieceOK
  <2>8. ASSUME NEW u \in Threads, NEW v \in Threads, u # v, HasPiece(u)', HasPiece(v)'
        PROVE  Apart(piece[u], piece[v])'
    <3>1. CASE u # t /\ v # t
      BY <2>3, <2>8, <3>1 DEF Pieces, Apart, End
    <3>2. CASE u = t
      BY <2>3, <2>4, <2>7, <2>8, <3>2 DEF Apart, End
    <3>3. CASE v = t
      BY <2>3, <2>4, <2>7, <2>8, <3>3 DEF Apart, End
    <3> QED BY <3>1, <3>2, <3>3
  <2>9. ASSUME NEW u \in Threads, worker'[u] = "end" PROVE position' = filesize'
    <3>1. position = filesize
      BY <2>3, <2>4, <2>9 DEF Pieces
    <3> QED BY <1>1, <2>1, <2>2, <3>1
  <2> QED BY <2>5, <2>6, <2>8, <2>9 DEF Pieces
<1>4. ASSUME NEW t \in Threads, Count(t) PROVE Pieces'
  <2>1. /\ UNCHANGED <<position, piece, filesize>> /\ piece_size' = piece_size
        /\ worker' = [worker EXCEPT ![t] = IF LastPiece(piece[t]) THEN "end" ELSE "lock"]
        /\ worker[t] = "count"
    BY <1>4 DEF Count, options, piece_size
  <2>2. \A u \in Threads \ {t} : worker'[u] = worker[u] /\ (HasPiece(u)' <=> HasPiece(u))
    BY <1>1, <2>1 DEF HasPiece
  <2>3. ~HasPiece(t)' /\ (worker'[t] = "end" => LastPiece(piece[t]))
    BY <1>1, <2>1 DEF HasPiece
  <2>4. LastPiece(piece[t]) => position = filesize
    BY <1>1, <2>1 DEF Pieces, HasPiece, PieceOK, LastPiece, End
  <2> QED BY <2>1, <2>2, <2>3, <2>4 DEF Pieces, PieceOK, Apart, End
<1> QED BY <1>2, <1>3, <1>4

LEMMA CountedStep ==
  ASSUME AveragingTypeOK, Joined, Pieces, CountedSoFar, AveragingNext, main' # "error"
  PROVE  CountedSoFar'
<1>1. /\ filesize \in Nat /\ position \in 0..filesize
      /\ piece_size \in Nat /\ piece_size % RecordSize = 0
      /\ worker \in [Threads -> {"none", "lock", "read", "unlock", "count", "end"}]
      /\ piece \in [Threads -> [from : 0..filesize, read_count : 0..filesize]]
      /\ counted \in [Places -> Nat]
  BY PieceSize, AveragingAssumption DEF AveragingTypeOK, Threads
<1>2. ASSUME NEW t \in Threads, HasPiece(t), NEW place \in Places
      PROVE  InPiece(piece[t], place) <=> /\ place % RecordSize = 0
                                          /\ piece[t].from <= place
                                          /\ place + RecordSize <= End(piece[t])
  <2>1. piece[t] \in [from : Nat, read_count : Nat] /\ place \in Nat
    BY <1>1 DEF Places
  <2>2. piece[t].from % RecordSize = 0 \/ piece[t].read_count = 0
    BY <1>2 DEF Pieces, PieceOK
  <2> QED BY <2>1, <2>2, WholeNumbers
<1>3. CASE ~\E t \in Threads : Fread(t) \/ Count(t)
  <2>1. /\ UNCHANGED <<options, position, piece, counted>>
        /\ \A t \in Threads : HasPiece(t)' <=> HasPiece(t)
    BY <1>3, OtherSteps
  <2> QED BY <2>1 DEF CountedSoFar, Waits, options, Places, Number
<1>4. ASSUME NEW t \in Threads, Fread(t) PROVE CountedSoFar'
  <2>1. PICK n \in 0..filesize :
          /\ n <= piece_size
          /\ n < piece_size => position + n = filesize
          /\ position + n <= filesize
          /\ position' = position + n
          /\ piece' = [piece EXCEPT ![t] = [from |-> position, read_count |-> n]]
          /\ position % RecordSize = 0 \/ n = 0
    BY <1>4, ReadStep
  <2>2. /\ UNCHANGED <<options, counted>>
        /\ worker' = [worker EXCEPT ![t] = "unlock"] /\ worker[t] = "read"
    BY <1>4 DEF Fread
  <2>3. /\ \A u \in Threads \ {t} : piece'[u] = piece[u] /\ (HasPiece(u)' <=> HasPiece(u))
        /\ ~HasPiece(t) /\ HasPiece(t)'
    BY <1>1, <2>1, <2>2 DEF HasPiece
  <2> DEFINE p == [from |-> position, read_count |-> n]
  <2>4. piece'[t] = p /\ p \in [from : Nat, read_count : Nat]
    BY <1>1, <2>1
  <2>5. ASSUME NEW place \in Places
        PROVE  counted'[place] = IF Number(place) /\ place < position' /\ ~Waits(place)' THEN 1 ELSE 0
    <3>1. place \in Nat
      BY <1>1 DEF Places
    <3>2. Waits(place)' <=> Waits(place) \/ InPiece(p, place)
      BY <2>3, <2>4 DEF Waits
    <3>3. InPiece(p, place) <=> /\ place % RecordSize = 0
                                /\ position <= place
                                /\ place + RecordSize <= position + n
      BY <2>1, <2>4, <3>1, WholeNumbers DEF End
    <3>4. counted'[place] = IF Number(place) /\ place < position /\ ~Waits(place) THEN 1 ELSE 0
      BY <2>2 DEF CountedSoFar
    <3>5. CASE place < position
      BY <1>1, <2>1, <3>1, <3>2, <3>3, <3>4, <3>5
    <3>6. CASE Number(place) /\ position <= place /\ place < position + n
      <4>1. place % RecordSize = 0 /\ place + RecordSize <= filesize
        BY <3>6 DEF Number
      <4>2. CASE n < piece_size
        BY <2>1, <3>2, <3>3, <3>4, <3>6, <4>1, <4>2, <1>1, <3>1
      <4>3. CASE n = piece_size
        <5>1. position % RecordSize = 0
          BY <1>1, <2>1, <3>1, <3>6
        <5>2. place + RecordSize <= position + n
          BY <1>1, <2>1, <3>1, <3>6, <4>1, <4>3, <5>1, SMTT(60) DEF RecordSize
        <5> QED BY <1>1, <3>1, <3>2, <3>3, <3>4, <3>6, <4>1, <5>2
      <4> QED BY <1>1, <2>1, <4>2, <4>3
    <3>7. CASE position <= place /\ ~(Number(place) /\ place < position + n)
      BY <1>1, <2>1, <3>1, <3>4, <3>7
    <3> QED BY <1>1, <3>1, <3>5, <3>6, <3>7
  <2>6. Places' = Places /\ (\A place \in Places : Number(place)' <=> Number(place))
    BY <2>2 DEF options, Places, Number
  <2> QED BY <2>5, <2>6 DEF CountedSoFar
<1>5. ASSUME NEW t \in Threads, Count(t) PROVE CountedSoFar'
  <2>1. /\ UNCHANGED <<options, position, piece>>
        /\ worker' = [worker EXCEPT ![t] = IF LastPiece(piece[t]) THEN "end" ELSE "lock"]
        /\ worker[t] = "count"
    BY <1>5 DEF Count
  <2>2. counted' = [place \in Places |-> counted[place] + IF InPiece(piece[t], place) THEN 1 ELSE 0]
    BY <1>5 DEF Count
  <2>3. /\ \A u \in Threads \ {t} : HasPiece(u)' <=> HasPiece(u)
        /\ HasPiece(t) /\ ~HasPiece(t)'
    BY <1>1, <2>1 DEF HasPiece
  <2>4. ASSUME NEW place \in Places
        PROVE  counted'[place] = IF Number(place) /\ place < position /\ ~Waits(place)' THEN 1 ELSE 0
    <3>1. place \in Nat /\ counted[place] \in Nat
      BY <1>1 DEF Places
    <3>2. Waits(place)' <=> \E u \in Threads \ {t} : HasPiece(u) /\ InPiece(piece[u], place)
      BY <2>1, <2>3 DEF Waits
    <3>3. counted[place] = IF Number(place) /\ place < position /\ ~Waits(place) THEN 1 ELSE 0
      BY DEF CountedSoFar
    <3>4. CASE InPiece(piece[t], place)
      <4>1. Waits(place)
        BY <2>3, <3>4 DEF Waits
      <4>2. piece[t] \in [from : Nat, read_count : Nat] /\ End(piece[t]) \in Nat
        BY <1>1 DEF End
      <4>3. End(piece[t]) <= position
        BY <2>3 DEF Pieces, PieceOK
      <4>4. Number(place) /\ place < position
        BY <1>1, <1>2, <2>3, <3>1, <3>4, <4>2, <4>3 DEF Number, RecordSize
      <4>5. ASSUME NEW u \in Threads \ {t}, HasPiece(u), InPiece(piece[u], place)
            PROVE  FALSE
        <5>1. Apart(piece[t], piece[u])
          BY <2>3, <4>5 DEF Pieces
        <5>2. piece[u] \in [from : Nat, read_count : Nat] /\ End(piece[u]) \in Nat
          BY <1>1 DEF End
        <5> QED BY <1>2, <2>3, <3>1, <3>4, <4>2, <4>5, <5>1, <5>2 DEF Apart, RecordSize
      <4> QED BY <2>2, <3>2, <3>3, <3>4, <4>1, <4>4, <4>5
    <3>5. CASE ~InPiece(piece[t], place)
      <4>1. Waits(place)' <=> Waits(place)
        BY <3>2, <3>5 DEF Waits
      <4> QED BY <2>2, <3>1, <3>3, <3>5, <4>1
    <3> QED BY <3>4, <3>5
  <2>5. Places' = Places /\ (\A place \in Places : Number(place)' <=> Number(place))
    BY <2>1 DEF options, Places, Number
  <2> QED BY <2>1, <2>4, <2>5 DEF CountedSoFar
<1> QED BY <1>3, <1>4, <1>5

LEMMA StepInvariant == AveragingInv /\ [AveragingNext]_averagingVars => AveragingInv'
<1>1. ASSUME AveragingInv, AveragingNext PROVE AveragingInv'
  <2>1. AveragingTypeOK' /\ Joined'
    BY <1>1, AveragingTypeStep, JoinedStep DEF AveragingInv
  <2>2. main' # "error" => main # "error"
    BY <1>1 DEF AveragingNext, MainStep, Start, CreateThread, CreateFails, Created, JoinThread,
                PrintResult, WorkerStep, Lock, Fread, Unlock, Count
  <2>3. main' # "error" => Pieces' /\ CountedSoFar'
    BY <1>1, <2>2, PiecesStep, CountedStep DEF AveragingInv
  <2> QED BY <2>1, <2>3 DEF AveragingInv
<1>2. ASSUME AveragingInv, UNCHANGED averagingVars PROVE AveragingInv'
  BY <1>2 DEF AveragingInv, averagingVars, AveragingTypeOK, Joined, Pieces, PieceOK, Apart, End, HasPiece,
              CountedSoFar, Waits, Number, Places, piece_size
<1> QED BY <1>1, <1>2

LEMMA AveragingInvariant == AveragingSpec => []AveragingInv
BY AveragingInitInv, StepInvariant, PTL DEF AveragingSpec

-----------------------------------------------------------------------------
(* The results.                                                            *)

\* Whatever the number of threads and the file, the variables keep their types.
THEOREM AveragingTypeCorrect == AveragingSpec => []AveragingTypeOK
<1>1. AveragingInv => AveragingTypeOK
  BY DEF AveragingInv
<1> QED BY <1>1, AveragingInvariant, PTL

LEMMA AveragingInvKept == AveragingInv => MemoryKept
<1> SUFFICES ASSUME AveragingInv
             PROVE  MemoryKept
  OBVIOUS
<1>1. created \in 0..max_threads
  BY DEF AveragingInv, AveragingTypeOK
<1> QED BY <1>1, PieceSize DEF AveragingInv, MemoryKept

\* No number of threads uses more than the memory the user has allowed.
THEOREM MemoryCorrect == AveragingSpec => []MemoryKept
BY AveragingInvKept, AveragingInvariant, PTL

LEMMA AveragingInvOnce == AveragingInv => EachNumberOnce
<1> SUFFICES ASSUME AveragingInv, main = "done"
             PROVE  \A place \in Places : counted[place] = IF Number(place) THEN 1 ELSE 0
  BY DEF EachNumberOnce
<1>1. AveragingTypeOK /\ Joined /\ Pieces /\ CountedSoFar
  BY DEF AveragingInv
<1>2. max_threads \in 1..MaxThreads /\ created \in 0..max_threads /\ joined \in 0..created
      /\ MaxThreads \in Nat /\ joined = max_threads
  BY <1>1, AveragingAssumption DEF AveragingTypeOK, Joined
<1>3. \A t \in Threads : worker[t] \in {"none", "end"}
  BY <1>1, <1>2 DEF Joined, Threads
<1>4. position = filesize
  <2>1. 1 \in Threads /\ worker[1] = "end"
    BY <1>1, <1>2 DEF Joined, Threads
  <2> QED BY <1>1, <2>1 DEF Pieces
<1>5. ASSUME NEW place \in Places PROVE ~Waits(place) /\ (Number(place) => place < position)
  <2>1. ~Waits(place)
    BY <1>3 DEF Waits, HasPiece
  <2>2. place < position
    BY <1>1, <1>4, AveragingAssumption DEF Places, AveragingTypeOK
  <2> QED BY <2>1, <2>2
<1> QED BY <1>1, <1>5 DEF CountedSoFar

\* However many threads take pieces of however long a file in whatever order,
\* the result is made of all its numbers, each of them once.
THEOREM CountCorrect == AveragingSpec => []EachNumberOnce
BY AveragingInvOnce, AveragingInvariant, PTL

-----------------------------------------------------------------------------
(***************************************************************************)
(* ChatList, for any users, chats, texts, messages and answers under way.  *)
(*                                                                         *)
(* ScreenShowsAnswer compares what the client has with the last answer of  *)
(* the server.  The invariant says why the comparison of first rows does   *)
(* for the whole list: of all the lists of one user, those the server has, *)
(* those under way and those of the client, two that begin alike are the   *)
(* same, for every message that came in between would be first.            *)
(***************************************************************************)

\* The lists of one user, wherever they are.
Lists(u) ==
  {rows[u]} \cup {coming[k].rows : k \in {h \in 1..Len(coming) : coming[h].for = u}}
            \cup (IF u = user /\ ~leaving /\ ~late THEN {chat_list, answer} ELSE {})

\* The first row of a list was a message.
ListsSaid == \A u \in Users : \A y \in Lists(u) : y # <<>> => y[1] \in said

ListsSame ==
  \A u \in Users : \A y, z \in Lists(u) : y # <<>> /\ z # <<>> /\ y[1] = z[1] => y = z

\* The mark is on a row, and the screen shows both, also while an update is
\* under way.
MarkShown ==
  IF chat_list = <<>> THEN now_window = "chats" => screen = Blank
  ELSE now_choice \in 0..(Len(chat_list) - 1) /\ screen = Drawn(chat_list, now_choice)

ChatListInv ==
  /\ ChatListTypeOK
  /\ ListsSaid
  /\ ~repeated => ListsSame
  /\ ~undefined => MarkShown
  /\ \A k \in 1..Len(coming) : coming[k].rows # <<>>
  /\ updating => answer # <<>>
  /\ ~repeated /\ ~late /\ ~updating => chat_list = answer
  /\ ~late /\ (user = NoUser \/ leaving) => chat_list = <<>> /\ answer = <<>>

-----------------------------------------------------------------------------
(* The list with a message.                                                *)

LEMMA RowFound ==
  ASSUME NEW list \in Seq(Row), NEW c
  PROVE  /\ RowOf(list, c) \in 1..(Len(list) + 1)
         /\ RowOf(list, c) <= Len(list) => list[RowOf(list, c)].chat_name = c
         /\ (\E k \in 1..Len(list) : list[k].chat_name = c) => RowOf(list, c) <= Len(list)
<1>1. CASE \E k \in 1..Len(list) : list[k].chat_name = c
  <2>1. RowOf(list, c) = CHOOSE k \in 1..Len(list) : list[k].chat_name = c
    BY <1>1 DEF RowOf
  <2>2. RowOf(list, c) \in 1..Len(list) /\ list[RowOf(list, c)].chat_name = c
    BY <1>1, <2>1
  <2> QED BY <2>2
<1>2. CASE ~ \E k \in 1..Len(list) : list[k].chat_name = c
  BY <1>2 DEF RowOf
<1> QED BY <1>1, <1>2

LEMMA MessageFirst ==
  ASSUME NEW list \in Seq(Row), NEW row \in Row
  PROVE  /\ WithLast(list, row) \in Seq(Row)
         /\ WithLast(list, row) # <<>>
         /\ WithLast(list, row)[1] = row
         /\ \A h \in 1..Len(WithLast(list, row)) :
              \/ WithLast(list, row)[h] = row
              \/ \E j \in 1..Len(list) : WithLast(list, row)[h] = list[j]
<1> DEFINE old == RowOf(list, row.chat_name)
           new == WithLast(list, row)
           n == IF old <= Len(list) THEN Len(list) ELSE Len(list) + 1
<1>1. old \in 1..(Len(list) + 1) /\ Len(list) \in Nat
  BY RowFound
<1>2. 1..Len(list) \cup {old} = 1..n /\ n \in Nat /\ n > 0
  BY <1>1
<1>3. new = [h \in 1..n |-> IF h = 1 THEN row ELSE IF h <= old THEN list[h - 1] ELSE list[h]]
  BY <1>2 DEF WithLast
<1>4. ASSUME NEW h \in 1..n
      PROVE  new[h] = row \/ \E j \in 1..Len(list) : new[h] = list[j]
  <2>1. CASE h = 1
    BY <1>3, <2>1
  <2>2. CASE h # 1 /\ h <= old
    <3>1. new[h] = list[h - 1] /\ h - 1 \in 1..Len(list)
      BY <1>1, <1>3, <2>2
    <3> QED BY <3>1
  <2>3. CASE h # 1 /\ ~(h <= old)
    <3>1. new[h] = list[h] /\ h \in 1..Len(list)
      BY <1>1, <1>3, <2>3
    <3> QED BY <3>1
  <2> QED BY <2>1, <2>2, <2>3
<1>5. \A h \in 1..n : new[h] \in Row
  BY <1>4
<1>6. new \in [1..n -> Row]
  BY <1>3, <1>5
<1>7. new \in Seq(Row) /\ Len(new) = n
  BY <1>2, <1>6
<1>8. new[1] = row /\ new # <<>>
  BY <1>2, <1>3, <1>7
<1> HIDE DEF new
<1> QED BY <1>4, <1>7, <1>8 DEF new

-----------------------------------------------------------------------------
(* The actions.                                                            *)

LEMMA Chosen1 ==
  ASSUME NEW list \in Seq(Row), NEW k \in 0..(Len(list) - 1)
  PROVE  /\ NameAt(list, k) = list[k + 1].chat_name
         /\ NameAt(list, k) \in Chats
         /\ Drawn(list, k) \in [rows : Seq(Row), mark : Chats \cup {NoName}]
<1>1. k < Len(list) /\ k + 1 \in 1..Len(list)
  OBVIOUS
<1>2. list[k + 1] \in Row
  BY <1>1
<1> QED BY <1>1, <1>2 DEF NameAt, Drawn, Row

LEMMA BlankShown == Blank \in [rows : Seq(Row), mark : Chats \cup {NoName}]
  BY DEF Blank

LEMMA ChatListInitInv == ChatListInit => ChatListInv
<1> SUFFICES ASSUME ChatListInit
             PROVE  ChatListInv
  OBVIOUS
<1>1. <<>> \in Seq(Row) /\ <<>> \in Seq(Answers) /\ Len(<<>>) = 0
  OBVIOUS
<1>2. rows \in [Users -> Seq(Row)]
  BY <1>1 DEF ChatListInit
<1>3. ChatListTypeOK
  BY <1>1, <1>2, BlankShown DEF ChatListInit, ChatListTypeOK
<1>4. \A u \in Users : \A y \in Lists(u) : y = <<>>
  BY <1>1 DEF ChatListInit, Lists
<1>5. ListsSaid /\ ListsSame
  BY <1>4 DEF ListsSaid, ListsSame
<1>6. \A k \in 1..Len(coming) : coming[k].rows # <<>>
  BY <1>1 DEF ChatListInit
<1> QED BY <1>3, <1>5, <1>6 DEF ChatListInit, ChatListInv, MarkShown

\* Where no list is new, there is nothing to show of the lists.
LEMMA ListsKept ==
  ASSUME ListsSaid, said' = said, \A u \in Users : Lists(u)' \subseteq Lists(u) \cup {<<>>}
  PROVE  ListsSaid' /\ (ListsSame => ListsSame')
<1>1. ASSUME NEW u \in Users, NEW y \in Lists(u)', y # <<>>
      PROVE  y \in Lists(u)
  BY <1>1
<1>2. ListsSaid'
  BY <1>1 DEF ListsSaid
<1>3. ListsSame => ListsSame'
  BY <1>1 DEF ListsSame
<1> QED BY <1>2, <1>3

\* A message: no list begins with it yet, if it is new.
LEMMA MessageStep ==
  ASSUME ChatListInv, NEW c \in Chats, NEW text \in MessageTexts, NEW readers \in SUBSET Users,
         NewMessage(c, text, readers)
  PROVE  ChatListInv'
<1> DEFINE row == [chat_name |-> c, last_message |-> text]
<1>1. /\ row \in Row
      /\ rows \in [Users -> Seq(Row)] /\ said \subseteq Row /\ repeated \in BOOLEAN
      /\ said' = said \cup {row} /\ repeated' = (repeated \/ row \in said)
      /\ rows' = [u \in Users |-> IF u \in readers THEN WithLast(rows[u], row) ELSE rows[u]]
      /\ UNCHANGED <<user, asked, coming, now_window, chat_list, now_choice, screen,
                     leaving, answer, late, updating, undefined>>
  BY DEF ChatListInv, ChatListTypeOK, Row, NewMessage
<1> HIDE DEF row
<1>2. ASSUME NEW u \in Users
      PROVE  /\ rows'[u] \in Seq(Row)
             /\ rows'[u] = rows[u] \/ (rows'[u] # <<>> /\ rows'[u][1] = row)
  <2>1. rows[u] \in Seq(Row)
    BY <1>1
  <2>2. CASE u \in readers
    <3>1. rows'[u] = WithLast(rows[u], row)
      BY <1>1, <2>2
    <3> QED BY <1>1, <2>1, <3>1, MessageFirst
  <2>3. CASE u \notin readers
    <3>1. rows'[u] = rows[u]
      BY <1>1, <2>3
    <3> QED BY <2>1, <3>1
  <2> QED BY <2>2, <2>3
<1>3. rows' \in [Users -> Seq(Row)]
  BY <1>1, <1>2
<1>4. repeated' \in BOOLEAN /\ (~repeated' => ~repeated /\ row \notin said)
  BY <1>1
<1>5. ChatListTypeOK'
  BY <1>1, <1>3, <1>4 DEF ChatListInv, ChatListTypeOK
<1>6. ASSUME NEW u \in Users, NEW y \in Lists(u)'
      PROVE  y \in Lists(u) \/ (y = rows'[u] /\ y # <<>> /\ y[1] = row)
  <2>1. y = rows'[u] \/ y \in Lists(u)
    BY <1>1, <1>6 DEF Lists
  <2>2. rows[u] \in Lists(u)
    BY DEF Lists
  <2> QED BY <1>2, <2>1, <2>2
<1>7. ListsSaid'
  BY <1>1, <1>6 DEF ChatListInv, ListsSaid
<1>8. ASSUME ~repeated', NEW u \in Users, NEW y \in Lists(u), y # <<>>
      PROVE  y[1] # row
  BY <1>4, <1>8 DEF ChatListInv, ListsSaid
<1>9. ASSUME ~repeated', NEW u \in Users, NEW y \in Lists(u)', NEW z \in Lists(u)',
             y # <<>>, z # <<>>, y[1] = z[1]
      PROVE  y = z
  <2>1. CASE y \in Lists(u) /\ z \in Lists(u)
    BY <1>4, <1>9, <2>1 DEF ChatListInv, ListsSame
  <2>2. CASE y \notin Lists(u)
    <3>1. y = rows'[u] /\ y[1] = row
      BY <1>6, <1>9, <2>2
    <3>2. z \notin Lists(u)
      BY <1>8, <1>9, <3>1
    <3> QED BY <1>6, <1>9, <3>1, <3>2
  <2>3. CASE z \notin Lists(u)
    <3>1. z = rows'[u] /\ z[1] = row
      BY <1>6, <1>9, <2>3
    <3>2. y \notin Lists(u)
      BY <1>8, <1>9, <3>1
    <3> QED BY <1>6, <1>9, <3>1, <3>2
  <2> QED BY <2>1, <2>2, <2>3
<1>10. ~repeated' => ListsSame'
  BY <1>9 DEF ListsSame
<1>11. MarkShown' = MarkShown
  BY <1>1 DEF MarkShown
<1> QED BY <1>1, <1>4, <1>5, <1>7, <1>10, <1>11 DEF ChatListInv

\* The server's answer, and the client's request.
LEMMA ServeStep ==
  ASSUME ChatListInv, NEW u \in Users, Serve(u)
  PROVE  ChatListInv'
<1>1. /\ asked' \subseteq Users
      /\ UNCHANGED <<rows, said, repeated, user, now_window, chat_list, now_choice, screen,
                     leaving, answer, late, updating, undefined>>
  BY DEF Serve, serverVars, ChatListInv, ChatListTypeOK
<1>2. coming \in Seq(Answers) /\ rows[u] \in Seq(Row)
  BY DEF ChatListInv, ChatListTypeOK
<1>3. /\ coming' \in Seq(Answers)
      /\ \A k \in 1..Len(coming') :
           coming'[k].rows # <<>> /\ coming'[k].rows \in Lists(coming'[k].for)
  <2>1. ASSUME NEW k \in 1..Len(coming)
        PROVE  coming[k].rows # <<>> /\ coming[k].rows \in Lists(coming[k].for)
    BY DEF ChatListInv, Lists
  <2>2. CASE coming' = coming
    BY <1>2, <2>1, <2>2
  <2>3. CASE rows[u] # <<>> /\ coming' = Append(coming, [for |-> u, rows |-> rows[u]])
    <3> DEFINE new == [for |-> u, rows |-> rows[u]]
    <3>1. new \in Answers /\ new.for = u /\ new.rows = rows[u] /\ rows[u] \in Lists(u)
      BY <1>2 DEF Answers, Lists
    <3> HIDE DEF new
    <3>2. coming' = Append(coming, new)
      BY <2>3 DEF new
    <3>3. /\ coming' \in Seq(Answers) /\ Len(coming') = Len(coming) + 1 /\ Len(coming) \in Nat
          /\ coming'[Len(coming) + 1] = new
          /\ \A k \in 1..Len(coming) : coming'[k] = coming[k]
      BY <1>2, <3>1, <3>2
    <3>4. ASSUME NEW k \in 1..Len(coming')
          PROVE  coming'[k].rows # <<>> /\ coming'[k].rows \in Lists(coming'[k].for)
      <4>1. CASE k \in 1..Len(coming)
        BY <2>1, <3>3, <4>1
      <4>2. CASE k = Len(coming) + 1
        BY <2>3, <3>1, <3>3, <4>2
      <4> QED BY <3>3, <4>1, <4>2
    <3> QED BY <3>3, <3>4
  <2> QED BY <2>2, <2>3 DEF Serve
<1>4. ChatListTypeOK'
  BY <1>1, <1>3 DEF ChatListInv, ChatListTypeOK
<1>5. ASSUME NEW v \in Users, NEW y \in Lists(v)'
      PROVE  y \in Lists(v)
  <2>1. \/ y = rows[v]
        \/ \E k \in 1..Len(coming') : coming'[k].for = v /\ y = coming'[k].rows
        \/ v = user /\ ~leaving /\ ~late /\ y \in {chat_list, answer}
    BY <1>1, <1>5 DEF Lists
  <2>2. CASE y = rows[v] \/ (v = user /\ ~leaving /\ ~late /\ y \in {chat_list, answer})
    BY <2>2 DEF Lists
  <2>3. CASE \E k \in 1..Len(coming') : coming'[k].for = v /\ y = coming'[k].rows
    BY <1>3, <2>3
  <2> QED BY <2>1, <2>2, <2>3
<1>6. ListsSaid' /\ (ListsSame => ListsSame')
  BY <1>1, <1>5, ListsKept DEF ChatListInv
<1>7. MarkShown' = MarkShown
  BY <1>1 DEF MarkShown
<1> QED BY <1>1, <1>3, <1>4, <1>6, <1>7 DEF ChatListInv

\* The receiver takes an answer.
LEMMA UpdateBeginStep ==
  ASSUME ChatListInv, UpdateBegin
  PROVE  ChatListInv'
<1>1. PICK k \in 1..Len(coming) :
        /\ coming' = SubSeq(coming, k + 1, Len(coming))
        /\ answer' = coming[k].rows
        /\ updating' = ~(chat_list # <<>> /\ SameFirst(coming[k].rows, chat_list))
        /\ late' = (late \/ leaving \/ coming[k].for # user)
  BY DEF UpdateBegin
<1>2. /\ ~undefined
      /\ UNCHANGED <<rows, said, repeated, user, asked, now_window, chat_list, now_choice,
                     screen, leaving, undefined>>
  BY DEF UpdateBegin, serverVars
<1>3. /\ coming \in Seq(Answers) /\ Len(coming) \in Nat /\ late \in BOOLEAN
      /\ leaving \in BOOLEAN
  BY DEF ChatListInv, ChatListTypeOK
<1>4. /\ coming[k] \in Answers /\ coming[k].rows \in Seq(Row) /\ coming[k].rows # <<>>
      /\ coming[k].for \in Users
  <2>1. coming[k] \in Answers
    BY <1>3
  <2>2. coming[k].rows # <<>>
    BY DEF ChatListInv
  <2> QED BY <2>1, <2>2 DEF Answers
<1>5. /\ coming' \in Seq(Answers)
      /\ \A j \in 1..Len(coming') : \E h \in 1..Len(coming) : coming'[j] = coming[h]
  <2>1. /\ coming' \in Seq(Answers) /\ Len(coming') = Len(coming) - k
        /\ \A j \in 1..(Len(coming) - k) : coming'[j] = coming[k + j]
    BY <1>1, <1>3
  <2>2. \A j \in 1..(Len(coming) - k) : k + j \in 1..Len(coming)
    BY <1>3
  <2> QED BY <2>1, <2>2
<1>6. updating' \in BOOLEAN /\ late' \in BOOLEAN
  BY <1>1, <1>3
<1>7. ChatListTypeOK'
  BY <1>1, <1>2, <1>4, <1>5, <1>6 DEF ChatListInv, ChatListTypeOK
<1>8. ~late' => ~late /\ ~leaving /\ coming[k].for = user /\ user \in Users
  BY <1>1, <1>4
<1>9. /\ coming[k].rows \in Lists(coming[k].for)
      /\ ~late' => chat_list \in Lists(user)
  BY <1>8 DEF Lists
<1>10. ASSUME NEW v \in Users, NEW y \in Lists(v)'
       PROVE  y \in Lists(v)
  <2>1. \/ y = rows[v]
        \/ \E j \in 1..Len(coming') : coming'[j].for = v /\ y = coming'[j].rows
        \/ v = user /\ ~late' /\ y \in {chat_list, answer'}
    BY <1>2, <1>10 DEF Lists
  <2>2. CASE y = rows[v]
    BY <2>2 DEF Lists
  <2>3. CASE \E j \in 1..Len(coming') : coming'[j].for = v /\ y = coming'[j].rows
    <3>1. PICK h \in 1..Len(coming) : coming[h].for = v /\ y = coming[h].rows
      BY <1>5, <2>3
    <3> QED BY <3>1 DEF Lists
  <2>4. CASE v = user /\ ~late' /\ y \in {chat_list, answer'}
    BY <1>1, <1>8, <1>9, <2>4
  <2> QED BY <2>1, <2>2, <2>3, <2>4
<1>11. ListsSaid' /\ (ListsSame => ListsSame')
  BY <1>2, <1>10, ListsKept DEF ChatListInv
<1>12. ASSUME ~repeated', ~late', ~updating'
       PROVE  chat_list' = answer'
  <2>1. chat_list # <<>> /\ coming[k].rows[1] = chat_list[1]
    BY <1>1, <1>12 DEF SameFirst
  <2>2. ListsSame
    BY <1>2, <1>12 DEF ChatListInv
  <2>3. chat_list = coming[k].rows
    BY <1>4, <1>8, <1>9, <1>12, <2>1, <2>2 DEF ListsSame
  <2> QED BY <1>1, <1>2, <2>3
<1>13. ~late' => user' # NoUser /\ ~leaving'
  BY <1>2, <1>8, ChatListAssumption
<1>14. MarkShown' = MarkShown
  BY <1>2 DEF MarkShown
<1>15. answer' # <<>> /\ \A j \in 1..Len(coming') : coming'[j].rows # <<>>
  BY <1>1, <1>4, <1>5 DEF ChatListInv
<1> QED BY <1>2, <1>7, <1>11, <1>12, <1>13, <1>14, <1>15 DEF ChatListInv

\* The receiver has replaced the list.
LEMMA UpdateEndStep ==
  ASSUME ChatListInv, UpdateEnd
  PROVE  ChatListInv'
<1>1. /\ updating /\ updating' = FALSE /\ now_choice' = ChoiceInNew(answer)
      /\ chat_list' = answer /\ screen' = Drawn(answer, now_choice')
      /\ UNCHANGED <<rows, said, repeated, user, asked, coming, now_window, leaving, answer,
                     late, undefined>>
  BY DEF UpdateEnd, serverVars
<1>2. answer \in Seq(Row) /\ answer # <<>> /\ Len(answer) \in Nat /\ Len(answer) > 0
  BY <1>1 DEF ChatListInv, ChatListTypeOK
<1>3. now_choice' \in 0..(Len(answer) - 1)
  BY <1>1, <1>2, RowFound DEF ChoiceInNew
<1>4. screen' \in [rows : Seq(Row), mark : Chats \cup {NoName}]
  BY <1>1, <1>2, <1>3, Chosen1
<1>5. ChatListTypeOK'
  <2>1. now_choice' \in Nat
    BY <1>2, <1>3
  <2> QED BY <1>1, <1>2, <1>4, <2>1 DEF ChatListInv, ChatListTypeOK
<1>6. \A u \in Users : Lists(u)' \subseteq Lists(u)
  BY <1>1 DEF Lists
<1>7. ListsSaid' /\ (ListsSame => ListsSame')
  BY <1>1, <1>6, ListsKept DEF ChatListInv
<1>8. MarkShown'
  BY <1>1, <1>2, <1>3 DEF MarkShown
<1> QED BY <1>1, <1>2, <1>5, <1>7, <1>8 DEF ChatListInv

\* A move of the mark.
LEMMA MarkStep ==
  ASSUME ChatListInv, Down \/ Up
  PROVE  ChatListInv'
<1>1. /\ ~undefined
      /\ screen' = IF chat_list = <<>> THEN screen ELSE Drawn(chat_list, now_choice')
      /\ UNCHANGED <<rows, said, repeated, user, asked, coming, now_window, chat_list, leaving,
                     answer, late, updating, undefined>>
  BY DEF Down, Up, ListFree, serverVars
<1>2. chat_list \in Seq(Row) /\ now_choice \in Nat /\ Len(chat_list) \in Nat
      /\ screen \in [rows : Seq(Row), mark : Chats \cup {NoName}]
  BY DEF ChatListInv, ChatListTypeOK
<1>3. now_choice' \in Nat
  BY <1>2 DEF Down, Up
<1>4. chat_list # <<>> => now_choice' \in 0..(Len(chat_list) - 1)
  <2>1. chat_list # <<>> => Len(chat_list) > 0 /\ now_choice \in 0..(Len(chat_list) - 1)
    BY <1>1, <1>2 DEF ChatListInv, MarkShown
  <2> QED BY <1>2, <2>1 DEF Down, Up, MayGoDown
<1>5. screen' \in [rows : Seq(Row), mark : Chats \cup {NoName}]
  BY <1>1, <1>2, <1>4, Chosen1
<1>6. ChatListTypeOK'
  BY <1>1, <1>3, <1>5 DEF ChatListInv, ChatListTypeOK
<1>7. MarkShown'
  BY <1>1, <1>4 DEF ChatListInv, MarkShown
<1>8. \A u \in Users : Lists(u)' \subseteq Lists(u)
  BY <1>1 DEF Lists
<1>9. ListsSaid' /\ (ListsSame => ListsSame')
  BY <1>1, <1>8, ListsKept DEF ChatListInv
<1> QED BY <1>1, <1>6, <1>7, <1>9 DEF ChatListInv

\* The other keys.
LEMMA OtherKeyStep ==
  ASSUME ChatListInv, KeyMeanwhile \/ ToggleWindow \/ LogoutClear
  PROVE  ChatListInv'
<1>1. CASE KeyMeanwhile
  <2>1. /\ undefined' = TRUE
        /\ UNCHANGED <<rows, said, repeated, user, asked, coming, now_window, chat_list,
                       now_choice, screen, leaving, answer, late, updating>>
    BY <1>1 DEF KeyMeanwhile, serverVars
  <2>2. \A u \in Users : Lists(u)' \subseteq Lists(u)
    BY <2>1 DEF Lists
  <2>3. ListsSaid' /\ (ListsSame => ListsSame')
    BY <2>1, <2>2, ListsKept DEF ChatListInv
  <2> QED BY <2>1, <2>3 DEF ChatListInv, ChatListTypeOK
<1>2. CASE ToggleWindow
  <2>1. /\ ~undefined
        /\ now_window' \in {"input", "chats"}
        /\ screen' = IF now_window' = "chats" THEN InWindow ELSE screen
        /\ UNCHANGED <<rows, said, repeated, user, asked, coming, chat_list, now_choice,
                       leaving, answer, late, updating, undefined>>
    BY <1>2 DEF ToggleWindow, serverVars
  <2>2. \A u \in Users : Lists(u)' \subseteq Lists(u)
    BY <2>1 DEF Lists
  <2>3. ListsSaid' /\ (ListsSame => ListsSame')
    BY <2>1, <2>2, ListsKept DEF ChatListInv
  <2>4. MarkShown /\ screen \in [rows : Seq(Row), mark : Chats \cup {NoName}]
        /\ chat_list \in Seq(Row)
    BY <2>1 DEF ChatListInv, ChatListTypeOK
  <2>5. InWindow \in [rows : Seq(Row), mark : Chats \cup {NoName}]
    BY <2>4, BlankShown, Chosen1 DEF InWindow, MarkShown
  <2>6. screen' \in [rows : Seq(Row), mark : Chats \cup {NoName}]
    BY <2>1, <2>4, <2>5
  <2>7. MarkShown'
    <3>1. CASE chat_list = <<>>
      BY <2>1, <3>1 DEF MarkShown, InWindow
    <3>2. CASE chat_list # <<>>
      BY <2>1, <2>4, <3>2 DEF MarkShown, InWindow
    <3> QED BY <3>1, <3>2
  <2>8. ChatListTypeOK'
    BY <2>1, <2>6 DEF ChatListInv, ChatListTypeOK
  <2> QED BY <2>1, <2>3, <2>7, <2>8 DEF ChatListInv
<1>3. CASE LogoutClear
  <2>1. /\ chat_list' = <<>> /\ now_choice' = 0 /\ leaving' = (user # NoUser)
        /\ answer' = <<>> /\ late' = FALSE /\ ~updating /\ now_window = "input"
        /\ UNCHANGED <<rows, said, repeated, user, asked, coming, now_window, screen,
                       updating, undefined>>
    BY <1>3 DEF LogoutClear, ListFree, serverVars
  <2>2. ChatListTypeOK'
    <3>1. <<>> \in Seq(Row) /\ leaving' \in BOOLEAN
      BY <2>1
    <3> QED BY <2>1, <3>1 DEF ChatListInv, ChatListTypeOK
  <2>3. \A u \in Users : Lists(u)' \subseteq Lists(u) \cup {<<>>}
    BY <2>1 DEF Lists
  <2>4. ListsSaid' /\ (ListsSame => ListsSame')
    BY <2>1, <2>3, ListsKept DEF ChatListInv
  <2>5. MarkShown'
    BY <2>1 DEF MarkShown
  <2> QED BY <2>1, <2>2, <2>4, <2>5 DEF ChatListInv
<1> QED BY <1>1, <1>2, <1>3

\* The client's user asks, leaves, and another comes.
LEMMA UserStep ==
  ASSUME ChatListInv, Ask \/ LogoutPut \/ \E u \in Users : Login(u)
  PROVE  ChatListInv'
<1>1. /\ UNCHANGED <<rows, said, repeated, coming, now_window, chat_list, now_choice, screen,
                     answer, late, updating, undefined>>
      /\ MarkShown' = MarkShown
  BY DEF Ask, LogoutPut, Login, serverVars, MarkShown
<1>2. CASE Ask
  <2>1. asked' \subseteq Users /\ UNCHANGED <<user, leaving>>
    BY <1>2 DEF Ask, ChatListInv, ChatListTypeOK
  <2>2. \A u \in Users : Lists(u)' \subseteq Lists(u)
    BY <1>1, <2>1 DEF Lists
  <2>3. ListsSaid' /\ (ListsSame => ListsSame')
    BY <1>1, <2>2, ListsKept DEF ChatListInv
  <2> QED BY <1>1, <2>1, <2>3 DEF ChatListInv, ChatListTypeOK
<1>3. CASE LogoutPut
  <2>1. user' = NoUser /\ leaving' = FALSE /\ leaving /\ UNCHANGED asked
    BY <1>3 DEF LogoutPut
  <2>2. \A u \in Users : Lists(u)' \subseteq Lists(u)
    BY <1>1, <2>1, ChatListAssumption DEF Lists
  <2>3. ListsSaid' /\ (ListsSame => ListsSame')
    BY <1>1, <2>2, ListsKept DEF ChatListInv
  <2> QED BY <1>1, <2>1, <2>3 DEF ChatListInv, ChatListTypeOK
<1>4. ASSUME NEW u \in Users, Login(u)
      PROVE  ChatListInv'
  <2>1. user = NoUser /\ user' = u /\ UNCHANGED <<asked, leaving>>
    BY <1>4 DEF Login
  <2>2. ~late => chat_list = <<>> /\ answer = <<>>
    BY <2>1 DEF ChatListInv
  <2>3. \A v \in Users : Lists(v)' \subseteq Lists(v) \cup {<<>>}
    BY <1>1, <2>1, <2>2 DEF Lists
  <2>4. ListsSaid' /\ (ListsSame => ListsSame')
    BY <1>1, <2>3, ListsKept DEF ChatListInv
  <2> QED BY <1>1, <2>1, <2>2, <2>4 DEF ChatListInv, ChatListTypeOK
<1> QED BY <1>2, <1>3, <1>4

LEMMA ChatListStepInv == ChatListInv /\ [ChatListNext]_chatListVars => ChatListInv'
<1> SUFFICES ASSUME ChatListInv, [ChatListNext]_chatListVars
             PROVE  ChatListInv'
  OBVIOUS
<1>1. CASE \E c \in Chats, text \in MessageTexts, readers \in SUBSET Users :
             NewMessage(c, text, readers)
  BY <1>1, MessageStep
<1>2. CASE \E u \in Users : Serve(u)
  BY <1>2, ServeStep
<1>3. CASE UpdateBegin \/ UpdateEnd
  BY <1>3, UpdateBeginStep, UpdateEndStep
<1>4. CASE Key
  BY <1>4, MarkStep, OtherKeyStep DEF Key
<1>5. CASE Ask \/ LogoutPut \/ \E u \in Users : Login(u)
  BY <1>5, UserStep
<1>6. CASE UNCHANGED chatListVars
  <2>1. UNCHANGED <<rows, said, repeated, user, asked, coming, now_window, chat_list, now_choice,
                    screen, leaving, answer, late, updating, undefined>>
    BY <1>6 DEF chatListVars, serverVars
  <2>2. \A u \in Users : Lists(u)' \subseteq Lists(u)
    BY <2>1 DEF Lists
  <2>3. ListsSaid' /\ (ListsSame => ListsSame')
    BY <2>1, <2>2, ListsKept DEF ChatListInv
  <2> QED BY <2>1, <2>3 DEF ChatListInv, ChatListTypeOK, MarkShown
<1> QED BY <1>1, <1>2, <1>3, <1>4, <1>5, <1>6 DEF ChatListNext

LEMMA ChatListInvariant == ChatListSpec => []ChatListInv
BY ChatListInitInv, ChatListStepInv, PTL DEF ChatListSpec

-----------------------------------------------------------------------------
(* The results.                                                            *)

LEMMA ChatListInvScreen == ChatListInv => ScreenShowsAnswer
BY DEF ChatListInv, MarkShown, ScreenShowsAnswer, ListFree

\* For any number of users, chats and messages, and whatever keys are pressed
\* between two updates, the screen shows the chats of the last answer and the
\* mark that Enter acts on (tui.cpp:98-117, 238-299), also for a user who logs
\* in after another, unless an answer for the other has come after his list
\* was cleared (messenger.cpp:143-146).
THEOREM ScreenCorrect == ChatListSpec => []ScreenShowsAnswer
BY ChatListInvScreen, ChatListInvariant, PTL

\* An update of a list of any length leaves the mark on its chat (tui.cpp:275).
THEOREM ChoiceCorrect == ChatListSpec => ChoiceStays
<1>1. ASSUME ChatListInv, UpdateEnd, chat_list # <<>>,
             \E k \in 1..Len(answer) : answer[k].chat_name = Chosen
      PROVE  screen'.mark = screen.mark
  <2>1. /\ now_choice' = ChoiceInNew(answer) /\ screen' = Drawn(answer, now_choice')
        /\ ~undefined
    BY <1>1 DEF UpdateEnd
  <2>2. answer \in Seq(Row) /\ Len(answer) \in Nat
    BY <1>1 DEF ChatListInv, ChatListTypeOK
  <2>3. /\ RowOf(answer, Chosen) \in 1..Len(answer)
        /\ answer[RowOf(answer, Chosen)].chat_name = Chosen
    BY <1>1, <2>2, RowFound
  <2>4. now_choice' = RowOf(answer, Chosen) - 1
    BY <1>1, <2>1, <2>3 DEF ChoiceInNew
  <2>5. NameAt(answer, now_choice') = Chosen
    BY <2>2, <2>3, <2>4 DEF NameAt
  <2>6. screen'.mark = Chosen
    BY <2>1, <2>5 DEF Drawn
  <2>7. screen.mark = Chosen
    BY <1>1, <2>1 DEF ChatListInv, MarkShown, Drawn, Chosen
  <2> QED BY <2>6, <2>7
<1>2. ChatListInv /\ [ChatListNext]_chatListVars
        => [UpdateEnd /\ chat_list # <<>> /\ (\E k \in 1..Len(answer) : answer[k].chat_name = Chosen)
              => screen'.mark = screen.mark]_chatListVars
  BY <1>1
<1> QED BY <1>2, ChatListInvariant, PTL DEF ChatListSpec, ChoiceStays

-----------------------------------------------------------------------------
(***************************************************************************)
(* XorList, for any number of elements: what rm_list of lab6 promises.     *)
(*                                                                         *)
(* The ring of xor-linked elements is a sequence with an iterator.         *)
(***************************************************************************)

-----------------------------------------------------------------------------
(* Words, and rings of them.                                               *)

ElemPlaces == Elems \cup {Barrier}
Words == SUBSET ElemPlaces

\* Xor is commutative and associative, and its own inverse.
LEMMA XorFacts ==
  \A u, y, z : /\ Xor(u, y) = Xor(y, u)
               /\ Xor(Xor(u, y), z) = Xor(u, Xor(y, z))
               /\ Xor(u, u) = NULL /\ Xor(u, NULL) = u
<1>1. \A u, y : Xor(u, y) = Xor(y, u)
  BY DEF Xor
<1>2. \A u, y, z : Xor(Xor(u, y), z) = Xor(u, Xor(y, z))
  BY DEF Xor
<1>3. \A u : Xor(u, u) = NULL /\ Xor(u, NULL) = u
  BY DEF Xor, NULL
<1> QED BY <1>1, <1>2, <1>3

\* So in a word of two addresses one cancels against itself.
LEMMA XorCancels ==
  \A u, y : /\ Xor(Xor(u, y), u) = y /\ Xor(Xor(u, y), y) = u
            /\ Xor(u, Xor(u, y)) = y /\ Xor(u, Xor(y, u)) = y
<1> QED BY XorFacts

\* The xor of words is a word.
LEMMA XorWords ==
  /\ \A u, y \in Words : Xor(u, y) \in Words
  /\ \A e \in ElemPlaces : Ptr(e) \in Words
BY DEF Words, Xor, Ptr

LEMMA AtPtr == \A e : At(Ptr(e)) = e
<1> SUFFICES ASSUME NEW e PROVE At({e}) = e
  BY DEF Ptr
<1>1. Cardinality({e}) = 1
  BY FS_Singleton
<1>2. (CHOOSE d \in {e} : TRUE) = e
  OBVIOUS
<1> QED BY <1>1, <1>2 DEF At

LEMMA PtrInjective == \A d, e : Ptr(d) = Ptr(e) => d = e
BY DEF Ptr

\* The sequence of the elements in use, and the barrier before and after it.
Arrangement == {s \in Seq(Elems) : \A h, j \in 1..Len(s) : s[h] = s[j] => h = j}
Node(s, k) == IF k \in 1..Len(s) THEN s[k] ELSE Barrier
Before(s, k) == IF k = 0 THEN Node(s, Len(s)) ELSE Node(s, k - 1)

\* Each word is the xor of the neighbours.
Linked(w, s) ==
  \A k \in 0..Len(s) : w[Node(s, k)] = Xor(Ptr(Before(s, k)), Ptr(Node(s, k + 1)))

LEMMA NodeFacts ==
  ASSUME NEW s \in Arrangement
  PROVE  /\ Len(s) \in Nat /\ s \in Seq(Elems)
         /\ \A k \in Int : Node(s, k) \in ElemPlaces
         /\ \A k \in 1..Len(s) : Node(s, k) = s[k] /\ Node(s, k) \in Elems /\ Node(s, k) # Barrier
         /\ Node(s, 0) = Barrier /\ Node(s, Len(s) + 1) = Barrier
         /\ \A j, k \in 0..Len(s) : Node(s, j) = Node(s, k) => j = k
         /\ \A j, k \in 1..(Len(s) + 1) : Node(s, j) = Node(s, k) => j = k
<1>1. Len(s) \in Nat /\ s \in Seq(Elems) /\ \A h, j \in 1..Len(s) : s[h] = s[j] => h = j
  BY DEF Arrangement
<1>2. \A k \in 1..Len(s) : s[k] \in Elems
  BY <1>1
<1>3. Barrier \notin Elems
  BY ElemsAssumption
<1> QED BY <1>1, <1>2, <1>3 DEF Node, ElemPlaces

Inserted(s, p, e) ==
  [k \in 1..(Len(s) + 1) |-> IF k < p THEN s[k] ELSE IF k = p THEN e ELSE s[k - 1]]
Removed(s, p) == [k \in 1..(Len(s) - 1) |-> IF k < p THEN s[k] ELSE s[k + 1]]

LEMMA InsertedFacts ==
  ASSUME NEW s \in Arrangement, NEW p \in 1..(Len(s) + 1), NEW e \in Elems,
         \A k \in 1..Len(s) : s[k] # e
  PROVE  /\ Inserted(s, p, e) \in Arrangement /\ Len(Inserted(s, p, e)) = Len(s) + 1
         /\ \A k \in 0..(Len(s) + 2) :
              Node(Inserted(s, p, e), k) = IF k < p THEN Node(s, k)
                                           ELSE IF k = p THEN e ELSE Node(s, k - 1)
<1> DEFINE t == Inserted(s, p, e)
<1>1. Len(s) \in Nat /\ s \in Seq(Elems) /\ \A h, j \in 1..Len(s) : s[h] = s[j] => h = j
  BY DEF Arrangement
<1>2. \A k \in 1..(Len(s) + 1) :
        /\ t[k] = IF k < p THEN s[k] ELSE IF k = p THEN e ELSE s[k - 1]
        /\ t[k] \in Elems
  BY <1>1 DEF Inserted
<1>3. t \in Seq(Elems) /\ Len(t) = Len(s) + 1
  <2>1. t = [k \in 1..(Len(s) + 1) |-> t[k]] /\ Len(s) + 1 \in Nat
    BY <1>1 DEF Inserted
  <2> HIDE DEF t
  <2> QED BY <1>2, <2>1
<1>4. ASSUME NEW h \in 1..(Len(s) + 1), NEW j \in 1..(Len(s) + 1), t[h] = t[j]
      PROVE  h = j
  <2> HIDE DEF t
  <2> QED BY <1>1, <1>2, <1>4, SMTT(60)
<1>5. \A k \in 0..(Len(s) + 2) :
        Node(t, k) = IF k < p THEN Node(s, k) ELSE IF k = p THEN e ELSE Node(s, k - 1)
  <2> HIDE DEF t
  <2> QED BY <1>1, <1>2, <1>3 DEF Node
<1> HIDE DEF t
<1>6. t \in Arrangement
  BY <1>3, <1>4 DEF Arrangement
<1> QED BY <1>3, <1>5, <1>6 DEF t

LEMMA RemovedFacts ==
  ASSUME NEW s \in Arrangement, NEW p \in 1..Len(s)
  PROVE  /\ Removed(s, p) \in Arrangement /\ Len(Removed(s, p)) = Len(s) - 1
         /\ \A k \in 0..Len(s) :
              Node(Removed(s, p), k) = IF k < p THEN Node(s, k) ELSE Node(s, k + 1)
<1> DEFINE t == Removed(s, p)
<1>1. Len(s) \in Nat /\ s \in Seq(Elems) /\ \A h, j \in 1..Len(s) : s[h] = s[j] => h = j
  BY DEF Arrangement
<1>2. \A k \in 1..(Len(s) - 1) :
        /\ t[k] = IF k < p THEN s[k] ELSE s[k + 1]
        /\ t[k] \in Elems
  BY <1>1 DEF Removed
<1>3. t \in Seq(Elems) /\ Len(t) = Len(s) - 1
  <2>1. t = [k \in 1..(Len(s) - 1) |-> t[k]] /\ Len(s) - 1 \in Nat
    BY <1>1 DEF Removed
  <2> HIDE DEF t
  <2> QED BY <1>2, <2>1
<1>4. ASSUME NEW h \in 1..(Len(s) - 1), NEW j \in 1..(Len(s) - 1), t[h] = t[j]
      PROVE  h = j
  <2> HIDE DEF t
  <2> QED BY <1>1, <1>2, <1>4
<1>5. \A k \in 0..Len(s) : Node(t, k) = IF k < p THEN Node(s, k) ELSE Node(s, k + 1)
  <2> HIDE DEF t
  <2> QED BY <1>1, <1>2, <1>3 DEF Node
<1> HIDE DEF t
<1>6. t \in Arrangement
  BY <1>3, <1>4 DEF Arrangement
<1> QED BY <1>3, <1>5, <1>6 DEF t

\* list_iter_insert_before.
LEMMA InsertLinks ==
  ASSUME NEW s \in Arrangement, NEW p \in 1..(Len(s) + 1), NEW e \in Elems,
         \A k \in 1..Len(s) : s[k] # e, Len(s) > 0,
         NEW w, Linked(w, s), NEW v,
         v[e] = Xor(Ptr(Node(s, p)), Ptr(Node(s, p - 1))),
         v[Node(s, p - 1)] = Xor(Xor(Ptr(Node(s, p)), w[Node(s, p - 1)]), Ptr(e)),
         v[Node(s, p)] = Xor(Ptr(e), Xor(w[Node(s, p)], Ptr(Node(s, p - 1)))),
         \A u \in ElemPlaces : u \notin {e, Node(s, p - 1), Node(s, p)} => v[u] = w[u]
  PROVE  Linked(v, Inserted(s, p, e))
<1> DEFINE t == Inserted(s, p, e)
           n == Len(s)
<1>1. n \in Nat /\ n > 0 /\ Len(t) = n + 1 /\ p \in 1..(n + 1)
  BY NodeFacts, InsertedFacts
<1>2. \A k \in 0..(n + 2) : /\ k < p => Node(t, k) = Node(s, k)
                            /\ k = p => Node(t, k) = e
                            /\ k > p => Node(t, k) = Node(s, k - 1)
  BY InsertedFacts
<1>3. \A k \in 0..n : w[Node(s, k)] = Xor(Ptr(Before(s, k)), Ptr(Node(s, k + 1)))
  BY DEF Linked
<1>4. \A k \in 0..n : k > 0 => Before(s, k) = Node(s, k - 1)
  BY <1>1 DEF Before
<1>5. Before(s, 0) = Node(s, n) /\ Before(t, 0) = Node(t, n + 1)
  BY <1>1 DEF Before
<1>6. \A k \in 0..(n + 1) : k > 0 => Before(t, k) = Node(t, k - 1)
  BY <1>1 DEF Before
<1>7. /\ \A k \in 0..(n + 1) : Node(s, k) \in ElemPlaces /\ Node(s, k) # e
      /\ Node(s, 0) = Node(s, n + 1)
      /\ \A j, k \in 0..n : Node(s, j) = Node(s, k) => j = k
  <2>1. e # Barrier
    BY ElemsAssumption
  <2> QED BY <1>1, <2>1, NodeFacts
<1> HIDE DEF t, n
<1> SUFFICES ASSUME NEW k \in 0..(n + 1)
             PROVE  v[Node(t, k)] = Xor(Ptr(Before(t, k)), Ptr(Node(t, k + 1)))
  BY <1>1 DEF Linked, t
<1>8. CASE k = p
  <2>1. Node(t, k) = e /\ Before(t, k) = Node(s, p - 1) /\ Node(t, k + 1) = Node(s, p)
    <3>1. p + 1 \in 0..(n + 2) /\ p - 1 \in 0..(n + 2) /\ p \in 0..(n + 2) /\ p > 0
      BY <1>1, SMTT(60)
    <3>2. Node(t, p) = e /\ Node(t, p - 1) = Node(s, p - 1)
      BY <1>2, <3>1
    <3>3. Node(t, p + 1) = Node(s, (p + 1) - 1) /\ (p + 1) - 1 = p
      BY <1>2, <3>1
    <3>4. Before(t, p) = Node(t, p - 1)
      BY <1>6, <1>8, <3>1
    <3> QED BY <1>8, <3>2, <3>3, <3>4
  <2> QED BY <2>1, XorFacts
<1>9. CASE k = p - 1
  <2>1. Node(t, k) = Node(s, k) /\ Node(t, k + 1) = e
    BY <1>1, <1>2, <1>9
  <2>2. Before(t, k) = Before(s, k)
    <3>1. CASE k = 0
      <4>1. Node(t, n + 1) = Node(s, n)
        BY <1>1, <1>2, <1>9, <3>1
      <4> QED BY <1>5, <3>1, <4>1
    <3>2. CASE k > 0
      <4>1. Before(t, k) = Node(t, k - 1) /\ Before(s, k) = Node(s, k - 1)
        BY <1>1, <1>4, <1>6, <1>9, <3>2
      <4>2. Node(t, k - 1) = Node(s, k - 1)
        BY <1>1, <1>2, <1>9, <3>2
      <4> QED BY <4>1, <4>2
    <3> QED BY <3>1, <3>2
  <2>3. w[Node(s, k)] = Xor(Ptr(Before(s, k)), Ptr(Node(s, p)))
    BY <1>1, <1>3, <1>9
  <2> QED BY <1>9, <2>1, <2>2, <2>3, XorCancels
<1>10. CASE k = p + 1
  <2>1. Node(t, k) = Node(s, p) /\ Before(t, k) = e /\ Node(t, k + 1) = Node(s, p + 1) /\ p \in 1..n
    BY <1>1, <1>2, <1>6, <1>10
  <2>2. w[Node(s, p)] = Xor(Ptr(Node(s, p - 1)), Ptr(Node(s, p + 1)))
    BY <1>1, <1>3, <1>4, <2>1
  <2> QED BY <2>1, <2>2, XorCancels
<1>11. CASE k = 0 /\ p = n + 1
  <2>1. Node(t, k) = Node(s, 0) /\ Before(t, k) = e /\ Node(t, k + 1) = Node(s, 1)
    BY <1>1, <1>2, <1>5, <1>11
  <2>2. w[Node(s, 0)] = Xor(Ptr(Node(s, n)), Ptr(Node(s, 1)))
    BY <1>1, <1>3, <1>5
  <2>3. Node(s, 0) = Node(s, p) /\ p - 1 = n
    BY <1>1, <1>7, <1>11
  <2> QED BY <2>1, <2>2, <2>3, XorCancels
<1>12. CASE k < p - 1 /\ ~(k = 0 /\ p = n + 1)
  <2>1. Node(t, k) = Node(s, k) /\ Node(t, k + 1) = Node(s, k + 1)
    BY <1>1, <1>2, <1>12, SMTT(60)
  <2>2. Before(t, k) = Before(s, k)
    <3>1. CASE k = 0
      <4>1. Node(t, n + 1) = Node(s, n)
        BY <1>1, <1>2, <1>12, <3>1
      <4> QED BY <1>5, <3>1, <4>1
    <3>2. CASE k > 0
      <4>1. Before(t, k) = Node(t, k - 1) /\ Before(s, k) = Node(s, k - 1)
        BY <1>1, <1>4, <1>6, <1>12, <3>2, SMTT(60)
      <4>2. Node(t, k - 1) = Node(s, k - 1)
        BY <1>1, <1>2, <1>12, <3>2
      <4> QED BY <4>1, <4>2
    <3> QED BY <3>1, <3>2
  <2>3. Node(s, k) # Node(s, p - 1) /\ Node(s, k) # Node(s, p) /\ Node(s, k) \in ElemPlaces /\ Node(s, k) # e
    <3>1. CASE p = n + 1
      BY <1>1, <1>7, <1>12, <3>1
    <3>2. CASE p \in 1..n
      BY <1>1, <1>7, <1>12, <3>2
    <3> QED BY <1>1, <3>1, <3>2
  <2>4. w[Node(s, k)] = Xor(Ptr(Before(s, k)), Ptr(Node(s, k + 1)))
    BY <1>1, <1>3, <1>12, SMTT(60)
  <2>5. v[Node(s, k)] = w[Node(s, k)]
    BY <2>3
  <2> QED BY <2>1, <2>2, <2>4, <2>5
<1>13. CASE k > p + 1
  <2>1. Node(t, k) = Node(s, k - 1) /\ Node(t, k + 1) = Node(s, k) /\ Before(t, k) = Node(s, k - 2)
    <3>1. k + 1 \in 0..(n + 2) /\ k - 1 \in 0..(n + 2) /\ k \in 0..(n + 2) /\ k - 1 > p /\ k > 0
      BY <1>1, <1>13
    <3>2. Node(t, k) = Node(s, k - 1)
      BY <1>2, <1>13, <3>1
    <3>3. Node(t, k + 1) = Node(s, (k + 1) - 1)
      BY <1>2, <1>13, <3>1
    <3>4. Node(t, k - 1) = Node(s, (k - 1) - 1) /\ Before(t, k) = Node(t, k - 1)
      BY <1>2, <1>6, <3>1
    <3>5. (k + 1) - 1 = k /\ (k - 1) - 1 = k - 2
      OBVIOUS
    <3> QED BY <3>2, <3>3, <3>4, <3>5
  <2>2. k - 1 \in 1..n /\ p \in 1..n /\ k - 1 # p /\ k - 1 # p - 1
    BY <1>1, <1>13
  <2>3. Node(s, k - 1) # Node(s, p - 1) /\ Node(s, k - 1) # Node(s, p)
        /\ Node(s, k - 1) \in ElemPlaces /\ Node(s, k - 1) # e
    BY <1>1, <1>7, <2>2, SMTT(60)
  <2>4. w[Node(s, k - 1)] = Xor(Ptr(Before(s, k - 1)), Ptr(Node(s, k))) /\ Before(s, k - 1) = Node(s, k - 2)
    BY <1>1, <1>3, <1>4, <2>2, SMTT(60)
  <2>5. v[Node(s, k - 1)] = w[Node(s, k - 1)]
    BY <2>3
  <2> QED BY <2>1, <2>4, <2>5
<1>14. k = p \/ k = p - 1 \/ k = p + 1 \/ (k = 0 /\ p = n + 1)
       \/ (k < p - 1 /\ ~(k = 0 /\ p = n + 1)) \/ k > p + 1
  BY <1>1
<1> QED BY <1>8, <1>9, <1>10, <1>11, <1>12, <1>13, <1>14

\* list_iter_remove.  With one element, the previous one is the next.
LEMMA RemoveLinks ==
  ASSUME NEW s \in Arrangement, NEW p \in 1..Len(s),
         NEW w, Linked(w, s), NEW v,
         Node(s, p - 1) # Node(s, p + 1) =>
           /\ v[Node(s, p - 1)] = Xor(Xor(Ptr(Node(s, p)), w[Node(s, p - 1)]), Ptr(Node(s, p + 1)))
           /\ v[Node(s, p + 1)] = Xor(Xor(w[Node(s, p + 1)], Ptr(Node(s, p))), Ptr(Node(s, p - 1))),
         Node(s, p - 1) = Node(s, p + 1) =>
           v[Node(s, p - 1)] =
             Xor(Xor(Xor(Xor(Ptr(Node(s, p)), w[Node(s, p - 1)]), Ptr(Node(s, p + 1))),
                     Ptr(Node(s, p))), Ptr(Node(s, p - 1))),
         \A u \in ElemPlaces : u \notin {Node(s, p - 1), Node(s, p), Node(s, p + 1)} => v[u] = w[u]
  PROVE  Linked(v, Removed(s, p))
<1> DEFINE t == Removed(s, p)
           n == Len(s)
<1>1. n \in Nat /\ n > 0 /\ Len(t) = n - 1 /\ p \in 1..n
  BY NodeFacts, RemovedFacts
<1>2. \A k \in 0..n : /\ k < p => Node(t, k) = Node(s, k)
                      /\ k >= p => Node(t, k) = Node(s, k + 1)
  BY <1>1, RemovedFacts
<1>3. \A k \in 0..n : w[Node(s, k)] = Xor(Ptr(Before(s, k)), Ptr(Node(s, k + 1)))
  BY DEF Linked
<1>4. \A k \in 0..n : k > 0 => Before(s, k) = Node(s, k - 1)
  BY <1>1 DEF Before
<1>5. Before(s, 0) = Node(s, n) /\ Before(t, 0) = Node(t, n - 1)
  BY <1>1 DEF Before
<1>6. \A k \in 0..(n - 1) : k > 0 => Before(t, k) = Node(t, k - 1)
  BY <1>1 DEF Before
<1>7. /\ \A k \in 0..(n + 1) : Node(s, k) \in ElemPlaces
      /\ Node(s, 0) = Node(s, n + 1)
      /\ \A j, k \in 0..n : Node(s, j) = Node(s, k) => j = k
  BY <1>1, NodeFacts
<1> HIDE DEF t, n
<1> SUFFICES ASSUME NEW k \in 0..(n - 1)
             PROVE  v[Node(t, k)] = Xor(Ptr(Before(t, k)), Ptr(Node(t, k + 1)))
  BY <1>1 DEF Linked, t
<1>8. CASE n = 1
  <2>1. k = 0 /\ p = 1
    BY <1>1, <1>8
  <2>2. Node(t, 0) = Node(s, 0) /\ Node(t, 1) = Node(s, 0) /\ Before(t, 0) = Node(s, 0)
        /\ Node(s, 2) = Node(s, 0)
    BY <1>1, <1>2, <1>5, <1>7, <1>8, <2>1
  <2>3. w[Node(s, 0)] = Xor(Ptr(Node(s, 1)), Ptr(Node(s, 1)))
    BY <1>1, <1>3, <1>5, <1>8
  <2>4. v[Node(s, 0)] = Xor(Xor(Xor(Xor(Ptr(Node(s, 1)), w[Node(s, 0)]), Ptr(Node(s, 0))),
                            Ptr(Node(s, 1))), Ptr(Node(s, 0)))
    BY <2>1, <2>2
  <2>5. v[Node(s, 0)] = Xor(Ptr(Node(s, 0)), Ptr(Node(s, 0)))
    BY <2>3, <2>4, XorCancels
  <2> QED BY <2>1, <2>2, <2>5
<1>9. CASE n > 1
  <2>1. Node(s, p - 1) # Node(s, p + 1)
    <3>1. CASE p = n
      BY <1>1, <1>7, <1>9, <3>1
    <3>2. CASE p < n
      BY <1>1, <1>7, <1>9, <3>2
    <3> QED BY <1>1, <3>1, <3>2
  <2>2. CASE k = p - 1
    <3>1. Node(t, k) = Node(s, k) /\ Node(t, k + 1) = Node(s, p + 1)
      BY <1>1, <1>2, <2>2, SMTT(60)
    <3>2. Before(t, k) = Before(s, k)
      <4>1. CASE k = 0
        <5>1. Node(t, n - 1) = Node(s, n)
          BY <1>1, <1>2, <1>9, <2>2, <4>1
        <5> QED BY <1>5, <4>1, <5>1
      <4>2. CASE k > 0
        <5>1. Before(t, k) = Node(t, k - 1) /\ Before(s, k) = Node(s, k - 1)
          BY <1>1, <1>4, <1>6, <4>2, SMTT(60)
        <5>2. Node(t, k - 1) = Node(s, k - 1)
          BY <1>1, <1>2, <2>2, <4>2
        <5> QED BY <5>1, <5>2
      <4> QED BY <4>1, <4>2
    <3>3. w[Node(s, k)] = Xor(Ptr(Before(s, k)), Ptr(Node(s, p)))
      BY <1>1, <1>3, <2>2
    <3> QED BY <2>1, <2>2, <3>1, <3>2, <3>3, XorCancels
  <2>3. CASE k = p
    <3>1. Node(t, k) = Node(s, p + 1) /\ Before(t, k) = Node(s, p - 1) /\ Node(t, k + 1) = Node(s, p + 2)
      BY <1>1, <1>2, <1>6, <2>3
    <3>2. w[Node(s, p + 1)] = Xor(Ptr(Node(s, p)), Ptr(Node(s, p + 2)))
      BY <1>1, <1>3, <1>4, <2>3, SMTT(60)
    <3> QED BY <2>1, <3>1, <3>2, XorCancels, XorFacts
  <2>4. CASE k = 0 /\ p = n
    <3>1. Node(t, k) = Node(s, 0) /\ Before(t, k) = Node(s, p - 1) /\ Node(t, k + 1) = Node(s, 1)
      BY <1>1, <1>2, <1>5, <1>9, <2>4
    <3>2. w[Node(s, 0)] = Xor(Ptr(Node(s, p)), Ptr(Node(s, 1))) /\ Node(s, 0) = Node(s, p + 1)
      BY <1>1, <1>3, <1>5, <1>7, <2>4
    <3> QED BY <2>1, <3>1, <3>2, XorCancels, XorFacts
  <2>5. CASE k < p - 1 /\ ~(k = 0 /\ p = n)
    <3>1. Node(t, k) = Node(s, k) /\ Node(t, k + 1) = Node(s, k + 1)
      BY <1>1, <1>2, <2>5, SMTT(60)
    <3>2. Before(t, k) = Before(s, k)
      <4>1. CASE k = 0
        <5>1. Node(t, n - 1) = Node(s, n)
          BY <1>1, <1>2, <1>9, <2>5, <4>1
        <5> QED BY <1>5, <4>1, <5>1
      <4>2. CASE k > 0
        <5>1. Before(t, k) = Node(t, k - 1) /\ Before(s, k) = Node(s, k - 1)
          BY <1>1, <1>4, <1>6, <4>2
        <5>2. Node(t, k - 1) = Node(s, k - 1)
          BY <1>1, <1>2, <2>5, <4>2
        <5> QED BY <5>1, <5>2
      <4> QED BY <4>1, <4>2
    <3>3. Node(s, k) \in ElemPlaces /\ Node(s, k) \notin {Node(s, p - 1), Node(s, p), Node(s, p + 1)}
      <4>1. CASE p = n
        BY <1>1, <1>7, <2>5, <4>1
      <4>2. CASE p < n
        BY <1>1, <1>7, <2>5, <4>2
      <4> QED BY <1>1, <4>1, <4>2
    <3>4. w[Node(s, k)] = Xor(Ptr(Before(s, k)), Ptr(Node(s, k + 1)))
      BY <1>1, <1>3
    <3> QED BY <3>1, <3>2, <3>3, <3>4
  <2>6. CASE k > p
    <3>0. k \in 0..n /\ k + 1 \in 0..n /\ k - 1 \in 0..n /\ k > 0 /\ k - 1 >= p
      BY <1>1, <2>6
    <3>1. Node(t, k) = Node(s, k + 1) /\ Node(t, k + 1) = Node(s, k + 2) /\ Before(t, k) = Node(s, k)
      <4>1. Node(t, k) = Node(s, k + 1)
        BY <1>2, <2>6, <3>0, SMTT(60)
      <4>2. Node(t, k + 1) = Node(s, (k + 1) + 1)
        BY <1>2, <2>6, <3>0
      <4>3. Node(t, k - 1) = Node(s, (k - 1) + 1) /\ Before(t, k) = Node(t, k - 1)
        BY <1>2, <1>6, <3>0
      <4>4. (k + 1) + 1 = k + 2 /\ (k - 1) + 1 = k
        OBVIOUS
      <4> QED BY <4>1, <4>2, <4>3, <4>4
    <3>2. k + 1 \in 1..n /\ p + 1 \in 1..n
      BY <1>1, <2>6
    <3>3. Node(s, k + 1) \in ElemPlaces /\ Node(s, k + 1) \notin {Node(s, p - 1), Node(s, p), Node(s, p + 1)}
      BY <1>1, <1>7, <2>6, <3>2
    <3>4. w[Node(s, k + 1)] = Xor(Ptr(Before(s, k + 1)), Ptr(Node(s, k + 2))) /\ Before(s, k + 1) = Node(s, k)
      BY <1>1, <1>3, <1>4, <3>2, SMTT(60)
    <3> QED BY <3>1, <3>3, <3>4
  <2>7. k = p - 1 \/ k = p \/ (k = 0 /\ p = n) \/ (k < p - 1 /\ ~(k = 0 /\ p = n)) \/ k > p
    BY <1>1
  <2> QED BY <2>2, <2>3, <2>4, <2>5, <2>6, <2>7
<1> QED BY <1>1, <1>8, <1>9

-----------------------------------------------------------------------------
(* The invariant: there is a sequence of elements that the words link, and  *)
(* the iterator stands at one of its places, or after the last.            *)

IteratorAt(s, p) == [prev |-> Ptr(Node(s, p - 1)), cur |-> Ptr(Node(s, p))]

InUse(s) == \A e \in Elems : val[e] # Empty <=> \E k \in 1..Len(s) : s[k] = e

Arranged(s, p) ==
  /\ p \in 1..(Len(s) + 1)
  /\ pn \in [ElemPlaces -> Words]
  /\ val \in [ElemPlaces -> Records \cup {Empty}]
  /\ InUse(s)
  /\ size = Len(s)
  /\ first = Ptr(Node(s, 1))
  /\ it = IteratorAt(s, p)
  /\ Linked(pn, s)

ListInv == \E s \in Arrangement : \E p \in Nat : Arranged(s, p)

\* The iterators of the code, at the places of the sequence.
LEMMA Iterators ==
  ASSUME NEW s \in Arrangement, size = Len(s), first = Ptr(Node(s, 1)), Linked(pn, s)
  PROVE  /\ IterBegin = IteratorAt(s, 1)
         /\ IterEnd = IteratorAt(s, Len(s) + 1)
         /\ \A p \in 1..Len(s) : /\ GetNext(IteratorAt(s, p)) = Ptr(Node(s, p + 1))
                                 /\ Advanced(IteratorAt(s, p)) = IteratorAt(s, p + 1)
                                 /\ IteratorAt(s, p) # IterEnd
         /\ \A j, k \in 1..(Len(s) + 1) : IteratorAt(s, j) = IteratorAt(s, k) => j = k
<1>1. Len(s) \in Nat /\ Node(s, 0) = Barrier /\ Node(s, Len(s) + 1) = Barrier
  BY NodeFacts
<1>2. IterBegin = IteratorAt(s, 1)
  BY <1>1 DEF IterBegin, IteratorAt
<1>3. pn[Barrier] = Xor(Ptr(Node(s, Len(s))), Ptr(Node(s, 1)))
  <2>1. pn[Node(s, 0)] = Xor(Ptr(Before(s, 0)), Ptr(Node(s, 0 + 1)))
    BY <1>1 DEF Linked
  <2> QED BY <1>1, <2>1 DEF Before
<1>4. IterEnd = IteratorAt(s, Len(s) + 1)
  <2>1. Xor(pn[Barrier], first) = Ptr(Node(s, Len(s)))
    BY <1>3, XorCancels
  <2> QED BY <1>1, <2>1 DEF IterEnd, IteratorAt
<1>5. \A j, k \in 1..(Len(s) + 1) : IteratorAt(s, j) = IteratorAt(s, k) => j = k
  <2> SUFFICES ASSUME NEW j \in 1..(Len(s) + 1), NEW k \in 1..(Len(s) + 1),
                      IteratorAt(s, j) = IteratorAt(s, k)
               PROVE  j = k
    OBVIOUS
  <2>1. Node(s, j) = Node(s, k)
    BY PtrInjective DEF IteratorAt
  <2> QED BY <2>1, NodeFacts
<1>6. ASSUME NEW p \in 1..Len(s)
      PROVE  /\ GetNext(IteratorAt(s, p)) = Ptr(Node(s, p + 1))
             /\ Advanced(IteratorAt(s, p)) = IteratorAt(s, p + 1)
             /\ IteratorAt(s, p) # IterEnd
  <2>1. pn[Node(s, p)] = Xor(Ptr(Node(s, p - 1)), Ptr(Node(s, p + 1)))
    BY <1>1 DEF Linked, Before
  <2>2. IteratorAt(s, p).cur = Ptr(Node(s, p)) /\ IteratorAt(s, p).prev = Ptr(Node(s, p - 1))
    BY DEF IteratorAt
  <2>3. GetNext(IteratorAt(s, p)) = Ptr(Node(s, p + 1))
    BY <2>1, <2>2, AtPtr, XorCancels DEF GetNext
  <2>4. Advanced(IteratorAt(s, p)) = IteratorAt(s, p + 1)
    <3>1. (p + 1) - 1 = p
      OBVIOUS
    <3> QED BY <2>2, <2>3, <3>1 DEF Advanced, IteratorAt
  <2>5. IteratorAt(s, p) # IterEnd
    <3>1. p # Len(s) + 1 /\ p \in 1..(Len(s) + 1) /\ Len(s) + 1 \in 1..(Len(s) + 1)
      BY <1>1
    <3> QED BY <1>4, <1>5, <3>1
  <2> QED BY <2>3, <2>4, <2>5
<1> QED BY <1>2, <1>4, <1>5, <1>6

LEMMA InitInv == ListInit => ListInv
<1> SUFFICES ASSUME ListInit PROVE ListInv
  OBVIOUS
<1>1. <<>> \in Seq(Elems) /\ Len(<<>>) = 0
  OBVIOUS
<1>2. <<>> \in Arrangement
  BY <1>1 DEF Arrangement
<1>3. \A k \in Int : Node(<<>>, k) = Barrier
  BY <1>1 DEF Node
<1>4. Linked(pn, <<>>)
  <2>1. Before(<<>>, 0) = Barrier
    BY <1>1, <1>3 DEF Before
  <2>2. pn[Barrier] = NULL
    BY DEF ListInit
  <2> QED BY <1>1, <1>3, <2>1, <2>2, XorFacts DEF Linked
<1>5. InUse(<<>>)
  BY <1>1 DEF InUse, ListInit
<1>6. it = IteratorAt(<<>>, 1) /\ first = Ptr(Node(<<>>, 1))
  BY <1>3 DEF ListInit, IteratorAt
<1>7. pn \in [ElemPlaces -> Words] /\ val \in [ElemPlaces -> Records \cup {Empty}]
  BY DEF ListInit, ElemPlaces, Words, NULL
<1>8. Arranged(<<>>, 1)
  BY <1>1, <1>4, <1>5, <1>6, <1>7 DEF Arranged, ListInit
<1> QED BY <1>2, <1>8 DEF ListInv

\* What each call makes of the arrangement.
LEMMA BeginArranged ==
  ASSUME NEW s \in Arrangement, NEW p \in Nat, Arranged(s, p), Begin
  PROVE  Arranged(s, 1)'
BY Iterators, NodeFacts DEF Arranged, Begin, InUse

LEMMA MoveArranged ==
  ASSUME NEW s \in Arrangement, NEW p \in Nat, Arranged(s, p), MoveNext
  PROVE  p \in 1..Len(s) /\ Arranged(s, p + 1)'
<1>1. Len(s) \in Nat /\ p \in 1..(Len(s) + 1)
  BY NodeFacts DEF Arranged
<1>2. it # IterEnd /\ it = IteratorAt(s, p) /\ it' = Advanced(it)
  BY DEF MoveNext, Arranged
<1>3. p \in 1..Len(s)
  BY <1>1, <1>2, Iterators DEF Arranged
<1>4. it' = IteratorAt(s, p + 1)
  BY <1>2, <1>3, Iterators DEF Arranged
<1> QED BY <1>1, <1>3, <1>4 DEF Arranged, MoveNext, InUse

LEMMA SetArranged ==
  ASSUME NEW s \in Arrangement, NEW p \in Nat, Arranged(s, p), NEW r \in Records, SetRecord(r)
  PROVE  p \in 1..Len(s) /\ Arranged(s, p)' /\ val' = [val EXCEPT ![s[p]] = r]
<1>1. Len(s) \in Nat /\ p \in 1..(Len(s) + 1)
  BY NodeFacts DEF Arranged
<1>2. it # IterEnd /\ it = IteratorAt(s, p) /\ val' = [val EXCEPT ![At(it.cur)] = r]
  BY DEF SetRecord, Arranged
<1>3. p \in 1..Len(s)
  BY <1>1, <1>2, Iterators DEF Arranged
<1>4. At(it.cur) = s[p] /\ s[p] \in Elems /\ s[p] \in ElemPlaces
  BY <1>2, <1>3, AtPtr, NodeFacts DEF IteratorAt, ElemPlaces
<1>5. val' = [val EXCEPT ![s[p]] = r] /\ val \in [ElemPlaces -> Records \cup {Empty}]
  BY <1>2, <1>4 DEF Arranged
<1>6. InUse(s)'
  <2>1. r # Empty
    BY ElemsAssumption
  <2>2. \A e \in Elems : val'[e] = IF e = s[p] THEN r ELSE val[e]
    BY <1>4, <1>5 DEF ElemPlaces
  <2> QED BY <1>3, <2>1, <2>2 DEF InUse, Arranged
<1>7. val' \in [ElemPlaces -> Records \cup {Empty}]
  BY <1>5
<1> QED BY <1>1, <1>3, <1>5, <1>6, <1>7 DEF Arranged, SetRecord

LEMMA InsertArranged ==
  ASSUME NEW s \in Arrangement, NEW p \in Nat, Arranged(s, p), NEW r \in Records, InsertBefore(r)
  PROVE  \E e \in Elems : /\ \A k \in 1..Len(s) : s[k] # e
                          /\ Arranged(Inserted(s, p, e), p + 1)'
                          /\ val' = [val EXCEPT ![e] = r]
<1>1. Len(s) \in Nat /\ p \in 1..(Len(s) + 1) /\ it = IteratorAt(s, p)
  BY NodeFacts DEF Arranged
<1>2. PICK e \in Elems :
        /\ val[e] = Empty
        /\ val' = [val EXCEPT ![e] = r]
        /\ pn' = [pn EXCEPT ![e] = Xor(it.cur, it.prev),
                            ![At(it.prev)] = IF size > 0 THEN Xor(GetPrevBefore(it), Ptr(e)) ELSE @,
                            ![At(it.cur)] = IF size > 0 THEN Xor(Ptr(e), GetNext(it)) ELSE @]
        /\ it' = IteratorAfter(e)
        /\ size' = size + 1
        /\ first' = FirstWithNew(e)
  BY DEF InsertBefore
<1> DEFINE t == Inserted(s, p, e)
           P == Node(s, p - 1)
           C == Node(s, p)
<1>3. \A k \in 1..Len(s) : s[k] # e
  BY <1>2 DEF Arranged, InUse
<1>4. t \in Arrangement /\ Len(t) = Len(s) + 1
      /\ \A k \in 0..(Len(s) + 2) :
           Node(t, k) = IF k < p THEN Node(s, k) ELSE IF k = p THEN e ELSE Node(s, k - 1)
  BY <1>1, <1>3, InsertedFacts
<1>5. it.cur = Ptr(C) /\ it.prev = Ptr(P) /\ At(it.cur) = C /\ At(it.prev) = P
  BY <1>1, AtPtr DEF IteratorAt
<1>6. P \in ElemPlaces /\ C \in ElemPlaces /\ e \in ElemPlaces /\ e # P /\ e # C
  <2>1. e # Barrier
    BY ElemsAssumption
  <2> QED BY <1>1, <1>3, <2>1, NodeFacts DEF ElemPlaces, Node
<1>7. DOMAIN pn = ElemPlaces /\ pn = [u \in ElemPlaces |-> pn[u]]
  BY DEF Arranged
<1> HIDE DEF t, P, C
<1>8. pn' = [pn EXCEPT ![e] = Xor(Ptr(C), Ptr(P)),
                       ![P] = IF size > 0 THEN Xor(Xor(Ptr(C), pn[P]), Ptr(e)) ELSE @,
                       ![C] = IF size > 0 THEN Xor(Ptr(e), Xor(pn[C], Ptr(P))) ELSE @]
  BY <1>2, <1>5 DEF GetNext, GetPrevBefore
<1>9. pn' \in [ElemPlaces -> Words]
  <2>1. /\ pn[P] \in Words /\ pn[C] \in Words
        /\ Ptr(P) \in Words /\ Ptr(C) \in Words /\ Ptr(e) \in Words
    BY <1>6, XorWords DEF Arranged
  <2>2. /\ Xor(Ptr(C), Ptr(P)) \in Words
        /\ Xor(Xor(Ptr(C), pn[P]), Ptr(e)) \in Words
        /\ Xor(Ptr(e), Xor(pn[C], Ptr(P))) \in Words
    BY <2>1, XorWords
  <2>3. pn \in [ElemPlaces -> Words]
    BY DEF Arranged
  <2> QED BY <1>8, <2>2, <2>3
<1>10. Linked(pn', t)
  <2>1. CASE Len(s) > 0
    <3>1. P # C
      <4>1. CASE p = Len(s) + 1
        BY <1>1, <2>1, <4>1, NodeFacts DEF P, C
      <4>2. CASE p \in 1..Len(s)
        BY <1>1, <4>2, NodeFacts DEF P, C
      <4> QED BY <1>1, <4>1, <4>2
    <3>2. size > 0 /\ Linked(pn, s)
      BY <2>1 DEF Arranged
    <3>3. /\ pn'[e] = Xor(Ptr(C), Ptr(P))
          /\ pn'[P] = Xor(Xor(Ptr(C), pn[P]), Ptr(e))
          /\ pn'[C] = Xor(Ptr(e), Xor(pn[C], Ptr(P)))
          /\ \A u \in ElemPlaces : u \notin {e, P, C} => pn'[u] = pn[u]
      BY <1>6, <1>7, <1>8, <3>1, <3>2
    <3> QED BY <1>1, <1>3, <2>1, <3>2, <3>3, InsertLinks DEF P, C, t
  <2>2. CASE Len(s) = 0
    <3>1. p = 1 /\ P = Barrier /\ C = Barrier /\ size = 0
      BY <1>1, <2>2 DEF P, C, Node, Arranged
    <3>2. pn[Barrier] = NULL
      <4>1. pn[Node(s, 0)] = Xor(Ptr(Before(s, 0)), Ptr(Node(s, 0 + 1)))
        BY <2>2 DEF Arranged, Linked
      <4>2. Node(s, 0) = Barrier /\ Node(s, 0 + 1) = Barrier /\ Before(s, 0) = Barrier
        BY <2>2 DEF Node, Before
      <4> QED BY <4>1, <4>2, XorFacts
    <3>3. pn'[e] = Xor(Ptr(Barrier), Ptr(Barrier)) /\ pn'[Barrier] = pn[Barrier]
      <4>1. /\ pn'[e] = Xor(Ptr(C), Ptr(P))
            /\ pn'[Barrier] = pn[Barrier]
        BY <1>6, <1>7, <1>8, <3>1
      <4> QED BY <3>1, <4>1
    <3>4. pn'[e] = NULL /\ pn'[Barrier] = NULL
      BY <3>2, <3>3, XorFacts
    <3>5. Len(t) = 1 /\ Node(t, 0) = Barrier /\ Node(t, 1) = e /\ Node(t, 2) = Barrier
      BY <1>1, <1>4, <2>2, <3>1, NodeFacts
    <3>6. Before(t, 0) = e /\ Before(t, 1) = Barrier
      BY <3>5 DEF Before
    <3>7. Xor(Ptr(Barrier), Ptr(Barrier)) = NULL /\ Xor(Ptr(e), Ptr(e)) = NULL
      BY XorFacts
    <3>8. \A k \in 0..1 : k = 0 \/ k = 1
      OBVIOUS
    <3>9. 0 + 1 = 1 /\ 1 + 1 = 2
      OBVIOUS
    <3> QED BY <3>4, <3>5, <3>6, <3>7, <3>8, <3>9 DEF Linked
  <2> QED BY <1>1, <2>1, <2>2
<1>11. it' = IteratorAt(t, p + 1)
  <2>1. it' = [prev |-> Ptr(e), cur |-> Ptr(C)]
    BY <1>1, <1>2 DEF IteratorAfter, IteratorAt, C
  <2>2. Node(t, p) = e /\ Node(t, p + 1) = C
    <3>1. p + 1 \in 0..(Len(s) + 2) /\ p \in 0..(Len(s) + 2) /\ (p + 1) - 1 = p
      BY <1>1
    <3>2. Node(t, p) = e
      BY <1>4, <3>1
    <3>3. Node(t, p + 1) = Node(s, (p + 1) - 1)
      BY <1>1, <1>4, <3>1
    <3> QED BY <3>1, <3>2, <3>3 DEF C
  <2>3. (p + 1) - 1 = p
    BY <1>1
  <2> QED BY <2>1, <2>2, <2>3 DEF IteratorAt
<1>12. first' = Ptr(Node(t, 1))
  <2>1. first = Ptr(Node(s, 1)) /\ it.cur = Ptr(C)
    BY <1>5 DEF Arranged
  <2>2. it.cur = first <=> p = 1
    <3>1. 1 \in 1..(Len(s) + 1) /\ (C = Node(s, 1) => p = 1)
      BY <1>1, NodeFacts DEF C
    <3> QED BY <2>1, <3>1, PtrInjective DEF C
  <2>3. Node(t, 1) = IF p = 1 THEN e ELSE Node(s, 1)
    BY <1>1, <1>4
  <2> QED BY <1>2, <2>1, <2>2, <2>3 DEF FirstWithNew
<1>13. InUse(t)'
  <2>1. r # Empty
    BY ElemsAssumption
  <2>2. \A u \in Elems : val'[u] = IF u = e THEN r ELSE val[u]
    BY <1>2 DEF Arranged, ElemPlaces
  <2>3. \A u \in Elems : (\E k \in 1..Len(t) : t[k] = u) <=> u = e \/ \E k \in 1..Len(s) : s[k] = u
    <3>1. \A k \in 1..(Len(s) + 1) : t[k] = IF k < p THEN s[k] ELSE IF k = p THEN e ELSE s[k - 1]
      BY DEF t, Inserted
    <3>2. ASSUME NEW k \in 1..Len(s)
          PROVE  \E j \in 1..(Len(s) + 1) : t[j] = s[k]
      <4>1. CASE k < p
        BY <1>1, <3>1, <4>1
      <4>2. CASE k >= p
        <5>1. k + 1 \in 1..(Len(s) + 1) /\ t[k + 1] = s[k]
          BY <1>1, <3>1, <4>2
        <5> QED BY <5>1
      <4> QED BY <1>1, <4>1, <4>2
    <3>3. ASSUME NEW j \in 1..(Len(s) + 1)
          PROVE  t[j] = e \/ \E k \in 1..Len(s) : s[k] = t[j]
      BY <1>1, <3>1
    <3>4. t[p] = e /\ p \in 1..Len(t)
      BY <1>1, <1>4, <3>1
    <3> QED BY <1>4, <3>2, <3>3, <3>4, ZenonT(60)
  <2> QED BY <2>1, <2>2, <2>3, SMTT(60) DEF InUse, Arranged
<1>14. val' \in [ElemPlaces -> Records \cup {Empty}]
  BY <1>2 DEF Arranged
<1>15. size' = Len(t) /\ p + 1 \in 1..(Len(t) + 1)
  BY <1>1, <1>2, <1>4 DEF Arranged
<1>16. Arranged(t, p + 1)'
  BY <1>9, <1>10, <1>11, <1>12, <1>13, <1>14, <1>15 DEF Arranged
<1> QED BY <1>2, <1>3, <1>16 DEF t

LEMMA RemoveArranged ==
  ASSUME NEW s \in Arrangement, NEW p \in Nat, Arranged(s, p), RemoveRecord
  PROVE  p \in 1..Len(s) /\ Arranged(Removed(s, p), p)' /\ val' = [val EXCEPT ![s[p]] = Empty]
<1>1. Len(s) \in Nat /\ p \in 1..(Len(s) + 1) /\ it = IteratorAt(s, p) /\ size = Len(s)
  BY NodeFacts DEF Arranged
<1>2. p \in 1..Len(s)
  BY <1>1, Iterators DEF Arranged, RemoveRecord
<1> DEFINE t == Removed(s, p)
           P == Node(s, p - 1)
           C == Node(s, p)
           N == Node(s, p + 1)
<1>3. t \in Arrangement /\ Len(t) = Len(s) - 1
      /\ \A k \in 0..Len(s) : Node(t, k) = IF k < p THEN Node(s, k) ELSE Node(s, k + 1)
  BY <1>2, RemovedFacts
<1>4. it.cur = Ptr(C) /\ it.prev = Ptr(P) /\ At(it.cur) = C /\ At(it.prev) = P
  BY <1>1, AtPtr DEF IteratorAt
<1>5. GetNext(it) = Ptr(N) /\ At(GetNext(it)) = N
  BY <1>1, <1>2, Iterators, AtPtr DEF Arranged
<1>6. P \in ElemPlaces /\ C \in ElemPlaces /\ N \in ElemPlaces /\ C # P /\ C # N /\ C = s[p] /\ C \in Elems
  <2>1. \A k \in 0..(Len(s) + 1) : Node(s, k) = Node(s, p) => k = p
    BY <1>1, <1>2, NodeFacts
  <2>2. p - 1 \in 0..(Len(s) + 1) /\ p + 1 \in 0..(Len(s) + 1) /\ p - 1 # p /\ p + 1 # p
    BY <1>1, <1>2
  <2> QED BY <1>1, <1>2, <2>1, <2>2, NodeFacts
<1>7. DOMAIN pn = ElemPlaces /\ pn = [u \in ElemPlaces |-> pn[u]]
  BY DEF Arranged
<1> HIDE DEF t, P, C, N
<1> DEFINE w1 == [pn EXCEPT ![P] = Xor(Xor(Ptr(C), pn[P]), Ptr(N))]
<1>8. pn' = [w1 EXCEPT ![N] = Xor(Xor(w1[N], Ptr(C)), Ptr(P))]
  BY <1>4, <1>5 DEF RemoveRecord, Unlinked, GetPrevBefore
<1>9. w1[P] = Xor(Xor(Ptr(C), pn[P]), Ptr(N)) /\ (\A u \in ElemPlaces : u # P => w1[u] = pn[u])
      /\ DOMAIN w1 = ElemPlaces /\ w1 = [u \in ElemPlaces |-> w1[u]]
  BY <1>6, <1>7
<1> HIDE DEF w1
<1>10. pn'[N] = Xor(Xor(w1[N], Ptr(C)), Ptr(P)) /\ (\A u \in ElemPlaces : u # N => pn'[u] = w1[u])
       /\ DOMAIN pn' = ElemPlaces /\ pn' = [u \in ElemPlaces |-> pn'[u]]
  BY <1>6, <1>8, <1>9
<1>21. pn' \in [ElemPlaces -> Words]
  <2>1. /\ \A u \in ElemPlaces : pn[u] \in Words
        /\ Ptr(P) \in Words /\ Ptr(C) \in Words /\ Ptr(N) \in Words
    BY <1>6, XorWords DEF Arranged
  <2>2. \A u \in ElemPlaces : w1[u] \in Words
    <3>1. w1[P] \in Words
      BY <1>6, <1>9, <2>1, XorWords
    <3> QED BY <1>9, <2>1, <3>1
  <2>3. \A u \in ElemPlaces : pn'[u] \in Words
    <3>1. pn'[N] \in Words
      BY <1>6, <1>10, <2>1, <2>2, XorWords
    <3> QED BY <1>10, <2>2, <3>1
  <2> QED BY <1>10, <2>3
<1>11. Linked(pn', t)
  <2>1. P # N => /\ pn'[P] = Xor(Xor(Ptr(C), pn[P]), Ptr(N))
                 /\ pn'[N] = Xor(Xor(pn[N], Ptr(C)), Ptr(P))
    BY <1>6, <1>9, <1>10
  <2>2. P = N => pn'[P] = Xor(Xor(Xor(Xor(Ptr(C), pn[P]), Ptr(N)), Ptr(C)), Ptr(P))
    BY <1>9, <1>10
  <2>3. \A u \in ElemPlaces : u \notin {P, C, N} => pn'[u] = pn[u]
    BY <1>9, <1>10
  <2>4. Linked(pn, s)
    BY DEF Arranged
  <2> QED BY <1>2, <2>1, <2>2, <2>3, <2>4, RemoveLinks DEF P, C, N, t
<1>12. Node(t, p) = N /\ Node(t, p - 1) = P
  <2>1. p \in 0..Len(s) /\ p - 1 \in 0..Len(s) /\ p - 1 < p
    BY <1>1, <1>2
  <2> QED BY <1>3, <2>1 DEF N, P
<1>13. it' = IteratorAt(t, p)
  <2>1. it' = [prev |-> Ptr(P), cur |-> Ptr(N)]
    BY <1>1, <1>5 DEF RemoveRecord, IteratorAt, P
  <2> QED BY <1>12, <2>1 DEF IteratorAt
<1>14. first' = Ptr(Node(t, 1))
  <2>1. first = Ptr(Node(s, 1)) /\ it.cur = Ptr(C)
    BY <1>4 DEF Arranged
  <2>2. it.cur = first <=> p = 1
    <3>1. 1 \in 1..(Len(s) + 1) /\ (C = Node(s, 1) => p = 1)
      BY <1>1, NodeFacts DEF C
    <3> QED BY <2>1, <3>1, PtrInjective DEF C
  <2>3. CASE p = 1
    BY <1>5, <1>12, <2>2, <2>3 DEF RemoveRecord
  <2>4. CASE p # 1
    <3>1. Node(t, 1) = Node(s, 1)
      BY <1>1, <1>2, <1>3, <2>4
    <3> QED BY <2>1, <2>2, <2>4, <3>1 DEF RemoveRecord
  <2> QED BY <2>3, <2>4
<1>15. val' = [val EXCEPT ![s[p]] = Empty] /\ s[p] \in Elems
  BY <1>4, <1>6 DEF RemoveRecord
<1>16. InUse(t)'
  <2>1. \A u \in Elems : val'[u] = IF u = s[p] THEN Empty ELSE val[u]
    BY <1>15 DEF Arranged, ElemPlaces
  <2>2. \A u \in Elems : (\E k \in 1..Len(t) : t[k] = u) <=> u # s[p] /\ \E k \in 1..Len(s) : s[k] = u
    <3>1. \A k \in 1..(Len(s) - 1) : t[k] = IF k < p THEN s[k] ELSE s[k + 1]
      BY DEF t, Removed
    <3>2. ASSUME NEW k \in 1..Len(s), k # p
          PROVE  \E j \in 1..(Len(s) - 1) : t[j] = s[k]
      <4>1. CASE k < p
        BY <1>1, <1>2, <3>1, <4>1
      <4>2. CASE k > p
        <5>1. k - 1 \in 1..(Len(s) - 1) /\ t[k - 1] = s[k]
          BY <1>1, <1>2, <3>1, <4>2
        <5> QED BY <5>1
      <4> QED BY <1>1, <3>2, <4>1, <4>2
    <3>3. ASSUME NEW j \in 1..(Len(s) - 1)
          PROVE  t[j] # s[p] /\ \E k \in 1..Len(s) : s[k] = t[j]
      <4>1. \A k, l \in 1..Len(s) : s[k] = s[l] => k = l
        BY DEF Arrangement
      <4>2. CASE j < p
        BY <1>1, <1>2, <3>1, <4>1, <4>2
      <4>3. CASE j >= p
        <5>1. t[j] = s[j + 1] /\ j + 1 \in 1..Len(s) /\ j + 1 # p
          BY <1>1, <1>2, <3>1, <4>3
        <5> QED BY <1>2, <4>1, <5>1
      <4> QED BY <1>1, <1>2, <4>2, <4>3
    <3> QED BY <1>3, <3>2, <3>3, ZenonT(60)
  <2> QED BY <2>1, <2>2 DEF InUse, Arranged
<1>17. val' \in [ElemPlaces -> Records \cup {Empty}]
  BY <1>15 DEF Arranged
<1>18. size' = Len(t) /\ p \in 1..(Len(t) + 1)
  BY <1>1, <1>2, <1>3 DEF RemoveRecord
<1>19. Arranged(t, p)'
  BY <1>11, <1>13, <1>14, <1>16, <1>17, <1>18, <1>21 DEF Arranged
<1> QED BY <1>2, <1>15, <1>19 DEF t

LEMMA NextInv == ListInv /\ [ListNext]_listVars => ListInv'
<1> SUFFICES ASSUME NEW s \in Arrangement, NEW p \in Nat, Arranged(s, p), [ListNext]_listVars
             PROVE  ListInv'
  BY DEF ListInv
<1>1. Len(s) \in Nat /\ p \in 1..(Len(s) + 1)
  BY NodeFacts DEF Arranged
<1>2. CASE Begin
  <2>1. Arranged(s, 1)'
    BY <1>2, BeginArranged
  <2> QED BY <2>1 DEF ListInv
<1>3. CASE MoveNext
  <2>1. Arranged(s, p + 1)' /\ p + 1 \in Nat
    BY <1>3, MoveArranged
  <2> QED BY <2>1 DEF ListInv
<1>4. CASE RemoveRecord
  <2>1. Arranged(Removed(s, p), p)' /\ p \in 1..Len(s)
    BY <1>4, RemoveArranged
  <2>2. Removed(s, p) \in Arrangement
    BY <2>1, RemovedFacts
  <2> QED BY <2>1, <2>2 DEF ListInv
<1>5. ASSUME NEW r \in Records, SetRecord(r)
      PROVE  ListInv'
  <2>1. Arranged(s, p)'
    BY <1>5, SetArranged
  <2> QED BY <2>1 DEF ListInv
<1>6. ASSUME NEW r \in Records, InsertBefore(r)
      PROVE  ListInv'
  <2>1. PICK e \in Elems : (\A k \in 1..Len(s) : s[k] # e) /\ Arranged(Inserted(s, p, e), p + 1)'
    BY <1>6, InsertArranged
  <2>2. Inserted(s, p, e) \in Arrangement /\ p + 1 \in Nat
    BY <1>1, <2>1, InsertedFacts
  <2> QED BY <2>1, <2>2 DEF ListInv
<1>7. CASE UNCHANGED listVars
  <2>1. Arranged(s, p)'
    BY <1>7 DEF listVars, Arranged, InUse
  <2> QED BY <2>1 DEF ListInv
<1> QED BY <1>2, <1>3, <1>4, <1>5, <1>6, <1>7 DEF ListNext

-----------------------------------------------------------------------------
(* A loop from the beginning.                                              *)

\* It goes through the places of the sequence, one after the other.
LEMMA WalkPlaces ==
  ASSUME NEW s \in Arrangement, size = Len(s), first = Ptr(Node(s, 1)), Linked(pn, s)
  PROVE  \A k \in 0..size : Walk[k] = IteratorAt(s, k + 1)
<1> DEFINE g == [k \in 0..size |-> IteratorAt(s, k + 1)]
<1>1. Len(s) \in Nat /\ size \in Nat
  BY NodeFacts
<1>2. IterBegin = IteratorAt(s, 1) /\ \A p \in 1..Len(s) : Advanced(IteratorAt(s, p)) = IteratorAt(s, p + 1)
  BY Iterators
<1>3. g = [k \in 0..size |-> IF k = 0 THEN IterBegin ELSE Advanced(g[k - 1])]
  <2> SUFFICES ASSUME NEW k \in 0..size
               PROVE  g[k] = IF k = 0 THEN IterBegin ELSE Advanced(g[k - 1])
    OBVIOUS
  <2>1. CASE k = 0
    BY <1>1, <1>2, <2>1
  <2>2. CASE k # 0
    <3>1. k - 1 \in 0..size /\ k \in 1..Len(s) /\ (k - 1) + 1 = k
      BY <1>1, <2>2
    <3>2. g[k - 1] = IteratorAt(s, k)
      BY <3>1
    <3> QED BY <1>2, <2>2, <3>1, <3>2
  <2> QED BY <2>1, <2>2
<1>4. Walk = [k \in 0..size |-> IF k = 0 THEN IterBegin ELSE Advanced(Walk[k - 1])]
  <2>1. \E h : h = [k \in 0..size |-> IF k = 0 THEN IterBegin ELSE Advanced(h[k - 1])]
    <3> HIDE DEF g
    <3> QED BY <1>3
  <2> QED BY <2>1, Zenon DEF Walk
<1> DEFINE S == {k \in Nat : k <= size => Walk[k] = g[k]}
<1> HIDE DEF g
<1>5. 0 \in S
  BY <1>1, <1>3, <1>4
<1>6. ASSUME NEW k \in Nat, k \in S PROVE k + 1 \in S
  <2> SUFFICES ASSUME k + 1 <= size PROVE Walk[k + 1] = g[k + 1]
    OBVIOUS
  <2>1. k + 1 \in 0..size /\ k + 1 # 0 /\ (k + 1) - 1 = k /\ k <= size
    BY <1>1
  <2>2. Walk[k] = g[k]
    BY <1>6, <2>1
  <2>3. Walk[k + 1] = Advanced(Walk[(k + 1) - 1])
    BY <1>4, <2>1
  <2>4. g[k + 1] = Advanced(g[(k + 1) - 1])
    BY <1>3, <2>1
  <2> QED BY <2>1, <2>2, <2>3, <2>4
<1>7. Nat \subseteq S
  <2> HIDE DEF S
  <2> QED BY <1>5, <1>6, Induction
<1>8. \A k \in 0..size : Walk[k] = g[k]
  BY <1>1, <1>7
<1> QED BY <1>8 DEF g

-----------------------------------------------------------------------------
(* The theorems.                                                           *)

LEMMA Invariance == ListSpec => []ListInv
<1> QED BY InitInv, NextInv, PTL DEF ListSpec

LEMMA WalkElements ==
  ASSUME NEW s \in Arrangement, NEW p \in Nat, Arranged(s, p)
  PROVE  \A k \in 0..(size - 1) : At(Walk[k].cur) = s[k + 1] /\ s[k + 1] \in Elems
<1> SUFFICES ASSUME NEW k \in 0..(size - 1)
             PROVE  At(Walk[k].cur) = s[k + 1] /\ s[k + 1] \in Elems
  OBVIOUS
<1>1. k \in 0..size /\ k + 1 \in 1..Len(s)
  BY NodeFacts DEF Arranged
<1>2. Walk[k] = IteratorAt(s, k + 1)
  BY <1>1, WalkPlaces DEF Arranged
<1>3. Walk[k].cur = Ptr(Node(s, k + 1))
  BY <1>2 DEF IteratorAt
<1> QED BY <1>1, <1>3, AtPtr, NodeFacts

LEMMA ListInvWhole == ListInv => RingWhole
<1> SUFFICES ASSUME NEW s \in Arrangement, NEW p \in Nat, Arranged(s, p)
             PROVE  RingWhole
  BY DEF ListInv
<1>1. Len(s) \in Nat /\ size = Len(s)
  BY NodeFacts DEF Arranged
<1>2. \A k \in 0..size : Walk[k] = IteratorAt(s, k + 1)
  BY WalkPlaces DEF Arranged
<1>3. IterEnd = IteratorAt(s, Len(s) + 1)
      /\ \A j, k \in 1..(Len(s) + 1) : IteratorAt(s, j) = IteratorAt(s, k) => j = k
  BY Iterators DEF Arranged
<1>4. Walk[size] = IterEnd
  BY <1>1, <1>2, <1>3
<1>5. ASSUME NEW k \in 0..(size - 1) PROVE Walk[k] # IterEnd
  <2>1. k \in 0..size /\ k + 1 \in 1..(Len(s) + 1) /\ Len(s) + 1 \in 1..(Len(s) + 1) /\ k + 1 # Len(s) + 1
    BY <1>1
  <2> QED BY <1>2, <1>3, <2>1
<1>6. {e \in Elems : val[e] # Empty} = {At(Walk[k].cur) : k \in 0..(size - 1)}
  <2>1. \A k \in 0..(size - 1) : At(Walk[k].cur) = s[k + 1] /\ s[k + 1] \in Elems
    BY WalkElements
  <2>2. ASSUME NEW e \in Elems, val[e] # Empty
        PROVE  \E k \in 0..(size - 1) : e = At(Walk[k].cur)
    <3>1. PICK j \in 1..Len(s) : s[j] = e
      BY <2>2 DEF Arranged, InUse
    <3>2. j - 1 \in 0..(size - 1) /\ (j - 1) + 1 = j
      BY <1>1
    <3>3. At(Walk[j - 1].cur) = s[(j - 1) + 1]
      BY <2>1, <3>2
    <3> QED BY <3>1, <3>2, <3>3
  <2>3. ASSUME NEW k \in 0..(size - 1)
        PROVE  val[s[k + 1]] # Empty
    <3>1. k + 1 \in 1..Len(s) /\ s[k + 1] \in Elems
      <4>1. k + 1 \in 1..Len(s)
        BY <1>1
      <4> QED BY <2>1, <4>1
    <3> QED BY <3>1 DEF Arranged, InUse
  <2> QED BY <2>1, <2>2, <2>3
<1> QED BY <1>4, <1>5, <1>6 DEF RingWhole

\* A loop from the beginning meets the end after as many elements as there are,
\* and every element that is allocated and not freed (rm_list.c:38-48).
THEOREM RingCorrect == ListSpec => []RingWhole
BY ListInvWhole, Invariance, PTL

\* What the refinement makes of an arrangement.
Abstracted ==
  \A s \in Arrangement, p \in Nat :
    Arranged(s, p) => /\ [k \in 1..size |-> val[At(Walk[k - 1].cur)]] = [k \in 1..Len(s) |-> val[s[k]]]
                      /\ Place = p

LEMMA AbstractedHolds == Abstracted
<1> SUFFICES ASSUME NEW s \in Arrangement, NEW p \in Nat, Arranged(s, p)
             PROVE  /\ [k \in 1..size |-> val[At(Walk[k - 1].cur)]] = [k \in 1..Len(s) |-> val[s[k]]]
                    /\ Place = p
  BY DEF Abstracted
<1>1. Len(s) \in Nat /\ size = Len(s) /\ p \in 1..(Len(s) + 1) /\ it = IteratorAt(s, p)
  BY NodeFacts DEF Arranged
<1>2. ASSUME NEW k \in 1..size PROVE At(Walk[k - 1].cur) = s[k]
  <2>1. k - 1 \in 0..(size - 1) /\ (k - 1) + 1 = k
    BY <1>1
  <2>2. At(Walk[k - 1].cur) = s[(k - 1) + 1]
    BY <2>1, WalkElements
  <2> QED BY <2>1, <2>2
<1>3. \A k \in 0..size : Walk[k] = IteratorAt(s, k + 1)
  BY WalkPlaces DEF Arranged
<1>4. \A k \in 0..size : Walk[k] = it <=> k = p - 1
  <2>1. \A j, k \in 1..(Len(s) + 1) : IteratorAt(s, j) = IteratorAt(s, k) => j = k
    BY Iterators DEF Arranged
  <2> SUFFICES ASSUME NEW k \in 0..size PROVE Walk[k] = it <=> k = p - 1
    OBVIOUS
  <2>2. k + 1 \in 1..(Len(s) + 1) /\ (k + 1 = p <=> k = p - 1)
    BY <1>1
  <2> QED BY <1>1, <1>3, <2>1, <2>2
<1>5. Place = p
  <2>1. p - 1 \in 0..size /\ Walk[p - 1] = it
    BY <1>1, <1>4
  <2>2. (CHOOSE k \in 0..size : Walk[k] = it) = p - 1
    BY <1>4, <2>1
  <2>3. Place = 1 + (p - 1)
    BY <2>1, <2>2, Zenon DEF Place
  <2> QED BY <2>3
<1> QED BY <1>1, <1>2, <1>5

LEMMA AbstractedAfter == Abstracted'
BY AbstractedHolds, PTL

LEMMA Concatenated ==
  ASSUME NEW X, NEW a \in Seq(X), NEW b \in Seq(X)
  PROVE  /\ a \o b \in Seq(X) /\ Len(a \o b) = Len(a) + Len(b)
         /\ \A k \in 1..Len(a) : (a \o b)[k] = a[k]
         /\ \A k \in 1..Len(b) : (a \o b)[Len(a) + k] = b[k]
OBVIOUS

\* InsertAt and RemoveAt of RecordList, place by place.
LEMMA InsertAtIs ==
  ASSUME NEW X, NEW s \in Seq(X), NEW p \in 1..(Len(s) + 1), NEW e
  PROVE  Sequence!InsertAt(s, p, e) = Inserted(s, p, e)
<1>1. Len(s) \in Nat /\ p \in Nat
  OBVIOUS
<1>2. s \in Seq(X \cup {e}) /\ <<e>> \in Seq(X \cup {e}) /\ Len(<<e>>) = 1 /\ <<e>>[1] = e
  OBVIOUS
<1> DEFINE a == SubSeq(s, 1, p - 1)
           c == SubSeq(s, p, Len(s))
<1>3. a \in Seq(X \cup {e}) /\ Len(a) = p - 1 /\ \A k \in 1..(p - 1) : a[k] = s[k]
  BY <1>1, <1>2
<1>4. c \in Seq(X \cup {e}) /\ Len(c) = Len(s) - p + 1 /\ \A k \in 1..(Len(s) - p + 1) : c[k] = s[p + k - 1]
  BY <1>1, <1>2
<1> HIDE DEF a, c
<1> DEFINE b == <<e>>
<1> HIDE DEF b
<1>5. b \in Seq(X \cup {e}) /\ Len(b) = 1 /\ b[1] = e
  BY <1>2 DEF b
<1> DEFINE ab == a \o b
<1>6. ab \in Seq(X \cup {e}) /\ Len(ab) = p
      /\ \A k \in 1..p : ab[k] = IF k < p THEN s[k] ELSE e
  <2>1. /\ ab \in Seq(X \cup {e}) /\ Len(ab) = Len(a) + Len(b)
        /\ \A k \in 1..Len(a) : ab[k] = a[k]
        /\ \A k \in 1..Len(b) : ab[Len(a) + k] = b[k]
    <3>1. a \in Seq(X \cup {e}) /\ b \in Seq(X \cup {e})
      BY <1>3, <1>5
    <3>2. /\ a \o b \in Seq(X \cup {e}) /\ Len(a \o b) = Len(a) + Len(b)
          /\ \A k \in 1..Len(a) : (a \o b)[k] = a[k]
          /\ \A k \in 1..Len(b) : (a \o b)[Len(a) + k] = b[k]
      BY <3>1, Concatenated, SMTT(60)
    <3> QED BY <3>2
  <2> HIDE DEF ab
  <2>2. Len(ab) = p /\ ab[p] = e
    <3>1. Len(a) + 1 = p /\ 1 \in 1..Len(b)
      BY <1>1, <1>3, <1>5
    <3>2. ab[Len(a) + 1] = b[1]
      BY <2>1, <3>1
    <3> QED BY <1>5, <2>1, <3>1, <3>2
  <2>3. \A k \in 1..(p - 1) : ab[k] = s[k]
    BY <1>3, <2>1
  <2> QED BY <1>1, <2>1, <2>2, <2>3, SMTT(60)
<1> HIDE DEF ab
<1> DEFINE abc == ab \o c
<1>7. abc \in Seq(X \cup {e}) /\ Len(abc) = Len(s) + 1
      /\ \A k \in 1..(Len(s) + 1) : abc[k] = IF k <= p THEN ab[k] ELSE c[k - p]
  <2>1. /\ abc \in Seq(X \cup {e}) /\ Len(abc) = Len(ab) + Len(c)
        /\ \A k \in 1..Len(ab) : abc[k] = ab[k]
        /\ \A k \in 1..Len(c) : abc[Len(ab) + k] = c[k]
    <3>1. ab \in Seq(X \cup {e}) /\ c \in Seq(X \cup {e})
      BY <1>4, <1>6
    <3>2. /\ ab \o c \in Seq(X \cup {e}) /\ Len(ab \o c) = Len(ab) + Len(c)
          /\ \A k \in 1..Len(ab) : (ab \o c)[k] = ab[k]
          /\ \A k \in 1..Len(c) : (ab \o c)[Len(ab) + k] = c[k]
      BY <3>1, Concatenated
    <3> QED BY <3>2
  <2> HIDE DEF abc
  <2>2. Len(abc) = Len(s) + 1
    BY <1>1, <1>4, <1>6, <2>1
  <2>3. \A k \in 1..p : abc[k] = ab[k]
    BY <1>6, <2>1
  <2>4. ASSUME NEW k \in 1..(Len(s) + 1), k > p
        PROVE  abc[k] = c[k - p]
    <3>1. k - p \in 1..Len(c) /\ Len(ab) + (k - p) = k
      BY <1>1, <1>4, <1>6, <2>4
    <3>2. abc[Len(ab) + (k - p)] = c[k - p]
      BY <2>1, <3>1
    <3> QED BY <3>1, <3>2
  <2>5. \A k \in 1..(Len(s) + 1) : k <= p => k \in 1..p
    BY <1>1
  <2>6. \A k \in 1..(Len(s) + 1) : k <= p \/ k > p
    BY <1>1
  <2> QED BY <2>1, <2>2, <2>3, <2>4, <2>5, <2>6
<1>8. abc = Sequence!InsertAt(s, p, e)
  BY DEF Sequence!InsertAt, abc, ab, a, b, c
<1>9. abc = [k \in 1..(Len(s) + 1) |-> abc[k]]
  <2> HIDE DEF abc
  <2> QED BY <1>7
<1>10. ASSUME NEW k \in 1..(Len(s) + 1)
       PROVE  abc[k] = IF k < p THEN s[k] ELSE IF k = p THEN e ELSE s[k - 1]
  <2> HIDE DEF abc
  <2>1. CASE k <= p
    BY <1>1, <1>6, <1>7, <2>1
  <2>2. CASE k > p
    <3>1. k - p \in 1..(Len(s) - p + 1) /\ p + (k - p) - 1 = k - 1
      BY <1>1, <2>2
    <3> QED BY <1>1, <1>4, <1>7, <2>2, <3>1
  <2> QED BY <1>1, <2>1, <2>2
<1> HIDE DEF abc
<1> QED BY <1>8, <1>9, <1>10 DEF Inserted

LEMMA RemoveAtIs ==
  ASSUME NEW X, NEW s \in Seq(X), NEW p \in 1..Len(s)
  PROVE  Sequence!RemoveAt(s, p) = Removed(s, p)
<1>1. Len(s) \in Nat /\ p \in Nat
  OBVIOUS
<1> DEFINE a == SubSeq(s, 1, p - 1)
           c == SubSeq(s, p + 1, Len(s))
<1>3. a \in Seq(X) /\ Len(a) = p - 1 /\ \A k \in 1..(p - 1) : a[k] = s[k]
  BY <1>1
<1>4. c \in Seq(X) /\ Len(c) = Len(s) - p /\ \A k \in 1..(Len(s) - p) : c[k] = s[p + k]
  BY <1>1
<1> HIDE DEF a, c
<1> DEFINE ac == a \o c
<1>7. ac \in Seq(X) /\ Len(ac) = Len(s) - 1
      /\ \A k \in 1..(Len(s) - 1) : ac[k] = IF k < p THEN a[k] ELSE c[k - p + 1]
  <2>1. /\ ac \in Seq(X) /\ Len(ac) = Len(a) + Len(c)
        /\ \A k \in 1..Len(a) : ac[k] = a[k]
        /\ \A k \in 1..Len(c) : ac[Len(a) + k] = c[k]
    <3>1. a \in Seq(X) /\ c \in Seq(X)
      BY <1>3, <1>4
    <3>2. /\ a \o c \in Seq(X) /\ Len(a \o c) = Len(a) + Len(c)
          /\ \A k \in 1..Len(a) : (a \o c)[k] = a[k]
          /\ \A k \in 1..Len(c) : (a \o c)[Len(a) + k] = c[k]
      BY <3>1, Concatenated
    <3> QED BY <3>2
  <2> HIDE DEF ac
  <2>2. Len(ac) = Len(s) - 1
    BY <1>1, <1>3, <1>4, <2>1, SMTT(60)
  <2>3. \A k \in 1..(p - 1) : ac[k] = a[k]
    BY <1>3, <2>1
  <2>4. ASSUME NEW k \in 1..(Len(s) - 1), k >= p
        PROVE  ac[k] = c[k - p + 1]
    <3>1. k - p + 1 \in 1..Len(c) /\ Len(a) + (k - p + 1) = k
      BY <1>1, <1>3, <1>4, <2>4
    <3>2. ac[Len(a) + (k - p + 1)] = c[k - p + 1]
      BY <2>1, <3>1
    <3> QED BY <3>1, <3>2
  <2>5. ASSUME NEW k \in 1..(Len(s) - 1)
        PROVE  ac[k] = IF k < p THEN a[k] ELSE c[k - p + 1]
    <3>1. CASE k < p
      <4>1. k \in 1..(p - 1)
        BY <1>1, <3>1
      <4> QED BY ONLY <2>3, <3>1, <4>1
    <3>2. CASE k >= p
      <4>1. ~ (k < p)
        BY <1>1, <3>2
      <4>2. ac[k] = c[k - p + 1]
        BY <2>4, <3>2
      <4> QED BY ONLY <4>1, <4>2
    <3> QED BY <1>1, <3>1, <3>2
  <2> QED BY <2>1, <2>2, <2>5
<1>8. ac = Sequence!RemoveAt(s, p)
  BY DEF Sequence!RemoveAt, ac, a, c
<1> HIDE DEF ac
<1>9. ac = [k \in 1..(Len(s) - 1) |-> ac[k]]
  BY <1>7
<1>10. ASSUME NEW k \in 1..(Len(s) - 1)
       PROVE  ac[k] = IF k < p THEN s[k] ELSE s[k + 1]
  <2>1. CASE k < p
    <3>1. k \in 1..(p - 1)
      BY <1>1, <2>1
    <3> QED BY <1>3, <1>7, <2>1, <3>1
  <2>2. CASE k >= p
    <3>1. k - p + 1 \in 1..(Len(s) - p) /\ p + (k - p + 1) = k + 1 /\ ~(k < p)
      BY <1>1, <2>2
    <3>2. c[k - p + 1] = s[p + (k - p + 1)]
      BY <1>4, <3>1
    <3> QED BY <1>7, <3>1, <3>2
  <2> QED BY <1>1, <2>1, <2>2
<1> QED BY <1>8, <1>9, <1>10 DEF Removed

\* There are no more elements in use than there are.
LEMMA NoMoreThanThere ==
  ASSUME NEW s \in Arrangement
  PROVE  Len(s) <= Cardinality(Elems) /\ Cardinality(Elems) \in Nat
<1> DEFINE n == Len(s)
<1>1. n \in Nat
  BY NodeFacts
<1>2. s \in [1..n -> Elems] /\ \A h, j \in 1..n : s[h] = s[j] => h = j
  BY DEF Arrangement
<1> HIDE DEF n
<1>3. IsFiniteSet(1..n) /\ Cardinality(1..n) = n
  <2>1. 1 \in Int /\ n \in Int
    BY <1>1
  <2>2. IsFiniteSet(1..n) /\ Cardinality(1..n) = IF 1 > n THEN 0 ELSE n - 1 + 1
    BY <2>1, FS_Interval
  <2> QED BY <1>1, <2>2
<1>4. IsFiniteSet(Elems) /\ Cardinality(Elems) \in Nat
  BY ElemsAssumption, FS_CardinalityType
<1>5. n <= Cardinality(Elems)
  <2> SUFFICES ASSUME Cardinality(Elems) < n PROVE FALSE
    BY <1>1, <1>4
  <2>1. Cardinality(Elems) < Cardinality(1..n)
    BY <1>3
  <2>2. \E u, y \in 1..n : u # y /\ s[u] = s[y]
    BY <1>2, <1>3, <1>4, <2>1, FS_PigeonHole, ZenonT(60)
  <2> QED BY <1>2, <2>2
<1> QED BY <1>4, <1>5 DEF n

LEMMA ListInvType == ListInv => ListTypeOK
<1> SUFFICES ASSUME NEW s \in Arrangement, NEW p \in Nat, Arranged(s, p)
             PROVE  ListTypeOK
  BY DEF ListInv
<1>1. Len(s) \in Nat /\ p \in 1..(Len(s) + 1) /\ \A k \in Int : Node(s, k) \in ElemPlaces
  BY NodeFacts DEF Arranged
<1>2. size \in 0..Cardinality(Elems)
  <2>1. size = Len(s)
    BY DEF Arranged
  <2> QED BY <1>1, <2>1, NoMoreThanThere
<1>3. Node(s, 1) \in ElemPlaces /\ Node(s, p) \in ElemPlaces /\ Node(s, p - 1) \in ElemPlaces
  BY <1>1
<1>4. /\ first = Ptr(Node(s, 1))
      /\ it = [prev |-> Ptr(Node(s, p - 1)), cur |-> Ptr(Node(s, p))]
      /\ pn \in [ElemPlaces -> Words]
      /\ val \in [ElemPlaces -> Records \cup {Empty}]
  BY DEF Arranged, IteratorAt
<1> QED BY <1>2, <1>3, <1>4 DEF ListTypeOK, ElemPlaces, Words

\* A free element is left as long as there are fewer in use than there are.
LEMMA FreeLeft ==
  ASSUME NEW s \in Arrangement, NEW e \in Elems, \A k \in 1..Len(s) : s[k] # e
  PROVE  Len(s) < Cardinality(Elems)
<1> DEFINE t == Inserted(s, 1, e)
           n == Len(s) + 1
<1>1. Len(s) \in Nat
  BY NodeFacts
<1>2. t \in Arrangement /\ Len(t) = n /\ 1 \in 1..n
  BY <1>1, InsertedFacts
<1> HIDE DEF t
<1>3. Len(t) <= Cardinality(Elems) /\ Cardinality(Elems) \in Nat
  BY <1>2, NoMoreThanThere
<1> QED BY <1>1, <1>2, <1>3

\* The sequence of RecordList.
Contents(s) == [k \in 1..Len(s) |-> val[s[k]]]

LEMMA ContentsType ==
  ASSUME NEW s \in Arrangement, NEW p \in Nat, Arranged(s, p)
  PROVE  Contents(s) \in Seq(Records \cup {Empty}) /\ Len(Contents(s)) = Len(s) /\ Len(s) \in Nat
<1>1. Len(s) \in Nat /\ \A k \in 1..Len(s) : s[k] \in ElemPlaces
  BY NodeFacts DEF ElemPlaces
<1>2. \A k \in 1..Len(s) : val[s[k]] \in Records \cup {Empty}
  BY <1>1 DEF Arranged
<1> QED BY <1>1, <1>2 DEF Contents

\* After a call the sequence is what is said of it here.
LEMMA InsertedContents ==
  ASSUME NEW s \in Arrangement, NEW p \in 1..(Len(s) + 1), NEW e \in Elems, NEW r,
         \A k \in 1..Len(s) : s[k] # e,
         DOMAIN val = ElemPlaces, val' = [val EXCEPT ![e] = r]
  PROVE  Contents(Inserted(s, p, e))' = Inserted(Contents(s), p, r)
<1> DEFINE l == Contents(s)
<1>1. Len(s) \in Nat /\ \A k \in 1..Len(s) : s[k] \in ElemPlaces
  BY NodeFacts DEF ElemPlaces
<1>2. Len(l) = Len(s) /\ \A k \in 1..Len(s) : l[k] = val[s[k]]
  BY <1>1 DEF Contents
<1> HIDE DEF l
<1>3. val'[e] = r /\ \A k \in 1..Len(s) : val'[s[k]] = val[s[k]]
  BY <1>1 DEF ElemPlaces
<1>4. Len(Inserted(s, p, e)) = Len(s) + 1
  BY InsertedFacts
<1>5. ASSUME NEW k \in 1..(Len(s) + 1)
      PROVE  val'[Inserted(s, p, e)[k]] = Inserted(l, p, r)[k]
  <2>1. Inserted(s, p, e)[k] = IF k < p THEN s[k] ELSE IF k = p THEN e ELSE s[k - 1]
    BY DEF Inserted
  <2>2. Inserted(l, p, r)[k] = IF k < p THEN l[k] ELSE IF k = p THEN r ELSE l[k - 1]
    BY <1>2 DEF Inserted
  <2>3. CASE k < p
    <3>1. k \in 1..Len(s)
      BY <1>1, <2>3
    <3> QED BY <1>2, <1>3, <2>1, <2>2, <2>3, <3>1
  <2>4. CASE k = p
    BY <1>3, <2>1, <2>2, <2>4
  <2>5. CASE k > p
    <3>1. k - 1 \in 1..Len(s) /\ ~(k < p) /\ k # p
      BY <1>1, <2>5
    <3> QED BY <1>2, <1>3, <2>1, <2>2, <3>1
  <2> QED BY <1>1, <2>3, <2>4, <2>5
<1>6. Inserted(l, p, r) = [k \in 1..(Len(s) + 1) |-> Inserted(l, p, r)[k]]
  BY <1>2 DEF Inserted
<1> QED BY <1>4, <1>5, <1>6 DEF Contents, l

LEMMA RemovedContents ==
  ASSUME NEW s \in Arrangement, NEW p \in 1..Len(s),
         NEW u, DOMAIN val = ElemPlaces, val' = [val EXCEPT ![s[p]] = u]
  PROVE  Contents(Removed(s, p))' = Removed(Contents(s), p)
<1> DEFINE l == Contents(s)
<1>1. Len(s) \in Nat /\ \A k \in 1..Len(s) : s[k] \in ElemPlaces
  BY NodeFacts DEF ElemPlaces
<1>2. Len(l) = Len(s) /\ \A k \in 1..Len(s) : l[k] = val[s[k]]
  BY <1>1 DEF Contents
<1> HIDE DEF l
<1>3. \A k \in 1..Len(s) : k # p => val'[s[k]] = val[s[k]]
  BY <1>1 DEF Arrangement
<1>4. Len(Removed(s, p)) = Len(s) - 1
  BY RemovedFacts
<1>5. ASSUME NEW k \in 1..(Len(s) - 1)
      PROVE  val'[Removed(s, p)[k]] = Removed(l, p)[k]
  <2>1. Removed(s, p)[k] = IF k < p THEN s[k] ELSE s[k + 1]
    BY DEF Removed
  <2>2. Removed(l, p)[k] = IF k < p THEN l[k] ELSE l[k + 1]
    BY <1>2 DEF Removed
  <2>3. CASE k < p
    <3>1. k \in 1..Len(s) /\ k # p
      BY <1>1, <2>3
    <3> QED BY <1>2, <1>3, <2>1, <2>2, <2>3, <3>1
  <2>5. CASE k >= p
    <3>1. k + 1 \in 1..Len(s) /\ ~(k < p) /\ k + 1 # p
      BY <1>1, <2>5
    <3> QED BY <1>2, <1>3, <2>1, <2>2, <3>1
  <2> QED BY <1>1, <2>3, <2>5
<1>6. Removed(l, p) = [k \in 1..(Len(s) - 1) |-> Removed(l, p)[k]]
  BY <1>2 DEF Removed
<1> QED BY <1>4, <1>5, <1>6 DEF Contents, l

\* The mapping of the refinement.
list == [k \in 1..size |-> val[At(Walk[k - 1].cur)]]

LEMMA ListIs ==
  ASSUME NEW s \in Arrangement, NEW p \in Nat
  PROVE  /\ Arranged(s, p) => list = Contents(s) /\ Place = p
         /\ Arranged(s, p)' => list' = Contents(s)' /\ Place' = p
<1>1. Arranged(s, p) => list = Contents(s) /\ Place = p
  BY AbstractedHolds DEF Abstracted, list, Contents
<1>2. Arranged(s, p)' => list' = Contents(s)' /\ Place' = p
  BY AbstractedAfter DEF Abstracted, list, Contents
<1> QED BY <1>1, <1>2

\* Every call does to the sequence what RecordList says (rm_list.c:57-115).
THEOREM ListImplements == ListSpec => ImplementsRecordList
<1>1. ListInit => Sequence!Init
  <2> SUFFICES ASSUME ListInit PROVE Sequence!Init
    OBVIOUS
  <2>1. PICK s \in Arrangement, p \in Nat : Arranged(s, p)
    BY InitInv DEF ListInv
  <2>2. list = Contents(s) /\ Place = p
    BY <2>1, ListIs
  <2>3. Len(s) = 0 /\ p = 1
    BY <2>1, NodeFacts DEF ListInit, Arranged
  <2>4. Contents(s) = <<>>
    BY <2>3 DEF Contents
  <2> QED BY <2>2, <2>3, <2>4 DEF Sequence!Init, list
<1>2. ListInv /\ [ListNext]_listVars => [Sequence!Next]_(Sequence!listVars)
  <2> SUFFICES ASSUME NEW s \in Arrangement, NEW p \in Nat, Arranged(s, p), [ListNext]_listVars
               PROVE  Sequence!Next \/ UNCHANGED <<list, Place>>
    BY DEF ListInv, Sequence!listVars, list
  <2>1. Len(s) \in Nat /\ p \in 1..(Len(s) + 1) /\ val \in [ElemPlaces -> Records \cup {Empty}]
    BY NodeFacts DEF Arranged
  <2>2. list = Contents(s) /\ Place = p
    BY ListIs
  <2>3. Contents(s) \in Seq(Records \cup {Empty}) /\ Len(Contents(s)) = Len(s)
    BY ContentsType
  <2>4. CASE Begin
    <3>1. Arranged(s, 1)' /\ val' = val
      BY <2>4, BeginArranged DEF Begin
    <3>2. list' = Contents(s)' /\ Place' = 1
      BY <3>1, ListIs
    <3>3. list' = list
      BY <2>2, <3>1, <3>2, SMTT(60) DEF Contents
    <3> QED BY <3>2, <3>3 DEF Sequence!Next, Sequence!Begin, list
  <2>5. CASE MoveNext
    <3>1. p \in 1..Len(s) /\ Arranged(s, p + 1)' /\ val' = val /\ p + 1 \in Nat
      BY <2>5, MoveArranged DEF MoveNext
    <3>2. list' = Contents(s)' /\ Place' = p + 1
      BY <3>1, ListIs
    <3>3. list' = list
      BY <2>2, <3>1, <3>2 DEF Contents
    <3>4. Place # Len(list) + 1
      BY <2>1, <2>2, <2>3, <3>1
    <3> QED BY <2>2, <3>2, <3>3, <3>4 DEF Sequence!Next, Sequence!MoveNext, Sequence!AtEnd, list
  <2>6. CASE RemoveRecord
    <3>1. p \in 1..Len(s) /\ Arranged(Removed(s, p), p)' /\ val' = [val EXCEPT ![s[p]] = Empty]
      BY <2>6, RemoveArranged
    <3>2. Removed(s, p) \in Arrangement
      BY <3>1, RemovedFacts
    <3>3. list' = Contents(Removed(s, p))' /\ Place' = p
      BY <3>1, <3>2, ListIs
    <3>4. Contents(Removed(s, p))' = Removed(Contents(s), p)
      <4>1. DOMAIN val = ElemPlaces
        BY <2>1
      <4> QED BY <3>1, <4>1, RemovedContents
    <3>5. p \in 1..Len(Contents(s))
      BY <2>3, <3>1
    <3>6. Sequence!RemoveAt(Contents(s), p) = Removed(Contents(s), p)
      BY <2>3, <3>5, RemoveAtIs
    <3>7. list' = Sequence!RemoveAt(list, Place) /\ Place' = Place
      BY <2>2, <3>3, <3>4, <3>6
    <3>8. Place # Len(list) + 1
      BY <2>1, <2>2, <2>3, <3>1
    <3> QED BY <3>7, <3>8 DEF Sequence!Next, Sequence!RemoveRecord, Sequence!AtEnd, list
  <2>7. ASSUME NEW r \in Records, SetRecord(r)
        PROVE  Sequence!Next
    <3>1. p \in 1..Len(s) /\ Arranged(s, p)' /\ val' = [val EXCEPT ![s[p]] = r]
      BY <2>7, SetArranged
    <3>2. list' = Contents(s)' /\ Place' = p
      BY <3>1, ListIs
    <3>3. Contents(s)' = [Contents(s) EXCEPT ![p] = r]
      <4>1. \A k \in 1..Len(s) : s[k] \in ElemPlaces /\ (s[k] = s[p] => k = p)
        BY <3>1, NodeFacts DEF ElemPlaces, Arrangement
      <4>2. \A k \in 1..Len(s) : val'[s[k]] = IF k = p THEN r ELSE val[s[k]]
        BY <2>1, <3>1, <4>1
      <4> QED BY <3>1, <4>2 DEF Contents
    <3>4. list' = [list EXCEPT ![Place] = r] /\ Place' = Place
      BY <2>2, <3>2, <3>3
    <3>5. Place # Len(list) + 1
      BY <2>1, <2>2, <2>3, <3>1
    <3>6. Sequence!SetRecord(r)
      BY <3>4, <3>5 DEF Sequence!SetRecord, Sequence!AtEnd, list
    <3> QED BY <3>6 DEF Sequence!Next
  <2>8. ASSUME NEW r \in Records, InsertBefore(r)
        PROVE  Sequence!Next
    <3>1. PICK e \in Elems : /\ \A k \in 1..Len(s) : s[k] # e
                             /\ Arranged(Inserted(s, p, e), p + 1)'
                             /\ val' = [val EXCEPT ![e] = r]
      BY <2>8, InsertArranged
    <3>2. Inserted(s, p, e) \in Arrangement /\ p + 1 \in Nat
      BY <2>1, <3>1, InsertedFacts
    <3>3. list' = Contents(Inserted(s, p, e))' /\ Place' = p + 1
      BY <3>1, <3>2, ListIs
    <3>4. Contents(Inserted(s, p, e))' = Inserted(Contents(s), p, r)
      <4>1. DOMAIN val = ElemPlaces
        BY <2>1
      <4> QED BY <2>1, <3>1, <4>1, InsertedContents
    <3>5. p \in 1..(Len(Contents(s)) + 1)
      BY <2>1, <2>3
    <3>6. Sequence!InsertAt(Contents(s), p, r) = Inserted(Contents(s), p, r)
      BY <2>3, <3>5, InsertAtIs
    <3>7. list' = Sequence!InsertAt(list, Place, r) /\ Place' = Place + 1
      BY <2>2, <3>3, <3>4, <3>6
    <3>8. Len(list) < Cardinality(Elems)
      BY <2>2, <2>3, <3>1, FreeLeft
    <3>9. Sequence!InsertBefore(r)
      BY <3>7, <3>8 DEF Sequence!InsertBefore, list
    <3> QED BY <3>9 DEF Sequence!Next
  <2>9. CASE UNCHANGED listVars
    <3>1. Arranged(s, p)' /\ val' = val
      BY <2>9 DEF listVars, Arranged, InUse
    <3>2. list' = Contents(s)' /\ Place' = p
      BY <3>1, ListIs
    <3>3. list' = list
      BY <2>2, <3>1, <3>2 DEF Contents
    <3> QED BY <2>2, <3>2, <3>3
  <2> QED BY <2>4, <2>5, <2>6, <2>7, <2>8, <2>9 DEF ListNext
<1> QED BY <1>1, <1>2, Invariance, PTL DEF ListSpec, ImplementsRecordList, Sequence!Spec

-----------------------------------------------------------------------------
(***************************************************************************)
(* SwitchedGcd, for ints of any width and any arguments.                   *)
(*                                                                         *)
(* A round of Euclid's algorithm leaves the common divisors of its two     *)
(* numbers as they are, and the naive loop starts above all of them and    *)
(* passes none.                                                            *)
(***************************************************************************)

LEMMA RemIs ==
  ASSUME NEW n \in Nat, NEW d \in Nat \ {0}
  PROVE  Rem(n, d) = n % d
BY DEF Rem

LEMMA Division ==
  ASSUME NEW n \in Nat, NEW d \in Nat \ {0}
  PROVE  n = d * (n \div d) + (n % d) /\ n \div d \in Nat /\ n % d \in 0..(d - 1)
OBVIOUS

LEMMA NoMultipleBetween ==
  ASSUME NEW d \in Nat \ {0}, NEW k \in Int, 0 <= d * k, d * k < d
  PROVE  k = 0
<1>1. k >= 0
  <2>1. CASE k < 0
    <3>1. d * k <= d * (-1)
      BY <2>1
    <3> QED BY <3>1
  <2> QED BY <2>1
<1>2. k < 1
  <2>1. CASE k >= 1
    <3>1. d * k >= d * 1
      BY <2>1
    <3> QED BY <3>1
  <2> QED BY <2>1
<1> QED BY <1>1, <1>2

LEMMA Divides ==
  ASSUME NEW n \in Nat, NEW d \in Nat \ {0}
  PROVE  n % d = 0 <=> \E k \in Nat : n = d * k
<1>1. n = d * (n \div d) + (n % d) /\ n \div d \in Nat /\ n % d \in 0..(d - 1)
  BY Division
<1>2. ASSUME NEW k \in Nat, n = d * k PROVE n % d = 0
  <2>1. PICK q \in Nat, r \in 0..(d - 1) : q = n \div d /\ r = n % d
    BY <1>1
  <2>2. d * k = d * q + r
    BY <1>1, <1>2, <2>1
  <2>3. d * (k - q) = d * k - d * q
    OBVIOUS
  <2>4. 0 <= d * (k - q) /\ d * (k - q) < d /\ k - q \in Int
    BY <2>2, <2>3
  <2>5. k - q = 0
    BY <2>4, NoMultipleBetween
  <2>6. r = 0
    BY <2>2, <2>5
  <2> QED BY <2>1, <2>6
<1>3. ASSUME n % d = 0 PROVE \E k \in Nat : n = d * k
  <2>1. PICK q \in Nat, r \in 0..(d - 1) : q = n \div d /\ r = n % d /\ n = d * q + r
    BY <1>1
  <2>2. n = d * q
    BY <1>3, <2>1
  <2> QED BY <2>2
<1> QED BY <1>2, <1>3

\* A round of Euclid's algorithm leaves the common divisors as they are.
LEMMA SameDivisors ==
  ASSUME NEW a \in Nat, NEW b \in Nat \ {0}, NEW d \in Nat \ {0}
  PROVE  b % d = 0 /\ (a % b) % d = 0 <=> a % d = 0 /\ b % d = 0
<1>1. PICK q \in Nat, r \in Nat : q = a \div b /\ r = a % b /\ a = b * q + r
  <2>1. a = b * (a \div b) + (a % b) /\ a \div b \in Nat /\ a % b \in 0..(b - 1)
    BY Division
  <2> QED BY <2>1
<1>2. CASE b % d # 0
  BY <1>2
<1>3. CASE b % d = 0
  <2>1. PICK m \in Nat : b = d * m
    BY <1>3, Divides
  <2>2. b * q = d * (m * q) /\ m * q \in Nat
    BY <2>1
  <2>3. ASSUME NEW k \in Nat, r = d * k PROVE \E j \in Nat : a = d * j
    <3>1. a = d * (m * q + k)
      BY <1>1, <2>2, <2>3
    <3> QED BY <2>2, <3>1
  <2>4. ASSUME NEW j \in Nat, a = d * j PROVE \E k \in Nat : r = d * k
    <3>1. PICK z \in Nat : z = m * q
      BY <2>2
    <3>2. r = d * (j - z)
      BY <1>1, <2>2, <2>4, <3>1
    <3>3. j - z >= 0
      <4>1. CASE j - z < 0
        <5>1. d * (j - z) <= d * (-1)
          BY <4>1
        <5> QED BY <1>1, <3>2, <5>1
      <4> QED BY <4>1
    <3> QED BY <3>2, <3>3
  <2>5. r % d = 0 <=> a % d = 0
    BY <2>3, <2>4, Divides
  <2> QED BY <1>1, <1>3, <2>5
<1> QED BY <1>2, <1>3

LEMMA DivisorSmaller ==
  ASSUME NEW n \in Nat \ {0}, NEW d \in Nat \ {0}, n % d = 0
  PROVE  d <= n
<1>1. PICK k \in Nat : n = d * k
  BY Divides
<1>2. k >= 1
  BY <1>1
<1>3. d * k >= d * 1
  BY <1>2
<1> QED BY <1>1, <1>3

LEMMA Itself ==
  ASSUME NEW n \in Nat \ {0}
  PROVE  n % n = 0 /\ n % 1 = 0 /\ 0 % n = 0
<1>1. n = n * 1 /\ n = 1 * n /\ 0 = n * 0
  OBVIOUS
<1> QED BY <1>1, Divides

-----------------------------------------------------------------------------
(* The invariant.                                                          *)

EuclidKeeps ==
  /\ A > 0 /\ B >= 0
  /\ CommonDivisors(A, B) = CommonDivisors(arguments[1], arguments[2])

NaiveDescends ==
  /\ A = arguments[1] /\ B = arguments[2] /\ x > 0
  /\ \A d \in CommonDivisors(A, B) : d <= x

GcdInv ==
  /\ GcdTypeOK
  /\ call = "loop" => x # Overflow /\ (x = 0 \/ A # 0 \/ B # 0)
  /\ Positive =>
       /\ call \notin {"killed", "overflow"}
       /\ call = "loop" /\ loaded = 0 => EuclidKeeps
       /\ call = "loop" /\ loaded = 1 => NaiveDescends
       /\ call = "returned" => result = Max(CommonDivisors(arguments[1], arguments[2]))

LEMMA MaxIs ==
  ASSUME NEW S, NEW m \in S, \A y \in S : y <= m, S \subseteq Int
  PROVE  Max(S) = m
<1>1. \A z \in S : (\A y \in S : z >= y) => z = m
  OBVIOUS
<1>2. m \in S /\ \A y \in S : m >= y
  OBVIOUS
<1> QED BY <1>1, <1>2 DEF Max

LEMMA ArgumentsAre ==
  ASSUME GcdTypeOK, Positive
  PROVE  arguments[1] \in 1..IntMax /\ arguments[2] \in 1..IntMax /\ IntMax \in Nat
<1>1. IntMax \in Nat /\ \A a \in Arguments : a \in (-IntMax)..IntMax
  BY SwitchedGcdAssumption
<1>2. CASE arguments \in Arguments \X Arguments
  <2>1. arguments[1] \in Arguments /\ arguments[2] \in Arguments
    BY <1>2
  <2> QED BY <1>1, <2>1 DEF Positive
<1>3. CASE arguments = <<0, 0>>
  BY <1>3 DEF Positive
<1> QED BY <1>2, <1>3 DEF GcdTypeOK

LEMMA EuclidStep ==
  ASSUME A \in 1..IntMax, B \in 1..IntMax, IntMax \in Nat
  PROVE  /\ Remainder(A, B) = A % B /\ A % B \in 0..(B - 1)
         /\ CommonDivisors(B, A % B) = CommonDivisors(A, B)
<1>1. A \in Nat /\ B \in Nat \ {0}
  OBVIOUS
<1>2. Remainder(A, B) = A % B /\ A % B \in 0..(B - 1)
  BY <1>1, RemIs DEF Remainder
<1>3. PICK a \in Nat, b \in Nat \ {0} : a = A /\ b = B
  BY <1>1
<1>4. \A d \in 1..IntMax : b % d = 0 /\ (a % b) % d = 0 <=> a % d = 0 /\ b % d = 0
  <2>1. \A d \in 1..IntMax : d \in Nat \ {0}
    OBVIOUS
  <2> QED BY <2>1, SameDivisors
<1>5. CommonDivisors(b, a % b) = CommonDivisors(a, b)
  BY <1>4 DEF CommonDivisors
<1> QED BY <1>2, <1>3, <1>5

LEMMA EuclidEnds ==
  ASSUME A \in 1..IntMax, IntMax \in Nat
  PROVE  Max(CommonDivisors(A, 0)) = A
<1>1. A \in Nat \ {0}
  OBVIOUS
<1>2. A \in CommonDivisors(A, 0)
  BY <1>1, Itself DEF CommonDivisors
<1>3. \A d \in CommonDivisors(A, 0) : d <= A
  BY <1>1, DivisorSmaller DEF CommonDivisors
<1>4. CommonDivisors(A, 0) \subseteq Int
  BY DEF CommonDivisors
<1> QED BY <1>2, <1>3, <1>4, MaxIs

LEMMA NaiveEnds ==
  ASSUME A \in 1..IntMax, B \in 1..IntMax, x \in 1..IntMax, IntMax \in Nat,
         \A d \in CommonDivisors(A, B) : d <= x
  PROVE  /\ DividesBoth(x, A, B) => Max(CommonDivisors(A, B)) = x
         /\ ~DividesBoth(x, A, B) => x - 1 > 0 /\ \A d \in CommonDivisors(A, B) : d <= x - 1
<1>1. A \in Nat \ {0} /\ B \in Nat \ {0} /\ x \in Nat \ {0}
  OBVIOUS
<1>2. DividesBoth(x, A, B) <=> x \in CommonDivisors(A, B)
  BY <1>1, RemIs DEF DividesBoth, CommonDivisors
<1>3. CommonDivisors(A, B) \subseteq Int
  BY DEF CommonDivisors
<1>4. DividesBoth(x, A, B) => Max(CommonDivisors(A, B)) = x
  BY <1>2, <1>3, MaxIs
<1>5. 1 \in CommonDivisors(A, B)
  BY <1>1, Itself DEF CommonDivisors
<1>6. ASSUME ~DividesBoth(x, A, B)
      PROVE  x - 1 > 0 /\ \A d \in CommonDivisors(A, B) : d <= x - 1
  <2>1. \A d \in CommonDivisors(A, B) : d # x /\ d <= x
    BY <1>2, <1>6
  <2> QED BY <1>3, <1>5, <2>1
<1> QED BY <1>4, <1>6

LEMMA RemBound ==
  ASSUME NEW n \in Int, NEW d \in Int, d # 0, NEW m \in Nat, -m <= d, d <= m
  PROVE  Rem(n, d) \in (-m)..m
<1> DEFINE Size(k) == IF k < 0 THEN -k ELSE k
           r == Size(n) % Size(d)
<1>1. Size(n) \in Nat /\ Size(d) \in Nat \ {0} /\ Size(d) <= m
  OBVIOUS
<1>2. r \in Nat /\ r <= m
  <2>1. PICK a \in Nat, b \in Nat \ {0} : a = Size(n) /\ b = Size(d)
    BY <1>1
  <2>2. a % b \in 0..(b - 1)
    BY Division
  <2> QED BY <1>1, <2>1, <2>2
<1>3. Rem(n, d) = IF n < 0 THEN -r ELSE r
  BY DEF Rem
<1> HIDE DEF Size, r
<1> QED BY <1>2, <1>3

\* The smallest int divides nothing but zero.
LEMMA RemSmallest ==
  ASSUME NEW m \in Nat, NEW n \in (-m)..m, n # 0
  PROVE  Rem(n, -m - 1) # 0
<1> DEFINE Size(k) == IF k < 0 THEN -k ELSE k
<1>1. Size(n) \in Nat /\ 0 < Size(n) /\ Size(n) < m + 1 /\ Size(-m - 1) = m + 1
  OBVIOUS
<1>2. \A a \in Nat, b \in Nat \ {0} : a < b => a % b = a
  OBVIOUS
<1>3. PICK a \in Nat, b \in Nat \ {0} : a = Size(n) /\ b = Size(-m - 1) /\ 0 < a /\ a < b
  BY <1>1
<1>4. a % b = a
  BY <1>2, <1>3
<1>5. Rem(n, -m - 1) = IF n < 0 THEN -(a % b) ELSE a % b
  BY <1>3 DEF Rem
<1> QED BY <1>3, <1>4, <1>5

LEMMA GcdInitInv == GcdInit => GcdInv
<1> SUFFICES ASSUME GcdInit PROVE GcdInv
  OBVIOUS
<1>1. IntMax \in Nat
  BY SwitchedGcdAssumption
<1>2. arguments = <<0, 0>> /\ call = "none" /\ x = 0
  BY DEF GcdInit
<1>3. GcdTypeOK
  BY <1>1 DEF GcdInit, GcdTypeOK, Overflow
<1>4. ~Positive
  BY <1>2 DEF Positive
<1> QED BY <1>2, <1>3, <1>4 DEF GcdInv

LEMMA ChangeKeeps ==
  ASSUME GcdInv, ChangeImplementation
  PROVE  GcdInv'
<1>1. /\ call \in {"none", "returned"} /\ cur_lib' \in {0, 1} /\ loaded' \in {0, 1}
      /\ call' \in {"none", "exit"} /\ UNCHANGED <<A, B, x, arguments, result>>
  BY DEF ChangeImplementation, GcdInv, GcdTypeOK
<1>2. GcdTypeOK'
  BY <1>1 DEF GcdInv, GcdTypeOK
<1> QED BY <1>1, <1>2 DEF GcdInv

LEMMA CallKeeps ==
  ASSUME GcdInv, CallGcd
  PROVE  GcdInv'
<1>1. PICK a \in Arguments, b \in Arguments :
        A' = a /\ B' = b /\ x' = FirstTried(a, b) /\ arguments' = <<a, b>>
  BY DEF CallGcd
<1>2. call' = "loop" /\ UNCHANGED <<cur_lib, loaded, result>>
  BY DEF CallGcd
<1>3. a \in (-IntMax)..IntMax /\ b \in (-IntMax)..IntMax /\ IntMax \in Nat
  BY SwitchedGcdAssumption
<1>4. x' \in (-IntMax)..IntMax /\ (x' = a \/ x' = b) /\ x' <= a /\ x' <= b
  BY <1>1, <1>3 DEF FirstTried
<1>5. x' # Overflow /\ x' \in Overflow..IntMax
  BY <1>3, <1>4 DEF Overflow
<1>6. arguments' \in Arguments \X Arguments /\ arguments'[1] = a /\ arguments'[2] = b
  BY <1>1
<1>7. GcdTypeOK'
  BY <1>1, <1>2, <1>3, <1>5, <1>6 DEF GcdInv, GcdTypeOK
<1>8. ASSUME Positive' PROVE EuclidKeeps' /\ NaiveDescends'
  <2>1. a > 0 /\ b > 0
    BY <1>6, <1>8 DEF Positive
  <2>2. EuclidKeeps'
    BY <1>1, <1>3, <1>6, <2>1 DEF EuclidKeeps, CommonDivisors
  <2>3. \A d \in CommonDivisors(a, b) : d <= a /\ d <= b
    BY <1>3, <2>1, DivisorSmaller DEF CommonDivisors
  <2>4. \A d \in CommonDivisors(a, b) : d <= x'
    BY <1>4, <2>3
  <2>5. NaiveDescends'
    BY <1>1, <1>4, <1>6, <2>1, <2>4 DEF NaiveDescends, CommonDivisors
  <2> QED BY <2>2, <2>5
<1>9. x' = 0 \/ A' # 0 \/ B' # 0
  BY <1>1, <1>4
<1> QED BY <1>2, <1>5, <1>7, <1>8, <1>9 DEF GcdInv

LEMMA EuclidKeepsInv ==
  ASSUME GcdInv, Euclid
  PROVE  GcdInv'
<1>1. call = "loop" /\ loaded = 0 /\ UNCHANGED <<cur_lib, loaded, x, arguments>>
  BY DEF Euclid
<1>2. GcdTypeOK /\ x # Overflow /\ IntMax \in Nat
      /\ A \in (-IntMax)..IntMax /\ B \in (-IntMax)..IntMax
  BY <1>1, SwitchedGcdAssumption DEF GcdInv, GcdTypeOK
<1>3. Positive' <=> Positive
  BY <1>1 DEF Positive
<1>4. Positive => EuclidKeeps
  BY <1>1 DEF GcdInv
<1>5. CASE B = 0 /\ result' = A /\ call' = "returned" /\ UNCHANGED <<A, B>>
  <2>1. GcdTypeOK'
    BY <1>1, <1>2, <1>5 DEF GcdTypeOK
  <2>2. ASSUME Positive
        PROVE  result' = Max(CommonDivisors(arguments[1], arguments[2]))
    <3>1. A \in 1..IntMax /\ CommonDivisors(A, 0) = CommonDivisors(arguments[1], arguments[2])
      BY <1>2, <1>4, <1>5, <2>2 DEF EuclidKeeps
    <3> QED BY <1>2, <1>5, <3>1, EuclidEnds
  <2> QED BY <1>1, <1>3, <1>5, <2>1, <2>2 DEF GcdInv, Max, CommonDivisors
<1>6. CASE B # 0 /\ A' = B /\ B' = Remainder(A, B) /\ UNCHANGED <<result, call>>
  <2>1. B' \in (-IntMax)..IntMax
    BY <1>2, <1>6, RemBound DEF Remainder
  <2>2. GcdTypeOK'
    BY <1>1, <1>2, <1>6, <2>1 DEF GcdTypeOK
  <2>3. ASSUME Positive PROVE EuclidKeeps'
    <3>1. A \in 1..IntMax /\ B \in 1..IntMax
      BY <1>2, <1>4, <1>6, <2>3 DEF EuclidKeeps
    <3>2. B' = A % B /\ B' >= 0 /\ CommonDivisors(A', B') = CommonDivisors(A, B)
      BY <1>2, <1>6, <3>1, EuclidStep
    <3> QED BY <1>1, <1>4, <1>6, <2>3, <3>1, <3>2 DEF EuclidKeeps
  <2> QED BY <1>1, <1>2, <1>3, <1>6, <2>2, <2>3 DEF GcdInv, Overflow
<1> QED BY <1>5, <1>6 DEF Euclid

LEMMA NaiveKeepsInv ==
  ASSUME GcdInv, Naive
  PROVE  GcdInv'
<1>1. call = "loop" /\ loaded = 1 /\ UNCHANGED <<cur_lib, loaded, A, B, arguments>>
  BY DEF Naive
<1>2. GcdTypeOK /\ x # Overflow /\ IntMax \in Nat
      /\ A \in (-IntMax)..IntMax /\ B \in (-IntMax)..IntMax /\ x \in (-IntMax - 1)..IntMax
  BY <1>1, SwitchedGcdAssumption DEF GcdInv, GcdTypeOK, Overflow
<1>3. Positive' <=> Positive
  BY <1>1 DEF Positive
<1>4. ASSUME Positive
      PROVE  /\ NaiveDescends /\ A \in 1..IntMax /\ B \in 1..IntMax /\ x \in 1..IntMax
             /\ DividesBoth(x, A, B) => Max(CommonDivisors(A, B)) = x
             /\ ~DividesBoth(x, A, B) => x - 1 > 0 /\ \A d \in CommonDivisors(A, B) : d <= x - 1
  <2>1. NaiveDescends
    BY <1>1, <1>4 DEF GcdInv
  <2>2. A \in 1..IntMax /\ B \in 1..IntMax
    BY <1>2, <1>4, <2>1, ArgumentsAre DEF NaiveDescends
  <2>3. x \in 1..IntMax
    BY <1>2, <2>1 DEF NaiveDescends
  <2> QED BY <1>2, <2>1, <2>2, <2>3, NaiveEnds DEF NaiveDescends
<1>5. CASE x = 0 /\ call' = "killed" /\ UNCHANGED <<x, result>>
  <2>1. ~Positive
    BY <1>2, <1>4, <1>5
  <2>2. GcdTypeOK'
    BY <1>1, <1>2, <1>5 DEF GcdTypeOK
  <2> QED BY <1>3, <1>5, <2>1, <2>2 DEF GcdInv
<1>6. CASE x # 0 /\ DividesBoth(x, A, B) /\ result' = x /\ call' = "returned" /\ UNCHANGED x
  <2>1. x \in (-IntMax)..IntMax
    <3>1. ASSUME x = -IntMax - 1 PROVE FALSE
      <4>1. Rem(A, -IntMax - 1) = 0 /\ Rem(B, -IntMax - 1) = 0
        BY <1>6, <3>1 DEF DividesBoth
      <4>2. A = 0 /\ B = 0
        BY <1>2, <4>1, RemSmallest
      <4> QED BY <1>1, <1>6, <4>2 DEF GcdInv
    <3> QED BY <1>2, <3>1
  <2>2. GcdTypeOK'
    BY <1>1, <1>2, <1>6, <2>1 DEF GcdTypeOK
  <2>3. Positive => result' = Max(CommonDivisors(arguments[1], arguments[2]))
    BY <1>4, <1>6 DEF NaiveDescends
  <2> QED BY <1>1, <1>3, <1>6, <2>2, <2>3 DEF GcdInv, Max, CommonDivisors
<1>7. CASE /\ x # 0 /\ ~DividesBoth(x, A, B) /\ x' = NextTried(x) /\ UNCHANGED result
           /\ call' = IF x' < -IntMax - 1 THEN "overflow" ELSE "loop"
  <2>1. x' = x - 1 /\ x' \in Overflow..IntMax
    BY <1>2, <1>7 DEF NextTried, Overflow
  <2>2. call' \in {"overflow", "loop"} /\ (call' = "loop" => x' # Overflow)
        /\ (x > 0 => call' = "loop")
    BY <1>2, <1>7, <2>1 DEF Overflow
  <2>3. GcdTypeOK'
    BY <1>1, <1>2, <1>7, <2>1, <2>2 DEF GcdTypeOK
  <2>4. ASSUME Positive PROVE NaiveDescends' /\ call' = "loop"
    <3>1. x > 0 /\ x - 1 > 0 /\ \A d \in CommonDivisors(A, B) : d <= x - 1
      BY <1>4, <1>7, <2>4
    <3>2. CommonDivisors(A', B') = CommonDivisors(A, B)
      BY <1>1
    <3> QED BY <1>1, <1>4, <2>1, <2>2, <2>4, <3>1, <3>2 DEF NaiveDescends
  <2>5. A' # 0 \/ B' # 0
    BY <1>1, <1>7 DEF GcdInv
  <2> QED BY <1>1, <1>3, <2>2, <2>3, <2>4, <2>5 DEF GcdInv
<1> QED BY <1>5, <1>6, <1>7 DEF Naive

LEMMA GcdStepInv == GcdInv /\ [GcdNext]_gcdVars => GcdInv'
<1> SUFFICES ASSUME GcdInv, [GcdNext]_gcdVars PROVE GcdInv'
  OBVIOUS
<1>1. CASE UNCHANGED gcdVars
  BY <1>1 DEF gcdVars, GcdInv, GcdTypeOK, Positive, EuclidKeeps, NaiveDescends, Max, CommonDivisors
<1>2. CASE GcdNext
  BY <1>2, ChangeKeeps, CallKeeps, EuclidKeepsInv, NaiveKeepsInv DEF GcdNext, Round
<1> QED BY <1>1, <1>2

LEMMA GcdInvariant == GcdSpec => []GcdInv
BY GcdInitInv, GcdStepInv, PTL DEF GcdSpec

LEMMA GcdInvResult == GcdInv => SameResult
BY DEF GcdInv, GcdTypeOK, SameResult

\* Whichever of the two libraries is loaded, and however often it is changed
\* between calls, gcd of positive arguments is their greatest common divisor,
\* and the call does not die (lib1.c, lib2.c, prog2.c:30-75).
THEOREM GcdCorrect == GcdSpec => []SameResult
BY GcdInvResult, GcdInvariant, PTL

-----------------------------------------------------------------------------
(***************************************************************************)
(* HexNumbers, for any width of a number and any number of them.           *)
(*                                                                         *)
(* A number is written by shifts and remainders, from the last digit to    *)
(* the first, and read by powers of 16; what the shifts have left of it is *)
(* at every digit what the powers have added up.  The invariant says where *)
(* in the file the digits of each number lie.                              *)
(***************************************************************************)

\* A function whose values are given by the one before is that function.
LEMMA PowerIs ==
  /\ Power \in [Nat -> Nat \ {0}]
  /\ Power[0] = 1
  /\ \A n \in Nat : Power[n + 1] = 16 * Power[n]
<1> DEFINE next == [p \in Nat \X (Nat \ {0}) |-> 16 * p[2]]
<1>1. next \in [Nat \X (Nat \ {0}) -> Nat \ {0}]
  OBVIOUS
<1>2. PICK f : Iterates(f, Nat \ {0}, 1, next)
  <2>1. 1 \in Nat \ {0}
    OBVIOUS
  <2> HIDE DEF next
  <2> QED BY <1>1, <2>1, Recursion
<1>20. f \in [Nat -> Nat \ {0}] /\ f[0] = 1 /\ \A n \in Nat : f[n + 1] = next[<<n, f[n]>>]
  BY <1>2 DEF Iterates
<1>3. ASSUME NEW n \in Nat PROVE f[n] = IF n = 0 THEN 1 ELSE 16 * f[n - 1]
  <2>1. CASE n = 0
    BY <1>20, <2>1
  <2>2. CASE n # 0
    <3>1. n - 1 \in Nat /\ f[n - 1] \in Nat \ {0} /\ (n - 1) + 1 = n
      BY <1>20, <2>2
    <3>2. <<n - 1, f[n - 1]>> \in Nat \X (Nat \ {0})
      BY <3>1
    <3> QED BY <1>20, <2>2, <3>1, <3>2
  <2> QED BY <2>1, <2>2
<1>4. f = [n \in Nat |-> IF n = 0 THEN 1 ELSE 16 * f[n - 1]]
  <2>1. f = [n \in Nat |-> f[n]]
    BY <1>20
  <2> QED BY <1>3, <2>1
<1>5. \E g : g = [n \in Nat |-> IF n = 0 THEN 1 ELSE 16 * g[n - 1]]
  BY <1>4
<1>6. Power = [n \in Nat |-> IF n = 0 THEN 1 ELSE 16 * Power[n - 1]]
  BY <1>5, Zenon DEF Power
<1> DEFINE S == {n \in Nat : Power[n] = f[n]}
<1>7. 0 \in S
  BY <1>3, <1>6
<1>8. ASSUME NEW n \in Nat, n \in S PROVE n + 1 \in S
  <2>1. n + 1 \in Nat /\ n + 1 # 0 /\ (n + 1) - 1 = n
    OBVIOUS
  <2> QED BY <1>3, <1>6, <1>8, <2>1
<1>9. Nat \subseteq S
  <2> HIDE DEF S
  <2> QED BY <1>7, <1>8, Induction
<1>10. Power \in [Nat -> Nat \ {0}]
  <2>1. \A n \in Nat : Power[n] \in Nat \ {0}
    BY <1>20, <1>9
  <2>2. Power = [n \in Nat |-> Power[n]]
    BY <1>6
  <2> QED BY <2>1, <2>2
<1>11. ASSUME NEW n \in Nat PROVE Power[n + 1] = 16 * Power[n]
  <2>1. n + 1 \in Nat /\ n + 1 # 0 /\ (n + 1) - 1 = n
    OBVIOUS
  <2> QED BY <1>6, <2>1
<1>12. Power[0] = 1
  BY <1>6
<1> QED BY <1>10, <1>11, <1>12

\* A digit is written and read back.
LEMMA DigitBack ==
  ASSUME NEW n \in 0..15
  PROVE  IntToHex(n) \in {Char[d] : d \in 1..16} /\ HexToInt(IntToHex(n)) = n
<1>1. \A d, e \in 1..16 : Char[d] = Char[e] => d = e
  BY SMTT(60) DEF Char
<1> DEFINE Is(m) == Char[m + 1] = IntToHex(n)
<1>2. \A m \in 0..15 : Is(m) <=> m = n
  <2>1. \A m \in 0..15 : m + 1 \in 1..16 /\ n + 1 \in 1..16 /\ (m + 1 = n + 1 <=> m = n)
    OBVIOUS
  <2> QED BY <1>1, <2>1 DEF IntToHex
<1> HIDE DEF Is
<1>3. (CHOOSE m \in 0..15 : Is(m)) = n
  BY <1>2
<1>4. \E m \in 0..15 : Is(m)
  BY <1>2
<1>5. HexToInt(IntToHex(n)) = n
  BY <1>3, <1>4 DEF HexToInt, Is
<1>6. IntToHex(n) \in {Char[d] : d \in 1..16}
  <2>1. n + 1 \in 1..16
    OBVIOUS
  <2> QED BY <2>1 DEF IntToHex
<1> QED BY <1>5, <1>6

\* What the shifts leave of a number that fits into its digits: nothing, in the
\* end.
LEMMA ShiftsLeave ==
  ASSUME NEW number \in 0..(Power[Digits] - 1)
  PROVE  \E left \in [0..Digits -> Nat] :
           /\ left[0] = number
           /\ \A k \in 0..(Digits - 1) : left[k + 1] = left[k] \div 16
           /\ \A k \in 0..Digits : left[k] < Power[Digits - k]
           /\ Int128ToHex(number) = [k \in 1..Digits |-> IntToHex(left[Digits - k] % 16)]
<1> USE HexNumbersAssumption
<1>0. number \in Nat /\ number < Power[Digits]
  BY PowerIs
<1> DEFINE left[k \in 0..Digits] == IF k = 0 THEN number ELSE left[k - 1] \div 16
           next == [p \in Nat \X Nat |-> p[2] \div 16]
<1>1. next \in [Nat \X Nat -> Nat]
  OBVIOUS
<1>2. PICK f : Iterates(f, Nat, number, next)
  <2> HIDE DEF next
  <2> QED BY <1>0, <1>1, Recursion
<1>20. f \in [Nat -> Nat] /\ f[0] = number /\ \A n \in Nat : f[n + 1] = next[<<n, f[n]>>]
  BY <1>2 DEF Iterates
<1> DEFINE h == [k \in 0..Digits |-> f[k]]
<1>3. \A k \in 0..(Digits - 1) : f[k + 1] = f[k] \div 16
  <2> SUFFICES ASSUME NEW k \in 0..(Digits - 1) PROVE f[k + 1] = f[k] \div 16
    OBVIOUS
  <2>1. k \in Nat /\ <<k, f[k]>> \in Nat \X Nat
    BY <1>20
  <2> QED BY <1>20, <2>1
<1>4. h = [k \in 0..Digits |-> IF k = 0 THEN number ELSE h[k - 1] \div 16]
  <2> SUFFICES ASSUME NEW k \in 0..Digits
               PROVE  h[k] = IF k = 0 THEN number ELSE h[k - 1] \div 16
    OBVIOUS
  <2>1. CASE k = 0
    BY <1>20, <2>1
  <2>2. CASE k # 0
    <3>1. k - 1 \in 0..(Digits - 1) /\ k - 1 \in 0..Digits /\ (k - 1) + 1 = k
      BY <2>2
    <3>2. h[k] = f[(k - 1) + 1] /\ h[k - 1] = f[k - 1]
      BY <3>1
    <3> QED BY <1>3, <2>2, <3>1, <3>2
  <2> QED BY <2>1, <2>2
<1>5. left = [k \in 0..Digits |-> IF k = 0 THEN number ELSE left[k - 1] \div 16]
  <2>1. \E g : g = [k \in 0..Digits |-> IF k = 0 THEN number ELSE g[k - 1] \div 16]
    <3> HIDE DEF h
    <3> QED BY <1>4
  <2> QED BY <2>1, Zenon
<1>6. Int128ToHex(number) = [k \in 1..Digits |-> IntToHex(left[Digits - k] % 16)]
  BY Zenon DEF Int128ToHex
<1> HIDE DEF left, h
<1> DEFINE S == {k \in Nat : k <= Digits => left[k] \in Nat /\ left[k] < Power[Digits - k]}
<1>7. 0 \in S
  BY <1>0, <1>5
<1>8. ASSUME NEW k \in Nat, k + 1 <= Digits PROVE left[k + 1] = left[k] \div 16
  <2>1. k + 1 \in 0..Digits /\ k + 1 # 0 /\ (k + 1) - 1 = k
    BY <1>8
  <2> QED BY <1>5, <2>1
<1>9. ASSUME NEW k \in Nat, k \in S PROVE k + 1 \in S
  <2> SUFFICES ASSUME k + 1 <= Digits
               PROVE  left[k + 1] \in Nat /\ left[k + 1] < Power[Digits - (k + 1)]
    OBVIOUS
  <2>1. left[k] \in Nat /\ left[k] < Power[Digits - k]
    BY <1>9
  <2>2. Digits - (k + 1) \in Nat /\ (Digits - (k + 1)) + 1 = Digits - k
    OBVIOUS
  <2> DEFINE n == Digits - (k + 1)
             l == left[k]
             m == Power[n]
  <2>3. Power[Digits - k] = 16 * m /\ m \in Nat
    BY <2>2, PowerIs
  <2>4. l \in Nat /\ l < 16 * m /\ left[k + 1] = l \div 16
    BY <1>8, <2>1, <2>3
  <2> HIDE DEF l, m
  <2>5. l \div 16 \in Nat /\ l \div 16 < m
    BY <2>3, <2>4
  <2> QED BY <2>4, <2>5 DEF m
<1>10. Nat \subseteq S
  <2> HIDE DEF S
  <2> QED BY <1>7, <1>9, Induction
<1>11. /\ left \in [0..Digits -> Nat]
       /\ \A k \in 0..Digits : left[k] < Power[Digits - k]
  <2>1. ASSUME NEW k \in 0..Digits PROVE left[k] \in Nat /\ left[k] < Power[Digits - k]
    <3>1. k \in Nat /\ k <= Digits
      OBVIOUS
    <3> QED BY <1>10, <3>1
  <2>2. left = [k \in 0..Digits |-> left[k]]
    BY <1>5
  <2> QED BY <2>1, <2>2
<1>12. left[0] = number
  BY <1>5
<1>13. \A k \in 0..(Digits - 1) : left[k + 1] = left[k] \div 16
  BY <1>8
<1> QED BY <1>6, <1>11, <1>12, <1>13

\* The characters of a number are read as that number.
LEMMA NumberBack ==
  ASSUME NEW number \in 0..(Power[Digits] - 1)
  PROVE  HexToInt128(Int128ToHex(number)) = number
<1> USE HexNumbersAssumption
<1>1. PICK left \in [0..Digits -> Nat] :
        /\ left[0] = number
        /\ \A k \in 0..(Digits - 1) : left[k + 1] = left[k] \div 16
        /\ \A k \in 0..Digits : left[k] < Power[Digits - k]
        /\ Int128ToHex(number) = [k \in 1..Digits |-> IntToHex(left[Digits - k] % 16)]
  BY ShiftsLeave
<1> DEFINE text == Int128ToHex(number)
           W == Power[Digits]
           n[k \in 0..(Digits - 1)] ==
             IF k = 0 THEN 0 ELSE ((n[k - 1] + HexToInt(text[k])) * 16) % W
           h == [k \in 0..(Digits - 1) |-> 16 * left[Digits - k]]
<1>2. ASSUME NEW k \in 1..Digits PROVE HexToInt(text[k]) = left[Digits - k] % 16
  <2> DEFINE l == left[Digits - k]
  <2>1. l \in Nat
    BY <1>1, SMTT(60)
  <2> HIDE DEF l
  <2>2. l % 16 \in 0..15
    BY ONLY <2>1
  <2> QED BY <1>1, <2>2, DigitBack DEF l
<1>3. ASSUME NEW k \in 1..Digits PROVE left[Digits - k + 1] = left[Digits - k] \div 16
  <2>1. Digits - k \in 0..(Digits - 1)
    OBVIOUS
  <2> QED BY <1>1, <2>1
<1>4. ASSUME NEW k \in 1..(Digits - 1)
      PROVE  ((16 * left[Digits - k + 1] + HexToInt(text[k])) * 16) % W = 16 * left[Digits - k]
  <2> DEFINE l == left[Digits - k]
  <2>0. k \in Nat /\ k + 1 \in Nat
    OBVIOUS
  <2>1. l \in Nat /\ l < Power[k] /\ Digits - (Digits - k) = k
    <3>1. Digits - k \in 0..Digits /\ Digits - (Digits - k) = k
      OBVIOUS
    <3> QED BY <1>1, <3>1
  <2>2. left[Digits - k + 1] = l \div 16 /\ HexToInt(text[k]) = l % 16
    <3>1. k \in 1..Digits
      OBVIOUS
    <3> HIDE DEF text
    <3> QED BY <1>2, <1>3, <3>1, Zenon
  <2>3. 16 * l < W /\ W \in Nat
    <3>1. \A j \in Nat : Power[j] \in Nat \ {0} /\ Power[j + 1] = 16 * Power[j]
      BY PowerIs
    <3> DEFINE S == {j \in Nat : Power[k + 1] <= Power[k + 1 + j]}
    <3>2. 0 \in S
      <4>1. k + 1 + 0 = k + 1
        BY <2>0
      <4>2. Power[k + 1] \in Nat
        BY <2>0, <3>1
      <4> QED BY <4>1, <4>2
    <3>3. ASSUME NEW j \in Nat, j \in S PROVE j + 1 \in S
      <4> DEFINE m == k + 1 + j
      <4>1. m \in Nat /\ m + 1 = k + 1 + (j + 1)
        BY <2>0
      <4>2. Power[m + 1] = 16 * Power[m] /\ Power[m] \in Nat /\ Power[k + 1] \in Nat
        BY <2>0, <3>1, <4>1
      <4>3. Power[k + 1] <= Power[m + 1]
        BY <3>3, <4>2
      <4> QED BY <4>1, <4>3
    <3>4. Nat \subseteq S
      <4> HIDE DEF S
      <4> QED BY <3>2, <3>3, Induction
    <3>5. Digits - (k + 1) \in Nat /\ k + 1 + (Digits - (k + 1)) = Digits
      OBVIOUS
    <3>6. Power[k + 1] <= W
      BY <3>4, <3>5
    <3>7. Power[k + 1] = 16 * Power[k] /\ Power[k] \in Nat /\ W \in Nat
      BY <2>0, <3>1
    <3> QED BY <2>1, <3>6, <3>7, SMTT(60)
  <2> HIDE DEF l, W
  <2>4. (16 * (l \div 16)) + (l % 16) = l
    BY <2>1
  <2>5. (l * 16) % W = 16 * l
    <3>1. PICK a : a = 16 * l
      OBVIOUS
    <3>2. a \in Nat /\ W \in Nat /\ a < W /\ l * 16 = a
      BY <2>1, <2>3, <3>1
    <3>3. a % W = a
      BY ONLY <3>2
    <3> QED BY <3>1, <3>2, <3>3
  <2> QED BY <2>2, <2>4, <2>5 DEF l
<1>5. h = [k \in 0..(Digits - 1) |-> IF k = 0 THEN 0 ELSE ((h[k - 1] + HexToInt(text[k])) * 16) % W]
  <2> SUFFICES ASSUME NEW k \in 0..(Digits - 1)
               PROVE  h[k] = IF k = 0 THEN 0 ELSE ((h[k - 1] + HexToInt(text[k])) * 16) % W
    BY ZenonT(60)
  <2>1. CASE k = 0
    <3>1. left[Digits] \in Nat /\ left[Digits] < Power[0]
      <4>1. Digits \in 0..Digits /\ Digits - Digits = 0
        OBVIOUS
      <4> QED BY <1>1, <4>1
    <3>2. left[Digits] = 0
      BY <3>1, PowerIs, SMTT(60)
    <3> QED BY <2>1, <3>2
  <2>2. CASE k # 0
    <3>1. k \in 1..(Digits - 1) /\ k - 1 \in 0..(Digits - 1) /\ Digits - (k - 1) = Digits - k + 1
      BY <2>2
    <3>2. h[k] = 16 * left[Digits - k] /\ h[k - 1] = 16 * left[Digits - k + 1]
      BY <3>1
    <3> HIDE DEF h, text, W
    <3> QED BY <1>4, <2>2, <3>1, <3>2
  <2> HIDE DEF h, text, W
  <2> QED BY <2>1, <2>2
<1>6. n = [k \in 0..(Digits - 1) |-> IF k = 0 THEN 0 ELSE ((n[k - 1] + HexToInt(text[k])) * 16) % W]
  <2>1. \E g : g = [k \in 0..(Digits - 1) |-> IF k = 0 THEN 0 ELSE ((g[k - 1] + HexToInt(text[k])) * 16) % W]
    <3> HIDE DEF h, text, W
    <3> QED BY <1>5
  <2> HIDE DEF text, W
  <2> QED BY <2>1, Zenon
<1>7. HexToInt128(text) = LastDigit(n[Digits - 1], HexToInt(text[Digits]))
  BY Zenon DEF HexToInt128
<1> HIDE DEF n, text, W, h
<1> DEFINE S == {k \in Nat : k <= Digits - 1 => n[k] = h[k]}
<1>8. 0 \in S
  BY <1>5, <1>6
<1>9. ASSUME NEW k \in Nat, k \in S PROVE k + 1 \in S
  <2> SUFFICES ASSUME k + 1 <= Digits - 1 PROVE n[k + 1] = h[k + 1]
    BY SMTT(60)
  <2>1. k + 1 \in 0..(Digits - 1) /\ k + 1 # 0 /\ (k + 1) - 1 = k /\ n[k] = h[k]
    BY <1>9
  <2>2. n[k + 1] = ((n[k] + HexToInt(text[k + 1])) * 16) % W
    BY <1>6, <2>1
  <2>3. h[k + 1] = ((h[k] + HexToInt(text[k + 1])) * 16) % W
    BY <1>5, <2>1
  <2> QED BY <2>1, <2>2, <2>3
<1>10. Nat \subseteq S
  <2> HIDE DEF S
  <2> QED BY <1>8, <1>9, Induction
<1>11. n[Digits - 1] = 16 * left[1]
  <2>1. Digits - 1 \in Nat /\ Digits - 1 <= Digits - 1 /\ Digits - (Digits - 1) = 1
    OBVIOUS
  <2>2. n[Digits - 1] = h[Digits - 1]
    BY <1>10, <2>1
  <2> QED BY <2>1, <2>2 DEF h
<1>12. left[1] = number \div 16 /\ HexToInt(text[Digits]) = number % 16
  <2>1. Digits \in 1..Digits /\ Digits - Digits = 0 /\ Digits - Digits + 1 = 1
    OBVIOUS
  <2> QED BY <1>1, <1>2, <1>3, <2>1
<1>13. number \in Nat
  BY PowerIs
<1>14. (16 * (number \div 16)) + (number % 16) = number
  BY <1>13
<1> QED BY <1>7, <1>11, <1>12, <1>14 DEF LastDigit, text

\* The place of the first digit of the k-th number.
Record(k) == (Digits + 1) * (k - 1)

HexInv ==
  /\ numbers \in Seq(Randoms)
  /\ number_file \in Seq(Symbols)
  /\ Len(number_file) = (Digits + 1) * Len(numbers)
  /\ \A k \in 1..Len(numbers) : \A d \in 1..Digits :
       number_file[Record(k) + d] = Int128ToHex(numbers[k])[d]

LEMMA TextType ==
  ASSUME NEW number \in 0..(Power[Digits] - 1)
  PROVE  /\ Int128ToHex(number) \in Seq(Symbols)
         /\ Len(Int128ToHex(number)) = Digits
         /\ Int128ToHex(number) \in [1..Digits -> Symbols]
<1> USE HexNumbersAssumption
<1>1. PICK left \in [0..Digits -> Nat] :
        Int128ToHex(number) = [k \in 1..Digits |-> IntToHex(left[Digits - k] % 16)]
  BY ShiftsLeave, SMTT(60)
<1>2. ASSUME NEW k \in 1..Digits PROVE IntToHex(left[Digits - k] % 16) \in Symbols
  <2> DEFINE l == left[Digits - k]
  <2>1. l \in Nat
    BY <1>1
  <2> HIDE DEF l
  <2>2. l % 16 \in 0..15
    BY ONLY <2>1
  <2>3. IntToHex(l % 16) \in Symbols
    BY <2>2, DigitBack DEF Symbols
  <2> QED BY <2>3 DEF l
<1>3. Int128ToHex(number) \in [1..Digits -> Symbols]
  BY <1>1, <1>2
<1>4. Digits \in Nat
  OBVIOUS
<1> HIDE DEF Symbols
<1>5. Int128ToHex(number) \in Seq(Symbols)
  BY <1>3, <1>4, SeqDef
<1>6. Len(Int128ToHex(number)) = Digits
  BY <1>3, <1>4, <1>5, LenProperties
<1> QED BY <1>3, <1>5, <1>6

\* The places of the records, one after another.
LEMMA RecordPlaces ==
  ASSUME NEW n \in Nat, NEW k \in 1..n
  PROVE  /\ Record(k) \in Nat
         /\ Record(k) + Digits + 1 <= (Digits + 1) * n
         /\ Record(n + 1) = (Digits + 1) * n
         /\ (Digits + 1) * (n + 1) = (Digits + 1) * n + Digits + 1
<1> DEFINE D == Digits + 1
<1>1. D \in Nat /\ D = Digits + 1 /\ Digits \in Nat
  BY HexNumbersAssumption
<1>2. /\ Record(k) = D * (k - 1)
      /\ Record(n + 1) = D * n
  <2>1. (n + 1) - 1 = n
    OBVIOUS
  <2> QED BY <2>1 DEF Record
<1> HIDE DEF D
<1>3. PICK m \in Nat : n = k + m
  <2>1. n - k \in Nat /\ n = k + (n - k)
    OBVIOUS
  <2> QED BY <2>1
<1>4. PICK l \in Nat : k = l + 1
  <2>1. k - 1 \in Nat /\ k = (k - 1) + 1
    OBVIOUS
  <2> QED BY <2>1
<1>5. D * (k - 1) = D * l /\ D * l \in Nat
  BY <1>1, <1>4
<1>6. D * n = D * l + D + D * m /\ D * m \in Nat
  BY <1>1, <1>3, <1>4
<1>7. D * (n + 1) = D * n + D
  BY <1>1
<1> QED BY <1>1, <1>2, <1>5, <1>6, <1>7 DEF D

LEMMA HexInitInv == HexInit => HexInv
<1> SUFFICES ASSUME HexInit PROVE HexInv
  OBVIOUS
<1>1. numbers = <<>> /\ number_file = <<>> /\ Len(numbers) = 0 /\ Len(number_file) = 0
  BY DEF HexInit
<1>2. numbers \in Seq(Randoms)
  BY <1>1
<1>3. number_file \in Seq(Symbols)
  BY <1>1
<1>4. Digits + 1 \in Nat /\ (Digits + 1) * 0 = 0
  BY HexNumbersAssumption
<1>5. 1..Len(numbers) = {}
  BY <1>1
<1> QED BY <1>1, <1>2, <1>3, <1>4, <1>5 DEF HexInv

LEMMA HexStepInv == HexInv /\ [Generate]_hexVars => HexInv'
<1> SUFFICES ASSUME HexInv, [Generate]_hexVars PROVE HexInv'
  OBVIOUS
<1>1. CASE UNCHANGED hexVars
  BY <1>1 DEF hexVars, HexInv
<1>2. CASE Generate
  <2>1. PICK number \in Randoms : /\ numbers' = Append(numbers, number)
                                 /\ number_file' = Append(number_file \o Int128ToHex(number), Separator)
    BY <1>2 DEF Generate
  <2> DEFINE n == Len(numbers)
             text == Int128ToHex(number)
             L == Len(number_file)
  <2>2. /\ numbers \in Seq(Randoms) /\ number_file \in Seq(Symbols) /\ n \in Nat /\ L \in Nat
        /\ L = (Digits + 1) * n
        /\ Digits \in Nat
    BY HexNumbersAssumption DEF HexInv
  <2>3. text \in Seq(Symbols) /\ Len(text) = Digits
    BY <2>1, TextType, HexNumbersAssumption
  <2> HIDE DEF text, n, L
  <2>4. numbers' \in Seq(Randoms) /\ Len(numbers') = n + 1
    BY <2>1, <2>2, AppendProperties DEF n
  <2>5. \A k \in 1..(n + 1) : numbers'[k] = IF k = n + 1 THEN number ELSE numbers[k]
    BY <2>1, <2>2, AppendProperties DEF n
  <2>6. Separator \in Symbols
    BY DEF Symbols
  <2>7. /\ number_file \o text \in Seq(Symbols)
        /\ Len(number_file \o text) = L + Digits
        /\ \A p \in 1..L : (number_file \o text)[p] = number_file[p]
        /\ \A p \in 1..Digits : (number_file \o text)[L + p] = text[p]
    <3>1. number_file \o text \in Seq(Symbols) /\ Len(number_file \o text) = L + Digits
      BY <2>2, <2>3, ConcatProperties DEF L
    <3>2. \A p \in 1..(L + Digits) : (number_file \o text)[p] = IF p <= L THEN number_file[p] ELSE text[p - L]
      BY <2>2, <2>3, ConcatProperties DEF L
    <3>3. ASSUME NEW p \in 1..Digits PROVE (number_file \o text)[L + p] = text[p]
      <4>1. L + p \in 1..(L + Digits) /\ ~(L + p <= L) /\ (L + p) - L = p
        BY <2>2
      <4> QED BY <3>2, <4>1
    <3>4. ASSUME NEW p \in 1..L PROVE (number_file \o text)[p] = number_file[p]
      <4>1. p \in 1..(L + Digits) /\ p <= L
        BY <2>2
      <4> QED BY <3>2, <4>1
    <3> QED BY <3>1, <3>3, <3>4
  <2>8. /\ number_file' \in Seq(Symbols)
        /\ Len(number_file') = L + Digits + 1
        /\ \A p \in 1..(L + Digits) : number_file'[p] = (number_file \o text)[p]
    <3> DEFINE both == number_file \o text
    <3>1. both \in Seq(Symbols) /\ Len(both) = L + Digits /\ number_file' = Append(both, Separator)
      BY <2>1, <2>7 DEF text
    <3> HIDE DEF both, Symbols
    <3>2. /\ number_file' \in Seq(Symbols)
          /\ Len(number_file') = L + Digits + 1
          /\ \A p \in 1..(L + Digits) : number_file'[p] = both[p]
      BY <2>2, <2>6, <3>1, AppendProperties
    <3> QED BY <3>2 DEF both
  <2>9. (Digits + 1) * (n + 1) = L + Digits + 1 /\ Record(n + 1) = L
    <3>1. n + 1 \in Nat /\ n + 1 \in 1..(n + 1) /\ (n + 1) - 1 = n
      BY <2>2
    <3>2. Record(n + 1) = (Digits + 1) * n
      BY <3>1 DEF Record
    <3>3. (Digits + 1) * (n + 1) = (Digits + 1) * n + Digits + 1
      BY <2>2
    <3> QED BY <2>2, <3>2, <3>3
  <2>10. ASSUME NEW k \in 1..(n + 1), NEW d \in 1..Digits
         PROVE  number_file'[Record(k) + d] = Int128ToHex(numbers'[k])[d]
    <3>1. CASE k = n + 1
      <4>1. Record(k) + d = L + d /\ L + d \in 1..(L + Digits) /\ numbers'[k] = number
        BY <2>2, <2>5, <2>9, <3>1
      <4>2. number_file'[L + d] = text[d]
        BY <2>7, <2>8, <4>1
      <4> QED BY <4>1, <4>2 DEF text
    <3>2. CASE k # n + 1
      <4>1. k \in 1..n /\ numbers'[k] = numbers[k]
        BY <2>2, <2>5, <3>2
      <4>2. Record(k) \in Nat /\ Record(k) + Digits + 1 <= L
        BY <2>2, <4>1, RecordPlaces
      <4>3. Record(k) + d \in 1..L /\ Record(k) + d \in 1..(L + Digits)
        BY <2>2, <4>2, SMTT(60)
      <4>4. number_file'[Record(k) + d] = number_file[Record(k) + d]
        BY <2>7, <2>8, <4>3
      <4>5. number_file[Record(k) + d] = Int128ToHex(numbers[k])[d]
        BY <4>1 DEF HexInv, n
      <4> QED BY <4>1, <4>4, <4>5
    <3> QED BY <3>1, <3>2
  <2>11. \A k \in 1..Len(numbers') : \A d \in 1..Digits :
           number_file'[Record(k) + d] = Int128ToHex(numbers'[k])[d]
    BY <2>4, <2>10
  <2>12. Len(number_file') = (Digits + 1) * Len(numbers')
    BY <2>4, <2>8, <2>9
  <2>13. numbers' \in Seq(Randoms) /\ number_file' \in Seq(Symbols)
    BY <2>4, <2>8
  <2> QED BY <2>11, <2>12, <2>13 DEF HexInv, Record
<1> QED BY <1>1, <1>2

LEMMA HexInvReadBack == HexInv => ReadBack
<1> SUFFICES ASSUME HexInv, NEW k \in 1..Len(numbers), NEW start, start = (Digits + 1) * (k - 1)
             PROVE  HexToInt128(SubSeq(number_file, start + 1, start + Digits)) = numbers[k]
  BY DEF ReadBack
<1> DEFINE text == Int128ToHex(numbers[k])
           L == Len(number_file)
           cut == SubSeq(number_file, start + 1, start + Digits)
<1>1. /\ numbers \in Seq(Randoms) /\ number_file \in Seq(Symbols)
      /\ Len(numbers) \in Nat /\ L \in Nat
      /\ L = (Digits + 1) * Len(numbers)
      /\ Digits \in Nat \ {0}
  BY HexNumbersAssumption DEF HexInv
<1>2. numbers[k] \in 0..(Power[Digits] - 1)
  <2>1. numbers[k] \in Randoms
    BY <1>1
  <2>2. Randoms \subseteq 0..(Power[Digits] - 1)
    BY HexNumbersAssumption
  <2> QED BY <2>1, <2>2
<1>3. text \in Seq(Symbols) /\ Len(text) = Digits
  BY <1>2, TextType
<1>4. start \in Nat /\ start + Digits <= L /\ start = Record(k)
  <2>1. start = Record(k)
    BY DEF Record
  <2>2. Record(k) \in Nat /\ Record(k) + Digits + 1 <= (Digits + 1) * Len(numbers)
    BY <1>1, RecordPlaces
  <2> HIDE DEF L
  <2> QED BY <1>1, <2>1, <2>2, SMTT(60)
<1>5. \A d \in 1..Digits : number_file[start + d] = text[d]
  BY <1>4 DEF HexInv
<1> HIDE DEF text, L
<1>6. /\ cut \in Seq(Symbols) /\ Len(cut) = Digits
      /\ \A d \in 1..Digits : cut[d] = number_file[start + d]
  <2>1. \A p \in (start + 1)..(start + Digits) : number_file[p] \in Symbols
    BY <1>1, <1>4 DEF L
  <2>2. start + 1 \in Int /\ start + Digits \in Int
    BY <1>1, <1>4
  <2> HIDE DEF Symbols
  <2>3. /\ cut \in Seq(Symbols)
        /\ Len(cut) = IF start + 1 <= start + Digits THEN (start + Digits) - (start + 1) + 1 ELSE 0
        /\ \A p \in 1..((start + Digits) - (start + 1) + 1) : cut[p] = number_file[(start + 1) + p - 1]
    BY <2>1, <2>2, SubSeqProperties, SMTT(60)
  <2> HIDE DEF cut
  <2>4. Len(cut) = Digits
    <3>1. /\ start + 1 <= start + Digits /\ (start + Digits) - (start + 1) + 1 = Digits
      BY <1>1, <1>4
    <3> QED BY <2>3, <3>1
  <2>5. ASSUME NEW d \in 1..Digits PROVE cut[d] = number_file[start + d]
    <3>1. d \in 1..((start + Digits) - (start + 1) + 1) /\ (start + 1) + d - 1 = start + d
      BY <1>1, <1>4
    <3> QED BY <2>3, <3>1
  <2> QED BY <2>3, <2>4, <2>5
<1>7. cut = text
  <2> HIDE DEF cut
  <2>1. \A d \in 1..Len(cut) : cut[d] = text[d]
    BY <1>5, <1>6
  <2> QED BY <1>3, <1>6, <2>1, SeqEqual
<1> QED BY <1>2, <1>7, NumberBack DEF text

\* Every number of any width is read from the file as it was generated, and
\* however many there are.
THEOREM ReadBackCorrect == HexSpec => []ReadBack
BY HexInitInv, HexStepInv, HexInvReadBack, PTL DEF HexSpec

-----------------------------------------------------------------------------
(* What is picked out of a sequence, and the first elements of one.        *)

\* What is taken out of s step by step.
Takes(taken, s, S, T) ==
  /\ taken \in [0..Len(s) -> Seq(T)]
  /\ taken[0] = <<>>
  /\ \A n \in 0..(Len(s) - 1) :
       taken[n + 1] = IF s[n + 1] \in S THEN Append(taken[n], s[n + 1]) ELSE taken[n]
  /\ Among(s, S) = taken[Len(s)]

LEMMA AmongIs ==
  ASSUME NEW T, NEW s \in Seq(T), NEW S
  PROVE  \E taken : Takes(taken, s, S, T)
<1> DEFINE L == Len(s)
           X == Seq(T)
           base == <<>>
           next == [p \in Nat \X X |-> IF p[1] < L /\ s[p[1] + 1] \in S
                                       THEN Append(p[2], s[p[1] + 1]) ELSE p[2]]
           taken[n \in 0..L] == IF n = 0 THEN <<>>
                                ELSE IF s[n] \in S THEN Append(taken[n - 1], s[n]) ELSE taken[n - 1]
<1>0. L \in Nat
  OBVIOUS
<1>1. next \in [Nat \X X -> X]
  <2>1. ASSUME NEW n \in Nat, NEW t \in X
        PROVE  (IF n < L /\ s[n + 1] \in S THEN Append(t, s[n + 1]) ELSE t) \in X
    <3>1. CASE n < L
      <4>1. n + 1 \in 1..L
        BY <1>0, <3>1
      <4>2. s[n + 1] \in T
        BY <4>1
      <4> QED BY <4>2
    <3>2. CASE ~(n < L)
      BY <3>2
    <3> QED BY <3>1, <3>2
  <2> HIDE DEF X, L
  <2> QED BY <2>1
<1>2. base \in X
  OBVIOUS
<1>3. PICK f : Iterates(f, X, base, next)
  <2> HIDE DEF X, next, base
  <2> QED BY <1>1, <1>2, Recursion
<1>4. f \in [Nat -> X] /\ f[0] = <<>> /\ \A n \in Nat : f[n + 1] = next[<<n, f[n]>>]
  <2> HIDE DEF X, next
  <2> QED BY <1>3 DEF Iterates
<1>5. ASSUME NEW n \in 0..(L - 1)
      PROVE  f[n + 1] = IF s[n + 1] \in S THEN Append(f[n], s[n + 1]) ELSE f[n]
  <2>1. n \in Nat /\ n < L /\ f[n] \in X
    BY <1>0, <1>4, SMTT(60)
  <2>2. <<n, f[n]>> \in Nat \X X /\ <<n, f[n]>>[1] = n /\ <<n, f[n]>>[2] = f[n]
    BY <2>1
  <2> HIDE DEF X, L
  <2>3. next[<<n, f[n]>>] = IF s[n + 1] \in S THEN Append(f[n], s[n + 1]) ELSE f[n]
    BY <2>1, <2>2
  <2> HIDE DEF next
  <2> QED BY <1>4, <2>1, <2>3
<1> HIDE DEF next
<1> DEFINE h == [n \in 0..L |-> f[n]]
<1>6. h = [n \in 0..L |-> IF n = 0 THEN <<>>
                          ELSE IF s[n] \in S THEN Append(h[n - 1], s[n]) ELSE h[n - 1]]
  <2> SUFFICES ASSUME NEW n \in 0..L
               PROVE  h[n] = IF n = 0 THEN <<>>
                             ELSE IF s[n] \in S THEN Append(h[n - 1], s[n]) ELSE h[n - 1]
    BY Zenon
  <2>1. CASE n = 0
    BY <1>4, <2>1
  <2>2. CASE n # 0
    <3>1. n - 1 \in 0..(L - 1) /\ n - 1 \in 0..L /\ (n - 1) + 1 = n
      BY <1>0, <2>2
    <3>2. h[n] = f[(n - 1) + 1] /\ h[n - 1] = f[n - 1]
      BY <3>1
    <3> HIDE DEF h, L
    <3> QED BY <1>5, <2>2, <3>1, <3>2, Zenon
  <2> QED BY <2>1, <2>2
<1>7. taken = [n \in 0..L |-> IF n = 0 THEN <<>>
                              ELSE IF s[n] \in S THEN Append(taken[n - 1], s[n]) ELSE taken[n - 1]]
  <2>1. \E g : g = [n \in 0..L |-> IF n = 0 THEN <<>>
                                   ELSE IF s[n] \in S THEN Append(g[n - 1], s[n]) ELSE g[n - 1]]
    <3> HIDE DEF h
    <3> QED BY <1>6, Zenon
  <2> QED BY <2>1, Zenon
<1>8. Among(s, S) = taken[L]
  BY Zenon DEF Among
<1> HIDE DEF taken, L
<1>9. ASSUME NEW n \in 0..(L - 1)
      PROVE  taken[n + 1] = IF s[n + 1] \in S THEN Append(taken[n], s[n + 1]) ELSE taken[n]
  <2>1. n + 1 \in 0..L /\ n + 1 # 0 /\ (n + 1) - 1 = n
    BY <1>0
  <2> QED BY <1>7, <2>1, Zenon
<1>10. taken[0] = <<>>
  <2>1. 0 \in 0..L
    BY <1>0
  <2> QED BY <1>7, <2>1, Zenon
<1> DEFINE R == {n \in Nat : n <= L => taken[n] \in X}
<1>11. 0 \in R
  BY <1>2, <1>10
<1>12. ASSUME NEW n \in Nat, n \in R PROVE n + 1 \in R
  <2> SUFFICES ASSUME n + 1 <= L PROVE taken[n + 1] \in X
    OBVIOUS
  <2>1. n \in 0..(L - 1) /\ n + 1 \in 1..L /\ taken[n] \in X
    BY <1>0, <1>12
  <2>2. s[n + 1] \in T
    BY <2>1 DEF L
  <2>3. Append(taken[n], s[n + 1]) \in X
    BY <2>1, <2>2
  <2> HIDE DEF X
  <2> QED BY <1>9, <2>1, <2>3, Zenon
<1>13. Nat \subseteq R
  <2> HIDE DEF R
  <2> QED BY <1>11, <1>12, Induction
<1>14. taken \in [0..L -> X]
  <2>1. ASSUME NEW n \in 0..L PROVE taken[n] \in X
    <3>1. n \in Nat /\ n <= L
      BY <1>0
    <3> HIDE DEF X
    <3> QED BY <1>13, <3>1
  <2>2. taken = [n \in 0..L |-> taken[n]]
    BY <1>7, Zenon
  <2> HIDE DEF X
  <2> QED BY <2>1, <2>2
<1>15. Takes(taken, s, S, T)
  BY <1>8, <1>9, <1>10, <1>14, Zenon DEF L, X, Takes
<1> QED BY <1>15

LEMMA AmongEmpty ==
  ASSUME NEW S
  PROVE  Among(<<>>, S) = <<>>
<1> DEFINE s == <<>>
<1>1. s \in Seq({}) /\ Len(s) = 0
  OBVIOUS
<1> HIDE DEF s
<1>2. PICK taken : Takes(taken, s, S, {})
  BY <1>1, AmongIs
<1>3. Among(s, S) = <<>>
  BY <1>1, <1>2 DEF Takes
<1> QED BY <1>3 DEF s

LEMMA AmongType ==
  ASSUME NEW T, NEW s \in Seq(T), NEW S
  PROVE  Among(s, S) \in Seq(T)
<1>1. PICK taken : Takes(taken, s, S, T)
  BY AmongIs
<1>2. Len(s) \in 0..Len(s)
  <2>1. Len(s) \in Nat
    OBVIOUS
  <2> QED BY <2>1
<1> QED BY <1>1, <1>2 DEF Takes

\* One more element.
LEMMA AmongAppend ==
  ASSUME NEW T, NEW s \in Seq(T), NEW S, NEW e \in T
  PROVE  Among(Append(s, e), S) = IF e \in S THEN Append(Among(s, S), e) ELSE Among(s, S)
<1> DEFINE s2 == Append(s, e)
           L == Len(s)
<1>1. s2 \in Seq(T) /\ Len(s2) = L + 1 /\ L \in Nat /\ s2[L + 1] = e
      /\ \A n \in 1..L : s2[n] = s[n]
  BY AppendProperties
<1> HIDE DEF s2
<1>2. PICK taken : Takes(taken, s, S, T)
  BY AmongIs
<1>3. PICK taken2 : Takes(taken2, s2, S, T)
  BY <1>1, AmongIs
<1> HIDE DEF L
<1> DEFINE R == {n \in Nat : n <= L => taken2[n] = taken[n]}
<1>4. 0 \in R
  BY <1>2, <1>3 DEF Takes
<1>5. ASSUME NEW n \in Nat, n \in R PROVE n + 1 \in R
  <2> SUFFICES ASSUME n + 1 <= L PROVE taken2[n + 1] = taken[n + 1]
    OBVIOUS
  <2>1. n \in 0..(L - 1) /\ n + 1 \in 1..L /\ n \in 0..(Len(s2) - 1) /\ taken2[n] = taken[n]
    BY <1>1, <1>5
  <2>2. s2[n + 1] = s[n + 1]
    BY <1>1, <2>1
  <2> QED BY <1>2, <1>3, <2>1, <2>2, Zenon DEF Takes, L
<1>6. Nat \subseteq R
  <2> HIDE DEF R
  <2> QED BY <1>4, <1>5, Induction
<1>7. taken2[L] = taken[L]
  BY <1>1, <1>6
<1>8. taken2[L + 1] = IF s2[L + 1] \in S THEN Append(taken2[L], s2[L + 1]) ELSE taken2[L]
  <2>1. L \in 0..(Len(s2) - 1)
    BY <1>1
  <2> QED BY <1>3, <2>1, Zenon DEF Takes
<1>9. Among(s2, S) = taken2[L + 1] /\ s2[L + 1] = e
  BY <1>1, <1>3 DEF Takes
<1>10. Among(s, S) = taken[L]
  BY <1>2 DEF Takes, L
<1> QED BY <1>7, <1>8, <1>9, <1>10, Zenon DEF s2

\* The first elements of a sequence.
First(s, n) == SubSeq(s, 1, n)

LEMMA FirstFacts ==
  ASSUME NEW T, NEW s \in Seq(T), NEW n \in 0..Len(s)
  PROVE  /\ First(s, n) \in Seq(T)
         /\ Len(First(s, n)) = n
         /\ \A k \in 1..n : First(s, n)[k] = s[k]
<1>1. Len(s) \in Nat /\ n \in Nat /\ n <= Len(s)
  OBVIOUS
<1>2. \A k \in 1..n : s[k] \in T
  BY <1>1
<1>3. /\ SubSeq(s, 1, n) \in Seq(T)
      /\ Len(SubSeq(s, 1, n)) = IF 1 <= n THEN n - 1 + 1 ELSE 0
      /\ \A k \in 1..(n - 1 + 1) : SubSeq(s, 1, n)[k] = s[1 + k - 1]
  BY <1>1, <1>2, SubSeqProperties
<1> DEFINE c == SubSeq(s, 1, n)
<1> HIDE DEF c
<1>4. Len(c) = n
  BY <1>1, <1>3 DEF c
<1>5. ASSUME NEW k \in 1..n PROVE c[k] = s[k]
  <2>1. k \in 1..(n - 1 + 1) /\ 1 + k - 1 = k
    BY <1>1
  <2> QED BY <1>3, <2>1 DEF c
<1> QED BY <1>3, <1>4, <1>5 DEF c, First

LEMMA FirstAll ==
  ASSUME NEW T, NEW s \in Seq(T)
  PROVE  First(s, Len(s)) = s
<1>1. Len(s) \in 0..Len(s)
  <2>1. Len(s) \in Nat
    OBVIOUS
  <2> QED BY <2>1
<1>2. /\ First(s, Len(s)) \in Seq(T) /\ Len(First(s, Len(s))) = Len(s)
      /\ \A k \in 1..Len(s) : First(s, Len(s))[k] = s[k]
  BY <1>1, FirstFacts
<1> QED BY <1>2, SeqEqual

LEMMA FirstNext ==
  ASSUME NEW T, NEW s \in Seq(T), NEW n \in 0..(Len(s) - 1)
  PROVE  First(s, n + 1) = Append(First(s, n), s[n + 1])
<1>1. n \in 0..Len(s) /\ n + 1 \in 0..Len(s) /\ n + 1 \in 1..Len(s) /\ n \in Nat
  OBVIOUS
<1> DEFINE a == First(s, n)
           b == First(s, n + 1)
<1>2. a \in Seq(T) /\ Len(a) = n /\ \A k \in 1..n : a[k] = s[k]
  BY <1>1, FirstFacts
<1>3. b \in Seq(T) /\ Len(b) = n + 1 /\ \A k \in 1..(n + 1) : b[k] = s[k]
  BY <1>1, FirstFacts
<1>4. s[n + 1] \in T
  BY <1>1
<1> HIDE DEF a, b
<1>5. /\ Append(a, s[n + 1]) \in Seq(T) /\ Len(Append(a, s[n + 1])) = n + 1
      /\ \A k \in 1..n : Append(a, s[n + 1])[k] = a[k]
      /\ Append(a, s[n + 1])[n + 1] = s[n + 1]
  BY <1>2, <1>4, AppendProperties
<1>6. ASSUME NEW k \in 1..Len(b) PROVE b[k] = Append(a, s[n + 1])[k]
  <2>1. k \in 1..(n + 1)
    BY <1>3
  <2>2. CASE k = n + 1
    BY <1>3, <1>5, <2>1, <2>2
  <2>3. CASE k # n + 1
    <3>1. k \in 1..n
      BY <1>1, <2>1, <2>3
    <3> QED BY <1>2, <1>3, <1>5, <2>1, <3>1
  <2> QED BY <2>2, <2>3
<1>7. b = Append(a, s[n + 1])
  <2>1. Len(b) = Len(Append(a, s[n + 1]))
    BY <1>3, <1>5
  <2> QED BY <1>3, <1>5, <1>6, <2>1, SeqEqual
<1> QED BY <1>7 DEF a, b

LEMMA FirstOfAppend ==
  ASSUME NEW T, NEW s \in Seq(T), NEW e \in T, NEW n \in 0..Len(s)
  PROVE  First(Append(s, e), n) = First(s, n)
<1> DEFINE t == Append(s, e)
<1>1. t \in Seq(T) /\ Len(t) = Len(s) + 1 /\ \A k \in 1..Len(s) : t[k] = s[k]
  BY AppendProperties
<1>2. Len(s) \in Nat
  OBVIOUS
<1> HIDE DEF t
<1>3. n \in 0..Len(t)
  BY <1>1, <1>2
<1>4. /\ First(t, n) \in Seq(T) /\ Len(First(t, n)) = n /\ \A k \in 1..n : First(t, n)[k] = t[k]
  BY <1>1, <1>3, FirstFacts
<1>5. /\ First(s, n) \in Seq(T) /\ Len(First(s, n)) = n /\ \A k \in 1..n : First(s, n)[k] = s[k]
  BY FirstFacts
<1>6. ASSUME NEW k \in 1..Len(First(t, n)) PROVE First(t, n)[k] = First(s, n)[k]
  <2>1. k \in 1..n /\ k \in 1..Len(s)
    BY <1>2, <1>4
  <2> QED BY <1>1, <1>4, <1>5, <2>1, SMTT(60)
<1>7. First(t, n) = First(s, n)
  BY <1>4, <1>5, <1>6, SeqEqual
<1> QED BY <1>7 DEF t

\* s begins with t.
Begins(s, t) == Len(t) <= Len(s) /\ \A k \in 1..Len(t) : t[k] = s[k]

\* What is picked out of the first elements comes first.
LEMMA AmongFirst ==
  ASSUME NEW T, NEW s \in Seq(T), NEW S, NEW n \in 0..Len(s)
  PROVE  Begins(Among(s, S), Among(First(s, n), S))
<1> DEFINE a(m) == Among(First(s, m), S)
           R == {m \in Nat : n + m <= Len(s) => Begins(a(n + m), a(n))}
<1>1. Len(s) \in Nat /\ n \in Nat /\ n <= Len(s)
  OBVIOUS
<1>2. ASSUME NEW m \in 0..Len(s) PROVE a(m) \in Seq(T) /\ Len(a(m)) \in Nat
  <2>1. First(s, m) \in Seq(T)
    BY FirstFacts
  <2>2. a(m) \in Seq(T)
    BY <2>1, AmongType
  <2> HIDE DEF a
  <2> QED BY <2>2
<1>3. 0 \in R
  <2>1. n + 0 = n
    BY <1>1
  <2>2. Begins(a(n), a(n))
    BY <1>2 DEF Begins
  <2> HIDE DEF a
  <2> QED BY <2>1, <2>2
<1>4. ASSUME NEW m \in Nat, m \in R PROVE m + 1 \in R
  <2> SUFFICES ASSUME n + (m + 1) <= Len(s) PROVE Begins(a(n + (m + 1)), a(n))
    <3>1. m + 1 \in Nat
      OBVIOUS
    <3> HIDE DEF a
    <3> QED BY <3>1
  <2>1. n + m \in 0..(Len(s) - 1) /\ n + m \in 0..Len(s) /\ n + (m + 1) = (n + m) + 1
        /\ (n + m) + 1 \in 1..Len(s) /\ n + m <= Len(s)
    BY <1>1
  <2>2. Begins(a(n + m), a(n))
    BY <1>4, <2>1
  <2>3. a((n + m) + 1) = IF s[(n + m) + 1] \in S THEN Append(a(n + m), s[(n + m) + 1]) ELSE a(n + m)
    <3>1. First(s, (n + m) + 1) = Append(First(s, n + m), s[(n + m) + 1])
      BY <2>1, FirstNext
    <3>2. First(s, n + m) \in Seq(T) /\ s[(n + m) + 1] \in T
      BY <2>1, FirstFacts
    <3> DEFINE f == First(s, n + m)
               d == s[(n + m) + 1]
    <3>3. f \in Seq(T) /\ d \in T
      BY <3>2
    <3> HIDE DEF f, d
    <3>4. ASSUME NEW u \in Seq(T), NEW y \in T
          PROVE  Among(Append(u, y), S) = IF y \in S THEN Append(Among(u, S), y) ELSE Among(u, S)
      BY AmongAppend
    <3>5. Among(Append(f, d), S) = IF d \in S THEN Append(Among(f, S), d) ELSE Among(f, S)
      BY <3>3, <3>4, Zenon
    <3> QED BY <3>1, <3>5, Zenon DEF f, d
  <2>4. a(n + m) \in Seq(T) /\ a(n) \in Seq(T) /\ s[(n + m) + 1] \in T
    BY <1>2, <2>1
  <2> HIDE DEF a
  <2>5. CASE s[(n + m) + 1] \in S
    <3>1. Begins(Append(a(n + m), s[(n + m) + 1]), a(n))
      <4> DEFINE c == a(n + m)
                 d == s[(n + m) + 1]
      <4>1. c \in Seq(T) /\ d \in T /\ a(n) \in Seq(T) /\ Begins(c, a(n))
        BY <2>2, <2>4
      <4> HIDE DEF c, d
      <4>2. Len(Append(c, d)) = Len(c) + 1 /\ \A k \in 1..Len(c) : Append(c, d)[k] = c[k]
        BY <4>1, AppendProperties
      <4>3. Len(c) \in Nat /\ Len(a(n)) \in Nat
        BY <4>1
      <4>4. Begins(Append(c, d), a(n))
        BY <4>1, <4>2, <4>3 DEF Begins
      <4> QED BY <4>4 DEF c, d
    <3> QED BY <2>1, <2>3, <2>5, <3>1
  <2>6. CASE s[(n + m) + 1] \notin S
    BY <2>1, <2>2, <2>3, <2>6
  <2> QED BY <2>5, <2>6
<1>5. Nat \subseteq R
  <2> HIDE DEF R
  <2> QED BY <1>3, <1>4, Induction, SMTT(60)
<1>6. Len(s) - n \in Nat /\ n + (Len(s) - n) = Len(s)
  BY <1>1
<1>7. Begins(a(Len(s)), a(n))
  <2> HIDE DEF a
  <2> QED BY <1>1, <1>5, <1>6
<1>8. First(s, Len(s)) = s
  BY FirstAll
<1> QED BY <1>7, <1>8

-----------------------------------------------------------------------------
(***************************************************************************)
(* LinePipes, for any lines, any number of them and any capacity of the    *)
(* pipes.                                                                  *)
(*                                                                         *)
(* FileComplete speaks of whole lines.  The invariant says what holds of   *)
(* every character between the two processes: what the child has read of   *)
(* a line, what is in the pipe and what the parent has yet to write are,   *)
(* one after another, the lines that have not been dealt with, cut where   *)
(* they end; the file holds the valid ones before them.                    *)
(* The line that is empty at the end of the input is one of them.          *)
(***************************************************************************)

\* The cuts of the characters r into the lines from the n-th on: e[k] is where
\* the k-th ends.
Cut(r, lines, n, e) ==
  /\ e \in [n..Len(lines) -> 0..Len(r)]
  /\ e[n] = 0 /\ e[Len(lines)] = Len(r)
  /\ \A j, k \in n..Len(lines) : j <= k => e[j] <= e[k]
  /\ \A k \in (n + 1)..Len(lines) : e[k] = e[k - 1] + Len(lines[k])
  /\ \A k \in (n + 1)..Len(lines) : \A j \in 1..Len(lines[k]) : r[e[k - 1] + j] = lines[k][j]

\* A line more.
LEMMA CutAppend ==
  ASSUME NEW C, NEW r \in Seq(C), NEW lines \in Seq(Seq(C)), NEW n \in 0..Len(lines), NEW e,
         Cut(r, lines, n, e), NEW l \in Seq(C)
  PROVE  \E e2 : Cut(r \o l, Append(lines, l), n, e2)
<1> DEFINE L == Len(lines)
           R == Len(r)
           D == Len(l)
           r2 == r \o l
           lines2 == Append(lines, l)
           e2 == [k \in n..(L + 1) |-> IF k = L + 1 THEN R + D ELSE e[k]]
<1>1. L \in Nat /\ R \in Nat /\ D \in Nat /\ n \in Nat /\ n <= L
  OBVIOUS
<1>2. /\ r2 \in Seq(C) /\ Len(r2) = R + D
      /\ \A p \in 1..(R + D) : r2[p] = IF p <= R THEN r[p] ELSE l[p - R]
  BY ConcatProperties
<1>3. /\ Len(lines2) = L + 1 /\ lines2[L + 1] = l
      /\ \A k \in 1..L : lines2[k] = lines[k]
  BY AppendProperties
<1>4. /\ e \in [n..L -> 0..R] /\ e[n] = 0 /\ e[L] = R
      /\ \A j, k \in n..L : j <= k => e[j] <= e[k]
      /\ \A k \in (n + 1)..L : e[k] = e[k - 1] + Len(lines[k])
      /\ \A k \in (n + 1)..L : \A j \in 1..Len(lines[k]) : r[e[k - 1] + j] = lines[k][j]
  BY DEF Cut
<1> HIDE DEF L, R, D, r2, lines2
<1>5. e2[L + 1] = R + D /\ \A k \in n..L : e2[k] = e[k]
  <2>1. L + 1 \in n..(L + 1) /\ \A k \in n..L : k \in n..(L + 1) /\ k # L + 1
    BY <1>1
  <2> QED BY <2>1
<1>6. e2 \in [n..(L + 1) -> 0..(R + D)]
  <2>1. ASSUME NEW k \in n..(L + 1)
        PROVE  (IF k = L + 1 THEN R + D ELSE e[k]) \in 0..(R + D)
    <3>1. CASE k = L + 1
      BY <1>1, <3>1
    <3>2. CASE k # L + 1
      <4>1. k \in n..L
        BY <1>1, <3>2
      <4>2. e[k] \in 0..R
        BY <1>4, <4>1
      <4> QED BY <1>1, <3>2, <4>2
    <3> QED BY <3>1, <3>2
  <2> QED BY <2>1
<1> HIDE DEF e2
<1>7. e2[n] = 0
  <2>1. n \in n..L
    BY <1>1
  <2> QED BY <1>4, <1>5, <2>1
<1>8. ASSUME NEW j \in n..(L + 1), NEW k \in n..(L + 1), j <= k PROVE e2[j] <= e2[k]
  <2>1. CASE k = L + 1
    <3>1. e2[j] \in 0..(R + D)
      BY <1>6
    <3> QED BY <1>5, <2>1, <3>1
  <2>2. CASE k # L + 1
    <3>1. k \in n..L /\ j \in n..L
      BY <1>1, <1>8, <2>2
    <3> QED BY <1>4, <1>5, <1>8, <3>1
  <2> QED BY <2>1, <2>2
<1>9. ASSUME NEW k \in (n + 1)..(L + 1)
      PROVE  /\ e2[k] = e2[k - 1] + Len(lines2[k])
             /\ \A j \in 1..Len(lines2[k]) : r2[e2[k - 1] + j] = lines2[k][j]
  <2>1. CASE k = L + 1
    <3>1. k - 1 = L /\ L \in n..L
      BY <1>1, <2>1
    <3>2. e2[k - 1] = R /\ e2[k] = R + D /\ lines2[k] = l
      BY <1>3, <1>4, <1>5, <2>1, <3>1
    <3>3. ASSUME NEW j \in 1..D PROVE r2[R + j] = l[j]
      <4>1. R + j \in 1..(R + D) /\ ~(R + j <= R) /\ (R + j) - R = j
        BY <1>1
      <4> QED BY <1>2, <4>1
    <3> QED BY <3>2, <3>3 DEF D
  <2>2. CASE k # L + 1
    <3>1. k \in (n + 1)..L /\ k \in n..L /\ k - 1 \in n..L /\ k \in 1..L
      BY <1>1, <2>2
    <3>2. e2[k] = e[k] /\ e2[k - 1] = e[k - 1] /\ lines2[k] = lines[k]
      BY <1>3, <1>5, <3>1
    <3>3. e[k] = e[k - 1] + Len(lines[k]) /\ e[k] \in 0..R /\ e[k - 1] \in 0..R
      BY <1>4, <3>1
    <3>4. ASSUME NEW j \in 1..Len(lines[k]) PROVE r2[e[k - 1] + j] = lines[k][j]
      <4>1. Len(lines[k]) \in Nat
        BY <3>1 DEF L
      <4>2. e[k - 1] + j \in 1..(R + D) /\ e[k - 1] + j <= R
        BY <1>1, <3>3, <4>1, SMTT(60)
      <4>3. r2[e[k - 1] + j] = r[e[k - 1] + j]
        BY <1>2, <4>2
      <4> QED BY <1>4, <3>1, <4>3
    <3> QED BY <3>2, <3>3, <3>4
  <2> QED BY <2>1, <2>2
<1>10. e2[L + 1] = Len(r2) /\ n..Len(lines2) = n..(L + 1) /\ 0..Len(r2) = 0..(R + D)
       /\ (n + 1)..Len(lines2) = (n + 1)..(L + 1)
  BY <1>2, <1>3, <1>5
<1>11. Cut(r2, lines2, n, e2)
  BY <1>3, <1>6, <1>7, <1>8, <1>9, <1>10 DEF Cut
<1> QED BY <1>11 DEF r2, lines2

\* The first of the lines, if there is one.
LEMMA CutFirst ==
  ASSUME NEW C, NEW r \in Seq(C), NEW lines \in Seq(Seq(C)), NEW n \in 0..Len(lines), NEW e,
         Cut(r, lines, n, e), n < Len(lines)
  PROVE  /\ e[n + 1] = Len(lines[n + 1])
         /\ Len(lines[n + 1]) <= Len(r)
         /\ \A j \in 1..Len(lines[n + 1]) : r[j] = lines[n + 1][j]
<1>1. /\ n + 1 \in (n + 1)..Len(lines) /\ n + 1 \in n..Len(lines) /\ (n + 1) - 1 = n
      /\ n + 1 \in 1..Len(lines)
  OBVIOUS
<1>2. Len(lines[n + 1]) \in Nat /\ Len(r) \in Nat
  BY <1>1
<1>3. /\ e[n + 1] \in 0..Len(r) /\ e[n] = 0
      /\ e[n + 1] = e[n] + Len(lines[n + 1])
      /\ \A j \in 1..Len(lines[n + 1]) : r[e[n] + j] = lines[n + 1][j]
  BY <1>1, ZenonT(60) DEF Cut
<1>4. \A j \in 1..Len(lines[n + 1]) : e[n] + j = j
  BY <1>3
<1> QED BY <1>2, <1>3, <1>4

\* A line less.
LEMMA CutNext ==
  ASSUME NEW C, NEW r \in Seq(C), NEW lines \in Seq(Seq(C)), NEW n \in 0..Len(lines), NEW e,
         Cut(r, lines, n, e), n < Len(lines),
         NEW r2 \in Seq(C), Len(r) = Len(lines[n + 1]) + Len(r2),
         \A p \in 1..Len(r2) : r2[p] = r[Len(lines[n + 1]) + p]
  PROVE  \E e2 : Cut(r2, lines, n + 1, e2)
<1> DEFINE L == Len(lines)
           R == Len(r2)
           D == Len(lines[n + 1])
           e2 == [k \in (n + 1)..L |-> e[k] - D]
<1>1. L \in Nat /\ R \in Nat /\ n \in Nat /\ n < L /\ n + 1 \in 1..L
  OBVIOUS
<1>2. D \in Nat /\ Len(r) = D + R /\ \A p \in 1..R : r2[p] = r[D + p]
  BY <1>1
<1>3. e[n + 1] = D
  BY CutFirst
<1>4. /\ e \in [n..L -> 0..(D + R)] /\ e[L] = D + R
      /\ \A j, k \in n..L : j <= k => e[j] <= e[k]
      /\ \A k \in (n + 1)..L : e[k] = e[k - 1] + Len(lines[k])
      /\ \A k \in (n + 1)..L : \A j \in 1..Len(lines[k]) : r[e[k - 1] + j] = lines[k][j]
  BY <1>2 DEF Cut
<1>5. \A k \in (n + 1)..L : Len(lines[k]) \in Nat
  BY <1>1, SMTT(60)
<1> HIDE DEF L, R, D
<1>6. ASSUME NEW k \in (n + 1)..L PROVE k \in n..L /\ e[k] \in D..(D + R)
  <2>1. k \in n..L /\ n + 1 \in n..L /\ n + 1 <= k
    BY <1>1
  <2>2. e[k] \in 0..(D + R) /\ e[n + 1] <= e[k]
    BY <1>4, <2>1
  <2> QED BY <1>2, <1>3, <2>1, <2>2
<1>7. e2 \in [(n + 1)..L -> 0..R]
  <2>1. ASSUME NEW k \in (n + 1)..L PROVE e[k] - D \in 0..R
    <3>1. e[k] \in D..(D + R)
      BY <1>6
    <3>2. D \in Nat /\ R \in Nat
      BY <1>1, <1>2
    <3> QED BY <3>1, <3>2, SMTT(60)
  <2> QED BY <2>1
<1>8. \A k \in (n + 1)..L : e2[k] = e[k] - D
  OBVIOUS
<1> HIDE DEF e2
<1>9. e2[n + 1] = 0 /\ e2[L] = R
  <2>1. n + 1 \in (n + 1)..L /\ L \in (n + 1)..L
    BY <1>1
  <2>2. e2[n + 1] = D - D /\ e2[L] = (D + R) - D
    BY <1>3, <1>4, <1>8, <2>1
  <2> QED BY <1>1, <1>2, <2>2
<1>10. ASSUME NEW j \in (n + 1)..L, NEW k \in (n + 1)..L, j <= k PROVE e2[j] <= e2[k]
  <2>1. e[j] <= e[k] /\ e[j] \in D..(D + R) /\ e[k] \in D..(D + R)
    BY <1>4, <1>6, <1>10
  <2> QED BY <1>2, <1>8, <2>1, SMTT(60)
<1>11. ASSUME NEW k \in ((n + 1) + 1)..L
       PROVE  /\ e2[k] = e2[k - 1] + Len(lines[k])
              /\ \A j \in 1..Len(lines[k]) : r2[e2[k - 1] + j] = lines[k][j]
  <2>1. k \in (n + 1)..L /\ k - 1 \in (n + 1)..L
    BY <1>1
  <2>2. /\ e2[k] = e[k] - D /\ e2[k - 1] = e[k - 1] - D
        /\ e[k] \in D..(D + R) /\ e[k - 1] \in D..(D + R)
        /\ e[k] = e[k - 1] + Len(lines[k]) /\ Len(lines[k]) \in Nat
    BY <1>4, <1>5, <1>6, <1>8, <2>1
  <2>3. e2[k] = e2[k - 1] + Len(lines[k])
    <3> DEFINE a == e[k]
               b == e[k - 1]
               l == Len(lines[k])
    <3>1. D \in Nat /\ R \in Nat
      BY <1>1, <1>2
    <3>2. /\ a \in D..(D + R) /\ b \in D..(D + R) /\ l \in Nat
          /\ a = b + l /\ e2[k] = a - D /\ e2[k - 1] = b - D
      BY <2>2
    <3>3. a - D = (b - D) + l
      <4> HIDE DEF a, b, l
      <4> QED BY <3>1, <3>2
    <3> QED BY <3>2, <3>3, Zenon
  <2>4. ASSUME NEW j \in 1..Len(lines[k]) PROVE r2[e2[k - 1] + j] = lines[k][j]
    <3> DEFINE b == e[k - 1]
               l == Len(lines[k])
    <3>0. b \in Nat /\ b >= D /\ l \in Nat /\ b + l <= D + R /\ e2[k - 1] = b - D /\ j \in 1..l
      <4>1. D \in Nat /\ R \in Nat
        BY <1>1, <1>2
      <4> QED BY <2>2, <4>1, SMTT(60)
    <3> HIDE DEF b, l
    <3>5. (b - D) + j \in 1..R /\ D + ((b - D) + j) = b + j
      BY <1>1, <1>2, <3>0
    <3>1. e2[k - 1] + j \in 1..R /\ D + (e2[k - 1] + j) = e[k - 1] + j
      BY <3>0, <3>5, Zenon DEF b
    <3>2. r2[e2[k - 1] + j] = r[e[k - 1] + j]
      BY <1>2, <3>1
    <3> QED BY <1>4, <2>1, <3>2
  <2> QED BY <2>3, <2>4
<1>12. Cut(r2, lines, n + 1, e2)
  BY <1>7, <1>9, <1>10, <1>11 DEF Cut, L, R
<1> QED BY <1>12

\* The first character of b goes to the end of a.
LEMMA HeadMoves ==
  ASSUME NEW C, NEW a \in Seq(C), NEW b \in Seq(C), b # <<>>
  PROVE  /\ Append(a, Head(b)) \in Seq(C) /\ Tail(b) \in Seq(C)
         /\ Append(a, Head(b)) \o Tail(b) = a \o b
<1>1. Head(b) \in C /\ Tail(b) \in Seq(C) /\ b = <<Head(b)>> \o Tail(b) /\ <<Head(b)>> \in Seq(C)
  <2>1. /\ Head(b) \in C /\ Tail(b) \in Seq(C) /\ Len(Tail(b)) = Len(b) - 1
        /\ \A k \in 1..Len(Tail(b)) : Tail(b)[k] = b[k + 1]
    BY HeadTailProperties
  <2> DEFINE h == Head(b)
             t == Tail(b)
             c == <<h>> \o t
  <2>2. h \in C /\ t \in Seq(C) /\ h = b[1] /\ Len(t) = Len(b) - 1 /\ Len(b) \in Nat \ {0}
        /\ \A k \in 1..Len(t) : t[k] = b[k + 1]
    BY <2>1, EmptySeq
  <2> HIDE DEF h, t
  <2>3. <<h>> \in Seq(C) /\ Len(<<h>>) = 1 /\ <<h>>[1] = h
    BY <2>2
  <2>4. /\ c \in Seq(C) /\ Len(c) = 1 + Len(t)
        /\ \A k \in 1..(1 + Len(t)) : c[k] = IF k <= 1 THEN <<h>>[k] ELSE t[k - 1]
    <3>1. /\ c \in Seq(C) /\ Len(c) = Len(<<h>>) + Len(t)
          /\ \A k \in 1..(Len(<<h>>) + Len(t)) : c[k] = IF k <= Len(<<h>>) THEN <<h>>[k] ELSE t[k - Len(<<h>>)]
      BY <2>2, <2>3, ConcatProperties
    <3> QED BY <2>3, <3>1
  <2> HIDE DEF c
  <2>5. ASSUME NEW k \in 1..Len(b) PROVE b[k] = c[k]
    <3>1. k \in 1..(1 + Len(t))
      BY <2>2
    <3>2. CASE k = 1
      BY <2>2, <2>3, <2>4, <3>1, <3>2
    <3>3. CASE k # 1
      <4>1. k - 1 \in 1..Len(t) /\ (k - 1) + 1 = k /\ ~(k <= 1)
        BY <2>2, <3>1, <3>3
      <4>2. t[k - 1] = b[k]
        BY <2>2, <4>1
      <4> QED BY <2>4, <3>1, <4>1, <4>2
    <3> QED BY <3>2, <3>3
  <2>6. Len(b) = Len(c)
    BY <2>2, <2>4
  <2>7. b = c
    BY <2>4, <2>5, <2>6, SeqEqual
  <2> QED BY <2>2, <2>3, <2>7 DEF h, t, c
<1>2. Append(a, Head(b)) = a \o <<Head(b)>> /\ Append(a, Head(b)) \in Seq(C)
  BY <1>1, AppendIsConcat, AppendProperties
<1>3. (a \o <<Head(b)>>) \o Tail(b) = a \o (<<Head(b)>> \o Tail(b))
  BY <1>1, ConcatAssociative, SMTT(60)
<1> QED BY <1>1, <1>2, <1>3

-----------------------------------------------------------------------------
Characters == {Capital, Small, Newline}
ValidLines == {line \in Lines : Valid(line)}

\* The lines the parent has begun to send: the empty one comes last.
Sent == IF ended = "yes" THEN Append(typed, EmptyLine) ELSE typed

\* What the child has not dealt with: a part of a line, the pipe, and what the
\* parent has not written.
Unread == scanned \o (input \o unwritten)

\* The characters that are not dealt with are the lines after the first n,
\* and those are in the file as far as they are valid.
DealtWith(n) == /\ file = Among(First(Sent, n), ValidLines)
                /\ \E e : Cut(Unread, Sent, n, e)

Stages ==
  /\ parent = "write" => unwritten # <<>>
  /\ parent # "write" => unwritten = <<>>
  /\ parent = "scan" => ended = "no"
  /\ child = "exit" => input = <<>> /\ parent \in {"wait", "done"}

PipesInv == PipesTypeOK /\ Stages /\ \E n \in 0..Len(Sent) : DealtWith(n)

\* A line ends with its only Newline.
LEMMA LineFacts ==
  /\ Lines \subseteq Seq(Characters) /\ EmptyLine \in Seq(Characters)
  /\ \A l \in Lines \cup {EmptyLine} :
       /\ Len(l) \in Nat /\ Len(l) > 0
       /\ \A j \in 1..Len(l) : l[j] = Newline <=> j = Len(l)
  /\ Newline \notin {Capital, Small}
  /\ EmptyLine \notin ValidLines
<1> USE LinePipesAssumption
<1>1. Lines \subseteq Seq(Characters)
  BY DEF Characters
<1>2. EmptyLine \in Seq(Characters) /\ Len(EmptyLine) = 1 /\ EmptyLine[1] = Newline
  BY DEF EmptyLine, Characters
<1>3. ASSUME NEW l \in Lines PROVE Len(l) \in Nat
  <2>1. l \in Seq(Characters)
    BY <1>1
  <2> QED BY <2>1
<1>4. ASSUME NEW j \in 1..Len(EmptyLine) PROVE EmptyLine[j] = Newline <=> j = Len(EmptyLine)
  <2>1. j = 1
    BY <1>2
  <2> QED BY <1>2, <2>1
<1>5. EmptyLine \notin ValidLines
  <2>1. ~Valid(EmptyLine)
    BY <1>2 DEF Valid
  <2> QED BY <2>1 DEF ValidLines
<1>6. \A l \in Lines : Len(l) > 0 /\ \A j \in 1..Len(l) : l[j] = Newline <=> j = Len(l)
  OBVIOUS
<1>7. Len(EmptyLine) > 0 /\ Len(EmptyLine) \in Nat
  BY <1>2
<1> QED BY <1>1, <1>2, <1>3, <1>4, <1>5, <1>6, <1>7

LEMMA PipesTypes ==
  ASSUME PipesTypeOK
  PROVE  /\ Sent \in Seq(Lines \cup {EmptyLine}) /\ Sent \in Seq(Seq(Characters))
         /\ Len(Sent) \in Nat
         /\ typed \in Seq(Lines) /\ typed \in Seq(Lines \cup {EmptyLine})
         /\ scanned \in Seq(Characters) /\ input \in Seq(Characters) /\ unwritten \in Seq(Characters)
         /\ input \o unwritten \in Seq(Characters)
         /\ Unread \in Seq(Characters)
<1>1. typed \in Seq(Lines) /\ typed \in Seq(Lines \cup {EmptyLine})
  <2>1. typed \in Seq(Lines)
    BY DEF PipesTypeOK
  <2> QED BY <2>1, SeqMonotonic
<1>2. Sent \in Seq(Lines \cup {EmptyLine})
  BY <1>1, AppendProperties DEF Sent
<1>3. Sent \in Seq(Seq(Characters)) /\ Len(Sent) \in Nat
  <2>1. Lines \cup {EmptyLine} \subseteq Seq(Characters)
    BY LineFacts
  <2>2. Sent \in Seq(Seq(Characters))
    BY <1>2, <2>1, SeqMonotonic
  <2> QED BY <2>2
<1>4. scanned \in Seq(Characters) /\ input \in Seq(Characters) /\ unwritten \in Seq(Characters)
  <2>1. {Capital, Small} \subseteq Characters /\ scanned \in Seq({Capital, Small})
    BY DEF PipesTypeOK, Characters
  <2>2. scanned \in Seq(Characters)
    BY <2>1, SeqMonotonic
  <2>3. input \in Seq(Characters) /\ unwritten \in Seq(Characters)
    BY DEF PipesTypeOK, Characters
  <2> QED BY <2>2, <2>3
<1> HIDE DEF Characters
<1>5. input \o unwritten \in Seq(Characters)
  BY <1>4, ConcatProperties
<1>6. Unread \in Seq(Characters)
  BY <1>4, <1>5, ConcatProperties DEF Unread
<1> QED BY <1>1, <1>2, <1>3, <1>4, <1>5, <1>6

\* Nothing changes for the lines while the same characters are not dealt with.
LEMMA SameUnread ==
  ASSUME PipesInv, Unread' = Unread, UNCHANGED <<typed, ended, file>>
  PROVE  \E n \in 0..Len(Sent') : DealtWith(n)'
<1>1. PICK n \in 0..Len(Sent) : DealtWith(n)
  BY DEF PipesInv
<1>2. Sent' = Sent
  BY DEF Sent
<1>3. DealtWith(n)'
  BY <1>1, <1>2 DEF DealtWith
<1> QED BY <1>2, <1>3

\* A line that is sent after the others.
LEMMA LineMore ==
  ASSUME PipesInv, NEW line \in Lines \cup {EmptyLine},
         Sent' = Append(Sent, line), unwritten = <<>>, unwritten' = line,
         UNCHANGED <<input, scanned, file>>
  PROVE  \E n \in 0..Len(Sent') : DealtWith(n)'
<1>1. PICK n \in 0..Len(Sent) : DealtWith(n)
  BY DEF PipesInv
<1>2. PICK e : Cut(Unread, Sent, n, e)
  BY <1>1 DEF DealtWith
<1>3. PipesTypeOK
  BY DEF PipesInv
<1>4. /\ Sent \in Seq(Lines \cup {EmptyLine}) /\ Sent \in Seq(Seq(Characters))
      /\ Unread \in Seq(Characters) /\ Len(Sent) \in Nat
      /\ scanned \in Seq(Characters) /\ input \in Seq(Characters)
  BY <1>3, PipesTypes
<1>5. line \in Seq(Characters)
  BY LineFacts
<1>6. Unread' = Unread \o line
  <2>1. input \o unwritten = input
    BY <1>4, ConcatEmptySeq
  <2>2. Unread = scanned \o input
    BY <2>1 DEF Unread
  <2>3. Unread' = scanned \o (input \o line)
    BY DEF Unread
  <2>4. (scanned \o input) \o line = scanned \o (input \o line)
    BY <1>4, <1>5, ConcatAssociative, SMTT(60)
  <2> QED BY <2>2, <2>3, <2>4
<1>7. \E e2 : Cut(Unread', Sent', n, e2)
  <2>1. \E e2 : Cut(Unread \o line, Append(Sent, line), n, e2)
    <3> HIDE DEF Characters
    <3> QED BY <1>2, <1>4, <1>5, CutAppend
  <2> QED BY <1>6, <2>1
<1>8. First(Sent', n) = First(Sent, n)
  BY <1>4, FirstOfAppend
<1>9. file' = Among(First(Sent', n), ValidLines)
  BY <1>1, <1>8 DEF DealtWith
<1>10. DealtWith(n)'
  BY <1>7, <1>9 DEF DealtWith
<1>11. n \in 0..Len(Sent')
  <2>1. Len(Sent') = Len(Sent) + 1
    BY <1>4, AppendProperties
  <2> QED BY <1>4, <2>1
<1> QED BY <1>10, <1>11

\* The child comes to the end of a line: it is the next of those that are sent.
LEMMA LineRead ==
  ASSUME PipesInv, NEW n \in 0..Len(Sent), DealtWith(n),
         input # <<>>, Head(input) = Newline
  PROVE  /\ n < Len(Sent)
         /\ Append(scanned, Newline) = Sent[n + 1]
         /\ Sent[n + 1] \in Lines \cup {EmptyLine}
         /\ \E e2 : Cut(<<>> \o (Tail(input) \o unwritten), Sent, n + 1, e2)
<1> DEFINE r == Unread
           m == Len(scanned) + 1
           r2 == <<>> \o (Tail(input) \o unwritten)
<1>1. PICK e : Cut(r, Sent, n, e)
  BY DEF DealtWith
<1>2. PipesTypeOK
  BY DEF PipesInv
<1>3. /\ Sent \in Seq(Lines \cup {EmptyLine}) /\ Sent \in Seq(Seq(Characters))
      /\ r \in Seq(Characters) /\ Len(Sent) \in Nat
      /\ scanned \in Seq(Characters) /\ input \in Seq(Characters) /\ unwritten \in Seq(Characters)
  BY <1>2, PipesTypes
<1>4. m \in Nat \ {0} /\ m - 1 = Len(scanned) /\ Newline \in Characters
  <2>1. Len(scanned) \in Nat
    BY <1>3
  <2> QED BY <2>1 DEF Characters
<1>5. \A j \in 1..(m - 1) : scanned[j] # Newline
  <2>1. scanned \in Seq({Capital, Small})
    BY <1>2 DEF PipesTypeOK
  <2> QED BY <1>4, <2>1, LineFacts
<1> HIDE DEF Characters
<1>6. /\ Append(scanned, Newline) \in Seq(Characters) /\ Len(Append(scanned, Newline)) = m
      /\ \A j \in 1..(m - 1) : Append(scanned, Newline)[j] = scanned[j]
      /\ Append(scanned, Newline)[m] = Newline
  BY <1>3, <1>4, AppendProperties
<1>7. Tail(input) \in Seq(Characters) /\ Append(scanned, Newline) \o Tail(input) = scanned \o input
  BY <1>3, HeadMoves, SMTT(60)
<1>8. r2 \in Seq(Characters) /\ r2 = Tail(input) \o unwritten
  <2>1. Tail(input) \o unwritten \in Seq(Characters)
    BY <1>3, <1>7, ConcatProperties
  <2> QED BY <2>1, ConcatEmptySeq
<1>9. r = Append(scanned, Newline) \o r2
  <2>1. r = (scanned \o input) \o unwritten
    BY <1>3, ConcatAssociative, SMTT(60) DEF Unread
  <2>2. (Append(scanned, Newline) \o Tail(input)) \o unwritten = Append(scanned, Newline) \o (Tail(input) \o unwritten)
    <3>1. Append(scanned, Newline) \in Seq(Characters) /\ Tail(input) \in Seq(Characters)
          /\ unwritten \in Seq(Characters)
      BY <1>3, <1>6, <1>7
    <3>2. ASSUME NEW u \in Seq(Characters), NEW y \in Seq(Characters), NEW z \in Seq(Characters)
          PROVE  (u \o y) \o z = u \o (y \o z)
      BY ConcatAssociative, SMTT(60)
    <3> QED BY ONLY <3>1, <3>2
  <2> QED BY <1>7, <1>8, <2>1, <2>2
<1> DEFINE a == Append(scanned, Newline)
<1> HIDE DEF r, r2, m, a
<1>10. /\ Len(r) = m + Len(r2) /\ Len(r2) \in Nat
       /\ \A p \in 1..(m + Len(r2)) : r[p] = IF p <= m THEN a[p] ELSE r2[p - m]
  <2>1. /\ Len(a \o r2) = Len(a) + Len(r2)
        /\ \A p \in 1..(Len(a) + Len(r2)) : (a \o r2)[p] = IF p <= Len(a) THEN a[p] ELSE r2[p - Len(a)]
    <3>1. a \in Seq(Characters)
      BY <1>6 DEF a
    <3> QED BY <1>8, <3>1, ConcatProperties
  <2>2. Len(r2) \in Nat
    BY <1>8
  <2>3. Len(a) = m /\ r = a \o r2
    BY <1>6, <1>9 DEF a
  <2> QED BY <2>1, <2>2, <2>3
<1>11. n < Len(Sent)
  <2>1. CASE n = Len(Sent)
    <3>1. Len(r) = 0
      BY <1>1, <2>1 DEF Cut
    <3> QED BY <1>4, <1>10, <3>1
  <2> QED BY <1>3, <2>1
<1> DEFINE l == Sent[n + 1]
           D == Len(l)
<1>12. /\ D <= Len(r) /\ \A j \in 1..D : r[j] = l[j]
  BY <1>1, <1>3, <1>11, CutFirst
<1>13. l \in Lines \cup {EmptyLine}
  <2>1. n + 1 \in 1..Len(Sent)
    BY <1>3, <1>11
  <2> QED BY <1>3, <2>1
<1>14. D \in Nat /\ D > 0 /\ \A j \in 1..D : l[j] = Newline <=> j = D
  BY <1>13, LineFacts
<1>15. l \in Seq(Characters)
  BY <1>13, LineFacts
<1> HIDE DEF l, D
<1>16. \A j \in 1..m : r[j] = a[j] /\ (r[j] = Newline <=> j = m)
  <2>1. ASSUME NEW j \in 1..m PROVE r[j] = a[j]
    <3>1. j \in 1..(m + Len(r2)) /\ j <= m
      BY <1>4, <1>10
    <3> QED BY <1>10, <3>1
  <2>2. ASSUME NEW j \in 1..m PROVE a[j] = Newline <=> j = m
    <3>1. CASE j = m
      BY <1>6, <3>1 DEF a
    <3>2. CASE j # m
      <4>1. j \in 1..(m - 1)
        BY <1>4, <3>2
      <4> QED BY <1>5, <1>6, <3>2, <4>1 DEF a
    <3> QED BY <3>1, <3>2
  <2> QED BY <2>1, <2>2
<1>17. D = m
  <2>1. CASE D < m
    <3>1. D \in 1..D /\ D \in 1..m
      BY <1>4, <1>14, <2>1
    <3>2. r[D] = Newline
      BY <1>12, <1>14, <3>1
    <3> QED BY <1>16, <3>1, <3>2
  <2>2. CASE D > m
    <3>1. m \in 1..D /\ m \in 1..m
      BY <1>4, <1>14, <2>2
    <3>2. l[m] = Newline
      BY <1>12, <1>16, <3>1
    <3> QED BY <1>14, <3>1, <3>2, <2>2
  <2> QED BY <1>4, <1>14, <2>1, <2>2
<1>18. a = l
  <2>1. a \in Seq(Characters) /\ Len(a) = m
    BY <1>6 DEF a
  <2>2. Len(l) = m
    BY <1>17 DEF D
  <2>3. \A j \in 1..Len(a) : a[j] = l[j]
    BY <1>12, <1>16, <1>17, <2>1
  <2> QED BY <1>15, <2>1, <2>2, <2>3, SeqEqual
<1>19. \E e2 : Cut(r2, Sent, n + 1, e2)
  <2>1. Len(r) = Len(Sent[n + 1]) + Len(r2)
    BY <1>10, <1>17 DEF D, l
  <2>2. ASSUME NEW p \in 1..Len(r2) PROVE r2[p] = r[Len(Sent[n + 1]) + p]
    <3>1. m + p \in 1..(m + Len(r2)) /\ ~(m + p <= m) /\ (m + p) - m = p
      BY <1>4, <1>10
    <3>2. r[m + p] = r2[p]
      BY <1>10, <3>1
    <3> QED BY <1>17, <3>2 DEF D, l
  <2> QED BY <1>1, <1>3, <1>8, <1>11, <2>1, <2>2, CutNext, ZenonT(60)
<1> QED BY <1>11, <1>13, <1>18, <1>19 DEF a, l, r2

LEMMA PipesInitInv == PipesInit => PipesInv
<1> SUFFICES ASSUME PipesInit PROVE PipesInv
  OBVIOUS
<1>1. /\ typed = <<>> /\ parent = "scan" /\ ended = "no" /\ unwritten = <<>>
      /\ input = <<>> /\ errors = 0
      /\ child = "read" /\ scanned = <<>> /\ file = <<>> /\ shown = 0
  BY DEF PipesInit
<1>2. PipesTypeOK
  <2>1. typed \in Seq(Lines) /\ file \in Seq(Lines)
    BY <1>1, EmptySeq
  <2>2. /\ unwritten \in Seq({Capital, Small, Newline}) /\ input \in Seq({Capital, Small, Newline})
        /\ scanned \in Seq({Capital, Small})
    BY <1>1, EmptySeq
  <2>3. Len(input) <= InSize /\ errors \in 0..ErrSize
    BY <1>1, LinePipesAssumption
  <2> QED BY <1>1, <2>1, <2>2, <2>3 DEF PipesTypeOK
<1>3. Stages
  BY <1>1 DEF Stages
<1>4. Sent = <<>> /\ Len(Sent) = 0 /\ Unread = <<>>
  <2>1. Sent = <<>>
    BY <1>1 DEF Sent
  <2>2. <<>> \in Seq(Characters)
    BY EmptySeq
  <2>3. <<>> \o <<>> = <<>>
    BY <2>2, ConcatEmptySeq
  <2> QED BY <1>1, <2>1, <2>3 DEF Unread
<1>5. DealtWith(0)
  <2>1. First(Sent, 0) = <<>>
    <3>1. Sent \in Seq(Lines) /\ 0 \in 0..Len(Sent)
      BY <1>4, EmptySeq
    <3>2. First(Sent, 0) \in Seq(Lines) /\ Len(First(Sent, 0)) = 0
      BY <3>1, FirstFacts
    <3> QED BY <3>2, EmptySeq
  <2>2. file = Among(First(Sent, 0), ValidLines)
    BY <1>1, <2>1, AmongEmpty
  <2> DEFINE e == [k \in 0..0 |-> 0]
  <2>3. Cut(<<>>, <<>>, 0, e)
    BY DEF Cut
  <2> QED BY <1>4, <2>2, <2>3 DEF DealtWith
<1> QED BY <1>2, <1>3, <1>4, <1>5 DEF PipesInv

LEMMA PipesTypeStep ==
  ASSUME PipesInv, PipesNext
  PROVE  PipesTypeOK'
<1>0. /\ Len(input) <= InSize /\ InSize \in Nat \ {0} /\ ErrSize \in Nat \ {0}
      /\ errors \in 0..ErrSize /\ shown \in Nat
  BY LinePipesAssumption DEF PipesInv, PipesTypeOK
<1>11. (errors > 0 => errors - 1 \in 0..ErrSize) /\ 0 \in 0..ErrSize /\ shown + 1 \in Nat
  BY <1>0
<1>10. typed \in Seq(Lines) /\ file \in Seq(Lines) /\ scanned \in Seq({Capital, Small})
       /\ child \in {"read", "error", "exit", "killed"}
  BY DEF PipesInv, PipesTypeOK
<1> USE DEF PipesTypeOK
<1>1. /\ PipesTypeOK /\ InSize \in Nat \ {0} /\ ErrSize \in Nat \ {0} /\ Stages
      /\ Lines \subseteq Seq({Capital, Small, Newline})
      /\ EmptyLine \in Seq({Capital, Small, Newline})
  BY LinePipesAssumption, LineFacts DEF PipesInv, Characters
<1> DEFINE C == {Capital, Small, Newline}
<1>2. CASE ScanLine
  <2>1. PICK line \in Lines : typed' = Append(typed, line) /\ unwritten' = line
    BY <1>2 DEF ScanLine
  <2>2. typed' \in Seq(Lines) /\ unwritten' \in Seq(C)
    <3>1. typed' \in Seq(Lines)
      BY <1>10, <2>1, AppendProperties
    <3>2. line \in Seq(C)
      BY <1>1
    <3> QED BY <2>1, <3>1, <3>2
  <2> QED BY <1>1, <1>2, <2>2 DEF ScanLine, childVars
<1>3. CASE ScanEnd
  <2>1. typed' \in Seq(Lines) /\ unwritten' \in Seq(C)
    <3>1. CASE unwritten' = EmptyLine /\ UNCHANGED typed
      BY <1>1, <1>10, <3>1
    <3>2. CASE \E line \in Lines \ {EmptyLine} : typed' = Append(typed, line) /\ unwritten' = LastSent(line)
      <4>1. PICK line \in Lines \ {EmptyLine} : typed' = Append(typed, line) /\ unwritten' = line
        BY <3>2 DEF LastSent
      <4>2. typed' \in Seq(Lines)
        BY <1>10, <4>1, AppendProperties
      <4>3. line \in Seq(C)
        BY <1>1, ZenonT(60)
      <4> QED BY <4>1, <4>2, <4>3
    <3> QED BY <1>3, <3>1, <3>2 DEF ScanEnd
  <2> QED BY <1>1, <1>3, <2>1, ZenonT(60) DEF ScanEnd, childVars
<1>4. CASE Write
  <2>1. unwritten # <<>> /\ unwritten \in Seq(C) /\ input \in Seq(C) /\ Len(input) < InSize
    BY <1>1, <1>4 DEF Write, Stages
  <2> HIDE DEF C
  <2>2. input' \in Seq(C) /\ unwritten' \in Seq(C) /\ Len(input') = Len(input) + 1 /\ Len(input) \in Nat
    <3>1. Head(unwritten) \in C /\ Tail(unwritten) \in Seq(C)
      BY <2>1, HeadTailProperties
    <3>2. input' = Append(input, Head(unwritten)) /\ unwritten' = Tail(unwritten)
      BY <1>4 DEF Write
    <3> QED BY <2>1, <3>1, <3>2, AppendProperties
  <2>3. Len(input') <= InSize
    BY <1>0, <2>1, <2>2
  <2>4. parent' \in {"scan", "write", "poll", "close error", "close input", "wait", "done"}
    BY <1>4 DEF Write
  <2> QED BY <1>1, <1>4, <2>2, <2>3, <2>4 DEF Write, childVars, C
<1>5. CASE Poll
  <2>1. parent' \in {"scan", "write", "poll", "close error", "close input", "wait", "done"}
    BY <1>5 DEF Poll
  <2>2. errors' \in 0..ErrSize /\ shown' \in Nat
    BY <1>0, <1>5, <1>11, ZenonT(60) DEF Poll
  <2> QED BY <1>1, <1>5, <2>1, <2>2 DEF Poll, childVars
<1>6. CASE CloseErrors \/ CloseInput \/ WaitChild
  <2>1. parent' \in {"scan", "write", "poll", "close error", "close input", "wait", "done"}
    BY <1>6 DEF CloseErrors, CloseInput, WaitChild
  <2>2. errors' \in 0..ErrSize
    BY <1>0, <1>6, <1>11 DEF CloseErrors, CloseInput, WaitChild
  <2>3. UNCHANGED <<typed, ended, unwritten, shown, input, child, scanned, file>>
    BY <1>6 DEF CloseErrors, CloseInput, WaitChild, childVars
  <2> QED BY <1>1, <2>1, <2>2, <2>3
<1>7. CASE Read
  <2>1. input # <<>> /\ input \in Seq(C) /\ input' = Tail(input)
        /\ UNCHANGED <<typed, parent, ended, unwritten, shown, errors>>
    BY <1>1, <1>7 DEF Read, parentVars
  <2>2. Head(input) \in C /\ Tail(input) \in Seq(C) /\ Len(Tail(input)) = Len(input) - 1 /\ Len(input) \in Nat
    <3> HIDE DEF C
    <3> QED BY <2>1, HeadTailProperties
  <2>3. input' \in Seq(C) /\ Len(input') <= InSize
    BY <1>0, <2>1, <2>2
  <2>4. CASE Head(input) # Newline /\ scanned' = Append(scanned, Head(input)) /\ UNCHANGED <<child, file>>
    <3>1. Head(input) \in {Capital, Small}
      BY <2>2, <2>4
    <3>2. scanned' \in Seq({Capital, Small})
      BY <1>10, <2>4, <3>1, AppendProperties
    <3> QED BY <1>1, <2>1, <2>3, <2>4, <3>2
  <2>5. CASE Head(input) = Newline /\ scanned' = <<>>
    <3>1. PICK n \in 0..Len(Sent) : DealtWith(n)
      BY DEF PipesInv
    <3>2. Append(scanned, Newline) \in Lines \cup {EmptyLine}
      <4>1. Append(scanned, Newline) = Sent[n + 1] /\ Sent[n + 1] \in Lines \cup {EmptyLine}
        BY <2>1, <2>5, <3>1, LineRead
      <4> QED BY <4>1, SMTT(60)
    <3>3. \/ /\ Valid(Append(scanned, Newline)) /\ file' = Append(file, Append(scanned, Newline))
             /\ UNCHANGED child
          \/ child' = "error" /\ UNCHANGED file
      BY <1>7, <2>5 DEF Read
    <3>4. file' \in Seq(Lines)
      <4>1. CASE UNCHANGED file
        BY <1>1, <4>1
      <4>2. CASE Valid(Append(scanned, Newline)) /\ file' = Append(file, Append(scanned, Newline))
        <5>1. Append(scanned, Newline) # EmptyLine
          <6>1. ~Valid(EmptyLine)
            BY LinePipesAssumption DEF EmptyLine, Valid
          <6> QED BY <4>2, <6>1
        <5>2. Append(scanned, Newline) \in Lines
          BY <3>2, <5>1
        <5> QED BY <1>10, <4>2, <5>2, AppendProperties
      <4> QED BY <3>3, <4>1, <4>2
    <3>5. scanned' \in Seq({Capital, Small})
      BY <2>5, EmptySeq
    <3>6. child' \in {"read", "error", "exit", "killed"}
      BY <1>1, <3>3
    <3> QED BY <1>1, <2>1, <2>3, <3>4, <3>5, <3>6
  <2> QED BY <1>7, <2>4, <2>5 DEF Read
<1>8. CASE WriteError
  <2>1. child' \in {"read", "error", "exit", "killed"} /\ errors' \in 0..ErrSize
    BY <1>0, <1>8 DEF WriteError
  <2> QED BY <1>1, <1>8, <2>1 DEF WriteError, parentVars
<1>9. CASE ReadEnd
  BY <1>1, <1>9, ZenonT(60) DEF ReadEnd, parentVars
<1> QED BY <1>2, <1>3, <1>4, <1>5, <1>6, <1>7, <1>8, <1>9 DEF PipesNext, ParentStep, ChildStep

LEMMA StagesStep ==
  ASSUME PipesInv, PipesNext
  PROVE  Stages'
<1>1. Stages /\ \A l \in Lines \cup {EmptyLine} : l # <<>>
  <2>1. ASSUME NEW l \in Lines \cup {EmptyLine} PROVE l # <<>>
    <3>1. Len(l) > 0 /\ Len(<<>>) = 0
      BY LineFacts
    <3> QED BY <3>1
  <2> QED BY <2>1 DEF PipesInv
<1>2. CASE ScanLine
  BY <1>1, <1>2 DEF ScanLine, Stages, childVars
<1>3. CASE ScanEnd
  <2>1. unwritten' # <<>>
    BY <1>1, <1>3 DEF ScanEnd, LastSent
  <2> QED BY <1>1, <1>3, <2>1 DEF ScanEnd, Stages, childVars
<1>4. CASE Write
  <2>1. child # "exit"
    BY <1>1, <1>4 DEF Write, Stages
  <2> QED BY <1>1, <1>4, <2>1 DEF Write, Stages, childVars
<1>5. CASE Poll
  BY <1>1, <1>5 DEF Poll, Stages, childVars
<1>6. CASE CloseErrors \/ CloseInput \/ WaitChild
  BY <1>1, <1>6 DEF CloseErrors, CloseInput, WaitChild, Stages, childVars
<1>7. CASE Read
  BY <1>1, <1>7 DEF Read, Stages, parentVars
<1>8. CASE WriteError
  BY <1>1, <1>8 DEF WriteError, Stages, parentVars
<1>9. CASE ReadEnd
  BY <1>1, <1>9 DEF ReadEnd, Stages, parentVars, InputClosed
<1> QED BY <1>2, <1>3, <1>4, <1>5, <1>6, <1>7, <1>8, <1>9 DEF PipesNext, ParentStep, ChildStep

LEMMA DealtWithStep ==
  ASSUME PipesInv, PipesNext
  PROVE  \E n \in 0..Len(Sent') : DealtWith(n)'
<1>1. PipesTypeOK /\ Stages
  BY DEF PipesInv
<1>2. /\ Sent \in Seq(Lines \cup {EmptyLine}) /\ Sent \in Seq(Seq(Characters)) /\ Len(Sent) \in Nat
      /\ scanned \in Seq(Characters) /\ input \in Seq(Characters) /\ unwritten \in Seq(Characters)
  BY <1>1, PipesTypes
<1>3. CASE ScanLine
  <2>1. PICK line \in Lines : typed' = Append(typed, line) /\ unwritten' = line
    BY <1>3 DEF ScanLine
  <2>2. /\ ended = "no" /\ unwritten = <<>>
        /\ UNCHANGED <<ended, input, scanned, file>>
    BY <1>1, <1>3 DEF ScanLine, Stages, childVars
  <2>3. Sent' = Append(Sent, line)
    BY <2>1, <2>2 DEF Sent
  <2> QED BY <2>1, <2>2, <2>3, LineMore
<1>4. CASE ScanEnd
  <2>1. /\ ended = "no" /\ unwritten = <<>>
        /\ UNCHANGED <<input, scanned, file>>
    BY <1>1, <1>4 DEF ScanEnd, Stages, childVars
  <2>2. CASE ended' = "yes" /\ unwritten' = EmptyLine /\ UNCHANGED typed
    <3>1. Sent' = Append(Sent, EmptyLine)
      BY <2>1, <2>2 DEF Sent
    <3> QED BY <2>1, <2>2, <3>1, LineMore
  <2>3. CASE ended' = "in a line" /\ \E line \in Lines : typed' = Append(typed, line) /\ unwritten' = line
    <3>1. PICK line \in Lines : typed' = Append(typed, line) /\ unwritten' = line
      BY <2>3
    <3>2. Sent' = Append(Sent, line)
      BY <2>1, <2>3, <3>1 DEF Sent
    <3> QED BY <2>1, <3>1, <3>2, LineMore
  <2> QED BY <1>4, <2>2, <2>3 DEF ScanEnd, LastSent
<1>5. CASE Write
  <2>1. /\ unwritten # <<>>
        /\ input' = Append(input, Head(unwritten)) /\ unwritten' = Tail(unwritten)
        /\ UNCHANGED <<typed, ended, scanned, file>>
    BY <1>1, <1>5 DEF Write, Stages, childVars
  <2> HIDE DEF Characters
  <2>2. Append(input, Head(unwritten)) \o Tail(unwritten) = input \o unwritten
    BY <1>2, <2>1, HeadMoves, ZenonT(60)
  <2>3. Unread' = Unread
    BY <2>1, <2>2 DEF Unread
  <2> QED BY <2>1, <2>3, SameUnread
<1>6. CASE Read
  <2>1. /\ input # <<>> /\ input' = Tail(input)
        /\ UNCHANGED <<typed, ended, unwritten>>
    BY <1>6 DEF Read, parentVars
  <2>2. CASE Head(input) # Newline /\ scanned' = Append(scanned, Head(input)) /\ UNCHANGED file
    <3> HIDE DEF Characters
    <3>1. /\ Append(scanned, Head(input)) \in Seq(Characters) /\ Tail(input) \in Seq(Characters)
          /\ Append(scanned, Head(input)) \o Tail(input) = scanned \o input
      BY <1>2, <2>1, HeadMoves, SMTT(60)
    <3>2. ASSUME NEW u \in Seq(Characters), NEW y \in Seq(Characters), NEW z \in Seq(Characters)
          PROVE  (u \o y) \o z = u \o (y \o z)
      BY ConcatAssociative, SMTT(60)
    <3>3. Append(scanned, Head(input)) \o (Tail(input) \o unwritten)
            = (Append(scanned, Head(input)) \o Tail(input)) \o unwritten
      BY <1>2, <3>1, <3>2, ZenonT(60)
    <3>4. (scanned \o input) \o unwritten = scanned \o (input \o unwritten)
      BY <1>2, <3>2
    <3>5. Unread' = Unread
      BY <2>1, <2>2, <3>1, <3>3, <3>4 DEF Unread
    <3> QED BY <2>1, <2>2, <3>5, SameUnread
  <2>3. CASE Head(input) = Newline /\ scanned' = <<>>
    <3>1. PICK n \in 0..Len(Sent) : DealtWith(n)
      BY DEF PipesInv
    <3> DEFINE line == Append(scanned, Newline)
    <3>2. /\ n < Len(Sent) /\ line = Sent[n + 1] /\ line \in Lines \cup {EmptyLine}
          /\ \E e2 : Cut(<<>> \o (Tail(input) \o unwritten), Sent, n + 1, e2)
      BY <2>1, <2>3, <3>1, LineRead
    <3>3. Sent' = Sent /\ Unread' = <<>> \o (Tail(input) \o unwritten)
      BY <2>1, <2>3 DEF Sent, Unread
    <3>4. \/ Valid(line) /\ file' = Append(file, line)
          \/ ~Valid(line) /\ UNCHANGED file
      BY <1>6, <2>3 DEF Read
    <3>5. Among(First(Sent, n + 1), ValidLines) =
            IF line \in ValidLines THEN Append(Among(First(Sent, n), ValidLines), line)
            ELSE Among(First(Sent, n), ValidLines)
      <4> DEFINE T == Lines \cup {EmptyLine}
      <4>1. n \in 0..(Len(Sent) - 1) /\ Sent \in Seq(T)
        BY <1>2, <3>2
      <4> HIDE DEF T
      <4>2. First(Sent, n + 1) = Append(First(Sent, n), line)
        <5>1. First(Sent, n + 1) = Append(First(Sent, n), Sent[n + 1])
          BY <4>1, FirstNext
        <5> QED BY <3>2, <5>1
      <4>3. First(Sent, n) \in Seq(T) /\ line \in T
        BY <1>2, <3>2, <4>1, FirstFacts DEF T
      <4>4. ASSUME NEW u \in Seq(T), NEW y \in T
            PROVE  Among(Append(u, y), ValidLines) =
                     IF y \in ValidLines THEN Append(Among(u, ValidLines), y) ELSE Among(u, ValidLines)
        BY AmongAppend
      <4> HIDE DEF line
      <4>5. Among(Append(First(Sent, n), line), ValidLines) =
              IF line \in ValidLines THEN Append(Among(First(Sent, n), ValidLines), line)
              ELSE Among(First(Sent, n), ValidLines)
        BY <4>3, <4>4, Zenon
      <4> QED BY <4>2, <4>5, Zenon
    <3>6. line \in ValidLines <=> Valid(line)
      <4>1. ~Valid(EmptyLine)
        BY LinePipesAssumption DEF EmptyLine, Valid
      <4> HIDE DEF line
      <4> QED BY <3>2, <4>1, Zenon DEF ValidLines
    <3>7. file = Among(First(Sent, n), ValidLines)
      BY <3>1 DEF DealtWith
    <3> HIDE DEF line
    <3>8. file' = Among(First(Sent, n + 1), ValidLines)
      <4>1. CASE line \in ValidLines
        <5>1. file' = Append(file, line)
          BY <3>4, <3>6, <4>1, Zenon
        <5>2. Among(First(Sent, n + 1), ValidLines) = Append(Among(First(Sent, n), ValidLines), line)
          BY <3>5, <4>1, Zenon
        <5> QED BY <3>7, <5>1, <5>2, Zenon
      <4>2. CASE line \notin ValidLines
        <5>1. file' = file
          BY <3>4, <3>6, <4>2, Zenon
        <5>2. Among(First(Sent, n + 1), ValidLines) = Among(First(Sent, n), ValidLines)
          BY <3>5, <4>2, Zenon
        <5> QED BY <3>7, <5>1, <5>2, Zenon
      <4> QED BY <4>1, <4>2
    <3>9. DealtWith(n + 1)'
      BY <3>2, <3>3, <3>8 DEF DealtWith
    <3>10. n + 1 \in 0..Len(Sent')
      BY <1>2, <3>2, <3>3
    <3> QED BY <3>9, <3>10
  <2> QED BY <1>6, <2>2, <2>3 DEF Read
<1>7. CASE Poll \/ CloseErrors \/ CloseInput \/ WaitChild \/ WriteError \/ ReadEnd
  <2>1. UNCHANGED <<typed, ended, file, scanned, input, unwritten>>
    BY <1>7 DEF Poll, CloseErrors, CloseInput, WaitChild, WriteError, ReadEnd, childVars, parentVars
  <2>2. Unread' = Unread
    BY <2>1 DEF Unread
  <2> QED BY <2>1, <2>2, SameUnread
<1> QED BY <1>3, <1>4, <1>5, <1>6, <1>7 DEF PipesNext, ParentStep, ChildStep

LEMMA PipesStepInv == PipesInv /\ [PipesNext]_pipeVars => PipesInv'
<1> SUFFICES ASSUME PipesInv, [PipesNext]_pipeVars PROVE PipesInv'
  OBVIOUS
<1>1. CASE PipesNext
  BY <1>1, PipesTypeStep, StagesStep, DealtWithStep DEF PipesInv
<1>2. CASE UNCHANGED pipeVars
  <2>1. UNCHANGED <<typed, parent, ended, unwritten, input, errors, child, scanned, file, shown>>
    BY <1>2 DEF pipeVars
  <2>2. PipesTypeOK'
    BY <2>1 DEF PipesInv, PipesTypeOK
  <2>3. Stages'
    BY <2>1 DEF PipesInv, Stages
  <2>4. Unread' = Unread
    BY <2>1 DEF Unread
  <2>5. \E n \in 0..Len(Sent') : DealtWith(n)'
    BY <2>1, <2>4, SameUnread
  <2> QED BY <2>2, <2>3, <2>5 DEF PipesInv
<1> QED BY <1>1, <1>2

LEMMA PipesInvComplete == PipesInv => FileComplete
<1> SUFFICES ASSUME PipesInv PROVE FileComplete
  OBVIOUS
<1>1. PipesTypeOK /\ Stages
  BY DEF PipesInv
<1>2. PICK n \in 0..Len(Sent) : DealtWith(n)
  BY DEF PipesInv
<1>3. /\ Sent \in Seq(Lines \cup {EmptyLine}) /\ Sent \in Seq(Seq(Characters)) /\ Len(Sent) \in Nat
      /\ typed \in Seq(Lines) /\ typed \in Seq(Lines \cup {EmptyLine})
      /\ scanned \in Seq(Characters)
      /\ Unread \in Seq(Characters)
  BY <1>1, PipesTypes
<1> DEFINE valid == Among(typed, ValidLines)
<1>4. Among(Sent, ValidLines) = valid
  <2>1. CASE ended = "yes"
    <3> DEFINE T == Lines \cup {EmptyLine}
    <3>1. ASSUME NEW u \in Seq(T), NEW y \in T
          PROVE  Among(Append(u, y), ValidLines) =
                   IF y \in ValidLines THEN Append(Among(u, ValidLines), y) ELSE Among(u, ValidLines)
      BY AmongAppend
    <3>2. typed \in Seq(T) /\ EmptyLine \in T /\ EmptyLine \notin ValidLines
      BY <1>3, LineFacts
    <3>3. Sent = Append(typed, EmptyLine)
      BY <2>1 DEF Sent
    <3> HIDE DEF T
    <3> QED BY <3>1, <3>2, <3>3, Zenon
  <2>2. CASE ended # "yes"
    BY <2>2 DEF Sent
  <2> QED BY <2>1, <2>2
<1>5. Begins(valid, file)
  <2>1. Begins(Among(Sent, ValidLines), Among(First(Sent, n), ValidLines))
    BY <1>3, AmongFirst
  <2> QED BY <1>2, <1>4, <2>1 DEF DealtWith
<1>6. file \in Seq(Lines) /\ valid \in Seq(Lines)
  BY <1>1, <1>3, AmongType DEF PipesTypeOK
<1> HIDE DEF valid
<1>7. SeqExt!IsPrefix(file, valid)
  <2>1. Len(file) <= Len(valid) /\ \A k \in 1..Len(file) : file[k] = valid[k]
    BY <1>5 DEF Begins
  <2>2. Len(file) \in 0..Len(valid) /\ Len(file) \in 0..Len(file)
    BY <1>6, <2>1
  <2>3. First(file, Len(file)) = First(valid, Len(file))
    <3>1. /\ First(file, Len(file)) \in Seq(Lines) /\ Len(First(file, Len(file))) = Len(file)
          /\ \A k \in 1..Len(file) : First(file, Len(file))[k] = file[k]
      BY <1>6, <2>2, FirstFacts
    <3>2. /\ First(valid, Len(file)) \in Seq(Lines) /\ Len(First(valid, Len(file))) = Len(file)
          /\ \A k \in 1..Len(file) : First(valid, Len(file))[k] = valid[k]
      BY <1>6, <2>2, FirstFacts
    <3>3. \A k \in 1..Len(First(file, Len(file))) : First(file, Len(file))[k] = First(valid, Len(file))[k]
      BY <2>1, <3>1, <3>2
    <3> QED BY <3>1, <3>2, <3>3, SeqEqual
  <2> QED BY <2>1, <2>3 DEF SeqExt!IsPrefix, First
<1>8. ASSUME child = "exit" PROVE file = valid
  <2>1. input = <<>> /\ unwritten = <<>>
    BY <1>1, <1>8 DEF Stages
  <2>2. Unread = scanned
    <3>1. <<>> \in Seq(Characters)
      BY EmptySeq
    <3>2. <<>> \o <<>> = <<>> /\ scanned \o <<>> = scanned
      BY <1>3, <3>1, ConcatEmptySeq
    <3> QED BY <2>1, <3>2 DEF Unread
  <2>3. PICK e : Cut(Unread, Sent, n, e)
    BY <1>2 DEF DealtWith
  <2>4. CASE n < Len(Sent)
    <3> DEFINE l == Sent[n + 1]
    <3>1. Len(l) <= Len(scanned) /\ \A j \in 1..Len(l) : scanned[j] = l[j]
      BY <1>3, <2>2, <2>3, <2>4, CutFirst, SMTT(60)
    <3>2. l \in Lines \cup {EmptyLine}
      <4>1. n + 1 \in 1..Len(Sent)
        BY <1>3, <2>4
      <4> QED BY <1>3, <4>1
    <3>3. Len(l) \in 1..Len(l) /\ l[Len(l)] = Newline /\ Len(l) \in Nat
      BY <3>2, LineFacts
    <3> HIDE DEF l
    <3>4. Len(l) \in 1..Len(scanned) /\ scanned[Len(l)] = Newline
      <4>1. Len(scanned) \in Nat
        BY <1>3
      <4> QED BY <3>1, <3>3, <4>1
    <3>5. scanned[Len(l)] \in {Capital, Small}
      <4>1. scanned \in Seq({Capital, Small})
        BY <1>1 DEF PipesTypeOK
      <4> QED BY <3>4, <4>1, ElementOfSeq
    <3> QED BY <3>4, <3>5, LineFacts
  <2>5. CASE n = Len(Sent)
    <3>1. First(Sent, n) = Sent
      BY <1>3, <2>5, FirstAll
    <3> QED BY <1>2, <1>4, <3>1 DEF DealtWith
  <2> QED BY <1>3, <2>4, <2>5
<1> QED BY <1>7, <1>8 DEF FileComplete, ValidLines, valid

\* However long the lines, however many and however small the pipes, the file
\* gets the valid lines in their order, and all of them when the child ends.
THEOREM FileCompleteCorrect == PipesSpec => []FileComplete
BY PipesInitInv, PipesStepInv, PipesInvComplete, PTL DEF PipesSpec

-----------------------------------------------------------------------------
(***************************************************************************)
(* SharedChunks, for any texts and any size of a chunk and of the mapping. *)
(*                                                                         *)
(* No process keeps the other from the shared memory, so SpacedLinesArrive *)
(* rests on the order of the user's steps alone.  The invariant says, for  *)
(* a user who waits and types short lines, that there is at most one line  *)
(* on its way: it is being copied, or its only signal is pending, or the   *)
(* child has read the characters before i of it.                           *)
(***************************************************************************)

\* What a step of the program keeps in range: the parent writes no cell past
\* its line, the last cell is never written, and the child has read a
\* character for every cell.
Within ==
  /\ memory[PageSize] = Zero
  /\ sender \in {"copy", "kill"} => st # <<>> /\ at <= Len(st) - 1
  /\ reader = "read" => i <= Len(READ_ST)

Told == IF toParent THEN 1 ELSE 0

\* No line is on its way.
Awaited ==
  /\ sender = "scan" /\ reader \in {"exec", "map", "pause"} /\ ~toChild
  /\ reader = "exec" => memory[0] = Structure
  /\ READ_ST = <<>>
  /\ answers = Among(entered, Good)
  /\ printed + Told = Len(Among(entered, Bad))

\* The line text is, and the ones before it have been dealt with.
OnItsWay(before, text, end) ==
  /\ entered = Append(before, text) /\ st = Append(text, end)
  /\ ~toParent
  /\ answers = Among(before, Good)
  /\ printed = Len(Among(before, Bad))

Copied(n) == \A c \in 0..n : memory[c] = st[c + 1]

BeingSent(before, text, end) ==
  /\ OnItsWay(before, text, end)
  /\ reader = "pause" /\ ~toChild /\ READ_ST = <<>>
  /\ chunk = 0
  /\ \/ sender = "copy" /\ Copied(at - 1)
     \/ sender = "kill" /\ Copied(Len(text))

BeingRead(before, text, end) ==
  /\ OnItsWay(before, text, end)
  /\ sender = IF end = EndOfInput THEN "wait" ELSE "scan"
  /\ Copied(Len(text))
  /\ \/ reader = "pause" /\ toChild /\ READ_ST = <<>>
     \/ /\ reader = "read" /\ ~toChild
        /\ i \in 0..Len(text) /\ READ_ST = First(text, i)

Over == sender \in {"wait", "done"} /\ reader = "exit"

LinesOneByOne ==
  spaced /\ AllShort =>
    \/ Awaited
    \/ \E before \in Seq(Texts), text \in Texts, end \in Ends :
         BeingSent(before, text, end) \/ BeingRead(before, text, end)
    \/ Over

ChunksInv == ChunksTypeOK /\ Within /\ LinesOneByOne

\* A line with the character that ends it.
LEMMA TextFacts ==
  ASSUME NEW text \in Texts, NEW end \in Ends
  PROVE  /\ text \in Seq({Upper, Lower}) /\ Len(text) \in Nat /\ Len(text) < PageSize
         /\ Append(text, end) # <<>> /\ Len(Append(text, end)) = Len(text) + 1
         /\ \A c \in 1..Len(text) : Append(text, end)[c] = text[c] /\ text[c] \in {Upper, Lower}
         /\ Append(text, end)[Len(text) + 1] = end
<1>1. text \in Seq({Upper, Lower}) /\ Len(text) < PageSize
  BY SharedChunksAssumption
<1>2. text \in Seq({Upper, Lower} \cup Ends)
  BY <1>1
<1>3. /\ Append(text, end) \in Seq({Upper, Lower} \cup Ends)
      /\ Len(Append(text, end)) = Len(text) + 1
      /\ \A c \in 1..Len(text) : Append(text, end)[c] = text[c]
      /\ Append(text, end)[Len(text) + 1] = end
  BY <1>2, AppendProperties
<1> QED BY <1>1, <1>3

\* The line of the parent.
LEMMA LineOfParent ==
  ASSUME ChunksTypeOK, st # <<>>
  PROVE  /\ Len(st) - 1 \in Nat /\ Len(st) - 1 < PageSize
         /\ \A c \in 1..Len(st) : st[c] \in {Upper, Lower} \cup Ends
<1>1. PICK text \in Texts, end \in Ends : st = Append(text, end)
  BY DEF ChunksTypeOK
<1> QED BY <1>1, TextFacts

\* No chunk begins or ends after the line.
LEMMA ChunkEndWithin ==
  ASSUME NEW len \in Nat, NEW j \in Nat
  PROVE  ChunkEnd(len, j) \in Nat /\ ChunkEnd(len, j) <= len
<1>1. PICK m \in Nat : m = (j + 1) * FileSize
  BY SharedChunksAssumption
<1> QED BY <1>1 DEF ChunkEnd

LEMMA ChunkBeginWithin ==
  ASSUME NEW len \in Nat, NEW j \in Nat, j + 1 < Chunks(len)
  PROVE  (j + 1) * FileSize \in Nat /\ (j + 1) * FileSize <= len
<1>1. PICK q \in Nat : q = (len + FileSize) \div FileSize /\ FileSize * q <= len + FileSize
  BY SharedChunksAssumption
<1>2. j + 2 <= q
  BY <1>1 DEF Chunks
<1>3. \A a, b \in Nat : a <= b => FileSize * a <= FileSize * b
  BY SharedChunksAssumption
<1>4. FileSize * (j + 2) <= FileSize * q
  BY <1>1, <1>2, <1>3
<1>5. FileSize * (j + 2) = (j + 1) * FileSize + FileSize /\ (j + 1) * FileSize \in Nat
  BY SharedChunksAssumption
<1> QED BY <1>1, <1>4, <1>5, SharedChunksAssumption

LEMMA ChunksInitInv == ChunksInit => ChunksInv
<1> SUFFICES ASSUME ChunksInit PROVE ChunksInv
  OBVIOUS
<1>1. ChunksTypeOK
  <2>1. READ_ST \in Seq({Upper, Lower, Structure}) /\ answers \in Seq(Seq({Upper, Lower, Structure}))
    BY DEF ChunksInit
  <2>2. entered \in Seq(Texts)
    BY DEF ChunksInit
  <2>3. memory \in [0..PageSize -> {Upper, Lower, Zero, Structure} \cup Ends]
    BY DEF ChunksInit
  <2>4. at \in 0..PageSize /\ i \in 0..PageSize
    BY SharedChunksAssumption DEF ChunksInit
  <2> QED BY <2>1, <2>2, <2>3, <2>4 DEF ChunksInit, ChunksTypeOK
<1>2. Within
  <2>1. PageSize \in 0..PageSize /\ ~(PageSize < StructureSize)
    BY SharedChunksAssumption
  <2> QED BY <2>1 DEF ChunksInit, Within
<1>3. Awaited
  <2>1. memory[0] = Structure
    <3>1. 0 \in 0..PageSize /\ 0 < StructureSize
      BY SharedChunksAssumption
    <3> QED BY <3>1 DEF ChunksInit
  <2>2. Among(<<>>, Good) = <<>> /\ Among(<<>>, Bad) = <<>>
    BY AmongEmpty
  <2> QED BY <2>1, <2>2 DEF ChunksInit, Awaited, Told
<1> QED BY <1>1, <1>2, <1>3 DEF ChunksInv, LinesOneByOne

\* The first n characters, of a text with as many.
LEMMA CutText ==
  ASSUME NEW T, NEW text \in Seq(T), NEW n \in 0..Len(text)
  PROVE  SubSeq(text, 1, n) \in Seq(T)
BY FirstFacts DEF First

LEMMA ChunksTypeStep ==
  ASSUME ChunksTypeOK, Within, ChunksNext
  PROVE  ChunksTypeOK' /\ Within'
<1> DEFINE Cells == {Upper, Lower, Zero, Structure} \cup Ends
           Letters == {Upper, Lower, Structure}
<1>0. /\ entered \in Seq(Texts)
      /\ memory \in [0..PageSize -> Cells]
      /\ READ_ST \in Seq(Letters) /\ answers \in Seq(Seq(Letters))
      /\ chunk \in Nat /\ at \in 0..PageSize /\ i \in 0..PageSize /\ printed \in Nat
      /\ PageSize \in Nat
  BY SharedChunksAssumption DEF ChunksTypeOK
<1>1. ASSUME NEW end \in Ends, ScanText(end) PROVE ChunksTypeOK' /\ Within'
  <2>1. PICK text \in Texts : entered' = Append(entered, text) /\ st' = Append(text, end)
    BY <1>1 DEF ScanText
  <2>2. entered' \in Seq(Texts)
    BY <1>0, <2>1
  <2>3. st' # <<>> /\ Len(st') - 1 = Len(text) /\ Len(text) \in Nat
    BY <2>1, TextFacts
  <2>4. Within'
    BY <1>1, <2>3 DEF ScanText, Within, readerVars
  <2> HIDE DEF Cells, Letters
  <2>5. at' \in 0..PageSize /\ chunk' \in Nat
    BY <1>0, <1>1 DEF ScanText
  <2>6. spaced' \in BOOLEAN
    BY <1>1 DEF ScanText
  <2>7. /\ sender' = "copy"
        /\ UNCHANGED <<memory, toChild, toParent, reader, i, READ_ST, answers, printed>>
    BY <1>1 DEF ScanText, readerVars
  <2>8. \E t \in Texts, e \in Ends : st' = Append(t, e)
    BY <2>1, SMTT(60)
  <2>9. ChunksTypeOK'
    BY <2>2, <2>5, <2>6, <2>7, <2>8 DEF ChunksTypeOK
  <2> QED BY <2>4, <2>9
<1>2. CASE Copy
  <2>1. /\ sender = "copy" /\ st # <<>> /\ at <= Len(st) - 1
        /\ UNCHANGED <<entered, st, chunk, toChild, toParent, reader, i, READ_ST, answers,
                       printed, spaced>>
    BY <1>2 DEF Copy, Within, readerVars
  <2>2. Len(st) - 1 \in Nat /\ Len(st) - 1 < PageSize /\ st[at + 1] \in Cells
    <3>1. at + 1 \in 1..Len(st)
      BY <1>0, <2>1, LineOfParent
    <3> QED BY <2>1, <3>1, LineOfParent
  <2>3. memory' \in [0..PageSize -> Cells] /\ memory'[PageSize] = memory[PageSize]
    <3> HIDE DEF Cells
    <3>1. memory' = [memory EXCEPT ![at] = st[at + 1]] /\ at # PageSize
      BY <1>0, <1>2, <2>1, <2>2 DEF Copy
    <3> QED BY <1>0, <2>2, <3>1
  <2>4. /\ at' \in 0..PageSize /\ at' <= Len(st) - 1
        /\ sender' \in {"copy", "kill"}
    <3>1. ChunkEnd(Len(st) - 1, chunk) \in Nat /\ ChunkEnd(Len(st) - 1, chunk) <= Len(st) - 1
      BY <1>0, <2>2, ChunkEndWithin
    <3> QED BY <1>0, <1>2, <2>1, <2>2, <3>1 DEF Copy
  <2>5. Within'
    BY <2>1, <2>3, <2>4 DEF Within
  <2>6. ChunksTypeOK'
    BY <2>1, <2>3, <2>4 DEF ChunksTypeOK
  <2> QED BY <2>5, <2>6
<1>3. CASE Kill
  <2>1. /\ sender = "kill" /\ st # <<>> /\ at <= Len(st) - 1
        /\ UNCHANGED <<entered, st, memory, toParent, i, READ_ST, answers, printed, spaced>>
    BY <1>3 DEF Kill, Within
  <2>2. /\ reader' \in {reader, "killed"}
        /\ toChild' \in BOOLEAN
    BY <1>3 DEF Kill, ChunksTypeOK
  <2>3. /\ chunk' \in Nat /\ at' \in 0..PageSize /\ at' <= Len(st) - 1
        /\ sender' \in {"copy", "wait", "scan"}
    <3>1. Len(st) - 1 \in Nat /\ Len(st) - 1 < PageSize
      BY <2>1, LineOfParent
    <3>2. CASE chunk + 1 < Chunks(Len(st) - 1)
      <4>1. /\ (chunk + 1) * FileSize \in Nat
            /\ (chunk + 1) * FileSize <= Len(st) - 1
        BY <1>0, <3>1, <3>2, ChunkBeginWithin
      <4>2. \/ sender' = "copy" /\ chunk' = chunk + 1 /\ at' = (chunk + 1) * FileSize
            \/ sender' \in {"wait", "scan"} /\ UNCHANGED <<chunk, at>>
        BY <1>3 DEF Kill
      <4> QED BY <1>0, <2>1, <3>1, <4>1, <4>2, SMTT(60)
    <3>3. CASE ~(chunk + 1 < Chunks(Len(st) - 1))
      BY <1>0, <1>3, <2>1, <3>3 DEF Kill
    <3> QED BY <3>2, <3>3
  <2>4. Within'
    BY <2>1, <2>2, <2>3 DEF Within
  <2>5. ChunksTypeOK'
    BY <2>1, <2>2, <2>3 DEF ChunksTypeOK
  <2> QED BY <2>4, <2>5
<1>4. CASE WaitReader \/ AcceptError \/ ReadStructure \/ SetHandler
  <2>1. /\ UNCHANGED <<entered, st, chunk, at, memory, toChild, i, READ_ST, answers, spaced>>
        /\ sender' \in {sender, "done"} /\ toParent' \in {toParent, FALSE}
        /\ printed' \in {printed, printed + 1}
        /\ reader' \in {reader, "map", "stuck", "pause"}
    BY <1>4 DEF WaitReader, AcceptError, ReadStructure, SetHandler, senderVars, readerVars
  <2>2. Within'
    BY <2>1 DEF Within
  <2>3. printed' \in Nat
    BY <1>0, <2>1
  <2>4. toParent' \in BOOLEAN
    BY <2>1 DEF ChunksTypeOK
  <2>5. ChunksTypeOK'
    BY <2>1, <2>3, <2>4 DEF ChunksTypeOK
  <2> QED BY <2>2, <2>5
<1>5. CASE Enter
  <2>1. /\ UNCHANGED <<entered, sender, st, chunk, at, spaced, memory, toParent, READ_ST, answers,
                       printed>>
        /\ reader' = "read" /\ i' = 0 /\ toChild' = FALSE
    BY <1>5 DEF Enter, senderVars
  <2>2. Len(READ_ST) \in Nat
    BY <1>0
  <2>3. Within'
    BY <2>1, <2>2 DEF Within
  <2>4. i' \in 0..PageSize
    BY <1>0, <2>1
  <2>5. ChunksTypeOK'
    BY <2>1, <2>4 DEF ChunksTypeOK
  <2> QED BY <2>3, <2>5
<1>6. CASE ReadCell
  <2>1. /\ UNCHANGED <<entered, sender, st, chunk, at, spaced, memory, toChild, toParent, reader,
                       answers, printed>>
        /\ reader = "read" /\ i <= Len(READ_ST)
        /\ memory[i] \notin Ends \cup {Zero}
        /\ READ_ST' = Append(READ_ST, memory[i]) /\ i' = i + 1
    BY <1>6 DEF ReadCell, Within, senderVars
  <2>2. memory[i] \in Letters /\ i # PageSize
    BY <1>0, <2>1 DEF Within
  <2> HIDE DEF Cells
  <2>3. READ_ST' \in Seq(Letters) /\ Len(READ_ST') = Len(READ_ST) + 1 /\ Len(READ_ST) \in Nat
    <3> HIDE DEF Letters
    <3> QED BY <1>0, <2>1, <2>2, AppendProperties
  <2>4. i' \in 0..PageSize /\ i' <= Len(READ_ST')
    BY <1>0, <2>1, <2>2, <2>3
  <2>5. Within'
    BY <2>1, <2>4 DEF Within
  <2>6. ChunksTypeOK'
    BY <2>1, <2>3, <2>4 DEF ChunksTypeOK
  <2> QED BY <2>5, <2>6
<1>7. CASE ReadLast
  <2> DEFINE text == SubSeq(READ_ST, 1, i)
  <2>1. /\ UNCHANGED <<entered, sender, st, chunk, at, spaced, memory, toChild, i, printed>>
        /\ reader = "read" /\ i <= Len(READ_ST)
        /\ reader' \in {"exit", "pause"}
        /\ answers' \in {answers, Append(answers, text)}
        /\ READ_ST' \in {<<>>, READ_ST}
        /\ toParent' \in BOOLEAN
    BY <1>7 DEF ReadLast, Within, senderVars, Left
  <2> HIDE DEF Cells, Letters
  <2>2. text \in Seq(Letters)
    <3>1. i \in 0..Len(READ_ST)
      BY <1>0, <2>1
    <3> QED BY <1>0, <3>1, CutText
  <2> HIDE DEF text
  <2>3. answers' \in Seq(Seq(Letters))
    <3>1. Append(answers, text) \in Seq(Seq(Letters))
      BY <1>0, <2>2, AppendProperties
    <3> QED BY <1>0, <2>1, <3>1
  <2>4. READ_ST' \in Seq(Letters)
    <3>1. <<>> \in Seq(Letters)
      OBVIOUS
    <3> QED BY <1>0, <2>1, <3>1
  <2>5. Within'
    BY <2>1 DEF Within
  <2>6. ChunksTypeOK'
    BY <2>1, <2>3, <2>4 DEF ChunksTypeOK, Letters
  <2> QED BY <2>5, <2>6
<1> QED BY <1>1, <1>2, <1>3, <1>4, <1>5, <1>6, <1>7
     DEF ChunksNext, SenderStep, ReaderStep

\* The lines typed so far are a part of those typed in the end.
LEMMA StillShort ==
  ASSUME ChunksTypeOK, ChunksNext, spaced', AllShort'
  PROVE  spaced /\ AllShort
<1>1. CASE UNCHANGED <<entered, spaced>>
  BY <1>1 DEF AllShort
<1>2. ASSUME NEW end \in Ends, ScanText(end) PROVE spaced /\ AllShort
  <2>1. PICK text \in Texts : entered' = Append(entered, text)
    BY <1>2 DEF ScanText
  <2>2. spaced
    BY <1>2 DEF ScanText
  <2>3. entered \in Seq(Texts)
    BY DEF ChunksTypeOK
  <2>4. /\ Len(entered') = Len(entered) + 1 /\ Len(entered) \in Nat
        /\ \A n \in 1..Len(entered) : entered'[n] = entered[n]
    BY <2>1, <2>3, AppendProperties
  <2>5. AllShort
    BY <2>4 DEF AllShort
  <2> QED BY <2>2, <2>5
<1> QED BY <1>1, <1>2
     DEF ChunksNext, SenderStep, ReaderStep, Copy, Kill, WaitReader, AcceptError, ReadStructure,
         SetHandler, Enter, ReadCell, ReadLast, senderVars

\* What follows when nothing is on its way.
LEMMA AwaitedStep ==
  ASSUME ChunksTypeOK, ChunksNext, spaced', Awaited
  PROVE  \/ Awaited'
         \/ \E before \in Seq(Texts), text \in Texts, end \in Ends : BeingSent(before, text, end)'
<1>1. ASSUME NEW end \in Ends, ScanText(end)
      PROVE  \E before \in Seq(Texts), text \in Texts : BeingSent(before, text, end)'
  <2>1. PICK text \in Texts : entered' = Append(entered, text) /\ st' = Append(text, end)
    BY <1>1 DEF ScanText
  <2>2. reader = "pause" /\ ~toChild /\ ~toParent
    BY <1>1 DEF ScanText, Rests
  <2>3. printed = Len(Among(entered, Bad))
    <3>1. Told = 0 /\ printed \in Nat
      BY <2>2 DEF Told, ChunksTypeOK
    <3> QED BY <3>1 DEF Awaited
  <2>4. PICK before \in Seq(Texts) : before = entered
    BY DEF ChunksTypeOK
  <2>5. UNCHANGED <<memory, toChild, toParent, reader, i, READ_ST, answers, printed>>
    BY <1>1 DEF ScanText, readerVars
  <2>6. OnItsWay(before, text, end)'
    BY <2>1, <2>2, <2>3, <2>4, <2>5 DEF OnItsWay, Awaited
  <2>7. Copied(at - 1)'
    <3>1. at' - 1 = -1
      BY <1>1 DEF ScanText
    <3> QED BY <3>1 DEF Copied
  <2>8. sender' = "copy" /\ chunk' = 0
    BY <1>1 DEF ScanText
  <2>9. BeingSent(before, text, end)'
    BY <2>2, <2>5, <2>6, <2>7, <2>8 DEF BeingSent, Awaited
  <2> QED BY <2>9
<1>2. CASE AcceptError
  <2>1. /\ toParent /\ toParent' = FALSE /\ printed' = printed + 1
        /\ UNCHANGED <<entered, sender, memory, toChild, reader, READ_ST, answers>>
    BY <1>2 DEF AcceptError, senderVars, readerVars
  <2>2. printed \in Nat
    BY DEF ChunksTypeOK
  <2>3. Awaited'
    BY <2>1, <2>2 DEF Awaited, Told
  <2> QED BY <2>3
<1>3. CASE ReadStructure \/ SetHandler
  <2>1. /\ UNCHANGED <<entered, sender, memory, toChild, toParent, READ_ST, answers, printed>>
        /\ reader' \in {"map", "pause"}
    BY <1>3 DEF ReadStructure, SetHandler, Awaited, senderVars
  <2>2. Awaited'
    BY <2>1 DEF Awaited, Told
  <2> QED BY <2>2
<1>4. ~Copy /\ ~Kill /\ ~WaitReader /\ ~Enter /\ ~ReadCell /\ ~ReadLast
  BY DEF Awaited, Copy, Kill, WaitReader, Enter, ReadCell, ReadLast
<1> QED BY <1>1, <1>2, <1>3, <1>4 DEF ChunksNext, SenderStep, ReaderStep

\* A line shorter than a chunk is sent as one.
LEMMA BeingSentStep ==
  ASSUME ChunksTypeOK, Within, ChunksNext, AllShort,
         NEW before \in Seq(Texts), NEW text \in Texts, NEW end \in Ends,
         BeingSent(before, text, end)
  PROVE  BeingSent(before, text, end)' \/ BeingRead(before, text, end)'
<1>1. /\ st = Append(text, end) /\ Len(text) \in Nat /\ Len(st) - 1 = Len(text)
      /\ st[Len(st)] = end
  BY TextFacts DEF BeingSent, OnItsWay
<1>2. Len(text) < FileSize
  <2>1. entered = Append(before, text)
    BY DEF BeingSent, OnItsWay
  <2>2. Len(before) + 1 \in 1..Len(entered) /\ entered[Len(before) + 1] = text
    BY <2>1, AppendProperties
  <2> QED BY <2>2 DEF AllShort
<1>3. ChunkEnd(Len(text), 0) = Len(text) /\ Chunks(Len(text)) = 1
  <2>1. (0 + 1) * FileSize = FileSize
    BY SharedChunksAssumption
  <2>2. (Len(text) + FileSize) \div FileSize = 1
    <3>1. PICK n \in Nat : n = Len(text) + FileSize
      BY <1>1, SharedChunksAssumption
    <3>2. PICK q \in Nat, r \in 0..(FileSize - 1) : q = n \div FileSize /\ n = FileSize * q + r
      BY <3>1, Division, SharedChunksAssumption, ZenonT(60)
    <3>3. PICK m \in Nat : m = FileSize * q
      BY SharedChunksAssumption
    <3>4. m \in (Len(text) + 1)..(Len(text) + FileSize)
      BY <1>1, <3>1, <3>2, <3>3, SharedChunksAssumption
    <3>5. q < 2
      <4>1. 2 <= q => FileSize * 2 <= m
        BY <3>3, SharedChunksAssumption
      <4> QED BY <1>1, <1>2, <3>4, <4>1, SharedChunksAssumption
    <3>6. q # 0
      <4>1. q = 0 => m = 0
        BY <3>3, SharedChunksAssumption
      <4> QED BY <1>1, <3>4, <4>1
    <3> QED BY <3>1, <3>2, <3>5, <3>6
  <2> QED BY <1>1, <1>2, <2>1, <2>2 DEF ChunkEnd, Chunks
<1>4. CASE Copy
  <2>1. /\ UNCHANGED <<entered, st, chunk, toChild, toParent, reader, READ_ST, answers, printed>>
        /\ sender = "copy" /\ Copied(at - 1) /\ at <= Len(text)
        /\ memory' = [memory EXCEPT ![at] = st[at + 1]]
    BY <1>1, <1>4 DEF Copy, BeingSent, Within, readerVars
  <2>2. \A c \in 0..at : memory'[c] = st'[c + 1]
    <3>1. /\ memory \in [0..PageSize -> {Upper, Lower, Zero, Structure} \cup Ends]
          /\ at \in 0..PageSize /\ PageSize \in Nat
      BY SharedChunksAssumption DEF ChunksTypeOK
    <3>2. ASSUME NEW c \in 0..at PROVE memory'[c] = st'[c + 1]
      <4>1. CASE c = at
        BY <2>1, <3>1, <4>1
      <4>2. CASE c # at
        <5>1. c \in 0..(at - 1) /\ c \in 0..PageSize
          BY <3>1, <4>2
        <5>2. memory[c] = st[c + 1]
          BY <2>1, <5>1 DEF Copied
        <5> QED BY <2>1, <3>1, <4>2, <5>1, <5>2
      <4> QED BY <4>1, <4>2
    <3> QED BY <3>2
  <2>3. OnItsWay(before, text, end)'
    BY <2>1 DEF OnItsWay, BeingSent
  <2>4. CASE at < Len(text)
    <3>1. at' = at + 1 /\ sender' = "copy"
      BY <1>1, <1>3, <1>4, <2>1, <2>4 DEF Copy, BeingSent
    <3>2. Copied(at - 1)'
      <4>1. at' - 1 = at
        BY <3>1 DEF ChunksTypeOK
      <4> QED BY <2>2, <4>1 DEF Copied
    <3> QED BY <2>1, <2>3, <3>1, <3>2 DEF BeingSent
  <2>5. CASE ~(at < Len(text))
    <3>1. at = Len(text)
      BY <1>1, <2>1, <2>5 DEF ChunksTypeOK
    <3>2. sender' = "kill"
      BY <1>1, <1>3, <1>4, <2>1, <2>5 DEF Copy, BeingSent
    <3>3. Copied(Len(text))'
      BY <2>2, <3>1 DEF Copied
    <3> QED BY <2>1, <2>3, <3>2, <3>3 DEF BeingSent
  <2> QED BY <2>4, <2>5
<1>5. CASE Kill
  <2>1. /\ UNCHANGED <<entered, st, memory, toParent, reader, READ_ST, answers, printed>>
        /\ sender = "kill" /\ Copied(Len(text)) /\ reader = "pause"
        /\ toChild' = TRUE
    BY <1>5 DEF Kill, BeingSent
  <2>2. sender' = IF end = EndOfInput THEN "wait" ELSE "scan"
    BY <1>1, <1>3, <1>5 DEF Kill, BeingSent
  <2>3. OnItsWay(before, text, end)' /\ Copied(Len(text))'
    BY <2>1 DEF OnItsWay, BeingSent, Copied
  <2> QED BY <2>1, <2>2, <2>3 DEF BeingRead, BeingSent
<1>6. /\ ~WaitReader /\ ~AcceptError /\ ~ReadStructure /\ ~SetHandler
      /\ ~Enter /\ ~ReadCell /\ ~ReadLast /\ \A e \in Ends : ~ScanText(e)
  BY DEF BeingSent, OnItsWay, ScanText, WaitReader, AcceptError, ReadStructure, SetHandler, Enter,
         ReadCell, ReadLast
<1> QED BY <1>4, <1>5, <1>6 DEF ChunksNext, SenderStep, ReaderStep

\* A signal later, the line is read to its end, and to no more.
LEMMA BeingReadStep ==
  ASSUME ChunksTypeOK, ChunksNext, spaced',
         NEW before \in Seq(Texts), NEW text \in Texts, NEW end \in Ends,
         BeingRead(before, text, end)
  PROVE  BeingRead(before, text, end)' \/ Awaited' \/ Over'
<1>1. /\ st = Append(text, end) /\ Len(text) \in Nat /\ Len(text) < PageSize
      /\ text \in Seq({Upper, Lower})
      /\ \A c \in 1..Len(text) : st[c] = text[c] /\ text[c] \in {Upper, Lower}
      /\ st[Len(text) + 1] = end
  BY TextFacts DEF BeingRead, OnItsWay
<1>2. \A c \in 0..(Len(text) - 1) : memory[c] = text[c + 1] /\ memory[c] \in {Upper, Lower}
  <2>1. ASSUME NEW c \in 0..(Len(text) - 1)
        PROVE  memory[c] = text[c + 1] /\ memory[c] \in {Upper, Lower}
    <3>1. c \in 0..Len(text) /\ c + 1 \in 1..Len(text)
      BY <1>1
    <3> QED BY <1>1, <3>1 DEF BeingRead, Copied
  <2> QED BY <2>1
<1>3. memory[Len(text)] = end
  <2>1. Len(text) \in 0..Len(text)
    BY <1>1
  <2> QED BY <1>1, <2>1 DEF BeingRead, Copied
<1>4. CASE Enter
  <2>1. /\ UNCHANGED <<entered, sender, st, memory, toParent, READ_ST, answers, printed>>
        /\ reader = "pause" /\ reader' = "read" /\ i' = 0 /\ toChild' = FALSE
    BY <1>4 DEF Enter, senderVars
  <2>2. First(text, 0) = <<>>
    BY DEF First
  <2>3. OnItsWay(before, text, end)' /\ Copied(Len(text))'
    BY <2>1 DEF OnItsWay, BeingRead, Copied
  <2>4. i' \in 0..Len(text) /\ READ_ST' = First(text, i')
    BY <1>1, <2>1, <2>2 DEF BeingRead
  <2> QED BY <2>1, <2>3, <2>4 DEF BeingRead
<1>5. CASE ReadCell
  <2>1. /\ UNCHANGED <<entered, sender, st, memory, toChild, toParent, reader, answers, printed>>
        /\ reader = "read" /\ memory[i] \notin Ends
        /\ READ_ST' = Append(READ_ST, memory[i]) /\ i' = i + 1
        /\ i \in 0..Len(text) /\ READ_ST = First(text, i)
    BY <1>5 DEF ReadCell, BeingRead, senderVars
  <2>2. i \in 0..(Len(text) - 1)
    BY <1>1, <1>3, <2>1
  <2>3. READ_ST' = First(text, i + 1)
    <3>1. memory[i] = text[i + 1]
      BY <1>2, <2>2
    <3>2. \A n \in 0..(Len(text) - 1) : First(text, n + 1) = Append(First(text, n), text[n + 1])
      BY <1>1, FirstNext
    <3>3. First(text, i + 1) = Append(First(text, i), text[i + 1])
      BY <2>2, <3>2
    <3> QED BY <2>1, <3>1, <3>3
  <2>4. i' \in 0..Len(text) /\ READ_ST' = First(text, i')
    BY <1>1, <2>1, <2>2, <2>3
  <2>5. OnItsWay(before, text, end)' /\ Copied(Len(text))'
    BY <2>1 DEF OnItsWay, BeingRead, Copied
  <2>6. reader' = "read" /\ ~toChild'
    BY <2>1 DEF BeingRead
  <2> QED BY <2>1, <2>4, <2>5, <2>6 DEF BeingRead
<1>6. CASE ReadLast
  <2>1. /\ UNCHANGED <<entered, sender, st, memory, toChild, printed>>
        /\ reader = "read" /\ memory[i] \in Ends \cup {Zero, Structure}
        /\ i \in 0..Len(text) /\ READ_ST = First(text, i)
        /\ ~toParent /\ ~toChild
    BY <1>6 DEF ReadLast, BeingRead, OnItsWay, senderVars
  <2>2. i = Len(text)
    <3>1. CASE i # Len(text)
      <4>1. i \in 0..(Len(text) - 1)
        BY <1>1, <2>1, <3>1
      <4>2. memory[i] \in {Upper, Lower}
        BY <1>2, <4>1
      <4> QED BY <2>1, <4>2, SharedChunksAssumption DEF Ends
    <3> QED BY <3>1
  <2>3. /\ READ_ST = text /\ SubSeq(READ_ST, 1, i) = text
        /\ text # <<>> <=> i # 0
    <3>1. First(text, Len(text)) = text
      BY <1>1, FirstAll
    <3>2. text # <<>> <=> i # 0
      BY <1>1, <2>2
    <3> QED BY <2>1, <2>2, <3>1, <3>2 DEF First
  <2>4. /\ text \in Good <=> i # 0 /\ text[1] = Upper
        /\ text \in Bad <=> i # 0 /\ ~(text[1] = Upper)
    <3>1. i # 0 => text[1] \in {Upper, Lower}
      BY <1>1, <2>2
    <3> QED BY <2>3, <3>1, SharedChunksAssumption DEF Good, Bad
  <2>5. /\ answers' = IF text \in Good THEN Append(answers, text) ELSE answers
        /\ toParent' = (text \in Bad)
        /\ READ_ST' = <<>>
        /\ reader' = IF end = EndOfInput THEN "exit" ELSE "pause"
    <3>1. memory[i] = end
      BY <1>3, <2>2
    <3>2. /\ answers' = IF i # 0 /\ text[1] = Upper THEN Append(answers, text) ELSE answers
          /\ READ_ST' = IF i # 0 THEN <<>> ELSE READ_ST
          /\ reader' = IF end = EndOfInput THEN "exit" ELSE "pause"
      BY <1>6, <2>3, <3>1 DEF ReadLast, Left
    <3>3. toParent' = (toParent \/ (i # 0 /\ ~(i # 0 /\ text[1] = Upper)))
      BY <1>6, <2>3, <3>1 DEF ReadLast
    <3>4. toParent' = (text \in Bad)
      BY <2>1, <2>4, <3>3
    <3>5. READ_ST' = <<>>
      BY <2>3, <3>2
    <3> QED BY <2>4, <3>2, <3>4, <3>5
  <2>6. CASE end = EndOfInput
    BY <2>1, <2>5, <2>6 DEF BeingRead, Over
  <2>7. CASE end # EndOfInput
    <3>1. entered' = Append(before, text)
      BY <2>1 DEF BeingRead, OnItsWay
    <3>2. answers' = Among(entered', Good)
      <4>1. Among(Append(before, text), Good) =
              IF text \in Good THEN Append(Among(before, Good), text) ELSE Among(before, Good)
        BY AmongAppend
      <4> QED BY <2>5, <3>1, <4>1 DEF BeingRead, OnItsWay
    <3>3. (printed + Told)' = Len(Among(entered', Bad))
      <4>1. Among(Append(before, text), Bad) =
              IF text \in Bad THEN Append(Among(before, Bad), text) ELSE Among(before, Bad)
        BY AmongAppend
      <4>2. Among(before, Bad) \in Seq(Texts)
        BY AmongType
      <4>3. /\ Len(Append(Among(before, Bad), text)) = Len(Among(before, Bad)) + 1
            /\ Len(Among(before, Bad)) \in Nat
        BY <4>2, AppendProperties
      <4>4. printed' = Len(Among(before, Bad))
        BY <2>1 DEF BeingRead, OnItsWay
      <4>5. Told' = IF text \in Bad THEN 1 ELSE 0
        BY <2>5 DEF Told
      <4> QED BY <3>1, <4>1, <4>3, <4>4, <4>5
    <3>4. sender' = "scan" /\ reader' = "pause" /\ ~toChild'
      BY <2>1, <2>5, <2>7 DEF BeingRead
    <3> QED BY <2>5, <3>2, <3>3, <3>4 DEF Awaited
  <2> QED BY <2>6, <2>7
<1>7. /\ ~Copy /\ ~Kill /\ ~WaitReader /\ ~AcceptError /\ ~ReadStructure /\ ~SetHandler
  BY DEF BeingRead, OnItsWay, Copy, Kill, WaitReader, AcceptError, ReadStructure, SetHandler
<1>8. ASSUME NEW e \in Ends, ScanText(e) PROVE FALSE
  BY <1>8 DEF ScanText, Rests, BeingRead
<1> QED BY <1>4, <1>5, <1>6, <1>7, <1>8 DEF ChunksNext, SenderStep, ReaderStep

LEMMA ChunksStepInv == ChunksInv /\ [ChunksNext]_chunkVars => ChunksInv'
<1> SUFFICES ASSUME ChunksInv, [ChunksNext]_chunkVars PROVE ChunksInv'
  OBVIOUS
<1>1. CASE ChunksNext
  <2>1. ChunksTypeOK' /\ Within'
    BY <1>1, ChunksTypeStep DEF ChunksInv
  <2>2. LinesOneByOne'
    <3> SUFFICES ASSUME spaced', AllShort'
                 PROVE  \/ Awaited'
                        \/ \E before \in Seq(Texts), text \in Texts, end \in Ends :
                             BeingSent(before, text, end)' \/ BeingRead(before, text, end)'
                        \/ Over'
      BY DEF LinesOneByOne
    <3>1. spaced /\ AllShort
      BY <1>1, StillShort DEF ChunksInv
    <3>2. CASE Awaited
      BY <1>1, <3>2, AwaitedStep DEF ChunksInv
    <3>3. ASSUME NEW before \in Seq(Texts), NEW text \in Texts, NEW end \in Ends,
                 BeingSent(before, text, end)
          PROVE  BeingSent(before, text, end)' \/ BeingRead(before, text, end)'
      BY <1>1, <3>1, <3>3, BeingSentStep DEF ChunksInv
    <3>4. ASSUME NEW before \in Seq(Texts), NEW text \in Texts, NEW end \in Ends,
                 BeingRead(before, text, end)
          PROVE  BeingRead(before, text, end)' \/ Awaited' \/ Over'
      BY <1>1, <3>4, BeingReadStep, SMTT(60) DEF ChunksInv
    <3>5. CASE Over
      BY <1>1, <3>5
      DEF Over, ChunksNext, ScanText, SenderStep, Copy, Kill, WaitReader, AcceptError, ReaderStep,
          ReadStructure, SetHandler, Enter, ReadCell, ReadLast, senderVars, readerVars
    <3> QED BY <3>1, <3>2, <3>3, <3>4, <3>5 DEF ChunksInv, LinesOneByOne
  <2> QED BY <2>1, <2>2 DEF ChunksInv
<1>2. CASE UNCHANGED chunkVars
  <2>1. UNCHANGED <<entered, sender, st, chunk, at, memory, toChild, toParent, reader, i, READ_ST,
                    answers, printed, spaced>>
    BY <1>2 DEF chunkVars
  <2>2. ChunksTypeOK'
    BY <2>1 DEF ChunksInv, ChunksTypeOK
  <2>3. Within'
    BY <2>1 DEF ChunksInv, Within
  <2>4. LinesOneByOne'
    BY <2>1, SMTT(60) DEF ChunksInv, LinesOneByOne, AllShort, Awaited, Told, BeingSent, BeingRead, OnItsWay,
                Copied, Over
  <2> QED BY <2>2, <2>3, <2>4 DEF ChunksInv
<1> QED BY <1>1, <1>2

LEMMA ChunksInvArrive == ChunksInv => SpacedLinesArrive
<1> SUFFICES ASSUME ChunksInv, spaced, AllShort, sender = "scan", Rests
             PROVE  answers = Among(entered, Good) /\ printed = Len(Among(entered, Bad))
  BY DEF SpacedLinesArrive
<1>1. Awaited
  BY DEF ChunksInv, LinesOneByOne, BeingSent, BeingRead, Over, Rests
<1>2. Told = 0 /\ printed \in Nat
  BY DEF Told, Rests, ChunksInv, ChunksTypeOK
<1> QED BY <1>1, <1>2 DEF Awaited

\* However long the texts and however large a chunk and the mapping, a user who
\* waits, and whose lines are shorter than a chunk, has every line dealt with
\* once: in the file or by an error (src/lab4: main.c, child.c).
THEOREM SpacedLinesArriveCorrect == ChunksSpec => []SpacedLinesArrive
BY ChunksInitInv, ChunksStepInv, ChunksInvArrive, PTL DEF ChunksSpec

-----------------------------------------------------------------------------
(***************************************************************************)
(* All of them: in the specification that the run checks, whichever        *)
(* program the behaviour is about, every part keeps its invariant.         *)
(***************************************************************************)

PartsInv ==
  /\ program \in Programs
  /\ ListInv /\ FifoInv /\ PipesInv /\ ChunksInv
  /\ AveragingInv /\ HexInv /\ GcdInv /\ ChatListInv

LEMMA PartsInitInv == PartsInit => PartsInv
<1> SUFFICES ASSUME PartsInit PROVE PartsInv
  OBVIOUS
<1>1. /\ program \in Programs
      /\ ListInit /\ FifoInit /\ PipesInit /\ ChunksInit
      /\ AveragingInit /\ HexInit /\ GcdInit /\ ChatListInit
  BY DEF PartsInit
<1>2. ListInv /\ FifoInv /\ PipesInv /\ ChunksInv
  BY <1>1, InitInv, FifoInitInv, PipesInitInv, ChunksInitInv
<1>3. AveragingInv /\ HexInv /\ GcdInv /\ ChatListInv
  BY <1>1, AveragingInitInv, HexInitInv, GcdInitInv, ChatListInitInv
<1> QED BY <1>1, <1>2, <1>3 DEF PartsInv

LEMMA PartsStepInv == PartsInv /\ [PartsNext]_partsVars => PartsInv'
<1> SUFFICES ASSUME PartsInv, [PartsNext]_partsVars PROVE PartsInv'
  OBVIOUS
<1>1. /\ UNCHANGED program
      /\ [ListNext]_listVars /\ [FifoNext]_fifoVars /\ [PipesNext]_pipeVars
      /\ [ChunksNext]_chunkVars /\ [AveragingNext]_averagingVars /\ [Generate]_hexVars
      /\ [GcdNext]_gcdVars /\ [ChatListNext]_chatListVars
  BY DEF PartsNext, partsVars
<1>2. ListInv' /\ FifoInv' /\ PipesInv' /\ ChunksInv'
  BY <1>1, NextInv, FifoStepInv, PipesStepInv, ChunksStepInv DEF PartsInv
<1>3. AveragingInv' /\ HexInv' /\ GcdInv' /\ ChatListInv'
  BY <1>1, StepInvariant, HexStepInv, GcdStepInv, ChatListStepInv DEF PartsInv
<1> QED BY <1>1, <1>2, <1>3 DEF PartsInv

LEMMA PartsInvariant == PartsSpec => []PartsInv
BY PartsInitInv, PartsStepInv, PTL DEF PartsSpec

\* No step of any of the eight programs takes a variable out of its type: no
\* index leaves the array, the mapping or the buffer it belongs to, and no word
\* of the list is used as an address while it holds two.
THEOREM PartsTypeCorrect == PartsSpec => []PartsTypeOK
<1>1. PartsInv => PartsTypeOK
  BY ListInvType DEF PartsInv, PartsTypeOK, FifoInv, HexInv, HexTypeOK, PipesInv, ChunksInv,
     AveragingInv, GcdInv, ChatListInv
<1> QED BY <1>1, PartsInvariant, PTL

\* What the run checks of the parts holds of its specification.
THEOREM PartsCorrect ==
  PartsSpec => [](/\ RingWhole /\ NothingLost /\ FileComplete /\ SpacedLinesArrive
                  /\ EachNumberOnce /\ MemoryKept /\ ReadBack /\ SameResult
                  /\ ScreenShowsAnswer)
<1> DEFINE Holds == /\ RingWhole /\ NothingLost /\ FileComplete /\ SpacedLinesArrive
                    /\ EachNumberOnce /\ MemoryKept /\ ReadBack /\ SameResult
                    /\ ScreenShowsAnswer
<1>1. PartsInv => Holds
  BY ListInvWhole, FifoInvLost, PipesInvComplete, ChunksInvArrive, AveragingInvOnce,
     AveragingInvKept, HexInvReadBack, GcdInvResult, ChatListInvScreen
     DEF PartsInv
<1>2. [](PartsInv => Holds)
  BY <1>1, PTL
<1> QED BY <1>2, PartsInvariant, PTL
================================================================================
