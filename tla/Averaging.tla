------------------------------- MODULE Averaging -------------------------------
(***************************************************************************)
(* The program of lab3 that averages the numbers of a file with several    *)
(* threads (main.c).  A number is a record of RecordSize characters; the   *)
(* threads take pieces of the file in turn, each a whole number of records *)
(* long, and the mean of each is weighted with how many it has counted.    *)
(*                                                                         *)
(* The characters are left out: a number is known by where it begins.  A   *)
(* mean is kept as what it is a mean of, since rounding is the only thing  *)
(* that parts `res' times `count' from the sum of the numbers.             *)
(***************************************************************************)
EXTENDS Integers

CONSTANTS
  MaxThreads,     \* bound: of the option -t
  Memories,       \* values of the option -m, in characters
  FileSizes       \* lengths of the file, in characters

ASSUME AveragingAssumption ==
  MaxThreads \in Nat \ {0} /\ Memories \subseteq Nat \ {0} /\ FileSizes \subseteq Nat

\* MAX_128_HEX_BYTES and a separator.
RecordSize == 33

VARIABLES
  max_threads, max_memory,   \* the options
  filesize,                  \* of the file of numbers
  main,          \* "start", "create", "join", "done", or "error" when it has
                 \* returned without a result
  created,       \* how many threads main has created
  FILE_MUTEX,    \* the thread that holds it, or NoThread
  position,      \* of NUMBER_FILE
  worker,        \* of each thread: "none", "lock", "read", "unlock", "count", "end"
  piece,         \* of each thread: where its buffer was read from and read_count
  counted,       \* how often the number at a place has been counted
  joined         \* how many threads main has joined

averagingVars == <<max_threads, max_memory, filesize, main, created, FILE_MUTEX,
                   position, worker, piece, counted, joined>>
options == <<max_threads, max_memory, filesize>>

Workers == 1..max_threads
NoThread == 0
Places == 0..(filesize - 1)

\* Variant: the pieces need not be whole records.
ThreadMemoryWhole(memory, threads) == memory \div threads

\* Variant: the share is rounded up to whole records.
ThreadMemoryUp(memory, threads) ==
  RecordSize * ((memory \div threads + RecordSize - 1) \div RecordSize)

\* thread_memory.
ThreadMemory(memory, threads) ==
  LET share == memory \div threads
  IN  share - (share % RecordSize)

piece_size == ThreadMemory(max_memory, max_threads)

\* args_parsing has accepted the options and the file has been opened.
AveragingInit ==
  /\ max_threads \in 1..MaxThreads
  /\ max_memory \in Memories
  /\ filesize \in FileSizes
  /\ main = "start" /\ created = 0 /\ joined = 0
  /\ FILE_MUTEX = NoThread /\ position = 0
  /\ worker = [t \in 1..MaxThreads |-> "none"]
  /\ piece = [t \in 1..MaxThreads |-> [from |-> 0, read_count |-> 0]]
  /\ counted = [p \in Places |-> 0]

-----------------------------------------------------------------------------
(* main                                                                    *)

Start ==
  /\ main = "start"
  /\ main' = IF piece_size = 0 THEN "error" ELSE "create"
  /\ UNCHANGED <<options, created, FILE_MUTEX, position, worker, piece, counted, joined>>

CreateThread ==
  /\ main = "create" /\ created < max_threads
  /\ created' = created + 1
  /\ worker' = [worker EXCEPT ![created'] = "lock"]
  /\ UNCHANGED <<options, main, FILE_MUTEX, position, piece, counted, joined>>

\* pthread_create fails: main returns, and the threads end with it.
CreateFails ==
  /\ main = "create" /\ created < max_threads
  /\ main' = "error"
  /\ worker' = [t \in 1..MaxThreads |-> "none"]
  /\ UNCHANGED <<options, created, FILE_MUTEX, position, piece, counted, joined>>

Created ==
  /\ main = "create" /\ created = max_threads
  /\ main' = "join"
  /\ UNCHANGED <<options, created, FILE_MUTEX, position, worker, piece, counted, joined>>

JoinThread ==
  /\ main = "join" /\ joined < max_threads
  /\ worker[joined + 1] = "end"
  /\ joined' = joined + 1
  /\ UNCHANGED <<options, main, created, FILE_MUTEX, position, worker, piece, counted>>

\* The means are added up, each with its weight.
PrintResult ==
  /\ main = "join" /\ joined = max_threads
  /\ main' = "done"
  /\ UNCHANGED <<options, created, FILE_MUTEX, position, worker, piece, counted, joined>>

-----------------------------------------------------------------------------
(* number_worker                                                           *)

Lock(t) ==
  /\ worker[t] = "lock" /\ FILE_MUTEX = NoThread
  /\ FILE_MUTEX' = t
  /\ worker' = [worker EXCEPT ![t] = "read"]
  /\ UNCHANGED <<options, main, created, position, piece, counted, joined>>

\* fread stops at the end of the file.
Fread(t) ==
  LET left == filesize - position
      read_count == IF left < piece_size THEN left ELSE piece_size
  IN  /\ worker[t] = "read"
      /\ piece' = [piece EXCEPT ![t] = [from |-> position, read_count |-> read_count]]
      /\ position' = position + read_count
      /\ worker' = [worker EXCEPT ![t] = "unlock"]
      /\ UNCHANGED <<options, main, created, FILE_MUTEX, counted, joined>>

Unlock(t) ==
  /\ worker[t] = "unlock"
  /\ FILE_MUTEX' = NoThread
  /\ worker' = [worker EXCEPT ![t] = "count"]
  /\ UNCHANGED <<options, main, created, position, piece, counted, joined>>

\* A piece shorter than the buffer is the last one.
LastPiece(p) == p.read_count < piece_size

\* The places of the numbers counted in a piece.
InPiece(p, place) ==
  /\ place >= p.from
  /\ (place - p.from) % RecordSize = 0
  /\ (place - p.from) \div RecordSize < p.read_count \div RecordSize

Count(t) ==
  /\ worker[t] = "count"
  /\ counted' = [place \in Places |-> counted[place] + IF InPiece(piece[t], place) THEN 1 ELSE 0]
  /\ worker' = [worker EXCEPT ![t] = IF LastPiece(piece[t]) THEN "end" ELSE "lock"]
  /\ UNCHANGED <<options, main, created, FILE_MUTEX, position, piece, joined>>

WorkerStep(t) == Lock(t) \/ Fread(t) \/ Unlock(t) \/ Count(t)
MainStep == Start \/ CreateThread \/ CreateFails \/ Created \/ JoinThread \/ PrintResult

AveragingNext == MainStep \/ \E t \in 1..MaxThreads : WorkerStep(t)

AveragingSpec == AveragingInit /\ [][AveragingNext]_averagingVars

-----------------------------------------------------------------------------
AveragingTypeOK ==
  /\ max_threads \in 1..MaxThreads
  /\ max_memory \in Memories
  /\ filesize \in FileSizes
  /\ main \in {"start", "create", "join", "done", "error"}
  /\ created \in 0..max_threads /\ joined \in 0..created
  /\ FILE_MUTEX \in 0..MaxThreads
  /\ position \in 0..filesize
  /\ worker \in [1..MaxThreads -> {"none", "lock", "read", "unlock", "count", "end"}]
  /\ piece \in [1..MaxThreads -> [from : 0..filesize, read_count : 0..filesize]]
  /\ counted \in [Places -> Nat]

\* The whole numbers of the file.  (Characters after the last separator are
\* not one.)
Number(place) == place % RecordSize = 0 /\ place + RecordSize <= filesize

\* However the threads share the file, the result is made of all its numbers,
\* each of them once and none of them torn (main.c:87-98).
EachNumberOnce ==
  main = "done" => \A place \in Places : counted[place] = IF Number(place) THEN 1 ELSE 0

\* The buffers of the threads together are never more than the memory the user
\* has allowed (main.c:49).
MemoryKept == main # "start" => created * piece_size <= max_memory

=============================================================================
