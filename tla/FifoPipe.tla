-------------------------------- MODULE FifoPipe --------------------------------
(***************************************************************************)
(* A named pipe of KP (structs/fifo_pipe.cpp) with several writers and one *)
(* reader.  A message is put, and taken, by opening the pipe, transferring *)
(* and closing it again; the reader's stream takes all there is in the     *)
(* pipe and the message after the first line feed is lost with it.         *)
(*                                                                         *)
(* The kernel is modelled by what the code meets: open waits for the other *)
(* side to be open or opening; a read waits for data or for the last       *)
(* writer to close; what is written while nobody has the pipe open for     *)
(* reading is refused (SIGPIPE is ignored, the stream's error not looked   *)
(* at); what is left when everybody has closed the pipe is discarded.      *)
(* A message is shorter than the kernel writes at once.                    *)
(***************************************************************************)
EXTENDS Naturals, Sequences, FiniteSets

CONSTANTS
  Writers,      \* threads that put messages: of clients, or the server
  MaxPuts       \* bound: messages a writer puts

ASSUME FifoAssumption == MaxPuts \in Nat

VARIABLES
  writer,   \* of each writer: "idle", "opening" (waits in open), "open" or "written"
  getter,   \* the same, and "done" for "written"
  buf,      \* the contents of the pipe
  puts,     \* how many messages each writer has written
  got,      \* what get_message has returned, empty strings left out
  apart     \* has every put begun when the reader waited and no other was at it?

fifoVars == <<writer, getter, buf, puts, got, apart>>

FifoInit == /\ writer = [w \in Writers |-> "idle"]
            /\ getter = "idle"
            /\ buf = <<>>
            /\ puts = [w \in Writers |-> 0]
            /\ got = <<>>
            /\ apart = TRUE

ReaderHere == getter # "idle"
WritersHere == {w \in Writers : writer[w] # "idle"}

PutOpen(w) == /\ writer[w] = "idle"
              /\ puts[w] < MaxPuts
              /\ writer' = [writer EXCEPT ![w] = IF ReaderHere THEN "open" ELSE "opening"]
              /\ getter' = IF getter = "opening" THEN "open" ELSE getter
              /\ apart' = (apart /\ getter = "opening" /\ WritersHere = {})
              /\ UNCHANGED <<buf, puts, got>>

PutWrite(w) == /\ writer[w] = "open"
               /\ writer' = [writer EXCEPT ![w] = "written"]
               /\ puts' = [puts EXCEPT ![w] = @ + 1]
               /\ buf' = IF ReaderHere THEN Append(buf, <<w, puts[w] + 1>>) ELSE buf
               /\ UNCHANGED <<getter, got, apart>>

PutClose(w) == /\ writer[w] = "written"
               /\ writer' = [writer EXCEPT ![w] = "idle"]
               /\ buf' = IF ReaderHere \/ WritersHere # {w} THEN buf ELSE <<>>
               /\ UNCHANGED <<getter, puts, got, apart>>

\* Variant: an open for reading does not let the waiting writers go on.
WokenNone == writer

\* The writers that wait in open go on.
Woken == [w \in Writers |-> IF writer[w] = "opening" THEN "open" ELSE writer[w]]

GetOpen == /\ getter = "idle"
           /\ getter' = IF WritersHere = {} THEN "opening" ELSE "open"
           /\ writer' = Woken
           /\ UNCHANGED <<buf, puts, got, apart>>

\* Variant: what was read stays in the pipe.
LeftInPipeAll == buf

\* Only the first message of what was read is returned.
LeftInPipe == <<>>

\* Variant: a read does not wait for the writers.
DrainedAtOnce == buf = <<>>

Drained == buf = <<>> /\ WritersHere = {}

\* At the end of the file the result is the empty string.
GetRead == /\ getter = "open"
           /\ \/ /\ buf # <<>>
                 /\ got' = Append(got, Head(buf))
                 /\ buf' = LeftInPipe
              \/ /\ Drained
                 /\ UNCHANGED <<buf, got>>
           /\ getter' = "done"
           /\ UNCHANGED <<writer, puts, apart>>

GetClose == /\ getter = "done"
            /\ getter' = "idle"
            /\ buf' = IF WritersHere = {} THEN <<>> ELSE buf
            /\ UNCHANGED <<writer, puts, got, apart>>

Get == GetOpen \/ GetRead \/ GetClose

PutNext(w) == PutOpen(w) \/ PutWrite(w) \/ PutClose(w)

FifoNext == Get \/ \E w \in Writers : PutNext(w)

FifoSpec == FifoInit /\ [][FifoNext]_fifoVars

\* The reader is a loop around get_message; a writer need not begin.
FifoFairness == /\ WF_fifoVars(Get)
                /\ \A w \in Writers : WF_fifoVars(PutWrite(w) \/ PutClose(w))

-----------------------------------------------------------------------------
FifoTypeOK ==
  /\ writer \in [Writers -> {"idle", "opening", "open", "written"}]
  /\ getter \in {"idle", "opening", "open", "done"}
  /\ buf \in Seq(Writers \X Nat) /\ got \in Seq(Writers \X Nat)
  /\ puts \in [Writers -> Nat]
  /\ apart \in BOOLEAN

\* Messages may be lost, but none comes twice, before an earlier one of the
\* same writer, or out of nowhere, although several writers share the pipe and
\* the reader opens it anew for each message (fifo_pipe.cpp:11-28).
Channel == INSTANCE LossyPipe WITH chan <- buf

ImplementsLossyPipe == Channel!Spec

\* If writers have begun only when the reader waited in open and no other was at it,
\* nothing is lost: not on the way to the next open of the reader either.
NothingLost ==
  apart => \A w \in Writers : \A n \in 1..puts[w] :
              \E i \in 1..Len(got \o buf) : (got \o buf)[i] = <<w, n>>

\* A writer always comes back from put_message: no open is left waiting for a
\* reader that has gone past it.
PutsComplete == \A w \in Writers : [](writer[w] # "idle" => <>(writer[w] = "idle"))
=============================================================================
