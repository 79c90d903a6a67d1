----------------------------- MODULE SharedChunks -----------------------------
(***************************************************************************)
(* The parent and the child of lab4, which do what those of lab2 do, over  *)
(* a file mapped by both.  The parent (main.c) copies a line into it and   *)
(* sends SIGUSR1, one signal per chunk; the child (child.c) reads it in    *)
(* the handler of the signal, and reports a bad line by a second mapped    *)
(* file and a SIGUSR1 of its own.                                          *)
(*                                                                         *)
(* What the processes rely on is modelled as it is:                        *)
(*   - the mutexes are copied by value into the file and out of it, so     *)
(*     each process locks its own and they exclude nothing;                *)
(*   - a pending signal is not counted, and one that comes before the      *)
(*     child has its handler kills it;                                     *)
(*   - the structure with the mutexes and the parent's pid lies where the  *)
(*     first line is written.                                              *)
(* The text of an error is always the same and is left out.                *)
(***************************************************************************)
EXTENDS Naturals, Subsequences

CONSTANTS
  Upper, Lower,   \* characters of a line; only a capital letter matters
  Texts,          \* lines the user may type
  MaxTexts,       \* bound: lines the user types
  FileSize,       \* MESSAGES_FILESIZE
  StructureSize,  \* sizeof(sync_struct)
  PageSize        \* cells that can be written: the mapping is a whole page

NewLine == "\n"
EndOfInput == "EOF"
Zero == "0"
Structure == "sync_struct"     \* a cell of the structure, zero or not

ASSUME SharedChunksAssumption ==
  /\ Upper # Lower /\ {Upper, Lower} \cap {NewLine, EndOfInput, Zero, Structure} = {}
  /\ Texts \subseteq Seq({Upper, Lower})
  /\ MaxTexts \in Nat
  /\ FileSize \in Nat \ {0} /\ StructureSize \in 1..FileSize
  /\ PageSize \in Nat /\ FileSize <= PageSize
  /\ \A t \in Texts : Len(t) < PageSize

VARIABLES
  entered,     \* history: the lines the user has typed
  sender,      \* the parent: "scan", "copy", "kill", "wait" for the child, "done"
  st,          \* its line, with the character that ends it
  chunk,       \* j in its loop: the chunk it is copying
  at,          \* the cell it copies next
  memory,      \* the mapped file
  toChild,     \* is a SIGUSR1 pending for the child?
  toParent,    \* is one pending for the parent?
  reader,      \* the child: "exec", "map" (structure read, no handler yet),
               \* "pause", "read" in the handler, "stuck" in a broken mutex,
               \* "exit", "killed"
  i,           \* the cell it reads next
  READ_ST,     \* what it has collected of a line
  answers,     \* lines in the file of answers
  printed,     \* history: error lines the parent has printed
  spaced       \* history: has the user waited for every line to be dealt with?

chunkVars == <<entered, sender, st, chunk, at, memory, toChild, toParent, reader,
               i, READ_ST, answers, printed, spaced>>
senderVars == <<entered, sender, st, chunk, at, spaced>>
readerVars == <<reader, i, READ_ST, answers>>

Ends == {NewLine, EndOfInput}

ChunksInit ==
  /\ entered = <<>> /\ sender = "scan" /\ st = <<>> /\ chunk = 0 /\ at = 0
  /\ memory = [c \in 0..PageSize |-> IF c < StructureSize THEN Structure ELSE Zero]
  /\ toChild = FALSE /\ toParent = FALSE
  /\ reader = "exec" /\ i = 0 /\ READ_ST = <<>> /\ answers = <<>>
  /\ printed = 0 /\ spaced = TRUE

-----------------------------------------------------------------------------
(* The parent.                                                             *)

\* The number of chunks, and the last cell of chunk j.
Chunks(len) == (len + FileSize) \div FileSize

\* Variant: a chunk ends before its last cell.
ChunkShort(len, j) == IF (j + 1) * FileSize > len THEN len - 1 ELSE (j + 1) * FileSize

ChunkEnd(len, j) == IF (j + 1) * FileSize > len THEN len ELSE (j + 1) * FileSize

Rests == reader = "pause" /\ ~toChild /\ ~toParent

\* A line, or what is left before the end of the input.
ScanText(end) ==
  /\ sender = "scan"
  /\ Len(entered) < MaxTexts
  /\ \E t \in Texts : entered' = Append(entered, t) /\ st' = Append(t, end)
  /\ sender' = "copy" /\ chunk' = 0 /\ at' = 0
  /\ spaced' = (spaced /\ Rests)
  /\ UNCHANGED <<memory, toChild, toParent, readerVars, printed>>

\* send_chunk: cell by cell, at the index the character has in the line.
Copy ==
  /\ sender = "copy"
  /\ memory' = [memory EXCEPT ![at] = st[at + 1]]
  /\ IF at < ChunkEnd(Len(st) - 1, chunk)
     THEN at' = at + 1 /\ UNCHANGED sender
     ELSE sender' = "kill" /\ UNCHANGED at
  /\ UNCHANGED <<entered, st, chunk, toChild, toParent, readerVars, printed, spaced>>

\* Its last call.  A pending signal stays one; a child without the handler
\* dies of it, one that is gone does not get it.
Kill ==
  /\ sender = "kill"
  /\ IF reader \in {"exec", "map"}
     THEN reader' = "killed" /\ UNCHANGED toChild
     ELSE toChild' = (reader \notin {"exit", "killed"}) /\ UNCHANGED reader
  /\ \/ /\ chunk + 1 < Chunks(Len(st) - 1)
        /\ sender' = "copy" /\ chunk' = chunk + 1 /\ at' = (chunk + 1) * FileSize
     \/ /\ chunk + 1 >= Chunks(Len(st) - 1)
        /\ sender' = IF st[Len(st)] = EndOfInput THEN "wait" ELSE "scan"
        /\ UNCHANGED <<chunk, at>>
  /\ UNCHANGED <<entered, st, memory, toParent, i, READ_ST, answers, printed, spaced>>

WaitReader ==
  /\ sender = "wait" /\ reader \in {"exit", "killed"}
  /\ sender' = "done"
  /\ UNCHANGED <<entered, st, chunk, at, spaced, memory, toChild, toParent,
                 readerVars, printed>>

\* accept_error_handler, between any two steps of the parent.
AcceptError ==
  /\ toParent /\ sender # "done"
  /\ toParent' = FALSE
  /\ printed' = printed + 1
  /\ UNCHANGED <<senderVars, memory, toChild, readerVars>>

-----------------------------------------------------------------------------
(* The child.                                                              *)

\* main, up to the structure: if some of it is overwritten, the mutexes are
\* arbitrary, and a handler may wait for one of them for ever.  (The parent's
\* pid, which lies further on, is taken to be intact.)
ReadStructure ==
  /\ reader = "exec"
  /\ \/ reader' = "map"
     \/ memory[0] # Structure /\ reader' = "stuck"
  /\ UNCHANGED <<senderVars, memory, toChild, toParent, i, READ_ST, answers, printed>>

\* Its handler is set.
SetHandler ==
  /\ reader = "map"
  /\ reader' = "pause"
  /\ UNCHANGED <<senderVars, memory, toChild, toParent, i, READ_ST, answers, printed>>

\* read_chunk is entered; the next signal waits until it returns.
Enter ==
  /\ reader = "pause" /\ toChild
  /\ reader' = "read" /\ i' = 0 /\ toChild' = FALSE
  /\ UNCHANGED <<senderVars, memory, toParent, READ_ST, answers, printed>>

\* Its loop: characters are added to those of the chunks before.
ReadCell ==
  /\ reader = "read"
  /\ memory[i] \notin Ends \cup {Zero}
  /\ READ_ST' = Append(READ_ST, memory[i])
  /\ i' = i + 1
  /\ UNCHANGED <<senderVars, memory, toChild, toParent, reader, answers, printed>>

\* Variant: LEN_READ_ST is not set to 0 after a line.
LeftLonger(text) == READ_ST

\* What stays of READ_ST after a line.
Left(text) == <<>>

\* The end of the chunk, and of the line if it ends in one.  The line is cut
\* to what this call has read.
ReadLast ==
  LET text == SubSeq(READ_ST, 1, i)
      line == memory[i] \in Ends /\ i # 0
      good == line /\ text[1] = Upper
  IN  /\ reader = "read"
      /\ memory[i] \in Ends \cup {Zero, Structure}
      /\ reader' = IF memory[i] = EndOfInput THEN "exit" ELSE "pause"
      /\ answers' = IF good THEN Append(answers, text) ELSE answers
      /\ toParent' = (toParent \/ (line /\ ~good))
      /\ READ_ST' = IF line THEN Left(text) ELSE READ_ST
      /\ UNCHANGED <<senderVars, memory, toChild, i, printed>>

SenderStep == Copy \/ Kill \/ WaitReader
ReaderStep == ReadStructure \/ SetHandler \/ Enter \/ ReadCell \/ ReadLast

ChunksNext == \/ \E end \in Ends : ScanText(end)
              \/ SenderStep \/ AcceptError \/ ReaderStep

\* Both processes are scheduled and a pending signal is delivered; the user
\* may stop typing.
ChunksFairness ==
  WF_chunkVars(SenderStep) /\ WF_chunkVars(ReaderStep) /\ WF_chunkVars(AcceptError)

ChunksSpec == ChunksInit /\ [][ChunksNext]_chunkVars /\ ChunksFairness

-----------------------------------------------------------------------------
ChunksTypeOK ==
  /\ entered \in Seq(Texts)
  /\ sender \in {"scan", "copy", "kill", "wait", "done"}
  /\ st = <<>> \/ \E t \in Texts, end \in Ends : st = Append(t, end)
  /\ chunk \in Nat
  /\ at \in 0..PageSize
  /\ memory \in [0..PageSize -> {Upper, Lower, Zero, Structure} \cup Ends]
  /\ {toChild, toParent, spaced} \subseteq BOOLEAN
  /\ reader \in {"exec", "map", "pause", "read", "stuck", "exit", "killed"}
  /\ i \in 0..PageSize
  /\ READ_ST \in Seq({Upper, Lower, Structure})
  /\ answers \in Seq(Seq({Upper, Lower, Structure}))
  /\ printed \in Nat

AllShort == \A n \in 1..Len(entered) : Len(entered[n]) < FileSize

\* The lines that get into the file, and those that the user is told of.
Good == {t \in Texts : t # <<>> /\ t[1] = Upper}
Bad == {t \in Texts : t # <<>> /\ t[1] = Lower}

\* A user who waits until a line has been dealt with, and types lines shorter
\* than a chunk, gets every line that begins with a capital letter into the
\* file, in order, and an error for every other one that is not empty.
SpacedLinesArrive ==
  spaced /\ AllShort /\ sender = "scan" /\ Rests =>
    /\ answers = Among(entered, Good)
    /\ printed = Len(Among(entered, Bad))

\* Whatever is lost, the end of the input gets through: its signal is the last
\* one, and the memory does not change after it.
EndGetsThrough == (sender = "wait" /\ reader # "stuck") ~> (sender = "done" \/ reader = "stuck")
=============================================================================
