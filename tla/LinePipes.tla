------------------------------- MODULE LinePipes -------------------------------
(***************************************************************************)
(* The parent and the child of lab2.  The parent (main.c) sends the lines  *)
(* of its input through one pipe and prints the error lines that come back *)
(* through another; the child (child.c) writes the lines that begin with a *)
(* capital letter to a file and answers every other one with an error.     *)
(*                                                                         *)
(* A line is a sequence of characters that ends with Newline; of the       *)
(* others only Capital matters.  A pipe holds a bounded number of          *)
(* characters; an error line, shorter than PIPE_BUF, is written at once,   *)
(* and the pipe for them counts those.                                     *)
(***************************************************************************)
EXTENDS Naturals, Subsequences

SeqExt == INSTANCE SequencesExt

CONSTANTS
  Capital, Small, Newline,   \* characters
  Lines,      \* what the user may type
  MaxLines,   \* bound: lines the user types
  InSize,     \* characters the pipe to the child holds
  ErrSize     \* error lines the pipe from the child holds

ASSUME LinePipesAssumption ==
  /\ Newline \notin {Capital, Small}
  /\ Lines \subseteq Seq({Capital, Small, Newline})
  /\ \A l \in Lines : Len(l) > 0 /\ \A i \in 1..Len(l) : l[i] = Newline <=> i = Len(l)
  /\ MaxLines \in Nat
  /\ InSize \in Nat \ {0} /\ ErrSize \in Nat \ {0}

VARIABLES
  typed,      \* history: the lines the user has typed
  parent,     \* the parent: "scan", "write", "poll", "close error", "close
              \* input", "wait" for the child, "done"
  ended,      \* what scan_string has said of the end of the input: "no", "in
              \* a line" (EOF after some characters), "yes" (EOF at once)
  unwritten,  \* characters of the line the parent has not written yet
  input,      \* fd1: characters on their way to the child
  errors,     \* fd2: how many error lines are in it
  child,      \* the child: "read", "error", "exit", "killed" by SIGPIPE
  scanned,    \* characters of the line the child is reading
  file,       \* lines in the file
  shown       \* history: how many error lines the parent has printed

pipeVars == <<typed, parent, ended, unwritten, input, errors, child, scanned, file, shown>>
parentVars == <<typed, parent, ended, unwritten, shown>>
childVars == <<child, scanned, file>>

EmptyLine == <<Newline>>

\* is_upper(st[0]); the first character of an empty line is '\0'.
Valid(line) == line[1] = Capital

PipesInit ==
  /\ typed = <<>> /\ parent = "scan" /\ ended = "no" /\ unwritten = <<>>
  /\ input = <<>> /\ errors = 0
  /\ child = "read" /\ scanned = <<>> /\ file = <<>>
  /\ shown = 0

-----------------------------------------------------------------------------
(* The parent: loop, then the end of main.                                 *)

\* A line of the input.
ScanLine ==
  /\ parent = "scan" /\ Len(typed) < MaxLines
  /\ \E line \in Lines : typed' = Append(typed, line) /\ unwritten' = line
  /\ parent' = "write"
  /\ UNCHANGED <<ended, input, errors, childVars, shown>>

\* Variant: a last line without a newline is sent as it is.
LastSentBare(line) == SubSeq(line, 1, Len(line) - 1)

\* What is written for a last line that ends without a newline.
LastSent(line) == line

\* The end of the input, after a newline or in the middle of a line.
ScanEnd ==
  /\ parent = "scan"
  /\ parent' = "write"
  /\ \/ /\ ended' = "yes"
        /\ unwritten' = EmptyLine
        /\ UNCHANGED typed
     \/ /\ ended' = "in a line"
        /\ Len(typed) < MaxLines
        /\ \E line \in Lines \ {EmptyLine} :
             typed' = Append(typed, line) /\ unwritten' = LastSent(line)
  /\ UNCHANGED <<input, errors, childVars, shown>>

\* write blocks while the pipe is full.  When the line is out the loop is left
\* if the input ended without one; else it looks for an error line.
Write ==
  /\ parent = "write" /\ Len(input) < InSize
  /\ input' = Append(input, Head(unwritten))
  /\ unwritten' = Tail(unwritten)
  /\ parent' = IF unwritten' # <<>> THEN "write"
               ELSE IF ended = "yes" THEN "close error" ELSE "poll"
  /\ UNCHANGED <<typed, ended, errors, childVars, shown>>

\* Variant: the parent does not look for errors.
PollNothing ==
  /\ parent = "poll"
  /\ parent' = IF ended = "no" THEN "scan" ELSE "close error"
  /\ UNCHANGED <<typed, ended, unwritten, input, errors, childVars, shown>>

\* poll returns at once if there is an error line, or after a millisecond in
\* which none has come; one line is read and printed.
Poll ==
  /\ parent = "poll"
  /\ \/ errors > 0 /\ errors' = errors - 1 /\ shown' = shown + 1
     \/ errors = 0 /\ UNCHANGED <<errors, shown>>
  /\ parent' = IF ended = "no" THEN "scan" ELSE "close error"
  /\ UNCHANGED <<typed, ended, unwritten, input, childVars>>

\* The end of main: the pipe from the child is closed first.
CloseErrors ==
  /\ parent = "close error"
  /\ parent' = "close input"
  /\ errors' = 0
  /\ UNCHANGED <<typed, ended, unwritten, input, childVars, shown>>

CloseInput ==
  /\ parent = "close input"
  /\ parent' = "wait"
  /\ UNCHANGED <<typed, ended, unwritten, input, errors, childVars, shown>>

WaitChild ==
  /\ parent = "wait" /\ child \in {"exit", "killed"}
  /\ parent' = "done"
  /\ UNCHANGED <<typed, ended, unwritten, input, errors, childVars, shown>>

ErrorsClosed == parent \in {"close input", "wait", "done"}

InputClosed == parent \in {"wait", "done"}

-----------------------------------------------------------------------------
(* The child.                                                              *)

\* A character of a line; at the end of the line it goes to the file, or an
\* error is due.
Read ==
  LET line == Append(scanned, Head(input))
  IN  /\ child = "read" /\ input # <<>>
      /\ input' = Tail(input)
      /\ \/ /\ Head(input) # Newline
            /\ scanned' = line
            /\ UNCHANGED <<child, file>>
         \/ /\ Head(input) = Newline
            /\ scanned' = <<>>
            /\ \/ Valid(line) /\ file' = Append(file, line) /\ UNCHANGED child
               \/ ~Valid(line) /\ child' = "error" /\ UNCHANGED file
      /\ UNCHANGED <<parentVars, errors>>

\* write blocks while the pipe is full, and kills the child by SIGPIPE when
\* the parent has closed it.
WriteError ==
  /\ child = "error"
  /\ \/ /\ ~ErrorsClosed /\ errors < ErrSize
        /\ errors' = errors + 1
        /\ child' = "read"
     \/ ErrorsClosed /\ child' = "killed" /\ UNCHANGED errors
  /\ UNCHANGED <<parentVars, input, scanned, file>>

\* scan_string returns EOF; characters of a line without an end are dropped.
ReadEnd ==
  /\ child = "read" /\ input = <<>> /\ InputClosed
  /\ child' = "exit"
  /\ UNCHANGED <<parentVars, input, errors, scanned, file>>

ParentStep == Write \/ Poll \/ CloseErrors \/ CloseInput \/ WaitChild
ChildStep == Read \/ WriteError \/ ReadEnd

PipesNext == ScanLine \/ ScanEnd \/ ParentStep \/ ChildStep

\* Both processes are scheduled; the user may stop typing at any time.
PipesFairness == WF_pipeVars(ParentStep) /\ WF_pipeVars(ChildStep)

PipesSpec == PipesInit /\ [][PipesNext]_pipeVars /\ PipesFairness

-----------------------------------------------------------------------------
PipesTypeOK ==
  /\ typed \in Seq(Lines)
  /\ parent \in {"scan", "write", "poll", "close error", "close input", "wait", "done"}
  /\ ended \in {"no", "in a line", "yes"}
  /\ unwritten \in Seq({Capital, Small, Newline})
  /\ input \in Seq({Capital, Small, Newline}) /\ Len(input) <= InSize
  /\ errors \in 0..ErrSize
  /\ child \in {"read", "error", "exit", "killed"}
  /\ scanned \in Seq({Capital, Small})
  /\ file \in Seq(Lines)
  /\ shown \in Nat

\* The file gets valid lines only, all of them and in their order, as far as
\* the child has come; and all there are if the child was not killed while it
\* reported an error (child.c:17).
FileComplete ==
  LET valid == Among(typed, {line \in Lines : Valid(line)})
  IN  /\ SeqExt!IsPrefix(file, valid)
      /\ child = "exit" => file = valid

EqualLines == \A i, j \in 1..Len(typed) : Len(typed[i]) = Len(typed[j])

\* The parent takes one error line per line it sends and sleeps when there is
\* none; still, as long as all lines are of one length, the two processes
\* never wait for each other on two full pipes (main.c:20, child.c:28): the
\* parent comes back to the user, or ends, and the child with it.
ParentReturns == <>[]EqualLines => []<>(parent \in {"scan", "done"})
=============================================================================
