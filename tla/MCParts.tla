-------------------------------- MODULE MCParts --------------------------------
(***************************************************************************)
(* The parts of the repository that do not depend on one another, checked  *)
(* in one run: `program' tells which of them the behaviour is about, and   *)
(* the others stay as they begin.                                          *)
(***************************************************************************)
EXTENDS XorList, FifoPipe, LinePipes, SharedChunks, Averaging, HexNumbers,
        SwitchedGcd, ChatList

VARIABLE program

Programs == {"rm_list", "fifo_pipe", "lab2", "lab3", "generate_hex128", "lab4",
             "lab5", "tui"}

partsVars == <<program, listVars, fifoVars, pipeVars, chunkVars, averagingVars,
               hexVars, gcdVars, chatListVars>>

SomeOf(S) == CHOOSE s \in S : TRUE

PartsInit ==
  /\ program \in Programs
  /\ ListInit /\ FifoInit /\ PipesInit /\ ChunksInit
  /\ AveragingInit
  /\ program # "lab3" => max_threads = 1 /\ max_memory = SomeOf(Memories) /\ filesize = SomeOf(FileSizes)
  /\ HexInit /\ GcdInit /\ ChatListInit

\* An action of one part, while the behaviour is about it.
Of(p, action) == program = p /\ action

PartsNext ==
  /\ UNCHANGED program
  /\ IF program = "rm_list" THEN ListNext ELSE UNCHANGED listVars
  /\ IF program = "fifo_pipe" THEN FifoNext ELSE UNCHANGED fifoVars
  /\ IF program = "lab2" THEN PipesNext ELSE UNCHANGED pipeVars
  /\ IF program = "lab3" THEN AveragingNext ELSE UNCHANGED averagingVars
  /\ IF program = "generate_hex128" THEN Generate ELSE UNCHANGED hexVars
  /\ IF program = "lab4" THEN ChunksNext ELSE UNCHANGED chunkVars
  /\ IF program = "lab5" THEN GcdNext ELSE UNCHANGED gcdVars
  /\ IF program = "tui" THEN ChatListNext ELSE UNCHANGED chatListVars

\* The fairness of each part.
PartsFairness ==
  /\ WF_fifoVars(Of("fifo_pipe", Get))
  /\ \A w \in Writers : WF_fifoVars(Of("fifo_pipe", PutWrite(w) \/ PutClose(w)))
  /\ PipesFairness
  /\ WF_chunkVars(Of("lab4", SenderStep))
  /\ WF_chunkVars(Of("lab4", ReaderStep))
  /\ WF_chunkVars(Of("lab4", AcceptError))

PartsSpec == PartsInit /\ [][PartsNext]_partsVars /\ PartsFairness

-----------------------------------------------------------------------------
(* The values of the constants that a .cfg cannot write.                   *)

PipeLines == {<<Capital, Newline>>, <<Small, Newline>>,
              <<Small, Small, Small, Small, Newline>>}

ChunkTexts == {<<>>, <<Upper>>, <<Lower>>, <<Upper, Lower, Lower>>}

GcdArguments == (-3)..8

-----------------------------------------------------------------------------
\* The variables of every part keep their types.
PartsTypeOK ==
  /\ program \in Programs
  /\ ListTypeOK /\ FifoTypeOK /\ HexTypeOK
  /\ PipesTypeOK /\ ChunksTypeOK /\ AveragingTypeOK /\ GcdTypeOK /\ ChatListTypeOK
=============================================================================
