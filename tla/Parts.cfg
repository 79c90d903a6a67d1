CONSTANTS
  Elems = {e1, e2, e3, e4}
  Barrier = Barrier
  Records = {r1, r2}
  Empty = Empty
  Writers = {w1, w2}
  MaxPuts = 2
  Capital = capital
  Small = small
  Newline = newline
  Lines <- PipeLines
  MaxLines = 4
  InSize = 4
  ErrSize = 2
  Upper = upper
  Lower = lower
  Texts <- ChunkTexts
  MaxTexts = 3
  FileSize = 2
  StructureSize = 2
  PageSize = 4
  MaxThreads = 3
  Memories = {32, 80, 132}
  FileSizes = {0, 20, 66, 150}
  Digits = 2
  Randoms = {0, 9, 10, 15, 16, 160, 171, 255}
  MaxNumbers = 2
  Arguments <- GcdArguments
  IntMax = 10
  Users = {u1, u2}
  NoUser = nobody
  Chats = {"c1", "c2"}
  MessageTexts = {x1, x2}
  MaxMessages = 2
  MaxAnswers = 1
  MaxDowns = 1
SPECIFICATION PartsSpec
\* The programs may end, and their users stop.
CHECK_DEADLOCK FALSE
INVARIANTS
  PartsTypeOK
  RingWhole
  NothingLost
  FileComplete
  SpacedLinesArrive
  EachNumberOnce
  MemoryKept
  ReadBack
  SameResult
  ScreenShowsAnswer
PROPERTIES
  ImplementsRecordList
  ImplementsLossyPipe
  PutsComplete
  ParentReturns
  EndGetsThrough
  ChoiceStays
