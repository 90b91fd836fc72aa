SPECIFICATION MCSpec
CONSTANTS
  Objects = {o1, o2, o3, o4}
  Counters = {c1, c2, c3}
  FDs = {f1, f2, f3}
  None = None
  SharedChange = FALSE
  AnyHost = any
  Multicast = multicast
  Peer = peer
  Backlog = 1
  MaxBytes = 4
  SndBuf = 2
  RcvBuf = 2
  Window = 3
  Original = {"sane", "other"}
  MaxOpens = 3
  Length = 6
  buf_size = 3
  MaxUnget = 1
  Iterations = {0, 2}
  MaxRequests = 5
  Characters = {">", "x", "y", "space", "esc"}
  Prompt <- SomePrompt
  MaxLine = 3
  MaxHistory = 2
  Commands <- SomeCommands
  Entered <- SomeLines
  Saved <- SomeFiles
  MapKeys = {0, 1, 2, 3}
  Values = {0, 1}
  NoValue = 0
  MapHash <- SomeHash
  BUCKET_SIZE = 3
  Pointers = {p1, p2, p3}
  Cells = {n1, n2, n3}
  MaxSlots = 3
  MaxDepth = 2
  MAX_LEVEL = 8
  Numbers = {{0}, {1}, {3}, {0, 4}, {23}, {5, 21}}
  Box <- SomeBox
  Sigma <- SomeSigma
  CipherMessages <- SomeBlocks
  CipherKeys <- SomeKeys
  ShaBlock = 12
  ShaBytes = 40
  MaxSide = 3
SYMMETRY Symmetry
INVARIANTS RefCounted ClosesExactly
INVARIANTS ConnectSound StreamSound PortRestored CharsInOrder AnswersMatch
INVARIANTS EditingSound ContainersSound ParsersSound NumbersSound ChecksumsSound CodecsSound OneUserLoopSafe
CHECK_DEADLOCK FALSE
