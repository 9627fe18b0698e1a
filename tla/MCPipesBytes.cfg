SPECIFICATION FairSpec
CONSTANTS
  Procs = {1, 2}
  Threads = {1, 2}
  Home <- OneEach
  Fds = {0, 1}
  Slots = {0}
  Cloexec = {FALSE}
  Lengths = {2, 3}
  Capacity = 3
  Atomic = 2
  MaxPipes = 2
  MaxWrites = 2
  NoFile = NoFile
  NoTransfer = NoTransfer
INVARIANTS
  TypeOK
  EndsAreCounted
  BytesAreKept
PROPERTIES
  KeepsContract
  ReadyMoves
  NobodyIsForgotten
CHECK_DEADLOCK FALSE
