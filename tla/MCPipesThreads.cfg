SPECIFICATION FairSpec
CONSTANTS
  Procs = {1, 2}
  Threads = {1, 2, 3}
  Home <- Shared
  Fds = {0, 1}
  Slots = {0, 1}
  Cloexec = {TRUE}
  Lengths = {2}
  Capacity = 1
  Atomic = 1
  MaxPipes = 1
  MaxWrites = 1
  NoFile = NoFile
  NoTransfer = NoTransfer
INVARIANTS
  SlotsAreOwned
CHECK_DEADLOCK FALSE
