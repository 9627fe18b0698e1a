SPECIFICATION FairSpec
CONSTANTS
  Procs = {1, 2}
  Threads = {1, 2, 3}
  Home <- Shared
  Fds = {0, 1}
  Slots = {0}
  Lengths = {1}
  Cloexec = {FALSE}
  Capacity = 1
  Atomic = 1
  MaxPipes = 2
  MaxWrites = 1
  NoFile = NoFile
  NoTransfer = NoTransfer
INVARIANTS
  ParkedKeepsItsRing
CHECK_DEADLOCK FALSE
