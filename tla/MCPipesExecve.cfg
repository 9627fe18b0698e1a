SPECIFICATION ExecveSpec
CONSTANTS
  Procs = {1, 2}
  Threads = {1, 2}
  Home <- OneEach
  Fds = {0, 1}
  Slots = {0}
  Cloexec = {TRUE}
  Lengths = {1}
  Capacity = 1
  Atomic = 1
  MaxPipes = 1
  MaxWrites = 1
  NoFile = NoFile
  NoTransfer = NoTransfer
INVARIANTS
  EndsAreTrue
CHECK_DEADLOCK FALSE
