SPECIFICATION FairSpec
CONSTANTS
  MaxThread = 3
  Signals <- SomeSignals
  SIGSEGV = 11
  SIGALRM = 14
  Ignorable = {17}
  Words <- MCWords
  Bits <- MCBits
  Room = 2
  MaxTime = 3
  Menus <- SomeMenus
  Wild = FALSE
  None = None
INVARIANTS
  MasksAreGivenBack
PROPERTIES
  HandlersNest
  WaitsEnd
CHECK_DEADLOCK FALSE
