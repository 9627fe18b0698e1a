SPECIFICATION TurningSpec
CONSTANTS
  MaxPid = 3
  MaxThread = 1
  SLICE = 2
  Codes = {0}
  Handled <- ChildSignal
  Handlers = {"Caught"}
  Targets = {2, 3}
  Sleeps = FALSE
  Asks = FALSE
  Alive = Alive
  Deadlocked = Deadlocked
INVARIANTS
  TypeOK
  EveryParentLives
  WaitersHaveChildren
PROPERTIES
  KeepsTheTree
  EveryoneRuns
  WaitersReturn
  PausesEnd
CHECK_DEADLOCK FALSE
