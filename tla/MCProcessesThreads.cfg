SPECIFICATION Spec
CONSTANTS
  MaxPid = 2
  MaxThread = 2
  SLICE = 1
  Codes = {0}
  Handled <- StopSignal
  Handlers = {"Caught"}
  Targets = {2}
  Sleeps = TRUE
  Asks = TRUE
  Alive = Alive
  Deadlocked = Deadlocked
INVARIANTS
  OnlyTheRunnableRun
CHECK_DEADLOCK FALSE
