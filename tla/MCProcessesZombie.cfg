SPECIFICATION Spec
CONSTANTS
  MaxPid = 2
  MaxThread = 1
  SLICE = 1
  Codes = {0}
  Handled <- NoSignals
  Handlers = {"Caught"}
  Targets = {2}
  Sleeps = TRUE
  Asks = FALSE
  Alive = Alive
  Deadlocked = Deadlocked
PROPERTIES
  ZombiesStayAsTheyDied
CHECK_DEADLOCK FALSE
