SPECIFICATION TurningSpec
CONSTANTS
  MaxPid = 2
  MaxThread = 1
  SLICE = 1
  Codes = {0}
  Handled <- NoSignals
  Handlers = {"Caught"}
  Targets = {2}
  Sleeps = FALSE
  Asks = FALSE
  Alive = Alive
  Deadlocked = Deadlocked
PROPERTIES
  TurnsComeRound
CHECK_DEADLOCK FALSE
