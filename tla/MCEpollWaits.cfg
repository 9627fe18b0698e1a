SPECIFICATION FairSpec
CONSTANTS
  Threads = {1, 2}
  Numbers = {0, 1}
  Counters = {0}
  Sets = {0, 1}
  Ceiling = 1
  Initials = {0, 1}
  Values = {1}
  Semaphores = {FALSE}
  Interests <- JustIn
  Triggers = {TRUE}
  Shots = {TRUE, FALSE}
  Most = {1}
  Timeouts = {"forever"}
  Asked = {{0}}
  MaxReferences = 2
  None = None
INVARIANTS
  OneshotIsOnce
PROPERTIES
  NoFalseTimeout
  ReadyWaitersReturn
CHECK_DEADLOCK FALSE
