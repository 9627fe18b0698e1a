SPECIFICATION Spec
CONSTANTS
  Threads = {1}
  Numbers = {0, 1}
  Counters = {0}
  Sets = {0, 1}
  Ceiling = 1
  Initials = {0}
  Values = {1}
  Semaphores = {FALSE}
  Interests <- JustIn
  Triggers = {TRUE}
  Shots = {FALSE}
  Most = {1}
  Timeouts = {"forever"}
  Asked = {{0}}
  MaxReferences = 2
  None = None
PROPERTIES
  EdgesAreNotMissed
CHECK_DEADLOCK FALSE
