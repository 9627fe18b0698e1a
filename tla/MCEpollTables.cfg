SPECIFICATION Spec
CONSTANTS
  Threads = {1}
  Numbers = {0, 1, 2}
  Counters = {0}
  Sets = {0, 1}
  Ceiling = 1
  Initials = {0, 1}
  Values = {1}
  Semaphores = {TRUE}
  Interests <- JustIn
  Triggers = {FALSE}
  Shots = {FALSE}
  Most = {1}
  Timeouts = {"until"}
  Asked = {{0}, {1, 2}}
  MaxReferences = 2
  None = None
INVARIANTS
  TypeOK
  RegistrationsAreLive
  SetsAreHeld
CHECK_DEADLOCK FALSE
