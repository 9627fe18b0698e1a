SPECIFICATION Spec
CONSTANTS
  Capacity = 2
  Atomic = 1
  Mapped = {1}
  Procs = {1, 2}
  Fds = {0, 1, 2, 3}
  Ids = {0, 1, 2, 3}
  Slots = {0, 1, 2, 3}
  Ports = {1}
  Ephemeral = {1, 2}
  Paths = {1, 2}
  Lengths = {1, 2}
  MaxStreams = 4
  Menus <- SmallMenus
  NoFile = NoFile
  NoSocket = NoSocket
INVARIANTS
  EndsAgree
  StreamsStayWhole
  RepliesArrive
PROPERTIES
  HangupIsFinal
CHECK_DEADLOCK FALSE
