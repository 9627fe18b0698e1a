SPECIFICATION Spec
CONSTANTS
  Base = 2
  Arena = 1
  Slots = 2
  Ceiling = 7
  Limit = 7
  Tokens = {1}
  Values = {v}
  Programs <- Low
  StackPages = 2
  FilePages = 1
  Offsets = {0}
  Lengths = {1, 3}
  Prots = {"rw"}
  Kinds = {"anonymous"}
  Modes = {"plain"}
  Hints = {}
  Advices = {}
  MaxRows = 3
  Wild = {"growth"}
  NoOne = 0
  NoCopy = NoCopy
  Gone = Gone
  Zero = Zero
INVARIANT
  SpaceIsPartitioned
CHECK_DEADLOCK FALSE
