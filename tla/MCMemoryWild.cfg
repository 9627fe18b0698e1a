SPECIFICATION Spec
CONSTANTS
  Base = 2
  Arena = 1
  Slots = 2
  Ceiling = 6
  Limit = 6
  Tokens = {1, 2}
  Values = {v}
  Programs <- Low
  StackPages = 1
  FilePages = 1
  Offsets = {0}
  Lengths = {1, 2}
  Prots = {"none", "rw"}
  Kinds = {"anonymous", "reservation", "file"}
  Modes = {"plain", "fixed", "noreplace"}
  Hints = {3}
  Advices = {"dontneed", "other"}
  MaxRows = 2
  Wild = {"holes"}
  NoOne = 0
  NoCopy = NoCopy
  Gone = Gone
  Zero = Zero
PROPERTIES
  OthersAreUntouched
CHECK_DEADLOCK FALSE
