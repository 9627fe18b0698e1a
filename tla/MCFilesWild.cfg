SPECIFICATION Spec
CONSTANTS
  NoNode = 0
  Upper = 5
  Names = {1, 2, 3}
  MaxSize = 1
  SymlinkLimit = 2
  Root = Root
  Dot = Dot
  DotDot = DotDot
  Image <- SmallImage
  Mounts <- SmallMounts
  Covers <- SmallCovers
  Targets <- SmallTargets
  Flags <- SmallFlags
  Values = {2}
  Modes = {1}
  Owners = {1}
  Lengths = {0, 2}
  Batch = 2
  Menus <- SmallMenus
  NoName = NoName
  Wild = TRUE
PROPERTIES
  AppendLandsAtTheEnd
CHECK_DEADLOCK FALSE
