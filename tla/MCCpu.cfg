SPECIFICATION Spec
CONSTANTS
  Capacity = 2
  Recent = 2
  Programs <- MCPrograms
  Quanta = {1, 2, 5}
  MaxCalls = 3
  MaxMeddles = 2
INVARIANTS LeavesAgree StopsAgree MarksHold
PROPERTIES QuantaEnd
CHECK_DEADLOCK FALSE
