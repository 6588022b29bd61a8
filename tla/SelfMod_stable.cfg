SPECIFICATION Spec
CONSTANTS
  Codes = {c0, c1, c2}
  Base = c0
  Uncompilable = {c2}
  Unloadable = {c2}
  OneAtATime = TRUE
  MaxTasks = 2
  MaxLogins = 0
  MaxEdits = 2
  MaxRequests = 2
  Faults = {}
  MaxFaults = 0
CHECK_DEADLOCK FALSE
PROPERTIES NoRollbackOnlyOnStableCode
