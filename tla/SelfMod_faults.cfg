SPECIFICATION Spec
CONSTANTS
  Codes = {c0, c1, c2}
  Base = c0
  Uncompilable = {}
  Unloadable = {c2}
  OneAtATime = FALSE
  MaxTasks = 2
  MaxLogins = 1
  MaxEdits = 2
  MaxRequests = 2
  Faults = {"crash", "exception", "timeout", "lost", "death"}
  MaxFaults = 1
CHECK_DEADLOCK FALSE
INVARIANTS TypeOK AtMostOnePending
PROPERTIES KeepsLedger BuiltOnSettled
