SPECIFICATION FairSpec
CONSTANTS
  Codes = {c0, c1, c2, c3}
  Base = c0
  Uncompilable = {c2}
  Unloadable = {c3}
  OneAtATime = TRUE
  MaxTasks = 3
  MaxLogins = 1
  MaxEdits = 2
  MaxRequests = 2
  Faults = {}
  MaxFaults = 0
CHECK_DEADLOCK FALSE
INVARIANTS NoTaskLost
PROPERTIES RejectedForItsOwnFailure PromotedByItsOwnProcess EveryTaskEnds WaitEndsInReady
