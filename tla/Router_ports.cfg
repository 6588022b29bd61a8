SPECIFICATION Spec
CONSTANTS
  Logins = {ann, bob}
  Passwords = {p1, p2}
  PortHashes = {1, 241}
  LogoutDelay = TRUE
  Serial = TRUE
  Stalled = {}
  MaxMessages = 2
  Faults = {}
  MaxFaults = 0
CHECK_DEADLOCK FALSE
PROPERTIES AcceptedReachesOwnStack
