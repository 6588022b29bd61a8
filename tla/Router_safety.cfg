SPECIFICATION Spec
CONSTANTS
  Logins = {ann, bob}
  Passwords = {p1, p2}
  PortHashes = {1, 241}
  LogoutDelay = FALSE
  Serial = FALSE
  Stalled = {}
  MaxMessages = 3
  Faults = {"crash", "database"}
  MaxFaults = 2
CHECK_DEADLOCK FALSE
INVARIANTS TypeOK OneComposeAtATime AcceptedKnowsPassword UpWhereAccountSays
PROPERTY ServerErrorMeansFault
