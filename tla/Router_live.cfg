SPECIFICATION FairSpec
CONSTANTS
  Logins = {ann, bob}
  Passwords = {p1}
  PortHashes = {1}
  LogoutDelay = TRUE
  Serial = TRUE
  Stalled = {bob}
  MaxMessages = 3
  Faults = {"crash", "docker"}
  MaxFaults = 1
CHECK_DEADLOCK FALSE
PROPERTIES OthersAreAnswered LogoutStops LoginCancelsTimer
