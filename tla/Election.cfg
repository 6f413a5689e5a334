SPECIFICATION FairSpec
CONSTANTS
  c1 = c1
  c2 = c2
  c3 = c3
  p1 = p1
  p2 = p2
  p3 = p3
  None = None
  Clients = {c1, c2}
  Servers = {p1, p2, p3}
  Faults = {"slow", "timeout", "kill", "stop", "crash"}
  MaxFaults = 1
INVARIANTS ElectionInv Reachable
PROPERTIES UnlinkOnlyStale GetsController
CHECK_DEADLOCK FALSE
