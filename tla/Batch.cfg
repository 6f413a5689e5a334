SPECIFICATION FairSpec
CONSTANTS
  e1 = e1
  e2 = e2
  e3 = e3
  s1 = s1
  b1 = b1
  None = None
  Executions = {e1, e2, s1}
  Timed = {}
  Batches = {b1}
  Members <- TwoMembers
  Faults = {"connect", "crash", "force", "interrupt", "lease", "stop", "standalone"}
  MaxFaults = 2
INVARIANTS BatchInv MemberSentOnce
PROPERTIES ChildOrder BatchSettles
CHECK_DEADLOCK FALSE
