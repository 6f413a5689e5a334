SPECIFICATION Spec
CONSTANTS
  e1 = e1
  e2 = e2
  k1 = k1
  None = None
  Executions = {e1, e2}
  Keys = {k1}
  Timed = {}
  Replies = {"ok", "malformed"}
  MaxOut = 1
  Faults = {"drop", "crash", "send", "session", "force", "stop", "interrupt", "lease"}
  MaxFaults = 1
INVARIANTS PromiseInv ScheduledOnce NoOrphan TypeOK
PROPERTIES FifoDispatch ProofNotLost
SYMMETRY Symmetry
CHECK_DEADLOCK FALSE
