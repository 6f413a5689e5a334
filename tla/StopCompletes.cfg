SPECIFICATION Spec
CONSTANTS
  c1 = c1
  c2 = c2
  e1 = e1
  b1 = b1
  t1 = t1
  Waiters = {c1}
  Callers = {c2}
  Execs = {e1}
  Batches = {}
  Members <- MembersValue
  Others = {}
  MaxCalls = 3
PROPERTIES StopCompletes
CHECK_DEADLOCK FALSE
