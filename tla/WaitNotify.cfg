SPECIFICATION Spec
CONSTANTS
  c1 = c1
  c2 = c2
  e1 = e1
  b1 = b1
  t1 = t1
  Waiters = {c1}
  Callers = {c2}
  Execs = {e1}
  Batches = {b1}
  Members <- MembersValue
  Others = {t1}
  MaxCalls = 3
INVARIANTS WaitInv PayloadSettles
PROPERTIES WaitAnswered BoundedStop
CHECK_DEADLOCK FALSE
