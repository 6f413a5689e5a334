SPECIFICATION Spec
CONSTANTS
  c1 = c1
  c2 = c2
  p1 = p1
  p2 = p2
  Clients = {c1, c2}
  Probers = {p1}
  NExec = 1
  MaxIds = 3
  MaxFaults = 1
INVARIANTS LeaseInv CleanExclusive ReadyIsCurrent
SYMMETRY Symmetry
CHECK_DEADLOCK FALSE
