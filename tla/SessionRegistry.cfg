SPECIFICATION Spec
CONSTANTS
  p1 = p1
  p2 = p2
  Procs = {p1}
  MaxVMs = 2
  MaxCmds = 2
INVARIANTS RegistryInv RowKept KernelMatches
PROPERTIES DaemonStops
CHECK_DEADLOCK FALSE
