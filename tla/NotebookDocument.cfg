SPECIFICATION Spec
CONSTANTS
  p1 = p1
  p2 = p2
  Procs = {p1, p2}
  Execs = {1}
  Ids = {"a", "b", "c"}
  Sources = {1, 2}
  MaxOps = 3
  MaxEdits = 1
  MaxOutput = 1
  Limit = 1
INVARIANTS OutputsProven CellsPaged
PROPERTIES IdsSound
CHECK_DEADLOCK FALSE
