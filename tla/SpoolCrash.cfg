SPECIFICATION Spec
CONSTANTS
  Texts <- MCTexts
  ChunkBytes = 4
  ArtifactBytes = 5
  Budgets = {4}
  Overhead = 1
  MaxAppends = 2
  MaxRich = 0
  MaxFaults = 1
INVARIANTS RecoveryFinalizes
CHECK_DEADLOCK FALSE
