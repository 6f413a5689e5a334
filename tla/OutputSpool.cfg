SPECIFICATION Spec
CONSTANTS
  Texts <- MCTexts
  ChunkBytes = 4
  ArtifactBytes = 5
  Budgets = {2, 4}
  Overhead = 1
  MaxAppends = 2
  MaxRich = 1
  MaxFaults = 2
INVARIANTS SpoolInv CompleteDigest PagesFaithful
PROPERTIES ImplementsLog
CHECK_DEADLOCK FALSE
