SPECIFICATION LogSpec
CONSTANTS
  Messages <- MCMessages
  Json <- MCJson
  Binary <- MCBinary
  MaxMessages = 4
  Large = 2
  WholeText = 4
INVARIANTS NothingLost RenderedFaithfully
CHECK_DEADLOCK FALSE
