SPECIFICATION FairSpec
CONSTANTS
  e1 = e1
  e2 = e2
  k1 = k1
  None = None
  Executions = {e1}
  Keys = {}
  Timed = {e1}
  Replies = {"ok", "error", "abort"}
  MaxOut = 2
  Faults = {"drop", "send", "connect", "crash", "restart", "replace", "lease"}
  MaxFaults = 2
INVARIANTS AtMostOnce TerminalTruth CompleteMeansAll SourceDiscarded
PROPERTIES PromiseKept Settles
CHECK_DEADLOCK FALSE
