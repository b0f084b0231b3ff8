SPECIFICATION Spec
CONSTANTS
  None = None
  Torn = Torn
  MaxDiagnostics = 2
  Faults <- NoFaults
  MaxDecisions = 2
  MaxRestarts = 1
  MaxClears = 1
INVARIANTS
  ClearedStaysGone
CHECK_DEADLOCK FALSE
