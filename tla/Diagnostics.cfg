SPECIFICATION Spec
CONSTANTS
  None = None
  Torn = Torn
  MaxDiagnostics = 2
  Faults <- EveryFault
  MaxDecisions = 4
  MaxRestarts = 2
  MaxClears = 2
INVARIANTS
  FileWhole
  RecordedOnce
  DurableSurvives
  ErasedStaysGone
CHECK_DEADLOCK FALSE
