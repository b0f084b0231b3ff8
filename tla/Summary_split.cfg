SPECIFICATION Spec
CONSTANTS
  None = None
  Events = {e1}
  Jobs <- SplitJobs
  Texts <- MCTexts
  MaxDiagnostics = 1
INVARIANTS
  SplitTurnKept
CHECK_DEADLOCK FALSE
