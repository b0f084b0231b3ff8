SPECIFICATION FairSpec
CONSTANTS
  None = None
  Events = {e1, e2}
  Jobs <- MCJobs
  Texts <- MCTexts
  MaxDiagnostics = 1
INVARIANTS
  TypeOK
  NoInvalidTransition
  CompactionShrinks
  DiagnosticsTellOutcome
PROPERTIES
  AbortNeverCommits
  CutEndsCompaction
  RetryAsksForLess
  GenerationsAdvance
  EveryEventAnswered
CHECK_DEADLOCK FALSE
