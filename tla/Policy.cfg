SPECIFICATION EvaluationSpec
CONSTANTS
  NoValue = NoValue
  RawConfigs <- MCRawConfigs
  Windows <- MCWindows
  TokenLevels <- MCLevels
  Situations <- MCSituations
INVARIANTS
  ThresholdsOrdered
PROPERTIES
  MorePressureNeverCompactsLess
CHECK_DEADLOCK FALSE
