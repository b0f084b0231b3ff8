SPECIFICATION RequestSpec
CONSTANTS
  TodoMinRows = 2
  TodoKeepRows = 1
  PathMinRows = 3
  PathKeepHeadRows = 1
  PathKeepTailRows = 1
  CheckMinRows = 2
  CheckKeepRows = 1
  Settings <- MCSettings
  LineChars = 10000
  MarkerChars = 110
  MaxLines = 5
INVARIANTS
  EveryLineAccounted
  RequestsFit
  CutsSpareTheRest
CHECK_DEADLOCK FALSE
