SPECIFICATION Spec
CONSTANTS
  Paths <- MCPaths
  Prose = "text"
  Blank = ""
  Heading = "heading"
  NameOrder <- MCNameOrder
  Answers <- MCAnswers
  CoreSummaries <- MCCoreSummaries
  MaxTouches = 2
  MaxCompactions = 3
INVARIANTS
  ListsCarriedOver
  ListsExact
  OwnListsVerified
CHECK_DEADLOCK FALSE
