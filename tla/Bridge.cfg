SPECIFICATION FairSpec
CONSTANTS
  None = None
  Waiting = Waiting
  Malformed = Malformed
  Ids = {1, 2}
  Texts = {"a", "b", "c"}
  Bytes <- MCBytes
  EngineNames = {"dedup", "toolnoise"}
  OtherNames = {"unknown"}
  Preparations <- MCPreparations
  Responses <- MCResponses
  Outputs = {2, 3}
  MaxBridgeBytes = 2
INVARIANTS
  OnlyWholeAnswers
  BufferBounded
  HonestAccounting
PROPERTIES
  NothingLeftBehind
  ServiceKept
CHECK_DEADLOCK FALSE
