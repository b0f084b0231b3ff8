SPECIFICATION FairSpec
CONSTANTS
  NoValue = NoValue
  None = None
  Prompts = {p1}
  Configs <- OneConfig
  ContextWindow <- MCWindow
  UsageLevels <- TwoUsages
  PromptTokens = 10
  ToolLoads <- MCLoads
  MaxDeferAttempts = 1
  HostReasons = {"threshold"}
  HostBehaviours = {"throws"}
  MaxTurns = 1
  MaxManual = 1
  MaxCore = 1
  MaxShutdowns = 1
INVARIANTS
  InFlightHasOwner
PROPERTIES
  InFlightReleased
  PromptsServed
