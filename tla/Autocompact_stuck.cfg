SPECIFICATION Spec
CONSTANTS
  NoValue = NoValue
  None = None
  Prompts = {p1}
  Configs <- OneConfig
  ContextWindow <- MCWindow
  UsageLevels <- TwoUsages
  PromptTokens = 10
  ToolLoads <- MCLoads
  MaxDeferAttempts = 1
  HostReasons = {"threshold"}
  HostBehaviours = {"manual-throws"}
  MaxTurns = 2
  MaxManual = 1
  MaxCore = 0
  MaxShutdowns = 0
INVARIANTS
  InFlightHasOwner
