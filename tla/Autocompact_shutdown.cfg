SPECIFICATION Spec
CONSTANTS
  NoValue = NoValue
  None = None
  Prompts = {p1}
  Configs <- OneConfig
  ContextWindow <- MCWindow
  UsageLevels <- TwoUsages
  PromptTokens = 10
  ToolLoads <- MCLoads
  MaxDeferAttempts = 1
  HostReasons = {"threshold"}
  HostBehaviours = {}
  MaxTurns = 2
  MaxManual = 0
  MaxCore = 0
  MaxShutdowns = 1
INVARIANTS
  NoTimerAfterShutdown
