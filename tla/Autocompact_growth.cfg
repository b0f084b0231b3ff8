SPECIFICATION Spec
CONSTANTS
  NoValue = NoValue
  None = None
  Prompts = {p1}
  Configs <- GrowthConfigs
  ContextWindow <- MCWindow
  UsageLevels <- GrowthUsage
  PromptTokens = 10
  ToolLoads <- MCLoads
  MaxDeferAttempts = 1
  HostReasons = {"threshold"}
  HostBehaviours = {}
  MaxTurns = 3
  MaxManual = 0
  MaxCore = 0
  MaxShutdowns = 0
PROPERTIES
  SustainedGrowthTriggers
