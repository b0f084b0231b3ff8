SPECIFICATION Spec
CONSTANTS
  NoValue = NoValue
  None = None
  Prompts = {p1}
  Configs <- OneConfig
  ContextWindow <- MCWindow
  UsageLevels <- SoftUsage
  PromptTokens = 10
  ToolLoads <- MCLoads
  MaxDeferAttempts = 1
  HostReasons = {"threshold"}
  HostBehaviours = {"throws", "manual-throws"}
  MaxTurns = 2
  MaxManual = 1
  MaxCore = 1
  MaxShutdowns = 1
INVARIANTS
  TypeOK
  TimerIsLatest
  PromptInOnePlace
  RequestsApart
  PhaseTellsInFlight
  CauseTellsRequest
PROPERTIES
  NoStaleTrigger
  CooldownKept
