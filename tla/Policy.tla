------------------------------- MODULE Policy -------------------------------
(***************************************************************************)
(* The decision whether to compact, as pure operators: the settings after  *)
(* normalisation (src/config.ts) and decideAutoCompact (src/policy.ts).    *)
(*                                                                         *)
(* Texts (the custom instructions that go with a decision) are left out.   *)
(* A JavaScript null among the numbers is Null; a setting that is absent   *)
(* or is not a finite number is NoValue.                                   *)
(***************************************************************************)
EXTENDS Integers

CONSTANT NoValue

ASSUME NoValueAssumption == NoValue \notin Int

Null == -1

AtLeast(minimum, n) == IF n < minimum THEN minimum ELSE n
AtMost(maximum, n)  == IF n > maximum THEN maximum ELSE n

-----------------------------------------------------------------------------
(* Settings *)

PercentFields == {"rapidGrowthMinPercent", "sustainedGrowthMinPercent"}

IntegerFields ==
  PercentFields \cup
  {"reserveTokens", "softBufferTokens", "emergencyBufferTokens",
   "minDeltaTokens", "minGrowthStepTokens", "sustainedGrowthTurns",
   "minTurnsBetweenCompacts", "minToolResultTokens", "minToolResults"}

DefaultConfig ==
  [enabled                   |-> TRUE,
   reserveTokens             |-> 16384,
   softBufferTokens          |-> 8192,
   emergencyBufferTokens     |-> 2048,
   minDeltaTokens            |-> 6000,
   rapidGrowthMinPercent     |-> 60,
   minGrowthStepTokens       |-> 1500,
   sustainedGrowthTurns      |-> 3,
   sustainedGrowthMinPercent |-> 70,
   minTurnsBetweenCompacts   |-> 2,
   minToolResultTokens       |-> 8000,
   minToolResults            |-> 2]

Minimum(field) ==
  CASE field = "reserveTokens" -> 1024
    [] field \in PercentFields \cup {"sustainedGrowthTurns"} -> 1
    [] OTHER -> 0

NormalizeInteger(raw, field) ==
  LET bounded == AtLeast(Minimum(field), raw)
  IN  CASE raw = NoValue -> DefaultConfig[field]
        [] raw # NoValue /\ field \in PercentFields -> AtMost(100, bounded)
        [] OTHER -> bounded

(* Each field on its own; raw.enabled is TRUE, FALSE or NoValue.           *)
NormalizeFields(raw) ==
  [field \in IntegerFields \cup {"enabled"} |->
     IF field = "enabled"
     THEN IF raw.enabled = NoValue THEN DefaultConfig.enabled ELSE raw.enabled
     ELSE NormalizeInteger(raw[field], field)]

(* Fault: the two buffers are not compared.                                *)
NormalizeConfigFieldwise(raw) == NormalizeFields(raw)

NormalizeConfig(raw) ==
  LET config == NormalizeFields(raw)
  IN  [config EXCEPT !.softBufferTokens =
         AtLeast(config.emergencyBufferTokens, @)]

(* What every normalised configuration satisfies.                          *)
NormalConfig(config) ==
  /\ config.enabled \in BOOLEAN
  /\ \A field \in IntegerFields :
       /\ config[field] \in Nat
       /\ config[field] >= Minimum(field)
  /\ \A field \in PercentFields : config[field] <= 100
  /\ config.softBufferTokens >= config.emergencyBufferTokens

-----------------------------------------------------------------------------
(* Thresholds *)

ThresholdsOver(hard, config) ==
  [hardThreshold        |-> hard,
   softThreshold        |-> AtLeast(0, hard - config.softBufferTokens),
   emergencyThreshold   |-> AtLeast(0, hard - config.emergencyBufferTokens),
   rapidGrowthFloor     |-> (hard * config.rapidGrowthMinPercent) \div 100,
   sustainedGrowthFloor |-> (hard * config.sustainedGrowthMinPercent) \div 100]

ComputeThresholds(contextWindow, config) ==
  ThresholdsOver(AtLeast(0, contextWindow - config.reserveTokens), config)

-----------------------------------------------------------------------------
(* The decision *)

CompactReasons ==
  {"emergency-near-limit", "tool-heavy-turn", "rapid-growth",
   "sustained-growth", "soft-threshold"}

AggressiveReasons == {"emergency-near-limit", "tool-heavy-turn", "rapid-growth"}

DeltaTokens(in) ==
  IF in.previousTokens = Null THEN 0 ELSE in.currentTokens - in.previousTokens

NextGrowthTurns(in) ==
  IF DeltaTokens(in) >= in.config.minGrowthStepTokens
  THEN in.consecutiveGrowthTurns + 1
  ELSE 0

(* Fault: the cooldown ends one turn early.                                *)
CoolingDownOneTurnShort(in) ==
  /\ in.lastTriggerTurn # Null
  /\ in.turnIndex - in.lastTriggerTurn < in.config.minTurnsBetweenCompacts - 1

CoolingDown(in) ==
  /\ in.lastTriggerTurn # Null
  /\ in.turnIndex - in.lastTriggerTurn < in.config.minTurnsBetweenCompacts

(* Fault: the emergency band ends at the hard threshold.                   *)
NearLimitBandClosed(in, t) ==
  t.emergencyThreshold <= in.currentTokens /\ in.currentTokens < t.hardThreshold

NearLimit(in, t) == in.currentTokens >= t.emergencyThreshold

ToolHeavy(in, t) ==
  /\ in.toolResultsCount >= in.config.minToolResults
  /\ in.toolResultTokens >= in.config.minToolResultTokens
  /\ in.currentTokens >= t.rapidGrowthFloor

RapidGrowth(in, t) ==
  /\ DeltaTokens(in) >= in.config.minDeltaTokens
  /\ in.currentTokens >= t.rapidGrowthFloor

SustainedGrowth(in, t) ==
  /\ NextGrowthTurns(in) >= in.config.sustainedGrowthTurns
  /\ in.currentTokens >= t.sustainedGrowthFloor

(* The first rule that applies, in the order of the code.                  *)
DecisionReason(in, t) ==
  IF ~in.config.enabled                           THEN "disabled"
  ELSE IF in.compactInFlight                      THEN "in-flight"
  ELSE IF NearLimit(in, t)                        THEN "emergency-near-limit"
  ELSE IF CoolingDown(in)                         THEN "cooldown"
  ELSE IF ToolHeavy(in, t)                        THEN "tool-heavy-turn"
  ELSE IF RapidGrowth(in, t)                      THEN "rapid-growth"
  ELSE IF SustainedGrowth(in, t)                  THEN "sustained-growth"
  ELSE IF in.currentTokens >= t.softThreshold     THEN "soft-threshold"
  ELSE "none"

Decide(in) ==
  DecisionReason(in, ComputeThresholds(in.contextWindow, in.config))

Compacts(in) == Decide(in) \in CompactReasons
=============================================================================
