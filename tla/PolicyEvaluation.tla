------------------------- MODULE PolicyEvaluation -------------------------
(***************************************************************************)
(* One evaluation of the policy, for every settings file and situation in  *)
(* the given sets, while the context grows: what normalizeConfig,          *)
(* computeThresholds and decideAutoCompact promise together.               *)
(***************************************************************************)
EXTENDS Policy

CONSTANTS
  RawConfigs,        \* the contents of the settings file
  Windows,           \* context windows
  TokenLevels,       \* token counts the context may grow to
  Situations         \* the rest of the input of decideAutoCompact

(* What is left of a settings file once the values that are no finite      *)
(* number, and no spelling of a boolean, have become NoValue.              *)
RawConfig(raw) ==
  /\ \A field \in IntegerFields : raw[field] \in Int \cup {NoValue}
  /\ raw.enabled \in BOOLEAN \cup {NoValue}

ASSUME EvaluationAssumption ==
  /\ \A raw \in RawConfigs : RawConfig(raw)
  /\ Windows \subseteq Nat /\ TokenLevels \subseteq Nat
  /\ \A s \in Situations :
       /\ s.previousTokens \in Nat \cup {Null}
       /\ s.lastTriggerTurn \in Nat \cup {Null}
       /\ {s.turnIndex, s.consecutiveGrowthTurns, s.toolResultTokens,
           s.toolResultsCount} \subseteq Nat
       /\ s.compactInFlight \in BOOLEAN

VARIABLES settings, contextWindow, situation, currentTokens

evaluationVars == <<settings, contextWindow, situation, currentTokens>>

EvaluationInit ==
  /\ settings \in {NormalizeConfig(raw) : raw \in RawConfigs}
  /\ contextWindow \in Windows
  /\ situation \in Situations
  /\ currentTokens \in TokenLevels

ContextGrows ==
  /\ \E tokens \in TokenLevels :
       tokens > currentTokens /\ currentTokens' = tokens
  /\ UNCHANGED <<settings, contextWindow, situation>>

EvaluationSpec == EvaluationInit /\ [][ContextGrows]_evaluationVars

Input ==
  [config |-> settings, currentTokens |-> currentTokens,
   previousTokens |-> situation.previousTokens, contextWindow |-> contextWindow,
   turnIndex |-> situation.turnIndex,
   consecutiveGrowthTurns |-> situation.consecutiveGrowthTurns,
   compactInFlight |-> situation.compactInFlight,
   lastTriggerTurn |-> situation.lastTriggerTurn,
   toolResultTokens |-> situation.toolResultTokens,
   toolResultsCount |-> situation.toolResultsCount]

Aggressive(in) == Decide(in) \in AggressiveReasons

(* Whatever the settings file holds, the thresholds are in order: the soft *)
(* threshold never lies above the emergency threshold, and none above the  *)
(* window, also when the window is smaller than the reserve.               *)
ThresholdsOrdered ==
  LET t == ComputeThresholds(contextWindow, settings) IN
  /\ 0 <= t.softThreshold
  /\ t.softThreshold <= t.emergencyThreshold
  /\ t.emergencyThreshold <= t.hardThreshold
  /\ t.hardThreshold <= contextWindow
  /\ t.rapidGrowthFloor <= t.hardThreshold
  /\ t.sustainedGrowthFloor <= t.hardThreshold

(* A fuller context is never compacted less: growing further loses neither *)
(* the decision to compact nor its aggressive mode, although a different   *)
(* rule of decideAutoCompact may now be the first that applies.            *)
MorePressureNeverCompactsLess ==
  [][ /\ Compacts(Input) => Compacts(Input)'
      /\ Aggressive(Input) => Aggressive(Input)' ]_evaluationVars
=============================================================================
