------------------------- MODULE AutocompactProofs -------------------------
(***************************************************************************)
(* Theorems about the trigger side, for every value of the constants, and  *)
(* about the policy it asks: for every settings file, window and situation.*)
(***************************************************************************)
EXTENDS Autocompact, PolicyEvaluation, TLAPS

-----------------------------------------------------------------------------
(* The policy *)

LEMMA NormalizeIntegerBounds ==
  ASSUME NEW field \in IntegerFields, NEW raw \in Int \cup {NoValue}
  PROVE  /\ NormalizeInteger(raw, field) \in Nat
         /\ NormalizeInteger(raw, field) >= Minimum(field)
         /\ field \in PercentFields => NormalizeInteger(raw, field) <= 100
<1> USE NoValueAssumption
<1>1. Minimum(field) \in {0, 1, 1024}
      /\ (field \in PercentFields => Minimum(field) = 1)
  BY DEF Minimum, PercentFields, IntegerFields
<1>2. CASE raw = NoValue
  <2>1. DefaultConfig[field] \in Nat /\ DefaultConfig[field] >= Minimum(field)
        /\ (field \in PercentFields => DefaultConfig[field] <= 100)
    BY DEF DefaultConfig, IntegerFields, PercentFields, Minimum
  <2>2. NormalizeInteger(raw, field) = DefaultConfig[field]
    BY <1>2 DEF NormalizeInteger
  <2>3. QED
    BY <2>1, <2>2
<1>3. CASE raw \in Int
  <2>1. NormalizeInteger(raw, field) =
          IF field \in PercentFields
          THEN AtMost(100, AtLeast(Minimum(field), raw))
          ELSE AtLeast(Minimum(field), raw)
    BY <1>3 DEF NormalizeInteger
  <2>2. QED
    BY <1>1, <1>3, <2>1 DEF AtMost, AtLeast
<1>4. QED
  BY <1>2, <1>3

(* Whatever a settings file holds, its normalisation is a normal           *)
(* configuration (normalizeConfig).                                        *)
THEOREM NormalizationIsNormal ==
  ASSUME NEW raw, RawConfig(raw)
  PROVE  NormalConfig(NormalizeConfig(raw))
<1> DEFINE fields == NormalizeFields(raw)
           normal == NormalizeConfig(raw)
<1>1. \A field \in IntegerFields :
        /\ fields[field] \in Nat /\ fields[field] >= Minimum(field)
        /\ field \in PercentFields => fields[field] <= 100
  <2> SUFFICES ASSUME NEW field \in IntegerFields
               PROVE  /\ fields[field] \in Nat
                      /\ fields[field] >= Minimum(field)
                      /\ field \in PercentFields => fields[field] <= 100
    OBVIOUS
  <2>1. field # "enabled"
    BY DEF IntegerFields, PercentFields
  <2>2. fields[field] = NormalizeInteger(raw[field], field)
    BY <2>1 DEF NormalizeFields
  <2>3. raw[field] \in Int \cup {NoValue}
    BY DEF RawConfig
  <2>4. QED
    BY <2>2, <2>3, NormalizeIntegerBounds
<1>2. fields.enabled \in BOOLEAN
  <2>1. fields.enabled =
          IF raw.enabled = NoValue THEN DefaultConfig.enabled ELSE raw.enabled
    BY DEF NormalizeFields
  <2>2. DefaultConfig.enabled = TRUE
    BY DEF DefaultConfig
  <2>3. CASE raw.enabled = NoValue
    BY <2>1, <2>2, <2>3
  <2>4. CASE raw.enabled # NoValue
    BY <2>1, <2>4 DEF RawConfig
  <2>5. QED
    BY <2>3, <2>4
<1>3. {"softBufferTokens", "emergencyBufferTokens"}
        \subseteq IntegerFields \ PercentFields
  BY DEF IntegerFields, PercentFields
<1>4. DOMAIN fields = IntegerFields \cup {"enabled"}
  BY DEF NormalizeFields
<1> DEFINE soft == AtLeast(fields.emergencyBufferTokens,
                           fields.softBufferTokens)
<1>5. normal = [fields EXCEPT !.softBufferTokens = soft]
  BY DEF NormalizeConfig
<1> HIDE DEF fields, normal
<1>6. soft \in Nat /\ soft >= fields.softBufferTokens
      /\ soft >= fields.emergencyBufferTokens
  BY <1>1, <1>3 DEF AtLeast
<1>7. \A field \in IntegerFields \cup {"enabled"} :
        normal[field] = IF field = "softBufferTokens" THEN soft
                        ELSE fields[field]
  BY <1>4, <1>5
<1> HIDE DEF soft
<1>8. normal.enabled = fields.enabled
  BY <1>7
<1>9. normal.softBufferTokens = soft
      /\ normal.emergencyBufferTokens = fields.emergencyBufferTokens
  BY <1>3, <1>7
<1>10. Minimum("softBufferTokens") = 0
  BY DEF Minimum, PercentFields
<1>11. \A field \in IntegerFields :
         /\ normal[field] \in Nat /\ normal[field] >= Minimum(field)
         /\ field \in PercentFields => normal[field] <= 100
  BY <1>1, <1>3, <1>6, <1>7, <1>10
<1>12. PercentFields \subseteq IntegerFields
  BY DEF IntegerFields
<1>13. NormalConfig(normal)
  BY <1>2, <1>6, <1>8, <1>9, <1>11, <1>12 DEF NormalConfig
<1>14. QED
  BY <1>13 DEF normal

-----------------------------------------------------------------------------
(* Thresholds *)

LEMMA PercentOf ==
  ASSUME NEW whole \in Nat, NEW percent \in Nat, percent <= 100
  PROVE  /\ (whole * percent) \div 100 \in Nat
         /\ (whole * percent) \div 100 <= whole
<1>1. whole * percent \in Nat
  OBVIOUS
<1>2. whole * percent <= whole * 100
  OBVIOUS
<1>3. QED
  BY <1>1, <1>2

(* The thresholds of a normal configuration are in order.                  *)
THEOREM ThresholdOrder ==
  ASSUME NEW window \in Nat, NEW conf, NormalConfig(conf)
  PROVE  LET t == ComputeThresholds(window, conf) IN
         /\ t.softThreshold \in Nat /\ t.emergencyThreshold \in Nat
         /\ t.hardThreshold \in Nat
         /\ t.softThreshold <= t.emergencyThreshold
         /\ t.emergencyThreshold <= t.hardThreshold
         /\ t.hardThreshold <= window
         /\ t.rapidGrowthFloor \in Nat
         /\ t.rapidGrowthFloor <= t.hardThreshold
         /\ t.sustainedGrowthFloor \in Nat
         /\ t.sustainedGrowthFloor <= t.hardThreshold
<1>1. /\ conf.reserveTokens \in Nat /\ conf.softBufferTokens \in Nat
      /\ conf.emergencyBufferTokens \in Nat
      /\ conf.rapidGrowthMinPercent \in Nat
      /\ conf.sustainedGrowthMinPercent \in Nat
  BY DEF NormalConfig, IntegerFields, PercentFields
<1>2. /\ conf.rapidGrowthMinPercent <= 100
      /\ conf.sustainedGrowthMinPercent <= 100
      /\ conf.softBufferTokens >= conf.emergencyBufferTokens
  BY DEF NormalConfig, PercentFields
<1> DEFINE hard == AtLeast(0, window - conf.reserveTokens)
<1>3. hard \in Nat /\ hard <= window
  BY <1>1 DEF AtLeast
<1> HIDE DEF hard
<1>4. /\ (hard * conf.rapidGrowthMinPercent) \div 100 \in Nat
      /\ (hard * conf.rapidGrowthMinPercent) \div 100 <= hard
  BY <1>1, <1>2, <1>3, PercentOf
<1>5. /\ (hard * conf.sustainedGrowthMinPercent) \div 100 \in Nat
      /\ (hard * conf.sustainedGrowthMinPercent) \div 100 <= hard
  BY <1>1, <1>2, <1>3, PercentOf
<1>6. /\ AtLeast(0, hard - conf.softBufferTokens) \in Nat
      /\ AtLeast(0, hard - conf.emergencyBufferTokens) \in Nat
      /\ AtLeast(0, hard - conf.softBufferTokens)
           <= AtLeast(0, hard - conf.emergencyBufferTokens)
      /\ AtLeast(0, hard - conf.emergencyBufferTokens) <= hard
  BY <1>1, <1>2, <1>3 DEF AtLeast
<1>7. ComputeThresholds(window, conf) = ThresholdsOver(hard, conf)
  BY DEF ComputeThresholds, hard
<1>8. QED
  BY <1>3, <1>4, <1>5, <1>6, <1>7 DEF ThresholdsOver

-----------------------------------------------------------------------------
(* The decision *)

(* More tokens in the same situation: every rule that applied still        *)
(* applies, and the rules that forbid a compaction do not look at tokens.  *)
LEMMA DecisionMonotone ==
  ASSUME NEW a, NEW b, NEW t,
         a.currentTokens \in Int, b.currentTokens \in Int,
         a.previousTokens \in Int, a.config.minDeltaTokens \in Int,
         a.config.minGrowthStepTokens \in Int,
         a.consecutiveGrowthTurns \in Nat,
         a.config.sustainedGrowthTurns \in Nat,
         t.emergencyThreshold \in Int, t.softThreshold \in Int,
         t.rapidGrowthFloor \in Int, t.sustainedGrowthFloor \in Int,
         a.currentTokens <= b.currentTokens,
         b.config = a.config, b.previousTokens = a.previousTokens,
         b.turnIndex = a.turnIndex, b.lastTriggerTurn = a.lastTriggerTurn,
         b.compactInFlight = a.compactInFlight,
         b.consecutiveGrowthTurns = a.consecutiveGrowthTurns,
         b.toolResultTokens = a.toolResultTokens,
         b.toolResultsCount = a.toolResultsCount
  PROVE  /\ DecisionReason(a, t) \in CompactReasons
              => DecisionReason(b, t) \in CompactReasons
         /\ DecisionReason(a, t) \in AggressiveReasons
              => DecisionReason(b, t) \in AggressiveReasons
<1>1. NearLimit(a, t) => NearLimit(b, t)
  BY DEF NearLimit
<1>2. ToolHeavy(a, t) => ToolHeavy(b, t)
  BY DEF ToolHeavy
<1>3. DeltaTokens(a) <= DeltaTokens(b) /\ DeltaTokens(a) \in Int
      /\ DeltaTokens(b) \in Int
  BY DEF DeltaTokens, Null
<1>4. RapidGrowth(a, t) => RapidGrowth(b, t)
  BY <1>3 DEF RapidGrowth
<1>5. SustainedGrowth(a, t) => SustainedGrowth(b, t)
  BY <1>3 DEF SustainedGrowth, NextGrowthTurns
<1>6. a.currentTokens >= t.softThreshold => b.currentTokens >= t.softThreshold
  OBVIOUS
<1>7. CoolingDown(a) <=> CoolingDown(b)
  BY DEF CoolingDown
<1>8. QED
  BY <1>1, <1>2, <1>4, <1>5, <1>6, <1>7
  DEF DecisionReason, CompactReasons, AggressiveReasons

-----------------------------------------------------------------------------
(* The evaluation *)

EvaluationInv ==
  /\ NormalConfig(settings)
  /\ contextWindow \in Windows /\ situation \in Situations
  /\ currentTokens \in TokenLevels

LEMMA EvaluationInvariant == EvaluationSpec => []EvaluationInv
<1>1. EvaluationInit => EvaluationInv
  <2>1. \A raw \in RawConfigs : NormalConfig(NormalizeConfig(raw))
    BY NormalizationIsNormal, EvaluationAssumption
  <2>2. QED
    BY <2>1 DEF EvaluationInit, EvaluationInv
<1>2. EvaluationInv /\ [ContextGrows]_evaluationVars => EvaluationInv'
  BY DEF EvaluationInv, ContextGrows, evaluationVars
<1>3. QED
  BY <1>1, <1>2, PTL DEF EvaluationSpec

(* The soft threshold never lies above the emergency threshold, whatever   *)
(* the settings file holds.                                                *)
THEOREM ThresholdsAreOrdered == EvaluationSpec => []ThresholdsOrdered
<1>1. EvaluationInv => ThresholdsOrdered
  <2> SUFFICES ASSUME EvaluationInv PROVE ThresholdsOrdered
    OBVIOUS
  <2>1. contextWindow \in Nat
    BY EvaluationAssumption DEF EvaluationInv
  <2> DEFINE t == ComputeThresholds(contextWindow, settings)
  <2>2. /\ t.softThreshold \in Nat
        /\ t.softThreshold <= t.emergencyThreshold
        /\ t.emergencyThreshold <= t.hardThreshold
        /\ t.hardThreshold <= contextWindow
        /\ t.rapidGrowthFloor <= t.hardThreshold
        /\ t.sustainedGrowthFloor <= t.hardThreshold
    BY <2>1, ThresholdOrder DEF EvaluationInv
  <2> HIDE DEF t
  <2>3. 0 <= t.softThreshold
    BY <2>2
  <2>4. QED
    BY <2>2, <2>3 DEF ThresholdsOrdered, t
<1>2. QED
  BY <1>1, EvaluationInvariant, PTL

LEMMA PressureStep ==
  ASSUME EvaluationInv, ContextGrows
  PROVE  /\ Compacts(Input) => Compacts(Input)'
         /\ Aggressive(Input) => Aggressive(Input)'
<1> DEFINE a == Input
           b == Input'
           t == ComputeThresholds(contextWindow, settings)
<1>1. /\ a.config = settings /\ a.contextWindow = contextWindow
      /\ b.config = settings /\ b.contextWindow = contextWindow
      /\ a.currentTokens = currentTokens /\ b.currentTokens = currentTokens'
      /\ a.previousTokens = situation.previousTokens
      /\ a.consecutiveGrowthTurns = situation.consecutiveGrowthTurns
  BY DEF Input, ContextGrows
<1>2. /\ b.previousTokens = a.previousTokens
      /\ b.turnIndex = a.turnIndex /\ b.lastTriggerTurn = a.lastTriggerTurn
      /\ b.compactInFlight = a.compactInFlight
      /\ b.consecutiveGrowthTurns = a.consecutiveGrowthTurns
      /\ b.toolResultTokens = a.toolResultTokens
      /\ b.toolResultsCount = a.toolResultsCount
  BY DEF Input, ContextGrows
<1>3. /\ currentTokens \in Nat /\ currentTokens' \in Nat
      /\ currentTokens <= currentTokens' /\ contextWindow \in Nat
  BY EvaluationAssumption DEF EvaluationInv, ContextGrows
<1>4. /\ situation.previousTokens \in Int
      /\ situation.consecutiveGrowthTurns \in Nat
  BY EvaluationAssumption DEF EvaluationInv, Null
<1>5. /\ settings.minDeltaTokens \in Int /\ settings.minGrowthStepTokens \in Int
      /\ settings.sustainedGrowthTurns \in Nat
  BY DEF EvaluationInv, NormalConfig, IntegerFields
<1>6. /\ t.emergencyThreshold \in Int /\ t.softThreshold \in Int
      /\ t.rapidGrowthFloor \in Int /\ t.sustainedGrowthFloor \in Int
  BY <1>3, ThresholdOrder DEF EvaluationInv
<1>7. /\ Decide(Input) = DecisionReason(a, t)
      /\ Decide(Input)' = DecisionReason(b, t)
  BY <1>1 DEF Decide
<1> HIDE DEF a, b, t
<1>8. /\ DecisionReason(a, t) \in CompactReasons
           => DecisionReason(b, t) \in CompactReasons
      /\ DecisionReason(a, t) \in AggressiveReasons
           => DecisionReason(b, t) \in AggressiveReasons
  BY <1>1, <1>2, <1>3, <1>4, <1>5, <1>6, DecisionMonotone
<1>9. QED
  BY <1>7, <1>8 DEF Compacts, Aggressive

(* A fuller context is never compacted less.                               *)
THEOREM MorePressureCompactsMore ==
  EvaluationSpec => MorePressureNeverCompactsLess
<1>1. EvaluationInv /\ [ContextGrows]_evaluationVars =>
        [ /\ Compacts(Input) => Compacts(Input)'
          /\ Aggressive(Input) => Aggressive(Input)' ]_evaluationVars
  BY PressureStep
<1>2. QED
  BY <1>1, EvaluationInvariant, PTL
  DEF EvaluationSpec, MorePressureNeverCompactsLess

-----------------------------------------------------------------------------
(* The decision *)

(* A decision to compact carries one of the reasons for compacting, and    *)
(* the growth counter stays a natural number (policy.ts).                  *)
LEMMA DecisionFacts ==
  ASSUME NEW in, in.consecutiveGrowthTurns \in Nat
  PROVE  /\ Compacts(in) => Decide(in) \in CompactReasons
         /\ NextGrowthTurns(in) \in Nat
BY DEF Compacts, NextGrowthTurns

(* The record a handler builds for the policy carries the growth counter.  *)
LEMMA EvaluationFacts ==
  ASSUME TypeOK, NEW config, NEW tokens, NEW before, NEW turn, NEW load
  PROVE  LET in == Evaluation(config, tokens, before, turn, load) IN
         /\ Compacts(in) => Decide(in) \in CompactReasons
         /\ NextGrowthTurns(in) \in Nat
<1> DEFINE in == Evaluation(config, tokens, before, turn, load)
<1>1. in.consecutiveGrowthTurns \in Nat
  BY DEF Evaluation, TypeOK
<1>2. QED
  BY <1>1, DecisionFacts

-----------------------------------------------------------------------------
(* Type correctness *)

LEMMA TypeInit == Init => TypeOK
<1> SUFFICES ASSUME Init PROVE TypeOK
  OBVIOUS
<1>1. schedule \in [turnIndex : Nat \cup {Null},
                   reason : CompactReasons \cup {None},
                   attempts : Nat, generation : Nat]
  BY DEF Init
<1>2. delivered \in [Prompts -> Nat]
  BY DEF Init
<1>3. spent \in [manual : Nat, core : Nat, shutdown : Nat]
  BY DEF Init
<1>4. outstanding \in SUBSET Call /\ sent \in SUBSET Prompts
  BY DEF Init
<1>5. compactionPhase \in Phases
  BY DEF Init, Phases
<1>6. QED
  BY <1>1, <1>2, <1>3, <1>4, <1>5 DEF Init, TypeOK

(* An accepted call of ctx.compact adds one well-formed record.            *)
LEMMA TypeStart ==
  ASSUME TypeOK, NEW by \in {"scheduled", "prompt", "manual"},
         NEW reason \in CompactReasons \cup {"manual-now"},
         NEW prompt \in Prompts \cup {None},
         NEW asOf \in [compactions : Nat, shutdowns : Nat],
         StartCompaction(by, reason, prompt, asOf)
  PROVE  outstanding' \in SUBSET Call /\ calls' \in Nat
<1>1. calls + 1 \in Nat
  BY DEF TypeOK
<1>2. [id |-> calls + 1, by |-> by, reason |-> reason,
       prompt |-> prompt, asOf |-> asOf, emitted |-> FALSE] \in Call
  BY <1>1 DEF Call
<1>3. QED
  BY <1>1, <1>2 DEF StartCompaction, TypeOK

LEMMA TypeNow == TypeOK => Now \in [compactions : Nat, shutdowns : Nat]
BY DEF TypeOK, Now

LEMMA TypeTimer == TypeOK /\ TimerFires => TypeOK'
<1> SUFFICES ASSUME TypeOK, TimerFires PROVE TypeOK'
  OBVIOUS
<1> USE DEF TypeOK, stateVars, scheduleVars, handlerVars, compactVars,
            promptVars, observers
<1>1. CASE TimerStale
  BY <1>1 DEF TimerStale
<1>2. CASE TimerDefers
  BY <1>2 DEF TimerDefers
<1>3. CASE TimerGivesUp
  BY <1>3 DEF TimerGivesUp, NoteGivenUp, NoteSettled, Phases
<1>4. CASE TimerTriggers
  <2>1. timer \in Timer
    BY <1>4, ConstantsAssumption DEF TimerTriggers
  <2>2. compactInFlight' \in BOOLEAN /\ compactionPhase' \in Phases
    BY <1>4 DEF TimerTriggers, NoteSettled, Phases
  <2>3. outstanding' \in SUBSET Call /\ calls' \in Nat
    <3>1. /\ timer.asOf \in [compactions : Nat, shutdowns : Nat]
          /\ timer.reason \in CompactReasons
      BY <2>1 DEF Timer
    <3>2. CASE StartCompaction("scheduled", timer.reason, None, timer.asOf)
      BY <3>1, <3>2, TypeStart
    <3>3. CASE UNCHANGED compactVars
      BY <3>3
    <3>4. QED
      BY <1>4, <3>2, <3>3 DEF TimerTriggers
  <2>4. QED
    BY <1>4, <2>2, <2>3 DEF TimerTriggers
<1>5. QED
  BY <1>1, <1>2, <1>3, <1>4 DEF TimerFires

LEMMA TypeAgentEnd == TypeOK /\ (AgentEnd \/ AgentEndResumes) => TypeOK'
<1> SUFFICES ASSUME TypeOK, AgentEnd \/ AgentEndResumes PROVE TypeOK'
  OBVIOUS
<1> USE DEF TypeOK, stateVars, scheduleVars, handlerVars, compactVars,
            promptVars, observers
<1>1. CASE AgentEnd
  BY <1>1 DEF AgentEnd, KnownUsage, EndHandler
<1>2. CASE AgentEndResumes
  <2>1. endHandler \in [tokens : UsageLevels, load : ToolLoads]
    BY <1>2 DEF AgentEndResumes, EndHandler
  <2> PICK config \in Configs :
        LET in == Evaluation(config, endHandler.tokens, previousTokens,
                             agentTurnIndex, endHandler.load) IN
        /\ NoteEvaluation(in)
        /\ previousTokens' = endHandler.tokens
        /\ growthRun' = IF DeltaTokens(in) >= config.minGrowthStepTokens
                        THEN growthRun + 1 ELSE 0
        /\ \/ /\ Compacts(in)
              /\ NoteRequested(agentTurnIndex, Decide(in), "scheduled")
              /\ Schedule(agentTurnIndex, Decide(in))
              /\ Asks(agentTurnIndex)
           \/ /\ ~Compacts(in)
              /\ UNCHANGED <<compactInFlight, compactionPhase, lastTriggerTurn,
                             lastCompactionReason, scheduleVars, asked>>
    BY <1>2 DEF AgentEndResumes
  <2> DEFINE in == Evaluation(config, endHandler.tokens, previousTokens,
                              agentTurnIndex, endHandler.load)
  <2>2. /\ Compacts(in) => Decide(in) \in CompactReasons
        /\ NextGrowthTurns(in) \in Nat
    BY EvaluationFacts
  <2> HIDE DEF in
  <2>3. /\ consecutiveGrowthTurns' \in Nat /\ growthRun' \in Nat
        /\ previousTokens' \in Nat
    <3>1. endHandler.tokens \in Nat
      BY <2>1, ConstantsAssumption
    <3>2. growthRun' \in Nat
      BY DEF in
    <3>3. QED
      BY <2>2, <3>1, <3>2 DEF NoteEvaluation, in
  <2>4. /\ compactInFlight' \in BOOLEAN /\ compactionPhase' \in Phases
        /\ lastTriggerTurn' \in Nat \cup {Null}
        /\ lastCompactionReason' \in Reasons \cup {None}
        /\ timer' \in Timer \cup {None}
        /\ schedule' \in [turnIndex : Nat \cup {Null},
                           reason : CompactReasons \cup {None},
                           attempts : Nat, generation : Nat]
    <3>1. CASE Compacts(in)
      BY <2>2, <3>1 DEF NoteRequested, Schedule, Timer, Now, Phases, Reasons, in
    <3>2. CASE ~Compacts(in)
      BY <3>2 DEF in
    <3>3. QED
      BY <3>1, <3>2
  <2>5. asked' \in [no : Nat, run : Nat]
    BY DEF Asks
  <2>6. QED
    BY <1>2, <2>3, <2>4, <2>5 DEF AgentEndResumes
<1>3. QED
  BY <1>1, <1>2

LEMMA TypeInput == TypeOK /\ (UserPrompt \/ InputResumes) => TypeOK'
<1> SUFFICES ASSUME TypeOK, UserPrompt \/ InputResumes PROVE TypeOK'
  OBVIOUS
<1> USE DEF TypeOK, stateVars, scheduleVars, handlerVars, compactVars,
            promptVars, observers
<1>1. CASE UserPrompt
  BY <1>1 DEF UserPrompt, Deliver, KnownUsage, InputHandler
<1>2. CASE InputResumes
  <2> DEFINE turn == agentTurnIndex + 1
             in(config) ==
               Evaluation(config, inputHandler.tokens + PromptTokens,
                          inputHandler.tokens, turn,
                          [count |-> 0, tokens |-> 0])
  <2>1. inputHandler.prompt \in Prompts
    BY <1>2 DEF InputResumes, InputHandler
  <2> PICK config \in Configs :
        /\ NoteEvaluation(in(config))
        /\ \/ /\ ~Compacts(in(config))
              /\ Deliver(inputHandler.prompt)
              /\ UNCHANGED <<compactInFlight, compactionPhase, lastTriggerTurn,
                             lastCompactionReason, scheduleVars, compactVars,
                             asked>>
           \/ /\ Compacts(in(config))
              /\ Asks(turn)
              /\ CancelScheduled
              /\ NoteRequested(turn, Decide(in(config)), "triggering")
              /\ StartCompaction("prompt", Decide(in(config)),
                                 inputHandler.prompt, Now)
              /\ UNCHANGED delivered
           \/ /\ Compacts(in(config)) /\ "throws" \in HostBehaviours
              /\ Asks(turn)
              /\ CancelScheduled
              /\ lastTriggerTurn' = turn
              /\ lastCompactionReason' = Decide(in(config))
              /\ NoteSettled("failed")
              /\ Deliver(inputHandler.prompt)
              /\ UNCHANGED compactVars
    BY <1>2 DEF InputResumes, NextTurnIndex
  <2>2. /\ Compacts(in(config)) => Decide(in(config)) \in CompactReasons
        /\ NextGrowthTurns(in(config)) \in Nat
    BY EvaluationFacts
  <2> HIDE DEF in
  <2>3. consecutiveGrowthTurns' \in Nat
    BY <2>2 DEF NoteEvaluation
  <2>4. /\ compactInFlight' \in BOOLEAN /\ compactionPhase' \in Phases
        /\ lastTriggerTurn' \in Nat \cup {Null}
        /\ lastCompactionReason' \in Reasons \cup {None}
    <3> HIDE DEF turn
    <3>1. turn \in Nat
      BY DEF turn
    <3>2. CASE ~Compacts(in(config))
      BY <3>2
    <3>3. CASE Compacts(in(config))
      <4>1. compactInFlight' \in BOOLEAN /\ compactionPhase' \in Phases
        BY <3>3 DEF NoteRequested, NoteSettled, Phases
      <4>2. lastTriggerTurn' = turn /\ lastCompactionReason' = Decide(in(config))
        BY <3>3 DEF NoteRequested
      <4>3. QED
        BY <2>2, <3>1, <3>3, <4>1, <4>2 DEF Reasons
    <3>4. QED
      BY <3>2, <3>3
  <2>5. /\ timer' \in Timer \cup {None}
        /\ schedule' \in [turnIndex : Nat \cup {Null},
                           reason : CompactReasons \cup {None},
                           attempts : Nat, generation : Nat]
    BY DEF CancelScheduled
  <2>6. outstanding' \in SUBSET Call /\ calls' \in Nat
    <3>1. CASE UNCHANGED compactVars
      BY <3>1
    <3>2. CASE /\ Compacts(in(config))
               /\ StartCompaction("prompt", Decide(in(config)),
                                  inputHandler.prompt, Now)
      BY <2>1, <2>2, <3>2, TypeStart, TypeNow
    <3>3. QED
      BY <3>1, <3>2
  <2>7. delivered' \in [Prompts -> Nat]
    BY <2>1 DEF Deliver
  <2>8. asked' \in [no : Nat, run : Nat]
    BY DEF Asks
  <2>9. QED
    BY <1>2, <2>3, <2>4, <2>5, <2>6, <2>7, <2>8 DEF InputResumes
<1>3. QED
  BY <1>1, <1>2

LEMMA TypeManual == TypeOK /\ ManualCompact => TypeOK'
<1> SUFFICES ASSUME TypeOK, ManualCompact PROVE TypeOK'
  OBVIOUS
<1> USE DEF TypeOK, stateVars, scheduleVars, handlerVars, compactVars,
            promptVars, observers
<1>1. outstanding' \in SUBSET Call /\ calls' \in Nat
  BY TypeStart, TypeNow DEF ManualCompact
<1>2. QED
  BY <1>1 DEF ManualCompact, Reasons

(* The reason a completed compaction is recorded with is a reason.         *)
LEMMA CompletedReasonType ==
  ASSUME TypeOK, NEW fromExtension \in BOOLEAN, NEW reason \in HostReasons
  PROVE  CompletedReason(fromExtension, reason) \in Reasons
BY DEF TypeOK, CompletedReason, Reasons

LEMMA TypeCompleted ==
  ASSUME TypeOK, NEW fromExtension \in BOOLEAN, NEW reason \in HostReasons,
         NoteCompleted(CompletedReason(fromExtension, reason))
  PROVE  /\ compactInFlight' \in BOOLEAN /\ compactionPhase' \in Phases
         /\ lastTriggerTurn' \in Nat \cup {Null}
         /\ lastCompactionReason' \in Reasons \cup {None}
         /\ previousTokens' \in Nat \cup {Null}
         /\ consecutiveGrowthTurns' \in Nat /\ compactionCount' \in Nat
         /\ growthRun' \in Nat
<1>1. compactInFlight' \in BOOLEAN /\ compactionPhase' \in Phases
  BY DEF NoteCompleted, NoteSettled, Phases
<1>2. lastCompactionReason' \in Reasons \cup {None}
  BY CompletedReasonType DEF NoteCompleted
<1>3. /\ previousTokens' = Null /\ consecutiveGrowthTurns' = 0
      /\ growthRun' = 0 /\ lastTriggerTurn' = lastTriggerTurn
      /\ compactionCount' = compactionCount + 1
  BY DEF NoteCompleted
<1>4. QED
  BY <1>1, <1>2, <1>3 DEF TypeOK

LEMMA TypeSettles ==
  ASSUME TypeOK, NEW call \in outstanding, Settles(call)
  PROVE  TypeOK'
<1> USE DEF stateVars, scheduleVars, handlerVars, compactVars, promptVars,
            observers
<1>1. call \in Call
  BY DEF TypeOK
<1>2. CASE SessionCompact(call)
  <2>1. [call EXCEPT !.emitted = TRUE] \in Call
    BY <1>1 DEF Call
  <2>2. outstanding' \in SUBSET Call
    BY <1>2, <2>1 DEF SessionCompact, TypeOK
  <2>3. PICK fromExtension \in BOOLEAN, reason \in HostReasons :
          NoteCompleted(CompletedReason(fromExtension, reason))
    BY <1>2 DEF SessionCompact
  <2>4. QED
    BY <1>2, <2>2, <2>3, TypeCompleted DEF SessionCompact, TypeOK
<1>3. delivered' \in [Prompts -> Nat] \/ ~Replay(call)
  <2>1. call.prompt \in Prompts \cup {None}
    BY <1>1 DEF Call
  <2>2. QED
    BY <2>1 DEF Replay, Deliver, TypeOK
<1>4. CASE OnComplete(call)
  BY <1>3, <1>4 DEF OnComplete, TypeOK, Phases
<1>5. CASE OnError(call)
  BY <1>3, <1>5 DEF OnError, NoteSettled, TypeOK, Phases
<1>6. QED
  BY <1>2, <1>4, <1>5 DEF Settles

LEMMA TypeHost ==
  TypeOK /\ (CoreCompacts \/ SessionShutdown \/ SessionStart \/ HostBusyOrIdle)
    => TypeOK'
<1> SUFFICES ASSUME TypeOK, CoreCompacts \/ SessionShutdown \/ SessionStart
                             \/ HostBusyOrIdle
             PROVE  TypeOK'
  OBVIOUS
<1> USE DEF stateVars, scheduleVars, handlerVars, compactVars, promptVars,
            observers
<1>1. CASE CoreCompacts
  <2>1. PICK fromExtension \in BOOLEAN, reason \in HostReasons :
          NoteCompleted(CompletedReason(fromExtension, reason))
    BY <1>1 DEF CoreCompacts
  <2>2. QED
    BY <1>1, <2>1, TypeCompleted DEF CoreCompacts, TypeOK
<1>2. CASE SessionShutdown
  <2>1. compactInFlight' \in BOOLEAN /\ compactionPhase' \in Phases
    BY <1>2 DEF SessionShutdown, NoteSettled, Phases
  <2>2. /\ timer' = None
        /\ schedule' \in [turnIndex : Nat \cup {Null},
                          reason : CompactReasons \cup {None},
                          attempts : Nat, generation : Nat]
    BY <1>2 DEF SessionShutdown, CancelScheduled, TypeOK
  <2>3. spent' \in [manual : Nat, core : Nat, shutdown : Nat]
    BY <1>2 DEF SessionShutdown, TypeOK
  <2>4. QED
    BY <1>2, <2>1, <2>2, <2>3 DEF SessionShutdown, TypeOK
<1>3. CASE SessionStart
  BY <1>3 DEF SessionStart, TypeOK
<1>4. CASE HostBusyOrIdle
  BY <1>4 DEF HostBusyOrIdle, TypeOK
<1>5. QED
  BY <1>1, <1>2, <1>3, <1>4

LEMMA TypeStep == TypeOK /\ [Next]_vars => TypeOK'
<1> SUFFICES ASSUME TypeOK, [Next]_vars PROVE TypeOK'
  OBVIOUS
<1>1. CASE Extension
  BY <1>1, TypeTimer, TypeAgentEnd, TypeInput DEF Extension
<1>2. CASE Host
  BY <1>2, TypeAgentEnd, TypeInput, TypeManual, TypeHost DEF Host
<1>3. CASE \E call \in outstanding : Settles(call)
  BY <1>3, TypeSettles
<1>4. CASE UNCHANGED vars
  BY <1>4 DEF TypeOK, vars, stateVars, scheduleVars, handlerVars, compactVars,
              promptVars, observers
<1>5. QED
  BY <1>1, <1>2, <1>3, <1>4 DEF Next, Settles

(* The coordination state, the schedule and the host's records keep their  *)
(* types under every interleaving of the handlers.                         *)
THEOREM TypeCorrect == Spec => []TypeOK
BY TypeInit, TypeStep, PTL DEF Spec

-----------------------------------------------------------------------------
(* The timeout *)

LEMMA TimerLatestStep ==
  TypeOK /\ TimerIsLatest /\ [Next]_vars => TimerIsLatest'
<1> SUFFICES ASSUME TypeOK, TimerIsLatest, [Next]_vars PROVE TimerIsLatest'
  OBVIOUS
<1> USE DEF TimerIsLatest, stateVars, scheduleVars, handlerVars, compactVars,
            promptVars
<1>1. CASE TimerFires
  <2>1. CASE timer' = None
    BY <2>1
  <2>2. CASE TimerDefers
    BY <2>2 DEF TimerDefers, TypeOK
  <2>3. QED
    BY <1>1, <2>1, <2>2
    DEF TimerFires, TimerStale, TimerGivesUp, TimerTriggers
<1>2. CASE AgentEndResumes
  BY <1>2 DEF AgentEndResumes, Schedule
<1>3. CASE InputResumes
  BY <1>3 DEF InputResumes, CancelScheduled
<1>4. CASE SessionShutdown
  BY <1>4 DEF SessionShutdown, CancelScheduled
<1>5. CASE UNCHANGED scheduleVars
  BY <1>5
<1>6. (AgentEnd \/ UserPrompt \/ ManualCompact \/ CoreCompacts \/ SessionStart
        \/ HostBusyOrIdle \/ UNCHANGED vars) => UNCHANGED scheduleVars
  BY DEF AgentEnd, UserPrompt, ManualCompact, CoreCompacts, SessionStart,
         HostBusyOrIdle, vars
<1>7. (\E call \in outstanding : Settles(call)) => UNCHANGED scheduleVars
  BY DEF Settles, SessionCompact, OnComplete, OnError
<1>8. QED
  BY <1>1, <1>2, <1>3, <1>4, <1>5, <1>6, <1>7
  DEF Next, Settles, Extension, Host

(* No older timeout survives a cancellation or a new request               *)
(* (scheduleAutocompact, cancelScheduledAutocompact).                      *)
THEOREM TimerLatest == Spec => []TimerIsLatest
<1>1. Init => TimerIsLatest
  BY DEF Init, TimerIsLatest
<1>2. QED
  BY <1>1, TimerLatestStep, TypeCorrect, PTL DEF Spec

(* A request the program has overtaken no longer passes the test of        *)
(* isCurrentScheduledCompaction: the flag was cleared, or the reason now   *)
(* recorded is that of the manual command.                                 *)
LEMMA FreshStep ==
  TypeOK /\ CurrentTimerIsFresh /\ [Next]_vars => CurrentTimerIsFresh'
<1> SUFFICES ASSUME TypeOK, CurrentTimerIsFresh, [Next]_vars
             PROVE  CurrentTimerIsFresh'
  OBVIOUS
<1> USE DEF CurrentTimerIsFresh, IsCurrent, stateVars, scheduleVars,
            handlerVars, compactVars, promptVars
<1>1. CASE timer' = None
  BY <1>1
<1>2. CASE compactInFlight' = FALSE
  BY <1>2
<1>3. CASE UNCHANGED <<timer, schedule.generation, schedule.turnIndex,
                       schedule.reason, compactInFlight, lastTriggerTurn,
                       lastCompactionReason, Now>>
  BY <1>3
<1>4. CASE TimerFires
  <2>1. CASE TimerDefers
    <3>1. UNCHANGED <<schedule.generation, schedule.turnIndex,
                      schedule.reason, Now>>
      BY <2>1 DEF TimerDefers, TypeOK, Now
    <3>2. QED
      BY <1>3, <2>1, <3>1 DEF TimerDefers
  <2>2. QED
    BY <1>1, <1>4, <2>1 DEF TimerFires, TimerStale, TimerGivesUp, TimerTriggers
<1>5. CASE AgentEndResumes
  <2>1. UNCHANGED Now
    BY <1>5 DEF AgentEndResumes, Now
  <2>2. CASE timer'.asOf = Now
    BY <2>1, <2>2
  <2>3. CASE UNCHANGED <<compactInFlight, lastTriggerTurn,
                         lastCompactionReason, timer, schedule>>
    BY <2>1, <2>3
  <2>4. timer'.asOf = Now
        \/ UNCHANGED <<compactInFlight, lastTriggerTurn,
                       lastCompactionReason, timer, schedule>>
    BY <1>5 DEF AgentEndResumes, Schedule
  <2>5. QED
    BY <2>2, <2>3, <2>4
<1>6. CASE InputResumes
  <2>1. UNCHANGED Now
    BY <1>6 DEF InputResumes, Now
  <2>2. QED
    BY <1>1, <1>3, <1>6, <2>1 DEF InputResumes, CancelScheduled
<1>7. CASE ManualCompact
  <2>1. lastCompactionReason' = "manual-now"
    BY <1>7 DEF ManualCompact
  <2>2. timer # None => timer.reason # "manual-now"
    BY DEF TypeOK, Timer, CompactReasons
  <2>3. QED
    BY <1>7, <2>1, <2>2 DEF ManualCompact
<1>8. CASE AgentEnd \/ UserPrompt \/ SessionStart \/ HostBusyOrIdle
             \/ UNCHANGED vars
  BY <1>3, <1>8
  DEF AgentEnd, UserPrompt, SessionStart, HostBusyOrIdle, vars, Now
<1>9. CASE CoreCompacts \/ SessionShutdown
             \/ \E call \in outstanding : Settles(call)
  BY <1>2, <1>9 DEF CoreCompacts, SessionShutdown, NoteCompleted, NoteSettled,
                    Settles, SessionCompact, OnComplete, OnError
<1>10. QED
  BY <1>4, <1>5, <1>6, <1>7, <1>8, <1>9 DEF Next, Settles, Extension, Host

(* A deferred compaction that is still current predates no completed       *)
(* compaction and no shutdown.                                             *)
THEOREM CurrentTimerFresh == Spec => []CurrentTimerIsFresh
<1>1. Init => CurrentTimerIsFresh
  BY DEF Init, CurrentTimerIsFresh
<1>2. QED
  BY <1>1, FreshStep, TypeCorrect, PTL DEF Spec

(* The calls still outstanding were all counted.                           *)
CallsCounted == \A call \in outstanding : call.id <= calls

LEMMA CallsCountedStep ==
  TypeOK /\ CallsCounted /\ [Next]_vars => CallsCounted'
<1> SUFFICES ASSUME TypeOK, CallsCounted, [Next]_vars PROVE CallsCounted'
  OBVIOUS
<1> USE DEF CallsCounted, stateVars, scheduleVars, handlerVars, compactVars,
            promptVars
<1>1. calls \in Nat /\ \A call \in outstanding : call.id \in Nat
  BY DEF TypeOK, Call
<1>2. CASE \E by, reason, prompt, asOf : StartCompaction(by, reason, prompt, asOf)
  BY <1>1, <1>2 DEF StartCompaction
<1>3. CASE UNCHANGED compactVars
  BY <1>3
<1>4. CASE \E call \in outstanding : Settles(call)
  <2> PICK call \in outstanding : Settles(call)
    BY <1>4
  <2>1. CASE SessionCompact(call)
    <3>1. [call EXCEPT !.emitted = TRUE].id = call.id
      BY DEF TypeOK, Call
    <3>2. QED
      BY <2>1, <3>1 DEF SessionCompact
  <2>2. CASE OnComplete(call) \/ OnError(call)
    BY <2>2 DEF OnComplete, OnError
  <2>3. QED
    BY <2>1, <2>2 DEF Settles
<1>5. CASE TimerFires
  BY <1>2, <1>3, <1>5
  DEF TimerFires, TimerStale, TimerDefers, TimerGivesUp, TimerTriggers
<1>6. CASE AgentEnd \/ AgentEndResumes \/ UserPrompt \/ CoreCompacts
             \/ SessionShutdown \/ SessionStart \/ HostBusyOrIdle
             \/ UNCHANGED vars
  BY <1>3, <1>6 DEF AgentEnd, AgentEndResumes, UserPrompt, CoreCompacts,
    SessionShutdown, SessionStart, HostBusyOrIdle, vars
<1>7. CASE InputResumes \/ ManualCompact
  BY <1>2, <1>3, <1>7 DEF InputResumes, ManualCompact
<1>8. QED
  BY <1>4, <1>5, <1>6, <1>7 DEF Next, Settles, Extension, Host

LEMMA StaleTriggerStep ==
  ASSUME TypeOK, CallsCounted, CurrentTimerIsFresh, [Next]_vars,
         NEW call \in outstanding', call.id > calls, call.by = "scheduled"
  PROVE  call.asOf = Now
<1> USE DEF stateVars, scheduleVars, handlerVars, compactVars, promptVars,
            observers
<1>1. call \notin outstanding
  BY DEF CallsCounted, TypeOK, Call
<1>2. CASE TimerFires
  BY <1>1, <1>2
  DEF TimerFires, TimerStale, TimerDefers, TimerGivesUp, TimerTriggers,
      StartCompaction, CurrentTimerIsFresh
<1>3. CASE InputResumes \/ ManualCompact
  BY <1>1, <1>3 DEF InputResumes, ManualCompact, StartCompaction
<1>4. CASE UNCHANGED outstanding
  BY <1>1, <1>4
<1>5. CASE \E old \in outstanding : Settles(old)
  <2> PICK old \in outstanding : Settles(old)
    BY <1>5
  <2>1. call = [old EXCEPT !.emitted = TRUE]
    BY <1>1 DEF Settles, SessionCompact, OnComplete, OnError
  <2>2. call.id = old.id
    BY <2>1 DEF TypeOK, Call
  <2>3. QED
    BY <2>2 DEF CallsCounted, TypeOK, Call
<1>6. (AgentEnd \/ AgentEndResumes \/ UserPrompt \/ CoreCompacts
        \/ SessionShutdown \/ SessionStart \/ HostBusyOrIdle
        \/ UNCHANGED vars) => UNCHANGED outstanding
  BY DEF AgentEnd, AgentEndResumes, UserPrompt, CoreCompacts, SessionShutdown,
         SessionStart, HostBusyOrIdle, vars
<1>7. QED
  BY <1>2, <1>3, <1>4, <1>5, <1>6 DEF Next, Settles, Extension, Host

(* A timeout never asks for a compaction that a completed compaction, or a *)
(* shutdown, has overtaken since it was requested (scheduler.ts).          *)
THEOREM TriggersAreFresh == Spec => NoStaleTrigger
<1> DEFINE Inv == TypeOK /\ CallsCounted /\ CurrentTimerIsFresh
<1>1. Init => CallsCounted
  BY DEF Init, CallsCounted
<1>2. Inv /\ [Next]_vars =>
        [\A call \in outstanding' :
           call.id > calls /\ call.by = "scheduled" => call.asOf = Now]_vars
  BY StaleTriggerStep
<1>3. QED
  BY <1>1, <1>2, CallsCountedStep, TypeCorrect, CurrentTimerFresh, PTL
  DEF Spec, NoStaleTrigger

-----------------------------------------------------------------------------
(* The flag *)

(* An accepted call of ctx.compact is one the host has yet to finish.      *)
LEMMA StartRuns ==
  ASSUME NEW by, NEW reason, NEW prompt, NEW asOf,
         StartCompaction(by, reason, prompt, asOf)
  PROVE  Running' # {}
<1> DEFINE call == [id |-> calls + 1, by |-> by, reason |-> reason,
                    prompt |-> prompt, asOf |-> asOf, emitted |-> FALSE]
<1>1. call \in outstanding'
  BY DEF StartCompaction
<1>2. ~call.emitted
  OBVIOUS
<1>3. QED
  BY <1>1, <1>2 DEF Running

LEMMA OwnerStep ==
  ASSUME "manual-throws" \notin HostBehaviours,
         TypeOK, InFlightHasOwner, [Next]_vars
  PROVE  InFlightHasOwner'
<1> USE DEF InFlightHasOwner, stateVars, scheduleVars, handlerVars,
            compactVars, promptVars
<1>1. CASE compactInFlight' = FALSE
  BY <1>1
<1>2. CASE Running' # {}
  BY <1>2
<1>3. CASE UNCHANGED <<timer, schedule, compactInFlight, lastTriggerTurn,
                       lastCompactionReason, outstanding>>
  BY <1>3 DEF IsCurrent, Running
<1>4. CASE TimerFires
  <2>1. CASE TimerStale
    <3>1. compactInFlight => Running # {}
      BY <2>1 DEF TimerStale
    <3>2. QED
      BY <2>1, <3>1 DEF TimerStale, Running
  <2>2. CASE TimerDefers
    <3>1. IsCurrent(timer) /\ UNCHANGED <<schedule.generation,
            schedule.turnIndex, schedule.reason>>
      BY <2>2 DEF TimerDefers, TypeOK
    <3>2. QED
      BY <2>2, <3>1 DEF TimerDefers, IsCurrent
  <2>3. CASE TimerGivesUp
    BY <1>1, <2>3 DEF TimerGivesUp, NoteGivenUp, NoteSettled
  <2>4. CASE TimerTriggers
    BY <1>1, <2>4, StartRuns DEF TimerTriggers, NoteSettled
  <2>5. QED
    BY <1>4, <2>1, <2>2, <2>3, <2>4 DEF TimerFires
<1>5. CASE AgentEndResumes
  <2>1. CASE \E in : /\ NoteRequested(agentTurnIndex, Decide(in), "scheduled")
                     /\ Schedule(agentTurnIndex, Decide(in))
                     /\ Compacts(in)
    <3>1. PICK in : /\ NoteRequested(agentTurnIndex, Decide(in), "scheduled")
                    /\ Schedule(agentTurnIndex, Decide(in))
                    /\ Compacts(in)
      BY <2>1
    <3>2. timer'.turnIndex = agentTurnIndex /\ timer'.reason = Decide(in)
          /\ schedule'.turnIndex = agentTurnIndex
          /\ schedule'.reason = Decide(in)
          /\ schedule'.generation = timer'.generation
      BY <3>1 DEF Schedule
    <3>3. timer' # None
      <4>1. timer' \in Timer
        BY <3>1, TypeNow DEF Schedule, Timer, TypeOK, Compacts
      <4>2. QED
        BY <4>1, NoneAssumption
    <3>4. QED
      BY <3>1, <3>2, <3>3 DEF NoteRequested, IsCurrent
  <2>2. CASE UNCHANGED <<compactInFlight, compactionPhase, lastTriggerTurn,
                         lastCompactionReason, scheduleVars>>
    BY <1>3, <1>5, <2>2 DEF AgentEndResumes
  <2>3. QED
    BY <1>5, <2>1, <2>2 DEF AgentEndResumes
<1>6. CASE InputResumes
  BY <1>1, <1>2, <1>3, <1>6, StartRuns DEF InputResumes, NoteSettled
<1>7. CASE ManualCompact
  BY <1>2, <1>7, StartRuns DEF ManualCompact
<1>8. CASE AgentEnd \/ UserPrompt \/ SessionStart \/ HostBusyOrIdle
             \/ UNCHANGED vars
  BY <1>3, <1>8 DEF AgentEnd, UserPrompt, SessionStart, HostBusyOrIdle, vars
<1>9. CASE CoreCompacts \/ SessionShutdown
             \/ \E call \in outstanding : Settles(call)
  BY <1>1, <1>9 DEF CoreCompacts, SessionShutdown, NoteCompleted, NoteSettled,
                    Settles, SessionCompact, OnComplete, OnError
<1>10. QED
  BY <1>4, <1>5, <1>6, <1>7, <1>8, <1>9 DEF Next, Settles, Extension, Host

(* Unless ctx.compact throws out of the manual command, a set flag always  *)
(* belongs to a current timeout or to a compaction the host will finish.   *)
THEOREM FlagHasOwner ==
  ASSUME "manual-throws" \notin HostBehaviours
  PROVE  Spec => []InFlightHasOwner
<1>1. Init => InFlightHasOwner
  BY DEF Init, InFlightHasOwner
<1>2. TypeOK /\ InFlightHasOwner /\ [Next]_vars => InFlightHasOwner'
  BY OwnerStep
<1>3. QED
  BY <1>1, <1>2, TypeCorrect, PTL DEF Spec

-----------------------------------------------------------------------------
(* The requests: that they do not overlap, and that the prompts held back  *)
(* for them are handed over once.                                          *)

(* decideAutoCompact never answers "compact" while the flag is set.        *)
LEMMA CompactsWhenFree ==
  ASSUME NEW config, NEW tokens, NEW before, NEW turn, NEW load,
         Compacts(Evaluation(config, tokens, before, turn, load))
  PROVE  ~compactInFlight
<1> DEFINE in == Evaluation(config, tokens, before, turn, load)
           t  == ComputeThresholds(in.contextWindow, in.config)
<1>1. in.compactInFlight = compactInFlight
  BY DEF Evaluation
<1> HIDE DEF in, t
<1>2. in.compactInFlight => DecisionReason(in, t) \in {"disabled", "in-flight"}
  BY DEF DecisionReason
<1>3. DecisionReason(in, t) \in CompactReasons
  BY DEF Compacts, Decide, in, t
<1>4. QED
  BY <1>1, <1>2, <1>3 DEF CompactReasons

(* As long as no event has cleared the flag of another request, the host   *)
(* works on one call at most, and while it does the flag is set and no     *)
(* timeout is current.                                                     *)
OneRequest ==
  ~crossed =>
    /\ \A c1, c2 \in Running : c1 = c2
    /\ Running # {} =>
         compactInFlight /\ ~(timer # None /\ IsCurrent(timer))

(* What no event has crossed so far, none had crossed before.              *)
LEMMA CrossedStays == TypeOK /\ [Next]_vars /\ ~crossed' => ~crossed
BY DEF TypeOK, Next, Extension, Host, TimerFires, TimerStale, TimerDefers,
  TimerGivesUp, TimerTriggers, AgentEnd, AgentEndResumes, UserPrompt,
  InputResumes, ManualCompact, CoreCompacts, SessionShutdown, SessionStart,
  HostBusyOrIdle, Settles, SessionCompact, OnComplete, OnError, vars, observers

(* A call that settles is the only one the host was working on.            *)
LEMMA SettledAlone ==
  ASSUME TypeOK, OneRequest, ~crossed', ~crossed, NEW call \in outstanding,
         Settles(call)
  PROVE  Running' = {} /\ (OnComplete(call) => ~compactInFlight)
<1> DEFINE done == [call EXCEPT !.emitted = TRUE]
<1>1. done.emitted = TRUE
  BY DEF TypeOK, Call
<1> HIDE DEF done
<1>2. CASE SessionCompact(call)
  <2>1. outstanding' = (outstanding \ {call}) \cup {done} /\ ~call.emitted
    BY <1>2 DEF SessionCompact, done
  <2>2. QED
    BY <1>1, <1>2, <2>1 DEF OneRequest, Running, SessionCompact, OnComplete
<1>3. CASE OnComplete(call)
  <2>1. ~compactInFlight /\ outstanding' = outstanding \ {call}
    BY <1>3 DEF OnComplete
  <2>2. Running = {}
    BY <2>1 DEF OneRequest
  <2>3. QED
    BY <2>1, <2>2 DEF Running
<1>4. CASE OnError(call)
  BY <1>4 DEF OnError, OneRequest, Running, OnComplete
<1>5. QED
  BY <1>2, <1>3, <1>4 DEF Settles

(* A call the host begins to work on while it works on no other.           *)
LEMMA StartAlone ==
  ASSUME NEW by, NEW reason, NEW prompt, NEW asOf,
         StartCompaction(by, reason, prompt, asOf), Running = {}
  PROVE  \E call : Running' = {call} /\ call.reason = reason
<1> DEFINE new == [id |-> calls + 1, by |-> by, reason |-> reason,
                   prompt |-> prompt, asOf |-> asOf, emitted |-> FALSE]
<1>1. outstanding' = outstanding \cup {new}
  BY DEF StartCompaction
<1>2. new.reason = reason /\ ~new.emitted
  OBVIOUS
<1> HIDE DEF new
<1>3. Running' = {new}
  BY <1>1, <1>2 DEF Running
<1>4. QED
  BY <1>2, <1>3

LEMMA OneRequestStep ==
  ASSUME TypeOK, OneRequest, [Next]_vars
  PROVE  OneRequest'
<1> SUFFICES ASSUME ~crossed', ~crossed PROVE OneRequest'
  BY CrossedStays DEF OneRequest
<1> USE DEF stateVars, scheduleVars, handlerVars, compactVars, promptVars
<1>1. CASE UNCHANGED vars
  BY <1>1 DEF OneRequest, Running, IsCurrent, vars
<1>2. CASE Running' = {}
  BY <1>2 DEF OneRequest
<1>3. CASE Running = {} /\ UNCHANGED outstanding
  BY <1>2, <1>3 DEF Running
<1>4. CASE /\ Running = {} /\ compactInFlight' = TRUE
           /\ timer' # None => ~IsCurrent(timer)'
           /\ \E by, reason, prompt, asOf :
                StartCompaction(by, reason, prompt, asOf)
  <2>1. PICK call : Running' = {call}
    BY <1>4, StartAlone
  <2>2. QED
    BY <1>4, <2>1 DEF OneRequest
<1>5. CASE UNCHANGED <<outstanding, timer, schedule, compactInFlight,
                       lastTriggerTurn, lastCompactionReason>>
  BY <1>5 DEF OneRequest, Running, IsCurrent
<1>6. CASE TimerFires
  <2>1. CASE TimerStale
    BY <2>1 DEF TimerStale, OneRequest, Running
  <2>2. IsCurrent(timer) /\ timer # None => Running = {}
    BY DEF OneRequest
  <2>3. CASE TimerDefers \/ TimerGivesUp
    BY <1>3, <2>2, <2>3 DEF TimerDefers, TimerGivesUp
  <2>4. CASE TimerTriggers
    BY <1>3, <1>4, <2>2, <2>4 DEF TimerTriggers
  <2>5. QED
    BY <1>6, <2>1, <2>3, <2>4 DEF TimerFires
<1>7. compactInFlight \/ Running = {}
  BY DEF OneRequest
<1>8. CASE AgentEndResumes
  <2>1. CASE ~compactInFlight
    BY <1>3, <1>7, <1>8, <2>1 DEF AgentEndResumes
  <2>2. CASE compactInFlight
    BY <1>5, <1>8, <2>2, CompactsWhenFree DEF AgentEndResumes
  <2>3. QED
    BY <2>1, <2>2
<1>9. CASE InputResumes
  <2>1. CASE ~compactInFlight
    BY <1>3, <1>4, <1>7, <1>9, <2>1
    DEF InputResumes, CancelScheduled, NoteRequested
  <2>2. CASE compactInFlight
    BY <1>5, <1>9, <2>2, CompactsWhenFree DEF InputResumes
  <2>3. QED
    BY <2>1, <2>2
<1>10. CASE ManualCompact
  <2>1. Running = {}
    BY <1>7, <1>10 DEF ManualCompact
  <2>2. CASE UNCHANGED compactVars
    BY <1>3, <2>1, <2>2
  <2>3. CASE StartCompaction("manual", "manual-now", None, Now)
    <3>1. lastCompactionReason' = "manual-now" /\ timer' = timer
      BY <1>10 DEF ManualCompact
    <3>2. timer # None => timer.reason # "manual-now"
      BY DEF TypeOK, Timer, CompactReasons
    <3>3. timer' # None => ~IsCurrent(timer)'
      BY <3>1, <3>2 DEF IsCurrent
    <3>4. QED
      BY <1>4, <1>10, <2>1, <2>3, <3>3 DEF ManualCompact
  <2>4. QED
    BY <1>10, <2>2, <2>3 DEF ManualCompact
<1>11. CASE CoreCompacts \/ SessionShutdown
  BY <1>3, <1>11 DEF CoreCompacts, SessionShutdown
<1>12. CASE AgentEnd \/ UserPrompt \/ SessionStart \/ HostBusyOrIdle
  BY <1>5, <1>12 DEF AgentEnd, UserPrompt, SessionStart, HostBusyOrIdle
<1>13. CASE \E call \in outstanding : Settles(call)
  BY <1>2, <1>13, SettledAlone
<1>14. QED
  BY <1>1, <1>6, <1>8, <1>9, <1>10, <1>11, <1>12, <1>13
  DEF Next, Extension, Host

(* Whatever the host does and whatever fails, the guards of policy.ts and  *)
(* of /autocompact-now and the test of a timeout keep the extension's      *)
(* requests apart, until a late callback, a compaction of the host's own   *)
(* or a shutdown clears the flag of a request that is on its way.          *)
THEOREM RequestsStayApart == Spec => []RequestsApart
<1>1. Init => OneRequest
  BY DEF Init, OneRequest, Running
<1>2. TypeOK /\ OneRequest /\ [Next]_vars => OneRequest'
  BY OneRequestStep
<1>3. OneRequest => RequestsApart
  BY DEF OneRequest, RequestsApart, NoOverlap
<1>4. QED
  BY <1>1, <1>2, <1>3, TypeCorrect, PTL DEF Spec

-----------------------------------------------------------------------------
(* The reason *)

(* What the host works on was asked for with the stored reason.            *)
ReasonStored ==
  ~crossed => \A call \in Running : lastCompactionReason = call.reason

LEMMA ReasonStep ==
  ASSUME TypeOK, OneRequest, ReasonStored, [Next]_vars
  PROVE  ReasonStored'
<1> SUFFICES ASSUME ~crossed', ~crossed PROVE ReasonStored'
  BY CrossedStays DEF ReasonStored
<1> USE DEF stateVars, scheduleVars, handlerVars, compactVars, promptVars
<1>1. CASE UNCHANGED <<outstanding, lastCompactionReason>>
  BY <1>1 DEF ReasonStored, Running
<1>2. CASE Running' = {}
  BY <1>2 DEF ReasonStored
<1>3. ASSUME NEW by, NEW reason, NEW prompt, NEW asOf,
             StartCompaction(by, reason, prompt, asOf),
             Running = {}, lastCompactionReason' = reason
      PROVE  ReasonStored'
  <2>1. PICK call : Running' = {call} /\ call.reason = reason
    BY <1>3, StartAlone
  <2>2. QED
    BY <1>3, <2>1 DEF ReasonStored
<1>4. CASE UNCHANGED vars
  BY <1>1, <1>4 DEF vars
<1>5. CASE Running = {} /\ UNCHANGED outstanding
  BY <1>2, <1>5 DEF Running
<1>6. CASE TimerFires
  <2>1. CASE TimerStale \/ TimerDefers \/ TimerGivesUp
    BY <1>1, <2>1 DEF TimerStale, TimerDefers, TimerGivesUp
  <2>2. CASE TimerTriggers
    <3>1. /\ Running = {} /\ lastCompactionReason' = lastCompactionReason
          /\ lastCompactionReason = timer.reason
      BY <2>2 DEF TimerTriggers, OneRequest, IsCurrent
    <3>2. CASE StartCompaction("scheduled", timer.reason, None, timer.asOf)
      BY <1>3, <3>1, <3>2
    <3>3. CASE UNCHANGED compactVars
      BY <1>1, <3>1, <3>3
    <3>4. QED
      BY <2>2, <3>2, <3>3 DEF TimerTriggers
  <2>3. QED
    BY <1>6, <2>1, <2>2 DEF TimerFires
<1>7. compactInFlight \/ Running = {}
  BY DEF OneRequest
<1>8. CASE AgentEndResumes
  <2>1. CASE compactInFlight
    BY <1>1, <1>8, <2>1, CompactsWhenFree DEF AgentEndResumes
  <2>2. CASE ~compactInFlight
    BY <1>5, <1>7, <1>8, <2>2 DEF AgentEndResumes
  <2>3. QED
    BY <2>1, <2>2
<1>9. CASE InputResumes
  <2>1. CASE compactInFlight
    BY <1>1, <1>9, <2>1, CompactsWhenFree DEF InputResumes
  <2>2. CASE ~compactInFlight /\ UNCHANGED outstanding
    BY <1>5, <1>7, <2>2
  <2>3. CASE ~compactInFlight /\ ~UNCHANGED outstanding
    <3>1. \E reason, prompt :
            /\ StartCompaction("prompt", reason, prompt, Now)
            /\ lastCompactionReason' = reason
      BY <1>9, <2>3 DEF InputResumes, NoteRequested
    <3>2. QED
      BY <1>3, <1>7, <2>3, <3>1
  <2>4. QED
    BY <2>1, <2>2, <2>3
<1>10. CASE ManualCompact
  <2>1. Running = {} /\ lastCompactionReason' = "manual-now"
    BY <1>7, <1>10 DEF ManualCompact
  <2>2. CASE UNCHANGED compactVars
    BY <1>5, <2>1, <2>2
  <2>3. CASE StartCompaction("manual", "manual-now", None, Now)
    BY <1>3, <2>1, <2>3
  <2>4. QED
    BY <1>10, <2>2, <2>3 DEF ManualCompact
<1>11. CASE CoreCompacts \/ SessionShutdown
  BY <1>5, <1>11 DEF CoreCompacts, SessionShutdown
<1>12. CASE AgentEnd \/ UserPrompt \/ SessionStart \/ HostBusyOrIdle
  BY <1>1, <1>12 DEF AgentEnd, UserPrompt, SessionStart, HostBusyOrIdle
<1>13. CASE \E call \in outstanding : Settles(call)
  BY <1>2, <1>13, SettledAlone
<1>14. QED
  BY <1>4, <1>6, <1>8, <1>9, <1>10, <1>11, <1>12, <1>13
  DEF Next, Extension, Host

(* Whatever the handlers and commands do while the host works on a         *)
(* compaction, or between its end and its callback, the stored reason      *)
(* names the cause that compaction was asked for, and so do the headers    *)
(* and the completion record, until the flag is cleared for a request      *)
(* other than the one that ended.                                          *)
THEOREM CauseIsKept == Spec => []CauseTellsRequest
<1>1. Init => OneRequest /\ ReasonStored
  BY DEF Init, OneRequest, ReasonStored, Running
<1>2. TypeOK /\ OneRequest /\ ReasonStored /\ [Next]_vars
        => OneRequest' /\ ReasonStored'
  BY OneRequestStep, ReasonStep
<1>3. ReasonStored => CauseTellsRequest
  BY DEF ReasonStored, CauseTellsRequest
<1>4. QED
  BY <1>1, <1>2, <1>3, TypeCorrect, PTL DEF Spec

-----------------------------------------------------------------------------
(* The phase *)

LEMMA PhaseStep ==
  ASSUME TypeOK, PhaseTellsInFlight, [Next]_vars
  PROVE  PhaseTellsInFlight'
<1> USE DEF stateVars, scheduleVars, handlerVars, compactVars, promptVars,
            PhaseTellsInFlight, ActivePhases
<1>1. ~crossed' => ~crossed
  BY CrossedStays
<1>2. CASE UNCHANGED <<compactInFlight, compactionPhase,
                       lastCompactionReason>>
  BY <1>1, <1>2
<1>3. CASE /\ compactInFlight' = FALSE
           /\ compactionPhase' \in {"failed", "completed", "cancelled"}
  BY <1>3
<1>4. CASE /\ compactInFlight' = TRUE
           /\ compactionPhase' \in {"scheduled", "triggering"}
           /\ lastCompactionReason' \in CompactReasons
  BY <1>4 DEF CompactReasons
<1>5. CASE TimerFires
  <2>1. CASE TimerStale \/ TimerDefers
    BY <1>2, <2>1 DEF TimerStale, TimerDefers
  <2>2. CASE TimerGivesUp
    BY <1>3, <2>2 DEF TimerGivesUp, NoteGivenUp, NoteSettled
  <2>3. CASE TimerTriggers
    <3>1. /\ lastCompactionReason' = timer.reason
          /\ timer.reason \in CompactReasons
      BY <2>3, ConstantsAssumption DEF TimerTriggers, IsCurrent, TypeOK, Timer
    <3>2. QED
      BY <1>3, <1>4, <2>3, <3>1 DEF TimerTriggers, NoteSettled
  <2>4. QED
    BY <1>5, <2>1, <2>2, <2>3 DEF TimerFires
<1>6. CASE AgentEndResumes
  BY <1>2, <1>4, <1>6 DEF AgentEndResumes, NoteRequested, Compacts
<1>7. CASE InputResumes
  BY <1>2, <1>3, <1>4, <1>7
  DEF InputResumes, NoteRequested, NoteSettled, Compacts
<1>8. CASE ManualCompact
  <2>1. compactionPhase \in ActivePhases => crossed
    BY <1>8 DEF ManualCompact
  <2>2. crossed' = crossed
    BY <1>8 DEF ManualCompact, observers
  <2>3. QED
    BY <1>8, <2>1, <2>2 DEF ManualCompact
<1>9. CASE CoreCompacts \/ SessionShutdown
             \/ \E call \in outstanding : SessionCompact(call) \/ OnError(call)
  BY <1>3, <1>9 DEF CoreCompacts, NoteCompleted, SessionShutdown,
                    SessionCompact, OnError, NoteSettled
<1>10. CASE AgentEnd \/ UserPrompt \/ SessionStart \/ HostBusyOrIdle
              \/ UNCHANGED vars
  BY <1>2, <1>10 DEF AgentEnd, UserPrompt, SessionStart, HostBusyOrIdle, vars
<1>11. CASE \E call \in outstanding : OnComplete(call)
  <2>1. compactInFlight' = FALSE /\ crossed' = (crossed \/ compactInFlight)
        /\ compactionPhase' \in {"completed", compactionPhase}
    BY <1>11 DEF OnComplete
  <2>2. QED
    BY <2>1
<1>12. QED
  BY <1>5, <1>6, <1>7, <1>8, <1>9, <1>10, <1>11
  DEF Next, Extension, Host, Settles

(* The phase in the status report is an active one while a compaction that *)
(* was not asked for by hand is in flight, and is left active without the  *)
(* flag only after the flag was cleared for another request.               *)
THEOREM PhaseIsTrue == Spec => []PhaseTellsInFlight
<1>1. Init => PhaseTellsInFlight
  BY DEF Init, PhaseTellsInFlight, ActivePhases
<1>2. TypeOK /\ PhaseTellsInFlight /\ [Next]_vars => PhaseTellsInFlight'
  BY PhaseStep
<1>3. QED
  BY <1>1, <1>2, TypeCorrect, PTL DEF Spec

-----------------------------------------------------------------------------
(* The cooldown *)

(* Below the emergency band, decideAutoCompact compacts only after the     *)
(* cooldown.                                                               *)
LEMMA CompactsAfterCooldown ==
  ASSUME NEW in, Compacts(in), Decide(in) # "emergency-near-limit"
  PROVE  ~CoolingDown(in)
<1> DEFINE t == ComputeThresholds(in.contextWindow, in.config)
<1>1. DecisionReason(in, t) \in CompactReasons \ {"emergency-near-limit"}
  BY DEF Compacts, Decide, t
<1> HIDE DEF t
<1>2. CoolingDown(in) => DecisionReason(in, t)
        \in {"disabled", "in-flight", "emergency-near-limit", "cooldown"}
  BY DEF DecisionReason
<1>3. QED
  BY <1>1, <1>2 DEF CompactReasons

(* The stored turn is that of the run the last request belongs to.         *)
TurnRecorded ==
  IF asked.no = 0 THEN lastTriggerTurn = Null ELSE lastTriggerTurn = asked.run

(* What a step does that makes a request of the policy.                    *)
Requests(in) ==
  /\ in.config \in Configs /\ in.lastTriggerTurn = lastTriggerTurn
  /\ in.turnIndex \in {agentTurnIndex, agentTurnIndex + 1}
  /\ Compacts(in)
  /\ lastTriggerTurn' = in.turnIndex /\ lastCompactionReason' = Decide(in)
  /\ Asks(in.turnIndex)

LEMMA RequestSteps ==
  ASSUME [Next]_vars
  PROVE  (\E in : Requests(in)) \/ UNCHANGED <<lastTriggerTurn, asked>>
<1> USE DEF stateVars, scheduleVars, handlerVars, compactVars, promptVars,
            observers
<1>1. CASE AgentEndResumes
  <2> DEFINE in(config) == Evaluation(config, endHandler.tokens,
               previousTokens, agentTurnIndex, endHandler.load)
  <2>1. PICK config \in Configs :
          \/ /\ Compacts(in(config))
             /\ NoteRequested(agentTurnIndex, Decide(in(config)), "scheduled")
             /\ Asks(agentTurnIndex)
          \/ UNCHANGED <<lastTriggerTurn, asked>>
    BY <1>1 DEF AgentEndResumes
  <2>2. /\ in(config).turnIndex = agentTurnIndex /\ in(config).config = config
        /\ in(config).lastTriggerTurn = lastTriggerTurn
    BY DEF Evaluation
  <2> HIDE DEF in
  <2>3. QED
    BY <2>1, <2>2 DEF NoteRequested, Requests
<1>2. CASE InputResumes
  <2> DEFINE turn == agentTurnIndex + 1
             in(config) ==
               Evaluation(config, inputHandler.tokens + PromptTokens,
                          inputHandler.tokens, turn,
                          [count |-> 0, tokens |-> 0])
  <2>1. PICK config \in Configs :
          \/ /\ Compacts(in(config)) /\ lastTriggerTurn' = turn
             /\ lastCompactionReason' = Decide(in(config))
             /\ Asks(turn)
          \/ UNCHANGED <<lastTriggerTurn, asked>>
    BY <1>2 DEF InputResumes, NoteRequested, NextTurnIndex
  <2>2. /\ in(config).turnIndex = turn /\ in(config).config = config
        /\ in(config).lastTriggerTurn = lastTriggerTurn
    BY DEF Evaluation
  <2> HIDE DEF in
  <2>3. QED
    BY <2>1, <2>2 DEF Requests
<1>3. CASE TimerFires \/ Host \/ UNCHANGED vars
             \/ \E call \in outstanding : Settles(call)
  BY <1>3 DEF Host, TimerFires, TimerStale, TimerDefers, TimerGivesUp,
    TimerTriggers, AgentEnd, UserPrompt, ManualCompact, CoreCompacts,
    SessionShutdown, SessionStart, HostBusyOrIdle, Settles, SessionCompact,
    OnComplete, OnError, NoteCompleted, vars
<1>4. QED
  BY <1>1, <1>2, <1>3 DEF Next, Extension

LEMMA TurnRecordedStep ==
  ASSUME TypeOK, TurnRecorded, [Next]_vars
  PROVE  TurnRecorded'
<1>1. CASE UNCHANGED <<lastTriggerTurn, asked>>
  BY <1>1 DEF TurnRecorded
<1>2. CASE \E in : Requests(in)
  <2> PICK in : Requests(in)
    BY <1>2
  <2>1. asked' = [no |-> asked.no + 1, run |-> in.turnIndex]
        /\ lastTriggerTurn' = in.turnIndex
    BY DEF Requests, Asks
  <2>2. asked.no \in Nat
    BY DEF TypeOK
  <2>3. asked'.no # 0 /\ asked'.run = in.turnIndex
    BY <2>1, <2>2
  <2>4. QED
    BY <2>1, <2>3 DEF TurnRecorded
<1>3. QED
  BY <1>1, <1>2, RequestSteps

LEMMA CooldownStep ==
  ASSUME TypeOK, TurnRecorded, [Next]_vars, asked'.no > asked.no,
         asked.no > 0, lastCompactionReason' # "emergency-near-limit"
  PROVE  \E config \in Configs :
           asked'.run - asked.run >= config.minTurnsBetweenCompacts
<1>1. asked.no \in Nat /\ asked.run \in Nat /\ agentTurnIndex \in Nat
  BY DEF TypeOK
<1>2. PICK in : Requests(in)
  BY <1>1, RequestSteps
<1>3. /\ in.lastTriggerTurn = asked.run /\ asked'.run = in.turnIndex
      /\ in.turnIndex \in Nat
  BY <1>1, <1>2 DEF TurnRecorded, Requests, Asks
<1>4. ~CoolingDown(in)
  BY <1>2, CompactsAfterCooldown DEF Requests
<1>5. in.config \in Configs /\ in.config.minTurnsBetweenCompacts \in Nat
  BY <1>2, ConstantsAssumption DEF NormalConfig, IntegerFields, Requests
<1>6. in.turnIndex - in.lastTriggerTurn >= in.config.minTurnsBetweenCompacts
  BY <1>1, <1>3, <1>4, <1>5 DEF CoolingDown, Null
<1>7. QED
  BY <1>3, <1>5, <1>6

(* Of two requests in a row the second, if it is made below the emergency  *)
(* band, keeps the cooldown, whichever handlers made them and whatever     *)
(* came between: the turn that is stored is always that of the last one.   *)
THEOREM CooldownIsKept == Spec => CooldownKept
<1>1. Init => TurnRecorded
  BY DEF Init, TurnRecorded
<1>2. TypeOK /\ TurnRecorded /\ [Next]_vars => TurnRecorded'
  BY TurnRecordedStep
<1>3. TypeOK /\ TurnRecorded /\ [Next]_vars =>
        [ /\ asked'.no > asked.no /\ asked.no > 0
          /\ lastCompactionReason' # "emergency-near-limit"
          => \E config \in Configs :
               asked'.run - asked.run >= config.minTurnsBetweenCompacts ]_vars
  BY CooldownStep
<1>4. QED
  BY <1>1, <1>2, <1>3, TypeCorrect, PTL DEF Spec, CooldownKept

-----------------------------------------------------------------------------
(* The prompts *)

(* A call made for no prompt holds none.                                   *)
LEMMA StartWithoutPrompt ==
  ASSUME NEW p \in Prompts, NEW by, NEW reason, NEW asOf,
         StartCompaction(by, reason, None, asOf)
  PROVE  Held(p)' = Held(p)
<1> DEFINE new == [id |-> calls + 1, by |-> by, reason |-> reason,
                   prompt |-> None, asOf |-> asOf, emitted |-> FALSE]
<1>1. outstanding' = outstanding \cup {new}
  BY DEF StartCompaction
<1>2. new.prompt # p
  BY ConstantsAssumption
<1>3. QED
  BY <1>1, <1>2 DEF Held

OnePlace(p) ==
  /\ delivered[p] <= 1
  /\ Waits(p) => Held(p) = {} /\ delivered[p] = 0
  /\ Held(p) # {} => delivered[p] = 0
  /\ \A c1, c2 \in Held(p) : c1 = c2
  /\ p \in sent <=> (Waits(p) \/ Held(p) # {} \/ delivered[p] = 1)

LEMMA PromptKept ==
  ASSUME NEW p \in Prompts, OnePlace(p), Held(p)' = Held(p),
         UNCHANGED <<inputHandler, promptVars>>
  PROVE  OnePlace(p)'
BY DEF OnePlace, Waits, promptVars

LEMMA PromptUserStep ==
  ASSUME TypeOK, NEW p \in Prompts, OnePlace(p), UserPrompt
  PROVE  OnePlace(p)'
<1> USE DEF UserPrompt, Deliver, OnePlace, compactVars
<1>1. Held(p)' = Held(p)
  BY DEF Held
<1>2. inputHandler = None
  OBVIOUS
<1>3. PICK q \in Prompts \ sent :
        /\ sent' = sent \cup {q}
        /\ \/ Deliver(q) /\ UNCHANGED inputHandler
           \/ /\ \E tokens \in KnownUsage :
                   inputHandler' = [prompt |-> q, tokens |-> tokens]
              /\ UNCHANGED delivered
  OBVIOUS
<1>4. delivered \in [Prompts -> Nat]
  BY DEF TypeOK
<1>5. CASE Deliver(q) /\ UNCHANGED inputHandler
  <2>1. delivered'[p] = IF p = q THEN delivered[p] + 1 ELSE delivered[p]
    BY <1>4, <1>5
  <2>2. ~Waits(p) /\ ~Waits(p)'
    BY <1>2, <1>5 DEF Waits
  <2>3. p = q => Held(p) = {} /\ delivered[p] = 0
    BY <1>4
  <2>4. QED
    BY <1>1, <1>3, <2>1, <2>2, <2>3
<1>6. CASE /\ \E tokens \in KnownUsage :
                inputHandler' = [prompt |-> q, tokens |-> tokens]
           /\ UNCHANGED delivered
  <2>1. PICK tokens \in KnownUsage :
          inputHandler' = [prompt |-> q, tokens |-> tokens]
    BY <1>6
  <2>2. inputHandler' # None
    <3>1. inputHandler' \in InputHandler
      BY <2>1 DEF InputHandler, KnownUsage
    <3>2. QED
      BY <3>1, NoneAssumption
  <2>3. Waits(p)' <=> p = q
    BY <2>1, <2>2 DEF Waits
  <2>4. p = q => Held(p) = {} /\ delivered[p] = 0 /\ ~Waits(p)
    BY <1>4
  <2>5. ~Waits(p)
    BY <1>2 DEF Waits
  <2>6. QED
    BY <1>1, <1>3, <1>6, <2>3, <2>4, <2>5
<1>7. QED
  BY <1>3, <1>5, <1>6

LEMMA PromptInputStep ==
  ASSUME TypeOK, NEW p \in Prompts, OnePlace(p), InputResumes
  PROVE  OnePlace(p)'
<1> DEFINE q == inputHandler.prompt
<1> USE DEF compactVars
<1>1. /\ inputHandler # None /\ inputHandler' = None /\ sent' = sent
      /\ q \in Prompts
  BY DEF InputResumes, TypeOK, InputHandler
<1>2. (Waits(p) <=> p = q) /\ ~Waits(p)'
  BY <1>1 DEF Waits
<1>3. delivered \in [Prompts -> Nat]
  BY DEF TypeOK
<1> HIDE DEF q
<1>4. CASE Deliver(q) /\ UNCHANGED outstanding
  <2>1. delivered'[p] = IF p = q THEN delivered[p] + 1 ELSE delivered[p]
    BY <1>3, <1>4 DEF Deliver
  <2>2. Held(p)' = Held(p)
    BY <1>4 DEF Held
  <2>3. QED
    BY <1>1, <1>2, <2>1, <2>2 DEF OnePlace
<1>5. CASE /\ \E reason : StartCompaction("prompt", reason, q, Now)
           /\ UNCHANGED delivered
  <2> PICK reason : StartCompaction("prompt", reason, q, Now)
    BY <1>5
  <2> DEFINE new == [id |-> calls + 1, by |-> "prompt", reason |-> reason,
                     prompt |-> q, asOf |-> Now, emitted |-> FALSE]
  <2>1. outstanding' = outstanding \cup {new} /\ new.prompt = q
    BY DEF StartCompaction
  <2> HIDE DEF new
  <2>2. Held(p)' = IF p = q THEN Held(p) \cup {new} ELSE Held(p)
    BY <2>1 DEF Held
  <2>3. QED
    BY <1>1, <1>2, <1>5, <2>2 DEF OnePlace
<1>6. QED
  BY <1>4, <1>5 DEF InputResumes, q

LEMMA PromptSettleStep ==
  ASSUME TypeOK, NEW p \in Prompts, OnePlace(p),
         NEW call \in outstanding, Settles(call)
  PROVE  OnePlace(p)'
<1>1. delivered \in [Prompts -> Nat] /\ call.prompt \in Prompts \cup {None}
  BY DEF TypeOK, Call
<1>2. None \notin Prompts
  BY ConstantsAssumption
<1>3. UNCHANGED <<inputHandler, sent>>
  BY DEF Settles, SessionCompact, OnComplete, OnError, handlerVars, promptVars
<1>4. Waits(p)' = Waits(p)
  BY <1>3 DEF Waits
<1>5. CASE SessionCompact(call)
  <2> DEFINE new == [call EXCEPT !.emitted = TRUE]
  <2>1. outstanding' = (outstanding \ {call}) \cup {new}
        /\ delivered' = delivered
    BY <1>5 DEF SessionCompact, promptVars
  <2>2. new.prompt = call.prompt
    BY DEF TypeOK, Call
  <2> HIDE DEF new
  <2>3. CASE call.prompt = p
    <3>1. Held(p) = {call}
      BY <2>3 DEF OnePlace, Held
    <3>2. Held(p)' = {new}
      BY <2>1, <2>2, <2>3, <3>1 DEF Held
    <3>3. QED
      BY <1>3, <1>4, <2>1, <3>1, <3>2 DEF OnePlace
  <2>4. CASE call.prompt # p
    <3>1. Held(p)' = Held(p)
      BY <2>1, <2>2, <2>4 DEF Held
    <3>2. QED
      BY <1>3, <1>4, <2>1, <3>1 DEF OnePlace
  <2>5. QED
    BY <2>3, <2>4
<1>6. CASE OnComplete(call) \/ OnError(call)
  <2>1. outstanding' = outstanding \ {call} /\ Replay(call)
    BY <1>6 DEF OnComplete, OnError
  <2>2. CASE call.prompt = p
    <3>1. Held(p) = {call}
      BY <2>2 DEF OnePlace, Held
    <3>2. Held(p)' = {}
      BY <2>1, <3>1 DEF Held
    <3>3. delivered'[p] = delivered[p] + 1
      BY <1>1, <1>2, <2>1, <2>2 DEF Replay, Deliver
    <3>4. delivered[p] = 0 /\ ~Waits(p) /\ p \in sent
      BY <3>1 DEF OnePlace
    <3>5. QED
      BY <1>3, <1>4, <3>2, <3>3, <3>4 DEF OnePlace
  <2>3. CASE call.prompt # p
    <3>1. Held(p)' = Held(p)
      BY <2>1, <2>3 DEF Held
    <3>2. delivered'[p] = delivered[p]
      BY <1>1, <2>1, <2>3 DEF Replay, Deliver
    <3>3. QED
      BY <1>3, <1>4, <3>1, <3>2 DEF OnePlace
  <2>4. QED
    BY <2>2, <2>3
<1>7. QED
  BY <1>5, <1>6 DEF Settles

LEMMA PromptStep ==
  ASSUME TypeOK, PromptInOnePlace, [Next]_vars
  PROVE  PromptInOnePlace'
<1>1. SUFFICES ASSUME NEW p \in Prompts, OnePlace(p)
               PROVE  OnePlace(p)'
  BY DEF PromptInOnePlace, OnePlace
<1> USE DEF stateVars, scheduleVars, handlerVars, compactVars
<1>2. CASE UNCHANGED <<inputHandler, outstanding, promptVars>>
  BY <1>1, <1>2, PromptKept DEF Held
<1>3. CASE UNCHANGED <<inputHandler, promptVars>>
           /\ \E by, reason, asOf : StartCompaction(by, reason, None, asOf)
  BY <1>1, <1>3, PromptKept, StartWithoutPrompt
<1>4. CASE TimerFires
  BY <1>2, <1>3, <1>4
  DEF TimerFires, TimerStale, TimerDefers, TimerGivesUp, TimerTriggers
<1>5. CASE ManualCompact
  BY <1>2, <1>3, <1>5 DEF ManualCompact
<1>6. CASE UserPrompt \/ InputResumes
  BY <1>1, <1>6, PromptUserStep, PromptInputStep
<1>7. CASE \E call \in outstanding : Settles(call)
  BY <1>1, <1>7, PromptSettleStep
<1>8. CASE AgentEnd \/ AgentEndResumes \/ CoreCompacts \/ SessionShutdown
             \/ SessionStart \/ HostBusyOrIdle \/ UNCHANGED vars
  BY <1>2, <1>8 DEF AgentEnd, AgentEndResumes, CoreCompacts, SessionShutdown,
                    SessionStart, HostBusyOrIdle, vars
<1>9. QED
  BY <1>4, <1>5, <1>6, <1>7, <1>8 DEF Next, Settles, Extension, Host

(* A prompt is never lost and never handed over twice, whatever becomes of *)
(* the compaction it is held for: a prompt that has not reached the agent  *)
(* is with its handler or with exactly one outstanding call.               *)
THEOREM PromptsInOnePlace == Spec => []PromptInOnePlace
<1>1. Init => PromptInOnePlace
  BY DEF Init, PromptInOnePlace, Waits, Held
<1>2. TypeOK /\ PromptInOnePlace /\ [Next]_vars => PromptInOnePlace'
  BY PromptStep
<1>3. QED
  BY <1>1, <1>2, TypeCorrect, PTL DEF Spec

-----------------------------------------------------------------------------
(* The abstract gate *)

(* Delivering a submitted prompt that is not delivered yet is a release.   *)
LEMMA DeliverReleases ==
  ASSUME TypeOK, NEW p \in Prompts, p \in sent, delivered[p] = 0, Deliver(p),
         UNCHANGED sent
  PROVE  Gate!Release(p)
BY DEF TypeOK, Deliver, Gate!Release, Gate!HandOver

LEMMA GateStep ==
  ASSUME TypeOK, PromptInOnePlace, [Next]_vars
  PROVE  [Gate!GateNext]_Gate!gateVars
<1> USE DEF Gate!gateVars, stateVars, scheduleVars, handlerVars, compactVars,
            promptVars
<1>1. CASE UNCHANGED promptVars
  BY <1>1
<1>2. CASE UserPrompt
  <2>1. PICK q \in Prompts \ sent :
          /\ sent' = sent \cup {q}
          /\ Deliver(q) \/ UNCHANGED delivered
    BY <1>2 DEF UserPrompt
  <2>2. delivered[q] = 0
    BY <2>1 DEF PromptInOnePlace, TypeOK
  <2>3. Gate!Accept(q)
    BY <2>1, <2>2 DEF TypeOK, Deliver, Gate!Accept, Gate!HandOver
  <2>4. QED
    BY <2>3 DEF Gate!GateNext
<1>3. CASE InputResumes
  <2> DEFINE q == inputHandler.prompt
  <2>1. q \in Prompts /\ Waits(q)
    BY <1>3 DEF InputResumes, TypeOK, InputHandler, Waits
  <2>2. delivered[q] = 0 /\ q \in sent
    BY <2>1 DEF PromptInOnePlace
  <2>3. UNCHANGED sent /\ (Deliver(q) \/ UNCHANGED delivered)
    BY <1>3 DEF InputResumes
  <2>4. QED
    BY <2>1, <2>2, <2>3, DeliverReleases DEF Gate!GateNext
<1>4. CASE \E call \in outstanding : Settles(call)
  <2> PICK call \in outstanding : Settles(call)
    BY <1>4
  <2> DEFINE q == call.prompt
  <2>1. UNCHANGED sent /\ (Replay(call) \/ UNCHANGED delivered)
    BY DEF Settles, SessionCompact, OnComplete, OnError
  <2>2. CASE q \in Prompts
    <3>1. call \in Held(q)
      BY DEF Held
    <3>2. delivered[q] = 0 /\ q \in sent
      BY <2>2, <3>1 DEF PromptInOnePlace
    <3>3. Deliver(q) \/ UNCHANGED delivered
      BY <2>1 DEF Replay
    <3>4. QED
      BY <2>1, <2>2, <3>2, <3>3, DeliverReleases DEF Gate!GateNext
  <2>3. CASE q = None
    BY <2>1, <2>3 DEF Replay
  <2>4. QED
    BY <2>2, <2>3 DEF TypeOK, Call
<1>5. (TimerFires \/ AgentEnd \/ AgentEndResumes \/ ManualCompact
        \/ CoreCompacts \/ SessionShutdown \/ SessionStart \/ HostBusyOrIdle
        \/ UNCHANGED vars) => UNCHANGED promptVars
  BY DEF TimerFires, TimerStale, TimerDefers, TimerGivesUp, TimerTriggers,
         AgentEnd, AgentEndResumes, ManualCompact, CoreCompacts,
         SessionShutdown, SessionStart, HostBusyOrIdle, vars
<1>6. QED
  BY <1>1, <1>2, <1>3, <1>4, <1>5 DEF Next, Settles, Extension, Host

(* The extension implements the safety part of the prompt gate: every step *)
(* accepts a prompt, releases one that is not delivered yet, or concerns   *)
(* no prompt.                                                              *)
THEOREM ImplementsGate == Spec => Gate!GateSafety
<1>1. Init => Gate!GateInit
  BY DEF Init, Gate!GateInit
<1>2. TypeOK /\ PromptInOnePlace /\ [Next]_vars
        => [Gate!GateNext]_Gate!gateVars
  BY GateStep
<1>3. QED
  BY <1>1, <1>2, TypeCorrect, PromptsInOnePlace, PTL
  DEF Spec, Gate!GateSafety
=============================================================================
