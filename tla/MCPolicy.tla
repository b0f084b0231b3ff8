------------------------------ MODULE MCPolicy ------------------------------
(***************************************************************************)
(* Values for the constants of PolicyEvaluation: settings that are absent, *)
(* below their minimum and out of order, a window below the reserve, and   *)
(* situations that make each rule of the policy the first to apply.        *)
(***************************************************************************)
EXTENDS PolicyEvaluation

Absent == [field \in IntegerFields \cup {"enabled"} |-> NoValue]

MCRawConfigs ==
  { [Absent EXCEPT !.enabled = enabled, !.reserveTokens = reserve,
                   !.softBufferTokens = soft,
                   !.emergencyBufferTokens = emergency,
                   !.rapidGrowthMinPercent = percent,
                   !.minDeltaTokens = 600] :
      enabled \in {NoValue, FALSE}, reserve \in {NoValue, 0, 2000},
      soft \in {NoValue, -5, 3000}, emergency \in {NoValue, 0, 500},
      percent \in {NoValue, 0, 150} }

MCWindows == {1000, 8000, 30000}
MCLevels  == {0, 900, 3000, 6000, 9000, 15000, 29000}

MCSituations ==
  { [previousTokens |-> previous, turnIndex |-> 5,
     consecutiveGrowthTurns |-> growth, compactInFlight |-> inFlight,
     lastTriggerTurn |-> last, toolResultTokens |-> 9000,
     toolResultsCount |-> tools] :
      previous \in {Null, 2000}, growth \in {0, 2}, inFlight \in BOOLEAN,
      last \in {Null, 4}, tools \in {0, 2} }
=============================================================================
