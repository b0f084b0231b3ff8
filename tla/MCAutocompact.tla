--------------------------- MODULE MCAutocompact ---------------------------
(***************************************************************************)
(* Values for the constants of Autocompact. A window of 10000 tokens with  *)
(* reserve 2000, soft buffer 2000 and emergency buffer 500 has its soft    *)
(* threshold at 6000 and its emergency threshold at 7500. Requests of one  *)
(* agent run are too close together, those of two in a row are not.        *)
(***************************************************************************)
EXTENDS Autocompact

MCWindow == 10000

QuietConfig ==
  [DefaultConfig EXCEPT
     !.reserveTokens = 2000, !.softBufferTokens = 2000,
     !.emergencyBufferTokens = 500, !.minDeltaTokens = 100000,
     !.minGrowthStepTokens = 100000, !.minToolResultTokens = 100000,
     !.minTurnsBetweenCompacts = 1]

OneConfig == {QuietConfig}

(* A growth step is reached by an agent run and not by a short prompt.     *)
GrowthConfigs ==
  {[QuietConfig EXCEPT !.minGrowthStepTokens = 1500,
                       !.sustainedGrowthTurns = 2]}

(* Nothing to do; the soft threshold, where the cooldown counts; the       *)
(* emergency band, where it does not.                                      *)
SoftUsage   == {1000, 7000}
TwoUsages   == {1000, 8000}
GrowthUsage == {2000, 4000, 5800}

MCLoads == {[count |-> 0, tokens |-> 0]}
=============================================================================
