------------------------------ MODULE MCSummary ------------------------------
(***************************************************************************)
(* Small instances of Summary: a job for each way through the handler and  *)
(* answers on both sides of every check.                                   *)
(***************************************************************************)
EXTENDS Summary

GoodPrior  == [sound |-> TRUE, splitTurn |-> FALSE, tokens |-> 120]
BadPrior   == [sound |-> FALSE, splitTurn |-> FALSE, tokens |-> 120]
SplitPrior == [sound |-> TRUE, splitTurn |-> TRUE, tokens |-> 120]

(* 1,500 tokens of context, of which a summary may keep 900. The model is  *)
(* asked for at most 1,500 in standard mode and 1,031 in aggressive mode,  *)
(* and for 937 more where there is a turn prefix.                          *)
History ==
  [history |-> TRUE, prefix |-> FALSE, malformed |-> "none",
   prior |-> GoodPrior, reason |-> "threshold", willRetry |-> FALSE,
   directive |-> None, focus |-> FALSE, keptEntry |-> TRUE,
   filesListable |-> TRUE, fileTokens |-> 10, reserve |-> 1875,
   modelMax |-> 4096, tokensBefore |-> 1500]

Split    == [History EXCEPT !.prefix = TRUE, !.focus = TRUE]
TurnOnly == [Split EXCEPT !.history = FALSE]

MCJobs ==
  {History, Split,
   [History EXCEPT !.history = FALSE],
   [History EXCEPT !.malformed = "history", !.willRetry = TRUE],
   [TurnOnly EXCEPT !.prior = BadPrior],
   [TurnOnly EXCEPT !.prior = SplitPrior],
   [Split EXCEPT !.malformed = "prefix", !.directive = "standard"],
   [History EXCEPT !.reason = "overflow", !.keptEntry = FALSE]}

MCTexts ==
  {[sound |-> TRUE, splitTurn |-> FALSE, tokens |-> 400],
   [sound |-> TRUE, splitTurn |-> FALSE, tokens |-> 1600],
   [sound |-> FALSE, splitTurn |-> FALSE, tokens |-> 0]}

SplitJobs == {[TurnOnly EXCEPT !.prior = SplitPrior]}
=============================================================================
