------------------------- MODULE MCSummaryRequest -------------------------
(***************************************************************************)
(* Values for the constants of SummaryRequest: windows that are unknown,   *)
(* too small for the smallest prompt, tight and ample; a previous summary  *)
(* that is absent, fits its share, and does not fit; instructions without  *)
(* and with a long custom focus.                                           *)
(***************************************************************************)
EXTENDS SummaryRequest

MCSettings ==
  { [modelContextWindow |-> window, reserveTokens |-> 16384,
     modelMaxTokens |-> model.max, mode |-> model.mode,
     previousSummary |-> previous, fixedPromptText |-> fixed, escapes |-> 100] :
      model \in {[max |-> 4096, mode |-> "standard"],
                 [max |-> 0, mode |-> "aggressive"]},
      window \in {0, 7200, 16384}, previous \in {0, 900, 30000},
      fixed \in {4300, 6000} }
=============================================================================
