------------------------------- MODULE Summary -------------------------------
(***************************************************************************)
(* The summary side of the extension: what handleBeforeCompact does with a *)
(* session_before_compact event (orchestration.ts), the pipeline of one    *)
(* summary attempt (summary-pipeline.ts) with the lifecycle automaton that *)
(* guards its order (lifecycle-state-machine.ts), the request to the       *)
(* summary model with its timeout and abort (summary-provider.ts), and the *)
(* verification of the summary before it is handed to the host             *)
(* (compaction-workflow.ts).                                               *)
(*                                                                         *)
(* A step runs from one await to the next. The filters of the pipeline     *)
(* that do not wait are functions from context to context, composed within *)
(* a step. A text is what the checks see of it: whether it passes the      *)
(* structure guard, whether it has the heading of a split turn, its size.  *)
(***************************************************************************)
EXTENDS Integers, Sequences, FiniteSets

CONSTANTS
  None,            \* no job, mode, text, verdict, request or category
  Events,          \* the session_before_compact events
  Jobs,            \* what a compatible event may carry
  Texts,           \* what the summary model may answer, without file tags
  MaxDiagnostics   \* MAX_LIFECYCLE_DIAGNOSTICS

Modes    == {"standard", "focused", "aggressive"}
Failures == {"empty", "provider-error", "timeout", "aborted",
             "invalid-structure", "too-long", "invalid-result",
             "verification-failed"}

(* A text of no tokens is one that consisted of file tags alone.           *)
Text == [sound : BOOLEAN, splitTurn : BOOLEAN, tokens : Nat]

Job ==
  [history : BOOLEAN, prefix : BOOLEAN,  \* are there messages of each kind
   malformed : {"none", "history", "prefix"},  \* which cannot be serialised
   prior : Text,                         \* the summary used without history
   reason : {"manual", "overflow", "threshold"}, willRetry : BOOLEAN,
   directive : Modes \cup {None}, focus : BOOLEAN,  \* custom instructions
   keptEntry : BOOLEAN,                  \* firstKeptEntryId is not empty
   filesListable : BOOLEAN,              \* no path breaks the file tags
   fileTokens : Nat, reserve : Nat, modelMax : Nat, tokensBefore : Nat]

(* A request is cut when its signal has been aborted, by whomever.         *)
Request == [cut : BOOLEAN, timedOut : BOOLEAN]

ASSUME JobsAssumption ==
  /\ Jobs \subseteq Job
  /\ \A job \in Jobs : /\ job.malformed = "history" => job.history
                       /\ job.malformed = "prefix" => job.prefix
  /\ None \notin Jobs /\ None \notin Text /\ None \notin Request
  /\ None \notin Modes \cup Failures \cup {"ok", "thrown"}

ASSUME TextsAssumption ==
  /\ Texts \subseteq Text
  /\ \A text \in Texts : text.sound => text.tokens > 0

ASSUME BoundAssumption == MaxDiagnostics \in Nat \ {0}

VARIABLES
  run,              \* per event: the handler's progress and its context
  request,          \* per event: the request the model has not answered
  aborted,          \* the host has aborted the event's signal
  compactionCount,
  diagnostics,      \* state.lifecycleDiagnostics
  ended             \* observer: the events in the order they were decided

vars == <<run, request, aborted, compactionCount, diagnostics, ended>>

NewRun ==
  [stage |-> "new", job |-> None, attempt |-> 0, status |-> "idle",
   mode |-> None, history |-> None, prefix |-> None, verdict |-> None,
   generation |-> 0]

Init ==
  /\ run = [e \in Events |-> NewRun]
  /\ request = [e \in Events |-> None]
  /\ aborted = [e \in Events |-> FALSE]
  /\ compactionCount = 0
  /\ diagnostics = <<>> /\ ended = <<>>

-----------------------------------------------------------------------------
(* The lifecycle automaton: Path[i] is left by Alphabet[i] for Path[i + 1],*)
(* and every state but the last may fail.                                  *)

Path ==
  <<"idle", "observed", "authenticated", "planned", "mode-resolved",
    "history-producing", "history-produced", "history-validated",
    "turn-prefix-producing", "turn-prefix-produced", "assembled",
    "verifying", "committed", "completed">>

Alphabet ==
  <<"event-observed", "auth-resolved", "plan-built", "mode-resolved",
    "history-requested", "history-produced", "history-validated",
    "turn-prefix-requested", "turn-prefix-produced", "summary-assembled",
    "verification-started", "commit-accepted", "completed">>

Statuses == {Path[i] : i \in DOMAIN Path} \cup {"failed"}

Moves(status, event) ==
  {i \in DOMAIN Alphabet : Path[i] = status /\ Alphabet[i] = event}

Throw(c) == [c EXCEPT !.verdict = "thrown"]

(* A transition the automaton does not have throws.                        *)
Advance(c, event) ==
  IF c.verdict = "thrown" THEN c
  ELSE IF Moves(c.status, event) = {} THEN Throw(c)
  ELSE [c EXCEPT !.status = Path[(CHOOSE i \in Moves(c.status, event) : TRUE) + 1]]

Fail(c, reason) ==
  IF c.verdict = "thrown" THEN c
  ELSE IF c.status = "completed" THEN Throw(c)
  ELSE [c EXCEPT !.status = "failed", !.verdict = reason]

-----------------------------------------------------------------------------
(* Modes and budgets *)

SummaryMode(job) ==
  IF job.directive # None THEN job.directive
  ELSE IF job.reason = "overflow" \/ job.willRetry THEN "aggressive"
  ELSE IF job.focus THEN "focused" ELSE "standard"

(* Fault: the retry resolves its mode again.                               *)
AttemptModeResolved(c) == SummaryMode(c.job)

AttemptMode(c) == IF c.attempt = 2 THEN "aggressive" ELSE SummaryMode(c.job)

Least(a, b)    == IF a <= b THEN a ELSE b
Greatest(a, b) == IF a >= b THEN a ELSE b

CappedByModel(job, tokens) ==
  IF job.modelMax > 0 THEN Least(tokens, job.modelMax) ELSE tokens

HistoryBudget(job, mode) ==
  CappedByModel(job, IF mode = "aggressive" THEN (11 * job.reserve) \div 20
                     ELSE (4 * job.reserve) \div 5)

PrefixBudget(job) ==
  IF job.prefix THEN CappedByModel(job, job.reserve \div 2) ELSE 0

MaxTokens(c) == HistoryBudget(c.job, c.mode) + PrefixBudget(c.job)

(* Fault: the larger of the two budgets applies.                           *)
MaxAllowedTokensLoose(c) ==
  Greatest(128, Greatest(MaxTokens(c),
                         Greatest(512, (3 * c.job.tokensBefore) \div 5)))

MaxAllowedTokens(c) ==
  Greatest(128, Least(MaxTokens(c),
                      Greatest(512, (3 * c.job.tokensBefore) \div 5)))

-----------------------------------------------------------------------------
(* The pipeline of one attempt *)

(* Fault: a filter works on although the attempt has its result.           *)
FilterAlways(c, next) == IF c.verdict = "thrown" THEN c ELSE next

Filter(c, next) == IF c.verdict # None THEN c ELSE next

ResolveMode(c) ==
  IF c.job.malformed = "history" THEN Throw(c)
  ELSE [Advance(c, "mode-resolved") EXCEPT !.mode = AttemptMode(c)]

RequestHistory(c) ==
  LET producing == Advance(c, "history-requested") IN
  Filter(c, IF c.job.history THEN [producing EXCEPT !.stage = "history"]
            ELSE [Advance(producing, "history-produced")
                    EXCEPT !.history = c.job.prior])

ValidateHistory(c) ==
  Filter(c, IF c.history = None THEN Fail(c, "invalid-result")
            ELSE IF c.history.sound THEN Advance(c, "history-validated")
            ELSE Fail(c, "invalid-structure"))

NoPrefix == [sound |-> TRUE, splitTurn |-> FALSE, tokens |-> 0]

RequestPrefix(c) ==
  LET producing == Advance(c, "turn-prefix-requested") IN
  Filter(c, IF ~c.job.prefix
            THEN [Advance(producing, "turn-prefix-produced")
                    EXCEPT !.prefix = NoPrefix]
            ELSE IF c.job.malformed = "prefix" THEN Throw(producing)
            ELSE [producing EXCEPT !.stage = "prefix"])

(* The history, then the prefix under its heading unless it is blank, then *)
(* the file tags.                                                          *)
Assembled(c) ==
  [sound     |-> c.history.sound /\ (c.prefix.tokens > 0 => c.prefix.sound),
   splitTurn |-> c.history.splitTurn \/ c.prefix.tokens > 0,
   tokens    |-> c.history.tokens + c.prefix.tokens + c.job.fileTokens]

Issues(c) ==
  LET summary == Assembled(c) IN
  {issue \in {"invalid-structure", "too-long", "missing-file-list",
              "missing-turn-prefix-context"} :
     CASE issue = "invalid-structure" -> ~summary.sound
       [] issue = "too-long" -> summary.tokens > MaxAllowedTokens(c)
       [] issue = "missing-file-list" -> ~c.job.filesListable
       [] issue = "missing-turn-prefix-context" ->
            c.job.prefix /\ ~summary.splitTurn}

VerifyAndCommit(c) ==
  LET verifying == Advance(Advance(c, "summary-assembled"),
                           "verification-started")
      issues == Issues(c) IN
  Filter(c,
    IF "too-long" \in issues THEN Fail(verifying, "too-long")
    ELSE IF issues # {} THEN Fail(verifying, "verification-failed")
    ELSE IF ~c.job.keptEntry THEN Fail(verifying, "invalid-result")
    ELSE [Advance(Advance(verifying, "commit-accepted"), "completed")
            EXCEPT !.verdict = "ok"])

(* Each of these runs the filters up to the next request, or to the end of *)
(* the attempt.                                                            *)
FromPrefix(c) == VerifyAndCommit(c)

FromHistory(c) ==
  LET next == RequestPrefix(ValidateHistory(c)) IN
  IF next.stage = "prefix" /\ next.verdict = None THEN next
  ELSE FromPrefix(next)

FromStart(c) ==
  LET next == RequestHistory(ResolveMode(c)) IN
  IF next.stage = "history" /\ next.verdict = None THEN next
  ELSE FromHistory(next)

NewAttempt(c, n) ==
  FromStart([c EXCEPT !.stage = "running", !.attempt = n,
                      !.status = "planned", !.mode = None, !.history = None,
                      !.prefix = None, !.verdict = None])

(* Fault: a request that timed out is tried again.                         *)
RetryableEvenTimeout(c) ==
  /\ c.verdict \in {"empty", "invalid-structure", "too-long", "timeout"}
  /\ c.mode # "aggressive"

(* shouldRetrySummaryFailure *)
Retryable(c) ==
  /\ c.verdict \in {"empty", "invalid-structure", "too-long"}
  /\ c.mode # "aggressive"

WithRetry(c) ==
  IF c.attempt = 1 /\ Retryable(c) THEN NewAttempt(c, 2) ELSE c

-----------------------------------------------------------------------------
(* The end of an event *)

(* What goes into the diagnostics. The catch block does not know whether   *)
(* there was a retry.                                                      *)
Category(verdict) ==
  CASE verdict = "empty" -> "empty-summary"
    [] verdict \in {"invalid-structure", "too-long"} -> "invalid-summary"
    [] OTHER -> verdict

Outcome(terminal, category, retries) ==
  [terminal |-> terminal, category |-> category, retries |-> retries]

(* Fault: an abort is recorded as a completed compaction.                  *)
AttemptOutcomeAbortCompletes(c, isAborted) ==
  CASE c.verdict \in {"ok", "aborted"} ->
         Outcome("completed", None, c.attempt - 1)
    [] c.verdict = "thrown" ->
         IF isAborted THEN Outcome("fallback", "aborted", 0)
         ELSE Outcome("failed", "unexpected-error", 0)
    [] OTHER -> Outcome("fallback", Category(c.verdict), c.attempt - 1)

AttemptOutcome(c, isAborted) ==
  CASE c.verdict = "ok" -> Outcome("completed", None, c.attempt - 1)
    [] c.verdict = "thrown" ->
         IF isAborted THEN Outcome("fallback", "aborted", 0)
         ELSE Outcome("failed", "unexpected-error", 0)
    [] OTHER -> Outcome("fallback", Category(c.verdict), c.attempt - 1)

LastOf(seq, n) == IF Len(seq) > n THEN SubSeq(seq, Len(seq) - n + 1, Len(seq))
                  ELSE seq

(* Fault: the history is cut at its new end.                               *)
AppendDiagnosticKeepsOld(e, outcome) ==
  diagnostics' =
    LET all == Append(diagnostics, [event |-> e, outcome |-> outcome]) IN
    SubSeq(all, 1, Least(Len(all), MaxDiagnostics))

AppendDiagnostic(e, outcome) ==
  diagnostics' = LastOf(Append(diagnostics, [event |-> e, outcome |-> outcome]),
                        MaxDiagnostics)

(* Fault: the request is not cleaned up when it has ended.                 *)
EndsWithoutCleanup(e, c, outcome) ==
  /\ run' = [run EXCEPT ![e] = [c EXCEPT !.stage = "flush"]]
  /\ UNCHANGED request
  /\ AppendDiagnostic(e, outcome)
  /\ ended' = Append(ended, e)

(* The handler's finally block still has to read the configuration and to  *)
(* save the diagnostics before the host gets the result.                   *)
Ends(e, c, outcome) ==
  /\ run' = [run EXCEPT ![e] = [c EXCEPT !.stage = "flush"]]
  /\ request' = [request EXCEPT ![e] = None]
  /\ AppendDiagnostic(e, outcome)
  /\ ended' = Append(ended, e)

(* Fault: the signal is only listened to from now on.                      *)
SendsRequestListensOnly(e) ==
  request' = [request EXCEPT ![e] = [cut |-> FALSE, timedOut |-> FALSE]]

(* A signal that is already aborted cuts the request as it is sent.        *)
SendsRequest(e) ==
  request' = [request EXCEPT ![e] = [cut |-> aborted[e], timedOut |-> FALSE]]

(* The attempt has come to c: it waits for the model or it is decided.     *)
Proceeds(e, c) ==
  \/ /\ c.verdict = None
     /\ run' = [run EXCEPT ![e] = c]
     /\ SendsRequest(e)
     /\ UNCHANGED <<diagnostics, ended>>
  \/ /\ c.verdict # None
     /\ Ends(e, c, AttemptOutcome(c, aborted[e]))

-----------------------------------------------------------------------------
(* The handler *)

BeforeCompact(e) ==
  /\ run[e].stage = "new"
  /\ \/ Ends(e, run[e], Outcome("skipped", "incompatible-event", 0))
     \/ \E job \in Jobs :
          \/ Ends(e, [run[e] EXCEPT !.job = job],
                  Outcome("skipped", "missing-model", 0))
          \/ /\ run' = [run EXCEPT ![e].job = job, ![e].stage = "auth"]
             /\ UNCHANGED <<request, diagnostics, ended>>
  /\ UNCHANGED <<aborted, compactionCount>>

AuthResolves(e) ==
  /\ run[e].stage = "auth"
  /\ \/ Ends(e, run[e], Outcome("failed", "unexpected-error", 0))
     \/ Ends(e, run[e], Outcome("skipped", "missing-auth", 0))
     \/ /\ ~run[e].job.history /\ ~run[e].job.prefix
        /\ Ends(e, run[e], Outcome("skipped", "empty-input", 0))
     \/ /\ run[e].job.history \/ run[e].job.prefix
        /\ run' = [run EXCEPT ![e].stage = "preprocess"]
        /\ UNCHANGED <<request, diagnostics, ended>>
  /\ UNCHANGED <<aborted, compactionCount>>

(* The plan is built and the first attempt begins. The generation is the   *)
(* one both attempts send to a coordinating proxy.                         *)
Preprocessed(e) ==
  /\ run[e].stage = "preprocess"
  /\ \/ Ends(e, run[e], Outcome("fallback", "preprocessing-failed", 0))
     \/ Proceeds(e, WithRetry(NewAttempt(
          [run[e] EXCEPT !.generation = compactionCount + 1], 1)))
  /\ UNCHANGED <<aborted, compactionCount>>

-----------------------------------------------------------------------------
(* The request to the summary model *)

Answered(c, text) ==
  IF c.stage = "history"
  THEN FromHistory([Advance(c, "history-produced")
                      EXCEPT !.history = text, !.stage = "running"])
  ELSE FromPrefix([Advance(c, "turn-prefix-produced")
                     EXCEPT !.prefix = text, !.stage = "running"])

(* The model's library rejects a request whose signal is aborted, so an    *)
(* answer comes only while it is not.                                      *)
ModelAnswers(e) ==
  /\ request[e] # None /\ ~request[e].cut
  /\ \/ \E text \in Texts : Proceeds(e, WithRetry(Answered(run[e], text)))
     \/ Proceeds(e, WithRetry(Fail(run[e], "empty")))
  /\ UNCHANGED <<aborted, compactionCount>>

ModelFails(e) ==
  /\ request[e] # None /\ ~request[e].cut
  /\ Proceeds(e, WithRetry(Fail(run[e], "provider-error")))
  /\ UNCHANGED <<aborted, compactionCount>>

CutReason(req) == IF req.timedOut THEN "timeout" ELSE "aborted"

RequestRejected(e) ==
  /\ request[e] # None /\ request[e].cut
  /\ Proceeds(e, WithRetry(Fail(run[e], CutReason(request[e]))))
  /\ UNCHANGED <<aborted, compactionCount>>

(* Fault: the timeout is noted and the request left alone.                 *)
RequestTimesOutOnPaper(e) ==
  /\ request[e] # None /\ ~request[e].timedOut
  /\ request' = [request EXCEPT ![e].timedOut = TRUE]
  /\ UNCHANGED <<run, aborted, compactionCount, diagnostics, ended>>

RequestTimesOut(e) ==
  /\ request[e] # None /\ ~request[e].timedOut
  /\ request' = [request EXCEPT ![e] = [cut |-> TRUE, timedOut |-> TRUE]]
  /\ UNCHANGED <<run, aborted, compactionCount, diagnostics, ended>>

-----------------------------------------------------------------------------
(* The host *)

HostAborts(e) ==
  /\ run[e].stage \notin {"new", "returned", "done"} /\ ~aborted[e]
  /\ aborted' = [aborted EXCEPT ![e] = TRUE]
  /\ request' = IF request[e] = None THEN request
                ELSE [request EXCEPT ![e].cut = TRUE]
  /\ UNCHANGED <<run, compactionCount, diagnostics, ended>>

HandlerReturns(e) ==
  /\ run[e].stage = "flush"
  /\ run' = [run EXCEPT ![e].stage = "returned"]
  /\ UNCHANGED <<request, aborted, compactionCount, diagnostics, ended>>

(* Fault: only the extension's own summaries are counted.                  *)
SessionCompactOwnOnly(e) ==
  /\ run[e].stage = "returned"
  /\ run' = [run EXCEPT ![e].stage = "done"]
  /\ compactionCount' = IF run[e].verdict = "ok" THEN compactionCount + 1
                        ELSE compactionCount
  /\ UNCHANGED <<request, aborted, diagnostics, ended>>

(* The host has compacted, with the extension's summary or its own.        *)
SessionCompact(e) ==
  /\ run[e].stage = "returned"
  /\ run' = [run EXCEPT ![e].stage = "done"]
  /\ compactionCount' = compactionCount + 1
  /\ UNCHANGED <<request, aborted, diagnostics, ended>>

Next ==
  \E e \in Events :
    \/ BeforeCompact(e) \/ AuthResolves(e) \/ Preprocessed(e)
    \/ ModelAnswers(e) \/ ModelFails(e) \/ RequestRejected(e)
    \/ RequestTimesOut(e) \/ HostAborts(e)
    \/ HandlerReturns(e) \/ SessionCompact(e)

Spec == Init /\ [][Next]_vars

(* Credentials are resolved or refused, preprocessing has its own limit of *)
(* time, the timeout of a request fires, a request that is cut is          *)
(* rejected, and files are read and written. The model need never answer.  *)
Fairness ==
  \A e \in Events :
    /\ WF_vars(AuthResolves(e)) /\ WF_vars(Preprocessed(e))
    /\ WF_vars(RequestTimesOut(e)) /\ WF_vars(RequestRejected(e))
    /\ WF_vars(HandlerReturns(e))

FairSpec == Spec /\ Fairness

-----------------------------------------------------------------------------
(* Properties *)

Stages == {"new", "auth", "preprocess", "history", "prefix", "flush",
           "returned", "done"}

Run ==
  [stage : Stages, job : Jobs \cup {None}, attempt : 0..2,
   status : Statuses, mode : Modes \cup {None},
   history : Text \cup {None}, prefix : Text \cup {None},
   verdict : Failures \cup {None, "ok", "thrown"}, generation : Nat]

Entry ==
  [event : Events,
   outcome : [terminal : {"skipped", "failed", "fallback", "completed"},
              category : {None, "incompatible-event", "missing-model",
                          "missing-auth", "empty-input", "empty-summary",
                          "provider-error", "timeout", "aborted",
                          "invalid-summary", "invalid-result",
                          "verification-failed", "preprocessing-failed",
                          "unexpected-error"},
              retries : 0..1]]

(* Types: in particular a handler between two steps is at an await, and    *)
(* it waits for the model exactly when a request is out.                   *)
TypeOK ==
  /\ run \in [Events -> Run]
  /\ request \in [Events -> Request \cup {None}]
  /\ aborted \in [Events -> BOOLEAN]
  /\ compactionCount \in Nat
  /\ diagnostics \in Seq(Entry) /\ ended \in Seq(Events)
  /\ \A e \in Events :
       request[e] # None <=> run[e].stage \in {"history", "prefix"}

Committed(e) == run[e].verdict = "ok"

(* The automaton refuses no transition the pipeline asks for: the only     *)
(* thing that throws is a message that cannot be serialised                *)
(* (valid-lifecycle-transition in invariants.ts).                          *)
NoInvalidTransition ==
  \A e \in Events :
    run[e].verdict = "thrown" => run[e].job.malformed # "none"

(* A summary is never committed for an event the host has aborted,         *)
(* wherever the handler was when the abort came (SECURITY.md: the          *)
(* extension returns undefined when the request is aborted).               *)
AbortNeverCommits ==
  [][\A e \in Events : Committed(e)' /\ ~Committed(e) => ~aborted[e]]_vars

(* A request that was timed out or aborted decides its event: no further   *)
(* request follows, not even the retry.                                    *)
CutEndsCompaction ==
  [][\A e \in Events :
       request[e] # None /\ request[e].cut =>
         \/ run'[e] = run[e] /\ request'[e] # None /\ request'[e].cut
         \/ run'[e].stage = "flush" /\ ~Committed(e)']_vars

(* The one retry is in aggressive mode, after an attempt that was not, and *)
(* asks for no more tokens than that attempt did.                          *)
RetryAsksForLess ==
  [][\A e \in Events :
       run[e].attempt = 1 /\ run'[e].attempt = 2 =>
         /\ run[e].mode # "aggressive" /\ run'[e].mode = "aggressive"
         /\ MaxTokens(run'[e]) <= MaxTokens(run[e])]_vars

(* A compaction is worth its while: the summary that replaces a context of *)
(* more than 512 tokens is smaller than the context.                       *)
CompactionShrinks ==
  \A e \in Events :
    Committed(e) /\ run[e].job.tokensBefore > 512 =>
      Assembled(run[e]).tokens < run[e].job.tokensBefore

(* "When a turn is split, a committed summary must include explicit        *)
(* split-turn context" (invariants.ts, of split-turn-context-preserved): it *)
(* holds a summary of the messages of that turn. The check looks for the   *)
(* heading alone, so it does not hold: see Summary_split.cfg.              *)
SplitTurnKept ==
  \A e \in Events :
    Committed(e) /\ run[e].job.prefix => run[e].prefix.tokens > 0

(* A compaction planned after another has been applied carries a larger    *)
(* generation, whoever made the earlier summary                            *)
(* (docs/CALVOPROXY_COMPACTION_CONTRACT.md: monotonic).                    *)
GenerationsAdvance ==
  [][\A e, before \in Events :
       run[e].attempt = 0 /\ run'[e].attempt > 0 /\ run[before].stage = "done"
         => run[before].generation < run'[e].generation]_vars

(* The diagnostics are the last MaxDiagnostics decisions, oldest first,    *)
(* and an entry says "completed" exactly when its event was committed.     *)
DiagnosticsTellOutcome ==
  /\ LastOf(ended, MaxDiagnostics)
       = [i \in DOMAIN diagnostics |-> diagnostics[i].event]
  /\ \A i \in DOMAIN diagnostics :
       diagnostics[i].outcome.terminal = "completed"
         <=> Committed(diagnostics[i].event)

(* Every event is answered, although the model may never be.               *)
EveryEventAnswered ==
  \A e \in Events : run[e].stage = "auth" ~> run[e].stage = "returned"
=============================================================================
