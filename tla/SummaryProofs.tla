---------------------------- MODULE SummaryProofs ----------------------------
(***************************************************************************)
(* Theorems about Summary, for every set of events, jobs and texts and     *)
(* every length of the diagnostics.                                        *)
(***************************************************************************)
EXTENDS Summary, TLAPS

(* What the pipeline works on while an attempt runs.                       *)
Context ==
  [stage : Stages \cup {"running"}, job : Jobs, attempt : 1..2,
   status : Statuses, mode : Modes \cup {None},
   history : Text \cup {None}, prefix : Text \cup {None},
   verdict : Failures \cup {None, "ok", "thrown"}, generation : Nat]

-----------------------------------------------------------------------------
(* The automaton *)

(* The path of the automaton visits no state twice, so an event leads from *)
(* its state to the next one and from no other                             *)
(* (lifecycle-state-machine.ts).                                           *)
LEMMA PathMoves ==
  ASSUME NEW i \in DOMAIN Alphabet
  PROVE  /\ Moves(Path[i], Alphabet[i]) = {i}
         /\ Path[i + 1] \in Statuses
         /\ Path[i] \in Statuses
<1>1. i \in 1..13 /\ DOMAIN Alphabet = 1..13 /\ DOMAIN Path = 1..14
  BY DEF Alphabet, Path
<1>2. \A j \in DOMAIN Alphabet : Path[j] = Path[i] => j = i
  BY <1>1 DEF Path
<1> QED  BY <1>1, <1>2 DEF Moves, Statuses

(* So Advance is that one transition.                                      *)
LEMMA AdvanceMoves ==
  ASSUME NEW i \in DOMAIN Alphabet, NEW c \in Context,
         c.verdict = None, c.status = Path[i]
  PROVE  Advance(c, Alphabet[i]) = [c EXCEPT !.status = Path[i + 1]]
<1>1. c.verdict # "thrown"  BY JobsAssumption
<1>2. Moves(c.status, Alphabet[i]) = {i}  BY PathMoves
<1>3. (CHOOSE j \in {i} : TRUE) = i  OBVIOUS
<1> QED  BY <1>1, <1>2, <1>3 DEF Advance

(* The transitions of one attempt, each from the state the pipeline is in  *)
(* when it asks for it.                                                    *)
LEMMA Advances ==
  ASSUME NEW c \in Context, c.verdict = None
  PROVE
    /\ c.status = "planned" =>
         Advance(c, "mode-resolved") = [c EXCEPT !.status = "mode-resolved"]
    /\ c.status = "mode-resolved" =>
         Advance(c, "history-requested") =
           [c EXCEPT !.status = "history-producing"]
    /\ c.status = "history-producing" =>
         Advance(c, "history-produced") =
           [c EXCEPT !.status = "history-produced"]
    /\ c.status = "history-produced" =>
         Advance(c, "history-validated") =
           [c EXCEPT !.status = "history-validated"]
    /\ c.status = "history-validated" =>
         Advance(c, "turn-prefix-requested") =
           [c EXCEPT !.status = "turn-prefix-producing"]
    /\ c.status = "turn-prefix-producing" =>
         Advance(c, "turn-prefix-produced") =
           [c EXCEPT !.status = "turn-prefix-produced"]
    /\ c.status = "turn-prefix-produced" =>
         Advance(c, "summary-assembled") = [c EXCEPT !.status = "assembled"]
    /\ c.status = "assembled" =>
         Advance(c, "verification-started") =
           [c EXCEPT !.status = "verifying"]
    /\ c.status = "verifying" =>
         Advance(c, "commit-accepted") = [c EXCEPT !.status = "committed"]
    /\ c.status = "committed" =>
         Advance(c, "completed") = [c EXCEPT !.status = "completed"]
<1>1. \A i \in DOMAIN Alphabet : c.status = Path[i] =>
        Advance(c, Alphabet[i]) = [c EXCEPT !.status = Path[i + 1]]
  BY AdvanceMoves
<1>2. 4..13 \subseteq DOMAIN Alphabet
  BY DEF Alphabet
<1>3. /\ Alphabet[4] = "mode-resolved" /\ Alphabet[5] = "history-requested"
      /\ Alphabet[6] = "history-produced"
      /\ Alphabet[7] = "history-validated"
      /\ Alphabet[8] = "turn-prefix-requested"
      /\ Alphabet[9] = "turn-prefix-produced"
      /\ Alphabet[10] = "summary-assembled"
      /\ Alphabet[11] = "verification-started"
      /\ Alphabet[12] = "commit-accepted" /\ Alphabet[13] = "completed"
  BY DEF Alphabet
<1>4. /\ Path[4] = "planned" /\ Path[5] = "mode-resolved"
      /\ Path[6] = "history-producing" /\ Path[7] = "history-produced"
      /\ Path[8] = "history-validated"
      /\ Path[9] = "turn-prefix-producing"
      /\ Path[10] = "turn-prefix-produced" /\ Path[11] = "assembled"
      /\ Path[12] = "verifying" /\ Path[13] = "committed"
      /\ Path[14] = "completed"
  BY DEF Path
<1>5. /\ 4 \in 4..13 /\ 5 \in 4..13 /\ 6 \in 4..13 /\ 7 \in 4..13
      /\ 8 \in 4..13 /\ 9 \in 4..13 /\ 10 \in 4..13 /\ 11 \in 4..13
      /\ 12 \in 4..13 /\ 13 \in 4..13
  OBVIOUS
<1> HIDE DEF Advance, Alphabet, Path
<1> QED
  BY <1>1, <1>2, <1>3, <1>4, <1>5

(* The states the pipeline passes through are states of the automaton.     *)
LEMMA StatusNames ==
  {"planned", "mode-resolved", "history-producing", "history-produced",
   "history-validated", "turn-prefix-producing", "turn-prefix-produced",
   "assembled", "verifying", "committed", "completed", "failed"}
    \subseteq Statuses
<1>1. \A i \in 4..14 : Path[i] \in Statuses
  BY DEF Path, Statuses
<1> QED  BY <1>1, 4 \in 4..14, 5 \in 4..14, 6 \in 4..14, 7 \in 4..14,
            8 \in 4..14, 9 \in 4..14, 10 \in 4..14, 11 \in 4..14,
            12 \in 4..14, 13 \in 4..14, 14 \in 4..14 DEF Path, Statuses

(* A failure decides an attempt that is under way.                         *)
LEMMA Fails ==
  ASSUME NEW c \in Context, c.verdict = None, c.status # "completed",
         NEW reason \in Failures
  PROVE  /\ Fail(c, reason) =
              [c EXCEPT !.status = "failed", !.verdict = reason]
         /\ Fail(c, reason) \in Context
<1>1. c.verdict # "thrown"  BY JobsAssumption
<1> QED  BY <1>1, StatusNames DEF Fail, Context

-----------------------------------------------------------------------------
(* The pipeline *)

(* What does not change between the steps of one attempt.                  *)
Kept(c, d) ==
  /\ d.job = c.job /\ d.attempt = c.attempt
  /\ d.generation = c.generation /\ d.mode = c.mode

WaitsForHistory(c) ==
  /\ c.stage = "history" /\ c.status = "history-producing"
  /\ c.job.history

(* The history is the summary made before or an answer of the model.       *)
HistoryKnown(c) == c.history \in Text /\ c.history \in {c.job.prior} \cup Texts

WaitsForPrefix(c) ==
  /\ c.stage = "prefix" /\ c.status = "turn-prefix-producing"
  /\ c.job.prefix /\ HistoryKnown(c)

CommitsVerified(c) ==
  /\ HistoryKnown(c) /\ c.prefix \in Text /\ c.mode \in Modes
  /\ Assembled(c).tokens <= MaxAllowedTokens(c)
  /\ c.job.prefix => Assembled(c).splitTurn

(* Where a run of filters may leave an attempt.                            *)
Sound(c) ==
  /\ c \in Context
  /\ c.verdict = None => /\ WaitsForHistory(c) \/ WaitsForPrefix(c)
                         /\ c.mode \in Modes /\ c.job.malformed # "history"
  /\ c.verdict = "thrown" => c.job.malformed # "none"
  /\ c.verdict = "ok" => CommitsVerified(c)

(* None is no verdict, and the kinds of verdict are disjoint.              *)
LEMMA Verdicts ==
  /\ None # "ok" /\ None # "thrown" /\ None \notin Failures
  /\ None \notin Modes /\ None \notin Text /\ None \notin Jobs
  /\ "ok" \notin Failures /\ "thrown" \notin Failures
BY JobsAssumption DEF Failures

(* The smaller and the larger of two sizes.                                *)
LEMMA Sizes ==
  /\ \A a, b \in Nat : Least(a, b) \in Nat /\ Greatest(a, b) \in Nat
  /\ \A a, b \in Nat : Least(a, b) <= b /\ Greatest(a, b) >= a
BY DEF Least, Greatest

(* What an attempt asks for is a size (computeSummaryBudget).              *)
LEMMA BudgetsAreSizes ==
  ASSUME NEW c, c.job \in Job
  PROVE  MaxTokens(c) \in Nat
<1>1. /\ c.job.tokensBefore \in Nat /\ c.job.reserve \in Nat
      /\ c.job.modelMax \in Nat
  BY DEF Job
<1>2. /\ (11 * c.job.reserve) \div 20 \in Nat
      /\ (4 * c.job.reserve) \div 5 \in Nat
      /\ c.job.reserve \div 2 \in Nat
  BY <1>1
<1>3. \A t \in Nat : CappedByModel(c.job, t) \in Nat
  BY <1>1, Sizes DEF CappedByModel
<1> QED  BY <1>2, <1>3 DEF MaxTokens, HistoryBudget, PrefixBudget

(* So is the limit its summary is held to (summary-size-policy.ts).        *)
LEMMA MaxAllowedIsSize ==
  ASSUME NEW c, c.job.tokensBefore \in Nat, MaxTokens(c) \in Nat
  PROVE  MaxAllowedTokens(c) \in Nat
<1> DEFINE part == (3 * c.job.tokensBefore) \div 5
           cap  == MaxTokens(c)
<1>1. MaxAllowedTokens(c) = Greatest(128, Least(cap, Greatest(512, part)))
  BY DEF MaxAllowedTokens
<1>2. part \in Nat /\ cap \in Nat
  OBVIOUS
<1> HIDE DEF part, cap
<1> QED  BY <1>1, <1>2 DEF Least, Greatest

(* The last filters always decide the attempt, and commit only a summary   *)
(* within its limit (compaction-workflow.ts).                              *)
LEMMA FromPrefixDecides ==
  ASSUME NEW c \in Context, c.verdict = None,
         c.status = "turn-prefix-produced",
         HistoryKnown(c), c.prefix \in Text, c.mode \in Modes
  PROVE  /\ Sound(FromPrefix(c)) /\ Kept(c, FromPrefix(c))
         /\ FromPrefix(c).verdict # None
<1> DEFINE assembled == [c EXCEPT !.status = "assembled"]
           verifying == [c EXCEPT !.status = "verifying"]
           committed == [c EXCEPT !.status = "committed"]
           completed == [c EXCEPT !.status = "completed"]
           ok        == [completed EXCEPT !.verdict = "ok"]
<1>1. /\ assembled \in Context /\ verifying \in Context
      /\ committed \in Context /\ completed \in Context
      /\ ok \in Context
  BY StatusNames DEF Context
<1>2. Advance(Advance(c, "summary-assembled"), "verification-started")
        = verifying
  <2>1. Advance(c, "summary-assembled") = assembled
    BY Advances
  <2>2. assembled.verdict = None /\ assembled.status = "assembled"
    BY DEF Context
  <2>3. Advance(assembled, "verification-started")
          = [assembled EXCEPT !.status = "verifying"]
    BY <1>1, <2>2, Advances
  <2> QED  BY <2>1, <2>3 DEF Context
<1>3. Advance(Advance(verifying, "commit-accepted"), "completed") = completed
  <2>1. Advance(verifying, "commit-accepted")
          = [verifying EXCEPT !.status = "committed"]
    BY <1>1, Advances DEF Context
  <2>2. Advance(committed, "completed")
          = [committed EXCEPT !.status = "completed"]
    BY <1>1, Advances DEF Context
  <2> QED  BY <2>1, <2>2 DEF Context
<1>4. \A reason \in Failures :
        /\ Fail(verifying, reason)
             = [verifying EXCEPT !.status = "failed", !.verdict = reason]
        /\ Fail(verifying, reason) \in Context
  <2>1. verifying.verdict = None /\ verifying.status = "verifying"
    BY DEF Context
  <2> HIDE DEF verifying
  <2> QED  BY <1>1, <2>1, Fails
<1>5. FromPrefix(c)
        = IF "too-long" \in Issues(c) THEN Fail(verifying, "too-long")
          ELSE IF Issues(c) # {} THEN Fail(verifying, "verification-failed")
          ELSE IF ~c.job.keptEntry THEN Fail(verifying, "invalid-result")
          ELSE ok
  BY <1>2, <1>3 DEF FromPrefix, VerifyAndCommit, Filter
<1>6. \A reason \in Failures : /\ Sound(Fail(verifying, reason))
                                /\ Kept(c, Fail(verifying, reason))
                                /\ Fail(verifying, reason).verdict # None
  <2> TAKE reason \in Failures
  <2>1. Fail(verifying, reason)
          = [verifying EXCEPT !.status = "failed", !.verdict = reason]
    BY <1>4
  <2>2. Fail(verifying, reason).verdict = reason
    BY <2>1 DEF Context
  <2>3. Kept(c, Fail(verifying, reason))
    BY <2>1 DEF Kept, Context
  <2>4. reason # None /\ reason # "ok" /\ reason # "thrown"
    BY Verdicts
  <2>5. Fail(verifying, reason) \in Context
    BY <1>4
  <2> QED  BY <2>2, <2>3, <2>4, <2>5 DEF Sound
<1>7. {"too-long", "verification-failed", "invalid-result"} \subseteq Failures
  BY DEF Failures
<1>8. CASE FromPrefix(c) = ok /\ Issues(c) = {}
  <2>1. ~(Assembled(c).tokens > MaxAllowedTokens(c))
    BY <1>8 DEF Issues
  <2>2. c.job \in Job
    BY JobsAssumption DEF Context
  <2>3. Assembled(c).tokens \in Nat
    BY <2>2 DEF Assembled, Text, Job, HistoryKnown
  <2>4. MaxAllowedTokens(c) \in Nat
    BY <2>2, BudgetsAreSizes, MaxAllowedIsSize DEF Job
  <2>5. Assembled(ok) = Assembled(c) /\ MaxAllowedTokens(ok) = MaxAllowedTokens(c)
    BY DEF Assembled, MaxAllowedTokens, MaxTokens, Context
  <2>6. ok.verdict = "ok" /\ Kept(c, ok) /\ ok.history = c.history
        /\ ok.prefix = c.prefix
    BY DEF Kept, Context
  <2>7. CommitsVerified(ok)
    <3>1. c.job.prefix => Assembled(c).splitTurn
      BY <1>8 DEF Issues
    <3> QED
      BY <2>1, <2>3, <2>4, <2>5, <2>6, <3>1
      DEF CommitsVerified, Kept, HistoryKnown
  <2> QED
    BY <1>1, <1>8, <2>6, <2>7, Verdicts DEF Sound
<1> HIDE DEF ok, verifying
<1> QED  BY <1>5, <1>6, <1>7, <1>8

(* A decided attempt passes the remaining filters unchanged (pipeline.ts). *)
LEMMA FromPrefixSkips ==
  ASSUME NEW c, c.verdict # None
  PROVE  FromPrefix(c) = c
BY DEF FromPrefix, VerifyAndCommit, Filter

(* The same, from the history on.                                          *)
LEMMA FromHistorySkips ==
  ASSUME NEW c, c.verdict # None
  PROVE  FromHistory(c) = c
BY FromPrefixSkips DEF FromHistory, RequestPrefix, ValidateHistory, Filter

(* From the history on: a split turn whose messages can be serialised      *)
(* always comes to a second request before anything is committed           *)
(* (summary-pipeline.ts).                                                  *)
LEMMA FromHistoryGoesOn ==
  ASSUME NEW c \in Context, c.verdict = None, c.stage = "running",
         c.status = "history-produced", HistoryKnown(c),
         c.mode \in Modes, c.job.malformed # "history"
  PROVE  /\ Sound(FromHistory(c)) /\ Kept(c, FromHistory(c))
         /\ c.job.prefix => FromHistory(c).verdict # "ok"
<1> DEFINE validated == [c EXCEPT !.status = "history-validated"]
           producing == [c EXCEPT !.status = "turn-prefix-producing"]
           produced  == [c EXCEPT !.status = "turn-prefix-produced",
                                  !.prefix = NoPrefix]
           waiting   == [producing EXCEPT !.stage = "prefix"]
           thrown    == [producing EXCEPT !.verdict = "thrown"]
           failed    == [c EXCEPT !.status = "failed",
                                  !.verdict = "invalid-structure"]
<1>1. /\ validated \in Context /\ producing \in Context
      /\ produced \in Context /\ waiting \in Context
      /\ thrown \in Context /\ NoPrefix \in Text
  <2>1. NoPrefix \in Text  BY DEF NoPrefix, Text
  <2> QED  BY <2>1, StatusNames DEF Context, Stages
<1>2. c.history # None  BY Verdicts DEF HistoryKnown
<1>3. "invalid-structure" \in Failures  BY DEF Failures
<1>4. ASSUME ~c.history.sound
      PROVE  FromHistory(c) = failed /\ failed \in Context
  <2>1. Fail(c, "invalid-structure") = failed /\ failed \in Context
    BY <1>3, Fails
  <2>2. ValidateHistory(c) = failed
    BY <1>2, <1>4, <2>1 DEF ValidateHistory, Filter
  <2>3. failed.verdict # None
    BY <1>3, Verdicts DEF Context
  <2> HIDE DEF failed
  <2>4. RequestPrefix(failed) = failed
    BY <2>3 DEF RequestPrefix, Filter
  <2> QED  BY <2>1, <2>2, <2>3, <2>4, FromPrefixSkips DEF FromHistory
<1>5. ASSUME c.history.sound
      PROVE  RequestPrefix(ValidateHistory(c))
               = IF ~c.job.prefix THEN produced
                 ELSE IF c.job.malformed = "prefix" THEN thrown
                 ELSE waiting
  <2>1. ValidateHistory(c) = validated
    BY <1>2, <1>5, Advances DEF ValidateHistory, Filter
  <2>2. validated.verdict = None /\ validated.status = "history-validated"
        /\ validated.job = c.job
    BY DEF Context
  <2>3. Advance(validated, "turn-prefix-requested") = producing
    <3>1. Advance(validated, "turn-prefix-requested")
            = [validated EXCEPT !.status = "turn-prefix-producing"]
      BY <1>1, <2>2, Advances
    <3> QED  BY <3>1 DEF Context
  <2>4. [Advance(producing, "turn-prefix-produced")
           EXCEPT !.prefix = NoPrefix] = produced
    <3>1. producing.verdict = None
          /\ producing.status = "turn-prefix-producing"
      BY DEF Context
    <3>2. Advance(producing, "turn-prefix-produced")
            = [producing EXCEPT !.status = "turn-prefix-produced"]
      BY <1>1, <3>1, Advances
    <3> QED  BY <3>2 DEF Context
  <2> HIDE DEF validated, producing, produced
  <2> QED  BY <2>1, <2>2, <2>3, <2>4 DEF RequestPrefix, Filter, Throw
<1>6. CASE ~c.history.sound
  <2>1. failed.verdict = "invalid-structure" /\ Kept(c, failed)
    BY DEF Context, Kept
  <2> QED  BY <1>3, <1>4, <1>6, <2>1, Verdicts DEF Sound
<1>7. CASE c.history.sound /\ ~c.job.prefix
  <2>1. /\ produced.verdict = None /\ produced.status = "turn-prefix-produced"
        /\ produced.history = c.history /\ produced.prefix = NoPrefix
        /\ produced.stage = "running" /\ Kept(c, produced)
    BY DEF Context, Kept
  <2> HIDE DEF produced
  <2>2. FromHistory(c) = FromPrefix(produced)
    BY <1>5, <1>7, <2>1 DEF FromHistory
  <2>3. Sound(FromPrefix(produced)) /\ Kept(produced, FromPrefix(produced))
    BY <1>1, <2>1, FromPrefixDecides DEF Kept, HistoryKnown
  <2> QED  BY <1>7, <2>1, <2>2, <2>3 DEF Kept
<1>8. CASE c.history.sound /\ c.job.prefix /\ c.job.malformed = "prefix"
  <2>1. thrown.verdict = "thrown" /\ Kept(c, thrown)
    BY DEF Context, Kept
  <2>2. FromHistory(c) = thrown
    BY <1>5, <1>8, <2>1, Verdicts, FromPrefixSkips DEF FromHistory
  <2> HIDE DEF thrown
  <2> QED  BY <1>1, <1>8, <2>1, <2>2, Verdicts DEF Sound, Kept
<1>9. CASE c.history.sound /\ c.job.prefix /\ c.job.malformed # "prefix"
  <2>1. /\ waiting.verdict = None /\ waiting.stage = "prefix"
        /\ waiting.status = "turn-prefix-producing"
        /\ waiting.history = c.history /\ Kept(c, waiting)
    BY DEF Context, Kept
  <2> HIDE DEF waiting
  <2>2. FromHistory(c) = waiting
    BY <1>5, <1>9, <2>1 DEF FromHistory
  <2> QED
    BY <1>1, <1>9, <2>1, <2>2, Verdicts
    DEF Sound, Kept, WaitsForPrefix, HistoryKnown
<1> HIDE DEF produced, waiting, thrown, failed
<1> QED  BY <1>6, <1>7, <1>8, <1>9

(* The mode of a job is one of the three modes (resolveSummaryMode).       *)
LEMMA ModesResolve ==
  ASSUME NEW job \in Jobs
  PROVE  SummaryMode(job) \in Modes
<1>1. job.directive \in Modes \cup {None}
  BY JobsAssumption DEF Job
<1> QED  BY <1>1 DEF SummaryMode, Modes

(* What an attempt starts from: the event before its first attempt, or the *)
(* attempt that is tried again.                                            *)
Startable ==
  [stage : Stages \cup {"running"}, job : Jobs, attempt : 0..2,
   status : Statuses, mode : Modes \cup {None},
   history : Text \cup {None}, prefix : Text \cup {None},
   verdict : Failures \cup {None, "ok", "thrown"}, generation : Nat]

(* An attempt with messages to summarise does not commit before the model  *)
(* has been asked (summary-pipeline.ts).                                   *)
LEMMA NewAttemptGoesOn ==
  ASSUME NEW c \in Startable, NEW n \in 1..2
  PROVE  LET d == NewAttempt(c, n) IN
         /\ Sound(d) /\ d.job = c.job /\ d.attempt = n
         /\ d.generation = c.generation
         /\ c.job.malformed # "history" =>
              d.mode = IF n = 2 THEN "aggressive" ELSE SummaryMode(c.job)
         /\ c.job.history \/ c.job.prefix => d.verdict # "ok"
<1> DEFINE started   == [c EXCEPT !.stage = "running", !.attempt = n,
                           !.status = "planned", !.mode = None,
                           !.history = None, !.prefix = None,
                           !.verdict = None]
           mode      == IF n = 2 THEN "aggressive" ELSE SummaryMode(c.job)
           resolved  == [started EXCEPT !.status = "mode-resolved",
                                        !.mode = mode]
           producing == [resolved EXCEPT !.status = "history-producing"]
           waiting   == [producing EXCEPT !.stage = "history"]
           produced  == [producing EXCEPT !.status = "history-produced",
                                          !.history = c.job.prior]
           thrown    == [started EXCEPT !.verdict = "thrown"]
<1>1. /\ started \in Context /\ started.verdict = None
      /\ started.status = "planned" /\ started.stage = "running"
      /\ started.job = c.job /\ started.attempt = n
      /\ started.generation = c.generation
  BY StatusNames DEF Startable, Context
<1>2. c.job \in Jobs /\ c.job.prior \in Text
  BY JobsAssumption DEF Startable, Job
<1>3. mode \in Modes
  BY <1>2, ModesResolve DEF Modes
<1>4. NewAttempt(c, n) = FromStart(started)
  BY DEF NewAttempt
<1>5. AttemptMode(started) = mode
  BY <1>1 DEF AttemptMode
<1> HIDE DEF started, mode
<1>6. CASE c.job.malformed = "history"
  <2>1. /\ thrown \in Context /\ thrown.verdict = "thrown"
        /\ thrown.job = c.job /\ thrown.attempt = n
        /\ thrown.generation = c.generation /\ thrown.stage = "running"
    BY <1>1 DEF Context
  <2>2. ResolveMode(started) = thrown
    BY <1>1, <1>6 DEF ResolveMode, Throw
  <2> HIDE DEF thrown
  <2>3. RequestHistory(thrown) = thrown
    BY <2>1, Verdicts DEF RequestHistory, Filter
  <2>4. NewAttempt(c, n) = thrown
    BY <1>4, <2>1, <2>2, <2>3, Verdicts, FromHistorySkips DEF FromStart
  <2> QED  BY <1>6, <2>1, <2>4, Verdicts DEF Sound
<1>7. CASE c.job.malformed # "history"
  <2>1. /\ resolved \in Context /\ resolved.verdict = None
        /\ resolved.status = "mode-resolved" /\ resolved.job = c.job
    BY <1>1, <1>3, StatusNames DEF Context
  <2>2. ResolveMode(started) = resolved
    <3>1. Advance(started, "mode-resolved")
            = [started EXCEPT !.status = "mode-resolved"]
      BY <1>1, Advances
    <3> QED  BY <1>1, <1>5, <1>7, <3>1 DEF ResolveMode, Context
  <2>3. Advance(resolved, "history-requested") = producing
    BY <2>1, Advances
  <2>4. /\ producing \in Context /\ producing.verdict = None
        /\ producing.status = "history-producing"
        /\ producing.job = c.job /\ producing.attempt = n
        /\ producing.generation = c.generation /\ producing.mode = mode
        /\ producing.stage = "running"
    BY <1>1, <1>3, StatusNames DEF Context
  <2> HIDE DEF resolved
  <2>5. CASE c.job.history
    <3>1. /\ waiting \in Context /\ waiting.verdict = None
          /\ waiting.status = "history-producing"
          /\ waiting.job = c.job /\ waiting.attempt = n
          /\ waiting.generation = c.generation /\ waiting.mode = mode
          /\ waiting.stage = "history"
      BY <2>4 DEF Context, Stages
    <3>2. RequestHistory(resolved) = waiting
      BY <2>1, <2>3, <2>5 DEF RequestHistory, Filter
    <3> HIDE DEF waiting
    <3>3. NewAttempt(c, n) = waiting
      BY <1>4, <2>2, <3>1, <3>2 DEF FromStart
    <3> QED
      BY <1>3, <1>7, <2>5, <3>1, <3>3, Verdicts
      DEF Sound, WaitsForHistory, mode
  <2>6. CASE ~c.job.history
    <3>1. /\ produced \in Context /\ produced.verdict = None
          /\ produced.status = "history-produced"
          /\ produced.job = c.job /\ produced.attempt = n
          /\ produced.generation = c.generation /\ produced.mode = mode
          /\ produced.stage = "running" /\ HistoryKnown(produced)
      BY <1>2, <2>4, StatusNames DEF Context, HistoryKnown
    <3>2. RequestHistory(resolved) = produced
      <4>1. Advance(producing, "history-produced")
              = [producing EXCEPT !.status = "history-produced"]
        BY <2>4, Advances
      <4>2. [Advance(producing, "history-produced")
               EXCEPT !.history = c.job.prior] = produced
        BY <2>4, <4>1 DEF Context
      <4> HIDE DEF producing, produced
      <4> QED  BY <2>1, <2>3, <2>4, <2>6, <4>2 DEF RequestHistory, Filter
    <3> HIDE DEF produced
    <3>3. NewAttempt(c, n) = FromHistory(produced)
      BY <1>4, <2>2, <3>1, <3>2 DEF FromStart
    <3>4. /\ Sound(FromHistory(produced))
          /\ Kept(produced, FromHistory(produced))
          /\ produced.job.prefix => FromHistory(produced).verdict # "ok"
      BY <1>3, <1>7, <3>1, FromHistoryGoesOn
    <3> QED  BY <2>6, <3>1, <3>3, <3>4 DEF Kept, mode
  <2> QED  BY <2>5, <2>6
<1> QED  BY <1>6, <1>7

(* An answer takes the attempt on from where it waits.                     *)
LEMMA AnsweredGoesOn ==
  ASSUME NEW c, Sound(c), c.verdict = None, NEW text \in Texts
  PROVE  Sound(Answered(c, text)) /\ Kept(c, Answered(c, text))
<1>1. c \in Context /\ c.mode \in Modes /\ c.job.malformed # "history"
  BY DEF Sound
<1>2. text \in Text
  BY TextsAssumption
<1>3. CASE WaitsForHistory(c)
  <2> DEFINE produced == [c EXCEPT !.status = "history-produced",
                                   !.history = text, !.stage = "running"]
  <2>1. /\ produced \in Context /\ produced.verdict = None
        /\ produced.status = "history-produced"
        /\ produced.stage = "running" /\ produced.history = text
        /\ Kept(c, produced)
    BY <1>1, <1>2, StatusNames DEF Context, Kept
  <2>2. Answered(c, text) = FromHistory(produced)
    <3>1. Advance(c, "history-produced")
            = [c EXCEPT !.status = "history-produced"]
      BY <1>1, <1>3, Advances DEF WaitsForHistory
    <3> QED  BY <1>1, <1>3, <3>1 DEF Answered, WaitsForHistory, Context
  <2> HIDE DEF produced
  <2>3. Sound(FromHistory(produced)) /\ Kept(produced, FromHistory(produced))
    BY <1>1, <1>2, <2>1, FromHistoryGoesOn DEF Kept, HistoryKnown
  <2> QED  BY <2>1, <2>2, <2>3 DEF Kept
<1>4. CASE WaitsForPrefix(c)
  <2> DEFINE produced == [c EXCEPT !.status = "turn-prefix-produced",
                                   !.prefix = text, !.stage = "running"]
  <2>1. /\ produced \in Context /\ produced.verdict = None
        /\ produced.status = "turn-prefix-produced"
        /\ produced.prefix = text /\ produced.history = c.history
        /\ Kept(c, produced)
    BY <1>1, <1>2, StatusNames DEF Context, Kept
  <2>2. Answered(c, text) = FromPrefix(produced)
    <3>1. Advance(c, "turn-prefix-produced")
            = [c EXCEPT !.status = "turn-prefix-produced"]
      BY <1>1, <1>4, Advances DEF WaitsForPrefix
    <3> QED  BY <1>1, <1>4, <3>1 DEF Answered, WaitsForPrefix, Context
  <2> HIDE DEF produced
  <2>3. Sound(FromPrefix(produced)) /\ Kept(produced, FromPrefix(produced))
    BY <1>1, <1>2, <1>4, <2>1, FromPrefixDecides
    DEF Kept, WaitsForPrefix, HistoryKnown
  <2> QED  BY <2>1, <2>2, <2>3 DEF Kept
<1> QED  BY <1>3, <1>4 DEF Sound

(* A failure decides an attempt that waits for the model.                  *)
LEMMA FailureDecides ==
  ASSUME NEW c, Sound(c), c.verdict = None, NEW reason \in Failures
  PROVE  LET d == Fail(c, reason) IN
         Sound(d) /\ Kept(c, d) /\ d.verdict = reason
<1>1. c \in Context /\ c.status # "completed"
  BY DEF Sound, WaitsForHistory, WaitsForPrefix
<1>2. /\ Fail(c, reason) = [c EXCEPT !.status = "failed", !.verdict = reason]
      /\ Fail(c, reason) \in Context
  BY <1>1, Fails
<1>3. Fail(c, reason).verdict = reason /\ Kept(c, Fail(c, reason))
  BY <1>1, <1>2 DEF Context, Kept
<1> QED  BY <1>2, <1>3, Verdicts DEF Sound

(* The one retry: it is aggressive after an attempt that was not, and does *)
(* not commit before the model has been asked (shouldRetrySummaryFailure). *)
LEMMA RetryGoesOn ==
  ASSUME NEW c, Sound(c)
  PROVE  LET d == WithRetry(c) IN
         /\ Sound(d) /\ d.job = c.job /\ d.generation = c.generation
         /\ \/ d = c
            \/ /\ c.attempt = 1 /\ d.attempt = 2 /\ Retryable(c)
               /\ c.job.malformed # "history" => d.mode = "aggressive"
               /\ c.job.history \/ c.job.prefix => d.verdict # "ok"
<1>1. c \in Startable
  BY DEF Sound, Context, Startable
<1>2. CASE ~(c.attempt = 1 /\ Retryable(c))
  BY <1>2 DEF WithRetry
<1>3. CASE c.attempt = 1 /\ Retryable(c)
  <2>1. WithRetry(c) = NewAttempt(c, 2)
    BY <1>3 DEF WithRetry
  <2> QED  BY <1>1, <1>3, <2>1, NewAttemptGoesOn
<1> QED  BY <1>2, <1>3

-----------------------------------------------------------------------------
(* The inductive invariant *)

Outcomes ==
  [terminal : {"skipped", "failed", "fallback", "completed"},
   category : {None, "incompatible-event", "missing-model",
               "missing-auth", "empty-input", "empty-summary",
               "provider-error", "timeout", "aborted",
               "invalid-summary", "invalid-result",
               "verification-failed", "preprocessing-failed",
               "unexpected-error"},
   retries : 0..1]

(* What is true of an event by the stage its handler is in.                *)
RunSound(c) ==
  /\ c.stage = "new" => /\ c.job = None /\ c.attempt = 0
                        /\ c.verdict = None /\ c.generation = 0
  /\ c.stage \in {"auth", "preprocess"} =>
       c.job \in Jobs /\ c.attempt = 0 /\ c.verdict = None
  /\ c.stage = "preprocess" => c.job.history \/ c.job.prefix
  /\ c.stage \in {"history", "prefix"} => Sound(c) /\ c.verdict = None
  /\ c.verdict = "thrown" => c.job.malformed # "none"
  /\ c.verdict = "ok" => c.job \in Jobs /\ CommitsVerified(c)

(* A request whose event is aborted is cut, and no generation runs ahead   *)
(* of the count of compactions.                                            *)
SummaryInv ==
  /\ TypeOK
  /\ \A e \in Events : RunSound(run[e])
  /\ \A e \in Events : request[e] # None /\ aborted[e] => request[e].cut
  /\ \A e \in Events :
       /\ run[e].generation <= compactionCount + 1
       /\ run[e].stage = "done" => run[e].generation <= compactionCount

(* The bounded history of diagnostics stays a sequence of entries.         *)
LEMMA DiagnosticsTyped ==
  ASSUME NEW e \in Events, NEW outcome \in Outcomes,
         diagnostics \in Seq(Entry), AppendDiagnostic(e, outcome)
  PROVE  diagnostics' \in Seq(Entry)
<1> DEFINE all == Append(diagnostics, [event |-> e, outcome |-> outcome])
<1>1. [event |-> e, outcome |-> outcome] \in Entry
  BY DEF Entry, Outcomes
<1>2. all \in Seq(Entry)
  BY <1>1
<1>3. diagnostics' = LastOf(all, MaxDiagnostics)
  BY DEF AppendDiagnostic
<1> HIDE DEF all
<1>4. CASE Len(all) > MaxDiagnostics
  <2>1. /\ Len(all) \in Nat
        /\ Len(all) - MaxDiagnostics + 1 \in 1..(Len(all) + 1)
    BY <1>2, <1>4, BoundAssumption
  <2>2. \A i \in 1..Len(all) : all[i] \in Entry
    BY <1>2
  <2> QED  BY <1>2, <1>3, <1>4, <2>1, <2>2 DEF LastOf
<1>5. CASE ~(Len(all) > MaxDiagnostics)
  BY <1>2, <1>3, <1>5 DEF LastOf
<1> QED  BY <1>4, <1>5

Flushed(c) == [c EXCEPT !.stage = "flush"]

(* A decided attempt is sound when its handler goes on to the final block. *)
LEMMA FlushedSound ==
  ASSUME NEW c, Sound(c)
  PROVE  Flushed(c) \in Run /\ RunSound(Flushed(c))
<1>1. c \in Context /\ c.attempt \in 0..2
  BY DEF Sound, Context
<1>2. /\ Flushed(c) \in Run /\ Flushed(c).stage = "flush"
      /\ Flushed(c).job = c.job /\ Flushed(c).mode = c.mode
      /\ Flushed(c).history = c.history /\ Flushed(c).prefix = c.prefix
      /\ Flushed(c).verdict = c.verdict /\ c.job \in Jobs
  BY <1>1 DEF Context, Flushed, Run, Stages
<1>3. /\ Assembled(Flushed(c)) = Assembled(c)
      /\ MaxAllowedTokens(Flushed(c)) = MaxAllowedTokens(c)
  BY <1>2 DEF Assembled, MaxAllowedTokens, MaxTokens
<1>4. c.verdict = "ok" => CommitsVerified(Flushed(c))
  BY <1>2, <1>3 DEF Sound, CommitsVerified, HistoryKnown
<1>5. c.verdict = "thrown" => c.job.malformed # "none"
  BY DEF Sound
<1> QED  BY <1>2, <1>4, <1>5 DEF RunSound

(* A decided event keeps the invariant.                                    *)
LEMMA EndsKeepsInv ==
  ASSUME SummaryInv, NEW e \in Events, NEW c, NEW outcome \in Outcomes,
         Flushed(c) \in Run, RunSound(Flushed(c)),
         Flushed(c).generation <= compactionCount + 1,
         Ends(e, c, outcome), UNCHANGED <<aborted, compactionCount>>
  PROVE  SummaryInv'
<1> DEFINE d == Flushed(c)
<1>1. /\ run' = [run EXCEPT ![e] = d]
      /\ request' = [request EXCEPT ![e] = None]
      /\ AppendDiagnostic(e, outcome) /\ ended' = Append(ended, e)
  BY DEF Ends, Flushed
<1>2. d \in Run /\ RunSound(d) /\ d.stage = "flush"
  BY DEF Flushed, Run
<1> HIDE DEF d
<1>3. diagnostics' \in Seq(Entry)
  BY <1>1, DiagnosticsTyped DEF SummaryInv, TypeOK
<1>4. ended' \in Seq(Events)
  BY <1>1 DEF SummaryInv, TypeOK
<1>5. /\ run \in [Events -> Run] /\ request \in [Events -> Request \cup {None}]
  BY DEF SummaryInv, TypeOK
<1>6. \A f \in Events : /\ run'[f] = IF f = e THEN d ELSE run[f]
                        /\ request'[f] = IF f = e THEN None ELSE request[f]
  BY <1>1, <1>5
<1>7. TypeOK'
  <2>1. /\ run' \in [Events -> Run]
        /\ request' \in [Events -> Request \cup {None}]
    BY <1>1, <1>2, <1>5
  <2>2. \A f \in Events :
          request'[f] # None <=> run'[f].stage \in {"history", "prefix"}
    BY <1>2, <1>6 DEF SummaryInv, TypeOK
  <2> QED  BY <1>3, <1>4, <2>1, <2>2 DEF SummaryInv, TypeOK
<1>8. \A f \in Events : RunSound(run'[f])
  BY <1>2, <1>6 DEF SummaryInv
<1>9. \A f \in Events : request'[f] # None /\ aborted'[f] => request'[f].cut
  BY <1>6 DEF SummaryInv
<1>10. \A f \in Events :
         /\ run'[f].generation <= compactionCount' + 1
         /\ run'[f].stage = "done" => run'[f].generation <= compactionCount'
  <2>1. d.generation <= compactionCount + 1
    BY DEF d
  <2> QED  BY <1>2, <1>6, <2>1 DEF SummaryInv
<1> QED  BY <1>7, <1>8, <1>9, <1>10 DEF SummaryInv

(* What it records of an attempt.                                          *)
LEMMA OutcomesOfAttempts ==
  ASSUME NEW c \in Context, c.verdict # None, NEW isAborted \in BOOLEAN
  PROVE  AttemptOutcome(c, isAborted) \in Outcomes
<1>1. c.attempt - 1 \in 0..1 /\ 0 \in 0..1
  BY DEF Context
<1>2. c.verdict \in Failures \cup {"ok", "thrown"}
  BY DEF Context
<1>3. c.verdict \in Failures =>
        Category(c.verdict) \in
          {"empty-summary", "provider-error", "timeout", "aborted",
           "invalid-summary", "invalid-result", "verification-failed"}
  BY DEF Category, Failures
<1>4. \A terminal \in {"completed", "fallback", "failed"},
         retries \in 0..1,
         category \in {None, "empty-summary", "provider-error", "timeout",
                       "aborted", "invalid-summary", "invalid-result",
                       "verification-failed", "unexpected-error"} :
        Outcome(terminal, category, retries) \in Outcomes
  BY DEF Outcome, Outcomes
<1>5. CASE c.verdict = "ok"
  BY <1>1, <1>4, <1>5 DEF AttemptOutcome
<1>6. CASE c.verdict = "thrown"
  BY <1>1, <1>4, <1>6 DEF AttemptOutcome
<1>7. CASE c.verdict \in Failures
  <2>1. AttemptOutcome(c, isAborted)
          = Outcome("fallback", Category(c.verdict), c.attempt - 1)
    BY <1>7, Verdicts DEF AttemptOutcome
  <2> QED  BY <1>1, <1>3, <1>4, <1>7, <2>1
<1> QED  BY <1>2, <1>5, <1>6, <1>7

(* So does an attempt that has come to its next await or its end.          *)
LEMMA ProceedsKeepsInv ==
  ASSUME SummaryInv, NEW e \in Events, NEW c, Sound(c),
         c.generation <= compactionCount + 1,
         Proceeds(e, c), UNCHANGED <<aborted, compactionCount>>
  PROVE  SummaryInv'
<1>1. c \in Context
  BY DEF Sound
<1>2. CASE c.verdict # None
  <2>1. Ends(e, c, AttemptOutcome(c, aborted[e]))
    BY <1>2 DEF Proceeds
  <2>2. aborted[e] \in BOOLEAN
    BY DEF SummaryInv, TypeOK
  <2>3. AttemptOutcome(c, aborted[e]) \in Outcomes
    BY <1>1, <1>2, <2>2, OutcomesOfAttempts
  <2>4. Flushed(c).generation = c.generation
    BY <1>1 DEF Flushed, Context
  <2> QED  BY <2>1, <2>3, <2>4, FlushedSound, EndsKeepsInv
<1>3. CASE c.verdict = None
  <2> DEFINE sent == [cut |-> aborted[e], timedOut |-> FALSE]
  <2>1. /\ run' = [run EXCEPT ![e] = c]
        /\ request' = [request EXCEPT ![e] = sent]
        /\ UNCHANGED <<diagnostics, ended>>
    BY <1>3 DEF Proceeds, SendsRequest
  <2>2. c.stage \in {"history", "prefix"}
    BY <1>3 DEF Sound, WaitsForHistory, WaitsForPrefix
  <2>3. c \in Run
    BY <1>1, <2>2 DEF Context, Run, Stages
  <2>4. RunSound(c)
    BY <1>3, <2>2, Verdicts DEF RunSound
  <2>5. /\ aborted[e] \in BOOLEAN /\ run \in [Events -> Run]
        /\ request \in [Events -> Request \cup {None}]
    BY DEF SummaryInv, TypeOK
  <2>6. sent \in Request /\ sent # None /\ sent.cut = aborted[e]
    <3>1. sent \in Request  BY <2>5 DEF Request
    <3>2. sent # None  BY <3>1, JobsAssumption
    <3> QED  BY <3>1, <3>2
  <2> HIDE DEF sent
  <2>7. \A f \in Events :
          /\ run'[f] = IF f = e THEN c ELSE run[f]
          /\ request'[f] = IF f = e THEN sent ELSE request[f]
    BY <2>1, <2>5
  <2>8. TypeOK'
    <3>1. /\ run' \in [Events -> Run]
          /\ request' \in [Events -> Request \cup {None}]
      BY <2>1, <2>3, <2>5, <2>6
    <3>2. \A f \in Events :
            request'[f] # None <=> run'[f].stage \in {"history", "prefix"}
      BY <2>2, <2>6, <2>7 DEF SummaryInv, TypeOK
    <3> QED  BY <2>1, <3>1, <3>2 DEF SummaryInv, TypeOK
  <2>9. \A f \in Events : RunSound(run'[f])
    BY <2>4, <2>7 DEF SummaryInv
  <2>10. \A f \in Events :
           request'[f] # None /\ aborted'[f] => request'[f].cut
    BY <2>6, <2>7 DEF SummaryInv
  <2>11. \A f \in Events :
           /\ run'[f].generation <= compactionCount' + 1
           /\ run'[f].stage = "done" => run'[f].generation <= compactionCount'
    BY <2>2, <2>7 DEF SummaryInv
  <2> QED  BY <2>8, <2>9, <2>10, <2>11 DEF SummaryInv
<1> QED  BY <1>2, <1>3

(* The invariant holds before the first event.                             *)
LEMMA InvInit == Init => SummaryInv
<1> SUFFICES ASSUME Init PROVE SummaryInv
  OBVIOUS
<1>1. NewRun \in Run
  BY DEF NewRun, Run, Stages, Statuses, Path
<1>2. RunSound(NewRun)
  BY Verdicts DEF NewRun, RunSound
<1>3. TypeOK
  BY <1>1 DEF Init, TypeOK, NewRun
<1> QED  BY <1>2, <1>3 DEF Init, SummaryInv, NewRun

(* An event that is taken on only in the stage of its handler.             *)
LEMMA StageKeepsInv ==
  ASSUME SummaryInv, NEW e \in Events, NEW d \in Run, RunSound(d),
         request[e] = None, d.stage \notin {"history", "prefix"},
         d.generation = run[e].generation,
         run' = [run EXCEPT ![e] = d], compactionCount' \in Nat,
         compactionCount' >= compactionCount,
         d.stage = "done" => compactionCount' = compactionCount + 1,
         UNCHANGED <<request, aborted, diagnostics, ended>>
  PROVE  SummaryInv'
<1>1. run \in [Events -> Run] /\ compactionCount \in Nat
  BY DEF SummaryInv, TypeOK
<1>2. \A f \in Events : run'[f] = IF f = e THEN d ELSE run[f]
  BY <1>1
<1>3. TypeOK'
  <2>1. run' \in [Events -> Run]
    BY <1>1
  <2>2. \A f \in Events :
          request'[f] # None <=> run'[f].stage \in {"history", "prefix"}
    BY <1>2 DEF SummaryInv, TypeOK
  <2> QED  BY <2>1, <2>2 DEF SummaryInv, TypeOK
<1>4. \A f \in Events : RunSound(run'[f])
  BY <1>2 DEF SummaryInv
<1>5. \A f \in Events : request'[f] # None /\ aborted'[f] => request'[f].cut
  BY DEF SummaryInv
<1>6. \A f \in Events :
        /\ run'[f].generation <= compactionCount' + 1
        /\ run'[f].stage = "done" => run'[f].generation <= compactionCount'
  <2>1. \A f \in Events : run[f].generation \in Nat
    BY <1>1 DEF Run
  <2> QED  BY <1>1, <1>2, <2>1 DEF SummaryInv
<1> QED  BY <1>3, <1>4, <1>5, <1>6 DEF SummaryInv

(* What the handler records without an attempt.                            *)
LEMMA OutcomesOfHandler ==
  /\ Outcome("skipped", "incompatible-event", 0) \in Outcomes
  /\ Outcome("skipped", "missing-model", 0) \in Outcomes
  /\ Outcome("skipped", "missing-auth", 0) \in Outcomes
  /\ Outcome("skipped", "empty-input", 0) \in Outcomes
  /\ Outcome("failed", "unexpected-error", 0) \in Outcomes
  /\ Outcome("fallback", "preprocessing-failed", 0) \in Outcomes
BY DEF Outcome, Outcomes

(* Before the first request nothing is decided, so the end of an event     *)
(* there leaves it undecided.                                              *)
LEMMA EarlyEnds ==
  ASSUME SummaryInv, NEW e \in Events,
         run[e].stage \in {"new", "auth", "preprocess"},
         NEW job \in Jobs \cup {None},
         NEW c, c = run[e] \/ c = [run[e] EXCEPT !.job = job]
  PROVE  /\ Flushed(c) \in Run /\ RunSound(Flushed(c))
         /\ Flushed(c).generation <= compactionCount + 1
         /\ Flushed(c).verdict = None
<1>1. run[e] \in Run /\ run[e].verdict = None
      /\ run[e].generation <= compactionCount + 1
  BY DEF SummaryInv, TypeOK, RunSound
<1>2. /\ Flushed(c) \in Run /\ Flushed(c).verdict = None
      /\ Flushed(c).generation = run[e].generation
      /\ Flushed(c).stage = "flush"
  BY <1>1 DEF Run, Flushed, Stages
<1> QED  BY <1>1, <1>2, Verdicts DEF RunSound

(* The first attempt, up to the first await.                               *)
LEMMA FirstAttempt ==
  ASSUME SummaryInv, NEW e \in Events, run[e].stage = "preprocess"
  PROVE  LET d == WithRetry(NewAttempt(
                    [run[e] EXCEPT !.generation = compactionCount + 1], 1)) IN
         /\ Sound(d) /\ d.verdict # "ok"
         /\ d.generation = compactionCount + 1
<1> DEFINE c == [run[e] EXCEPT !.generation = compactionCount + 1]
           first == NewAttempt(c, 1)
<1>1. /\ run[e] \in Run /\ run[e].job \in Jobs
      /\ run[e].job.history \/ run[e].job.prefix
      /\ compactionCount \in Nat
  BY DEF SummaryInv, TypeOK, RunSound
<1>2. /\ c \in Startable /\ c.job = run[e].job
      /\ c.generation = compactionCount + 1
  BY <1>1 DEF Run, Startable
<1> HIDE DEF c
<1>3. /\ Sound(first) /\ first.job = c.job /\ first.verdict # "ok"
      /\ first.generation = c.generation
  BY <1>1, <1>2, NewAttemptGoesOn
<1> HIDE DEF first
<1>4. /\ Sound(WithRetry(first)) /\ WithRetry(first).verdict # "ok"
      /\ WithRetry(first).generation = first.generation
  BY <1>1, <1>2, <1>3, RetryGoesOn
<1> QED  BY <1>2, <1>3, <1>4 DEF first, c

(* What an event is taken to when its request comes to an end.             *)
TakenOn(c, d) ==
  /\ Sound(d) /\ d.job = c.job /\ d.generation = c.generation
  /\ \/ d.attempt = c.attempt
     \/ /\ c.attempt = 1 /\ d.attempt = 2
        /\ c.mode # "aggressive" /\ d.mode = "aggressive"

(* An event whose request is out waits in a sound attempt.                 *)
LEMMA Waiting ==
  ASSUME SummaryInv, NEW e \in Events, request[e] # None
  PROVE  /\ Sound(run[e]) /\ run[e].verdict = None
         /\ run[e].stage \in {"history", "prefix"}
         /\ run[e].attempt \in 1..2 /\ run[e].mode \in Modes
         /\ run[e].generation <= compactionCount + 1
<1>1. Sound(run[e]) /\ run[e].verdict = None
      /\ run[e].stage \in {"history", "prefix"}
  BY DEF SummaryInv, TypeOK, RunSound
<1> QED  BY <1>1 DEF Sound, Context, SummaryInv

(* However a request ends, its event is taken on soundly.                  *)
LEMMA RequestEnds ==
  ASSUME SummaryInv, NEW e \in Events, request[e] # None
  PROVE  /\ \A text \in Texts :
              TakenOn(run[e], WithRetry(Answered(run[e], text)))
         /\ \A reason \in Failures :
              TakenOn(run[e], WithRetry(Fail(run[e], reason)))
         /\ \A reason \in Failures :
              WithRetry(Fail(run[e], reason)).verdict # "ok"
<1>1. Sound(run[e]) /\ run[e].verdict = None /\ run[e].mode \in Modes
  BY Waiting
<1>2. /\ run[e].job.history \/ run[e].job.prefix
      /\ run[e].job.malformed # "history"
  BY <1>1 DEF Sound, WaitsForHistory, WaitsForPrefix
<1>3. \A c : Sound(c) /\ Kept(run[e], c) => TakenOn(run[e], WithRetry(c))
  <2> TAKE c
  <2> HAVE Sound(c) /\ Kept(run[e], c)
  <2>1. /\ Sound(WithRetry(c)) /\ WithRetry(c).job = c.job
        /\ WithRetry(c).generation = c.generation
        /\ \/ WithRetry(c) = c
           \/ /\ c.attempt = 1 /\ WithRetry(c).attempt = 2 /\ Retryable(c)
              /\ c.job.malformed # "history" =>
                   WithRetry(c).mode = "aggressive"
    BY RetryGoesOn
  <2>2. Retryable(c) => c.mode # "aggressive"
    BY DEF Retryable
  <2> QED  BY <1>2, <2>1, <2>2 DEF TakenOn, Kept
<1>4. \A text \in Texts : /\ Sound(Answered(run[e], text))
                          /\ Kept(run[e], Answered(run[e], text))
  BY <1>1, AnsweredGoesOn
<1>5. \A reason \in Failures : /\ Sound(Fail(run[e], reason))
                                /\ Kept(run[e], Fail(run[e], reason))
                                /\ Fail(run[e], reason).verdict = reason
  BY <1>1, FailureDecides
<1>6. \A reason \in Failures : WithRetry(Fail(run[e], reason)).verdict # "ok"
  <2> TAKE reason \in Failures
  <2>1. \/ WithRetry(Fail(run[e], reason)) = Fail(run[e], reason)
        \/ Fail(run[e], reason).job.history \/ Fail(run[e], reason).job.prefix
             => WithRetry(Fail(run[e], reason)).verdict # "ok"
    BY <1>5, RetryGoesOn
  <2> QED  BY <1>2, <1>5, <2>1, Verdicts DEF Kept
<1> QED  BY <1>3, <1>4, <1>5, <1>6

(* A rejected request is not followed by a retry.                          *)
LEMMA CutDecides ==
  ASSUME SummaryInv, NEW e \in Events, request[e] # None,
         NEW reason \in {"timeout", "aborted", "provider-error"}
  PROVE  WithRetry(Fail(run[e], reason)).verdict = reason
<1>1. Fail(run[e], reason).verdict = reason
  BY Waiting, FailureDecides DEF Failures
<1>2. ~Retryable(Fail(run[e], reason))
  BY <1>1 DEF Retryable
<1> QED  BY <1>1, <1>2 DEF WithRetry

-----------------------------------------------------------------------------
(* The steps *)

(* Every step keeps the invariant, one case per action.                    *)
LEMMA InvStep == SummaryInv /\ [Next]_vars => SummaryInv'
<1> SUFFICES ASSUME SummaryInv, [Next]_vars PROVE SummaryInv'
  OBVIOUS
<1>0. /\ run \in [Events -> Run] /\ request \in [Events -> Request \cup {None}]
      /\ aborted \in [Events -> BOOLEAN] /\ compactionCount \in Nat
  BY DEF SummaryInv, TypeOK
<1>1. CASE UNCHANGED vars
  BY <1>1 DEF vars, SummaryInv, TypeOK
<1>2. ASSUME NEW e \in Events, BeforeCompact(e) PROVE SummaryInv'
  <2>0. run[e] \in Run /\ run[e].stage = "new" /\ request[e] = None
    BY <1>0, <1>2 DEF BeforeCompact, SummaryInv, TypeOK
  <2>1. CASE Ends(e, run[e], Outcome("skipped", "incompatible-event", 0))
    BY <1>2, <2>0, <2>1, EarlyEnds, EndsKeepsInv, OutcomesOfHandler
    DEF BeforeCompact
  <2>2. ASSUME NEW job \in Jobs,
               Ends(e, [run[e] EXCEPT !.job = job],
                    Outcome("skipped", "missing-model", 0))
        PROVE  SummaryInv'
    BY <1>2, <2>0, <2>2, EarlyEnds, EndsKeepsInv, OutcomesOfHandler
    DEF BeforeCompact
  <2>3. ASSUME NEW job \in Jobs,
               run' = [run EXCEPT ![e].job = job, ![e].stage = "auth"],
               UNCHANGED <<request, diagnostics, ended>>
        PROVE  SummaryInv'
    <3> DEFINE d == [run[e] EXCEPT !.job = job, !.stage = "auth"]
    <3>1. run' = [run EXCEPT ![e] = d]
      BY <1>0, <2>3
    <3>2. /\ d \in Run /\ d.stage = "auth" /\ d.job = job
          /\ d.attempt = run[e].attempt /\ d.verdict = run[e].verdict
          /\ d.generation = run[e].generation
      BY <2>0 DEF Run, Stages
    <3>3. RunSound(d)
      BY <2>0, <3>2, Verdicts DEF RunSound, SummaryInv
    <3>4. /\ compactionCount' \in Nat /\ compactionCount' >= compactionCount
          /\ UNCHANGED <<request, aborted, diagnostics, ended>>
      <4>1. UNCHANGED <<aborted, compactionCount>>
        BY <1>2 DEF BeforeCompact
      <4> HIDE DEF d
      <4> QED  BY <1>0, <2>3, <4>1
    <3>5. d.stage \notin {"history", "prefix"} /\ d.stage # "done"
      BY <3>2
    <3> HIDE DEF d
    <3> QED  BY <2>0, <3>1, <3>2, <3>3, <3>4, <3>5, StageKeepsInv
  <2> QED  BY <1>2, <2>1, <2>2, <2>3 DEF BeforeCompact
<1>3. ASSUME NEW e \in Events, AuthResolves(e) PROVE SummaryInv'
  <2>0. run[e] \in Run /\ run[e].stage = "auth" /\ request[e] = None
    BY <1>0, <1>3 DEF AuthResolves, SummaryInv, TypeOK
  <2>1. ASSUME NEW outcome \in Outcomes, Ends(e, run[e], outcome)
        PROVE  SummaryInv'
    BY <1>3, <2>0, <2>1, EarlyEnds, EndsKeepsInv DEF AuthResolves
  <2>2. CASE /\ run[e].job.history \/ run[e].job.prefix
             /\ run' = [run EXCEPT ![e].stage = "preprocess"]
             /\ UNCHANGED <<request, diagnostics, ended>>
    <3> DEFINE d == [run[e] EXCEPT !.stage = "preprocess"]
    <3>1. run' = [run EXCEPT ![e] = d]
      BY <1>0, <2>2
    <3>2. /\ d \in Run /\ d.stage = "preprocess" /\ d.job = run[e].job
          /\ d.attempt = run[e].attempt /\ d.verdict = run[e].verdict
          /\ d.generation = run[e].generation
      BY <2>0 DEF Run, Stages
    <3>3. RunSound(d)
      BY <2>0, <2>2, <3>2, Verdicts DEF RunSound, SummaryInv
    <3>4. /\ compactionCount' \in Nat /\ compactionCount' >= compactionCount
          /\ UNCHANGED <<request, aborted, diagnostics, ended>>
      BY <1>0, <1>3, <2>2 DEF AuthResolves
    <3>5. d.stage \notin {"history", "prefix"} /\ d.stage # "done"
      BY <3>2
    <3> HIDE DEF d
    <3> QED  BY <2>0, <3>1, <3>2, <3>3, <3>4, <3>5, StageKeepsInv
  <2> QED  BY <1>3, <2>1, <2>2, OutcomesOfHandler DEF AuthResolves
<1>4. ASSUME NEW e \in Events, Preprocessed(e) PROVE SummaryInv'
  <2>0. run[e].stage = "preprocess"
    BY <1>4 DEF Preprocessed
  <2>1. CASE Ends(e, run[e], Outcome("fallback", "preprocessing-failed", 0))
    BY <1>4, <2>0, <2>1, EarlyEnds, EndsKeepsInv, OutcomesOfHandler
    DEF Preprocessed
  <2>2. CASE Proceeds(e, WithRetry(NewAttempt(
               [run[e] EXCEPT !.generation = compactionCount + 1], 1)))
    BY <1>0, <1>4, <2>0, <2>2, FirstAttempt, ProceedsKeepsInv
    DEF Preprocessed
  <2> QED  BY <1>4, <2>1, <2>2 DEF Preprocessed
<1>5. ASSUME NEW e \in Events, NEW d, request[e] # None, TakenOn(run[e], d),
             Proceeds(e, d), UNCHANGED <<aborted, compactionCount>>
      PROVE  SummaryInv'
  <2>1. d.generation <= compactionCount + 1
    BY <1>5, Waiting DEF TakenOn
  <2> QED  BY <1>5, <2>1, ProceedsKeepsInv DEF TakenOn
<1>6. ASSUME NEW e \in Events,
             ModelAnswers(e) \/ ModelFails(e) \/ RequestRejected(e)
      PROVE  SummaryInv'
  <2>1. /\ "empty" \in Failures /\ "provider-error" \in Failures
        /\ CutReason(request[e]) \in Failures
    BY DEF Failures, CutReason
  <2>2. request[e] # None /\ UNCHANGED <<aborted, compactionCount>>
    BY <1>6 DEF ModelAnswers, ModelFails, RequestRejected
  <2>3. \/ \E text \in Texts :
             Proceeds(e, WithRetry(Answered(run[e], text)))
        \/ \E reason \in Failures :
             Proceeds(e, WithRetry(Fail(run[e], reason)))
    BY <1>6, <2>1 DEF ModelAnswers, ModelFails, RequestRejected
  <2>4. /\ \A text \in Texts :
             TakenOn(run[e], WithRetry(Answered(run[e], text)))
        /\ \A reason \in Failures :
             TakenOn(run[e], WithRetry(Fail(run[e], reason)))
    BY <2>2, RequestEnds
  <2> QED  BY <1>5, <2>2, <2>3, <2>4
<1>7. ASSUME NEW e \in Events, NEW req \in Request, request[e] # None,
             req.cut, request' = [request EXCEPT ![e] = req],
             aborted' \in [Events -> BOOLEAN],
             \A f \in Events \ {e} : aborted'[f] = aborted[f],
             UNCHANGED <<run, compactionCount, diagnostics, ended>>
      PROVE  SummaryInv'
  <2>1. req # None
    BY JobsAssumption
  <2>2. \A f \in Events : request'[f] = IF f = e THEN req ELSE request[f]
    BY <1>0, <1>7
  <2>3. TypeOK'
    <3>1. request' \in [Events -> Request \cup {None}]
      BY <1>0, <1>7
    <3>2. \A f \in Events :
            request'[f] # None <=> run'[f].stage \in {"history", "prefix"}
      BY <1>7, <2>1, <2>2 DEF SummaryInv, TypeOK
    <3> QED  BY <1>7, <3>1, <3>2 DEF SummaryInv, TypeOK
  <2>4. \A f \in Events : request'[f] # None /\ aborted'[f] => request'[f].cut
    BY <1>7, <2>2 DEF SummaryInv
  <2> QED  BY <1>7, <2>3, <2>4 DEF SummaryInv
<1>8. ASSUME NEW e \in Events, RequestTimesOut(e) PROVE SummaryInv'
  <2> DEFINE req == [cut |-> TRUE, timedOut |-> TRUE]
  <2>1. req \in Request /\ req.cut
    BY DEF Request
  <2>2. /\ request[e] # None /\ request' = [request EXCEPT ![e] = req]
        /\ UNCHANGED <<run, aborted, compactionCount, diagnostics, ended>>
    BY <1>8 DEF RequestTimesOut
  <2> HIDE DEF req
  <2> QED  BY <1>0, <1>7, <2>1, <2>2
<1>9. ASSUME NEW e \in Events, HostAborts(e) PROVE SummaryInv'
  <2>1. /\ aborted' \in [Events -> BOOLEAN]
        /\ \A f \in Events \ {e} : aborted'[f] = aborted[f]
        /\ UNCHANGED <<run, compactionCount, diagnostics, ended>>
    BY <1>0, <1>9 DEF HostAborts
  <2>2. CASE request[e] = None
    <3>1. UNCHANGED request
      BY <1>9, <2>2 DEF HostAborts
    <3>2. TypeOK'
      BY <2>1, <3>1 DEF SummaryInv, TypeOK
    <3> QED  BY <2>1, <2>2, <3>1, <3>2 DEF SummaryInv
  <2>3. CASE request[e] # None
    <3> DEFINE req == [request[e] EXCEPT !.cut = TRUE]
    <3>1. request' = [request EXCEPT ![e] = req]
      BY <1>0, <1>9, <2>3 DEF HostAborts
    <3>2. req \in Request /\ req.cut
      BY <1>0, <2>3 DEF Request
    <3> HIDE DEF req
    <3> QED  BY <1>7, <2>1, <2>3, <3>1, <3>2
  <2> QED  BY <2>2, <2>3
<1>10. ASSUME NEW e \in Events, NEW stage \in {"returned", "done"},
              run[e].stage \notin {"history", "prefix"},
              run' = [run EXCEPT ![e].stage = stage],
              compactionCount' =
                compactionCount + (IF stage = "done" THEN 1 ELSE 0),
              UNCHANGED <<request, aborted, diagnostics, ended>>
       PROVE  SummaryInv'
  <2> DEFINE d == [run[e] EXCEPT !.stage = stage]
  <2>1. run' = [run EXCEPT ![e] = d]
    BY <1>0, <1>10
  <2>2. /\ d \in Run /\ d.stage = stage /\ d.job = run[e].job
        /\ d.verdict = run[e].verdict /\ d.generation = run[e].generation
        /\ d.history = run[e].history /\ d.prefix = run[e].prefix
        /\ d.mode = run[e].mode
    BY <1>0, <1>10 DEF Run, Stages
  <2>3. CommitsVerified(run[e]) => CommitsVerified(d)
    BY <2>2 DEF CommitsVerified, Assembled, MaxAllowedTokens, MaxTokens,
                HistoryKnown
  <2>4. RunSound(d)
    BY <1>10, <2>2, <2>3 DEF RunSound, SummaryInv
  <2>5. request[e] = None
    BY <1>10 DEF SummaryInv, TypeOK
  <2>6. /\ compactionCount' \in Nat /\ compactionCount' >= compactionCount
        /\ d.stage = "done" => compactionCount' = compactionCount + 1
    BY <1>0, <1>10, <2>2
  <2>7. d.stage \notin {"history", "prefix"}
    BY <2>2
  <2> HIDE DEF d
  <2> QED  BY <1>10, <2>1, <2>2, <2>4, <2>5, <2>6, <2>7, StageKeepsInv
<1>11. ASSUME NEW e \in Events, HandlerReturns(e) \/ SessionCompact(e)
       PROVE  SummaryInv'
  <2>1. CASE HandlerReturns(e)
    <3>1. /\ run[e].stage \notin {"history", "prefix"}
          /\ run' = [run EXCEPT ![e].stage = "returned"]
          /\ UNCHANGED <<request, aborted, compactionCount, diagnostics, ended>>
      BY <2>1 DEF HandlerReturns
    <3>2. compactionCount'
            = compactionCount + (IF "returned" = "done" THEN 1 ELSE 0)
      BY <1>0, <3>1
    <3> QED  BY <1>10, <3>1, <3>2
  <2>2. CASE SessionCompact(e)
    BY <1>10, <2>2 DEF SessionCompact
  <2> QED  BY <1>11, <2>1, <2>2
<1> QED
  BY <1>1, <1>2, <1>3, <1>4, <1>6, <1>8, <1>9, <1>11 DEF Next

(* Every reachable state keeps the invariant.                              *)
LEMMA InvHolds == Spec => []SummaryInv
BY InvInit, InvStep, PTL DEF Spec

-----------------------------------------------------------------------------
(* The theorems *)

(* Every state has its types, and a handler waits for the model exactly    *)
(* when a request is out (handleBeforeCompact, requestSummary).            *)
THEOREM TypeCorrect == Spec => []TypeOK
<1>1. SummaryInv => TypeOK
  BY DEF SummaryInv
<1> QED  BY <1>1, InvHolds, PTL

(* The lifecycle automaton refuses no transition the pipeline asks for     *)
(* (lifecycle-state-machine.ts, summary-pipeline.ts).                      *)
THEOREM NoTransitionRefused == Spec => []NoInvalidTransition
<1>1. SummaryInv => NoInvalidTransition
  BY DEF SummaryInv, RunSound, NoInvalidTransition
<1> QED  BY <1>1, InvHolds, PTL

(* The limit a summary is held to is below the context it replaces, for    *)
(* every reserve and every limit of the model (summary-size-policy.ts).    *)
LEMMA LimitBelowContext ==
  ASSUME NEW c, NEW before \in Nat, c.job.tokensBefore = before, before > 512,
         MaxTokens(c) \in Nat
  PROVE  MaxAllowedTokens(c) < before
<1> DEFINE part == (3 * before) \div 5
           cap  == MaxTokens(c)
<1>1. part \in Nat /\ part < before
  OBVIOUS
<1>2. MaxAllowedTokens(c) = Greatest(128, Least(cap, Greatest(512, part)))
  BY DEF MaxAllowedTokens
<1>3. cap \in Nat
  OBVIOUS
<1> HIDE DEF part, cap
<1> QED  BY <1>1, <1>2, <1>3 DEF Least, Greatest

(* A committed summary is smaller than a context of more than 512 tokens   *)
(* (compaction-workflow.ts, summary-size-policy.ts).                       *)
THEOREM SummariesShrink == Spec => []CompactionShrinks
<1>1. SummaryInv => CompactionShrinks
  <2> SUFFICES ASSUME SummaryInv, NEW e \in Events, Committed(e),
                      run[e].job.tokensBefore > 512
               PROVE  Assembled(run[e]).tokens < run[e].job.tokensBefore
    BY DEF CompactionShrinks
  <2>1. run[e].job \in Job /\ CommitsVerified(run[e])
    BY JobsAssumption DEF SummaryInv, RunSound, Committed
  <2>2. run[e].job.tokensBefore \in Nat
    BY <2>1 DEF Job
  <2>3. MaxTokens(run[e]) \in Nat
    BY <2>1, BudgetsAreSizes
  <2>4. MaxAllowedTokens(run[e]) < run[e].job.tokensBefore
    BY <2>2, <2>3, LimitBelowContext
  <2>5. MaxAllowedTokens(run[e]) \in Int
    BY <2>2, <2>3, MaxAllowedIsSize
  <2>6. Assembled(run[e]).tokens \in Nat
    BY <2>1 DEF CommitsVerified, Assembled, Text, Job, HistoryKnown
  <2> QED  BY <2>1, <2>2, <2>4, <2>5, <2>6 DEF CommitsVerified
<1> QED  BY <1>1, InvHolds, PTL

(* A split turn is only committed with a part of the summary that bears    *)
(* its heading: the summary of its own messages, or a text that had the    *)
(* heading already (verifyCompactionSummary). The second alternative is    *)
(* what Summary_split.cfg shows.                                           *)
THEOREM SplitTurnsBearHeading ==
  Spec => [](\A e \in Events : Committed(e) /\ run[e].job.prefix =>
               run[e].prefix.tokens > 0 \/ run[e].history.splitTurn)
<1>1. SummaryInv => \A e \in Events : Committed(e) /\ run[e].job.prefix =>
                      run[e].prefix.tokens > 0 \/ run[e].history.splitTurn
  BY DEF SummaryInv, RunSound, CommitsVerified, Committed, Assembled
<1> QED  BY <1>1, InvHolds, PTL

-----------------------------------------------------------------------------
(* What a step does to one event *)

(* It is not taken on, and a request of its that is cut stays cut.         *)
Quiet(e) ==
  /\ run'[e].attempt = run[e].attempt /\ run'[e].verdict = run[e].verdict
  /\ request[e] # None /\ request[e].cut =>
       run'[e] = run[e] /\ request'[e] # None /\ request'[e].cut

(* Its first attempt begins, and does not commit yet.                      *)
Begins(e) ==
  /\ run[e].stage = "preprocess"
  /\ \E d : /\ Sound(d) /\ d.verdict # "ok"
            /\ d.generation = compactionCount + 1
            /\ run'[e] = d \/ run'[e] = Flushed(d)

(* Its request ends; a request that was cut ends the event.                *)
Resolves(e) ==
  /\ request[e] # None
  /\ \E d : /\ TakenOn(run[e], d)
            /\ run'[e] = d \/ run'[e] = Flushed(d)
            /\ request[e].cut => run'[e] = Flushed(d) /\ d.verdict # "ok"

(* The end of an event touches that event alone.                           *)
LEMMA EndsTo ==
  ASSUME TypeOK, NEW e \in Events, NEW c, NEW outcome, Ends(e, c, outcome)
  PROVE  /\ run'[e] = Flushed(c)
         /\ \A f \in Events \ {e} :
              run'[f] = run[f] /\ request'[f] = request[f]
BY DEF TypeOK, Ends, Flushed

(* So does an attempt that proceeds.                                       *)
LEMMA ProceedsTo ==
  ASSUME TypeOK, NEW e \in Events, NEW c, Proceeds(e, c)
  PROVE  /\ c.verdict = None => run'[e] = c
         /\ c.verdict # None => run'[e] = Flushed(c)
         /\ \A f \in Events \ {e} :
              run'[f] = run[f] /\ request'[f] = request[f]
<1>1. CASE c.verdict # None
  BY <1>1, EndsTo DEF Proceeds
<1>2. CASE c.verdict = None
  BY <1>2 DEF Proceeds, SendsRequest, TypeOK
<1> QED  BY <1>1, <1>2

(* The final block changes nothing but the stage.                          *)
LEMMA FlushedFields ==
  ASSUME NEW c \in Startable
  PROVE  /\ Flushed(c).attempt = c.attempt /\ Flushed(c).mode = c.mode
         /\ Flushed(c).verdict = c.verdict /\ Flushed(c).job = c.job
         /\ Flushed(c).generation = c.generation
         /\ Flushed(c).stage = "flush"
BY DEF Flushed, Startable

(* Every step is one of the three for every event.                         *)
LEMMA EventSteps ==
  ASSUME SummaryInv, [Next]_vars, NEW e \in Events
  PROVE  Quiet(e) \/ Begins(e) \/ Resolves(e)
<1>0. /\ TypeOK /\ run \in [Events -> Run]
      /\ request \in [Events -> Request \cup {None}]
  BY DEF SummaryInv, TypeOK
<1>1. CASE UNCHANGED vars
  BY <1>1 DEF vars, Quiet
<1>2. ASSUME NEW f \in Events, f # e, run'[e] = run[e],
             request'[e] = request[e]
      PROVE  Quiet(e)
  BY <1>2 DEF Quiet
<1>3. ASSUME NEW f \in Events, BeforeCompact(f) PROVE Quiet(e)
  <2>0. request[f] = None /\ run[f] \in Run
    BY <1>0, <1>3 DEF BeforeCompact, TypeOK
  <2>1. ASSUME NEW c, NEW outcome, Ends(f, c, outcome),
               c \in Run, c.attempt = run[f].attempt,
               c.verdict = run[f].verdict
        PROVE  Quiet(e)
    <3>1. Flushed(c).attempt = c.attempt /\ Flushed(c).verdict = c.verdict
      BY <2>1 DEF Flushed, Run
    <3> QED  BY <1>0, <1>2, <2>0, <2>1, <3>1, EndsTo DEF Quiet
  <2>2. \A job \in Jobs : LET c == [run[f] EXCEPT !.job = job] IN
          c \in Run /\ c.attempt = run[f].attempt /\ c.verdict = run[f].verdict
    BY <2>0 DEF Run
  <2>3. ASSUME NEW job \in Jobs,
               run' = [run EXCEPT ![f].job = job, ![f].stage = "auth"],
               UNCHANGED request
        PROVE  Quiet(e)
    <3>1. /\ run'[f].attempt = run[f].attempt
          /\ run'[f].verdict = run[f].verdict
      BY <1>0, <2>0, <2>3 DEF Run
    <3>2. f # e => run'[e] = run[e]
      BY <1>0, <2>3
    <3> QED  BY <1>2, <2>0, <2>3, <3>1, <3>2 DEF Quiet
  <2> QED  BY <1>3, <2>0, <2>1, <2>2, <2>3 DEF BeforeCompact
<1>4. ASSUME NEW f \in Events, AuthResolves(f) PROVE Quiet(e)
  <2>0. request[f] = None /\ run[f] \in Run
    BY <1>0, <1>4 DEF AuthResolves, TypeOK
  <2>1. ASSUME NEW outcome, Ends(f, run[f], outcome) PROVE Quiet(e)
    <3>1. /\ Flushed(run[f]).attempt = run[f].attempt
          /\ Flushed(run[f]).verdict = run[f].verdict
      BY <2>0 DEF Flushed, Run
    <3> QED  BY <1>0, <1>2, <2>0, <2>1, <3>1, EndsTo DEF Quiet
  <2>2. CASE run' = [run EXCEPT ![f].stage = "preprocess"] /\ UNCHANGED request
    <3>1. /\ run'[f].attempt = run[f].attempt
          /\ run'[f].verdict = run[f].verdict
      BY <1>0, <2>0, <2>2 DEF Run
    <3>2. f # e => run'[e] = run[e]
      BY <1>0, <2>2
    <3> QED  BY <1>2, <2>0, <2>2, <3>1, <3>2 DEF Quiet
  <2> QED  BY <1>4, <2>1, <2>2 DEF AuthResolves
<1>5. ASSUME NEW f \in Events, Preprocessed(f) PROVE Quiet(e) \/ Begins(e)
  <2>0. request[f] = None /\ run[f] \in Run /\ run[f].stage = "preprocess"
    BY <1>0, <1>5 DEF Preprocessed, TypeOK
  <2>1. CASE \E outcome : Ends(f, run[f], outcome)
    <3>1. /\ Flushed(run[f]).attempt = run[f].attempt
          /\ Flushed(run[f]).verdict = run[f].verdict
      BY <2>0 DEF Flushed, Run
    <3> QED  BY <1>0, <1>2, <2>0, <2>1, <3>1, EndsTo DEF Quiet
  <2> DEFINE d == WithRetry(NewAttempt(
                    [run[f] EXCEPT !.generation = compactionCount + 1], 1))
  <2>2. CASE Proceeds(f, d)
    <3>1. Sound(d) /\ d.verdict # "ok" /\ d.generation = compactionCount + 1
      BY <2>0, FirstAttempt
    <3> HIDE DEF d
    <3> QED  BY <1>0, <1>2, <2>0, <2>2, <3>1, ProceedsTo DEF Begins
  <2> QED  BY <1>5, <2>1, <2>2 DEF Preprocessed
<1>6. ASSUME NEW f \in Events,
             ModelAnswers(f) \/ ModelFails(f) \/ RequestRejected(f)
      PROVE  Quiet(e) \/ Resolves(e)
  <2>0. request[f] # None
    BY <1>6 DEF ModelAnswers, ModelFails, RequestRejected
  <2>1. PICK d : /\ TakenOn(run[f], d) /\ Proceeds(f, d)
                 /\ request[f].cut => d.verdict \in {"timeout", "aborted"}
    <3>1. CASE ModelAnswers(f)
      <4>1. "empty" \in Failures
        BY DEF Failures
      <4> QED  BY <2>0, <3>1, <4>1, RequestEnds DEF ModelAnswers
    <3>2. CASE ModelFails(f)
      <4>1. "provider-error" \in Failures
        BY DEF Failures
      <4> QED  BY <2>0, <3>2, <4>1, RequestEnds DEF ModelFails
    <3>3. CASE RequestRejected(f)
      <4>1. /\ CutReason(request[f]) \in {"timeout", "aborted"}
            /\ CutReason(request[f]) \in Failures
        BY DEF Failures, CutReason
      <4>2. WithRetry(Fail(run[f], CutReason(request[f]))).verdict
              = CutReason(request[f])
        BY <2>0, <4>1, CutDecides
      <4> QED  BY <2>0, <3>3, <4>1, <4>2, RequestEnds DEF RequestRejected
    <3> QED  BY <1>6, <3>1, <3>2, <3>3
  <2>2. request[f].cut => d.verdict # None /\ d.verdict # "ok"
    BY <2>1, Verdicts DEF Failures
  <2> QED  BY <1>0, <1>2, <2>0, <2>1, <2>2, ProceedsTo DEF Resolves
<1>7. ASSUME NEW f \in Events, RequestTimesOut(f) PROVE Quiet(e)
  <2>1. UNCHANGED run
    BY <1>7 DEF RequestTimesOut
  <2>2. request'[e] = request[e]
        \/ request'[e] = [cut |-> TRUE, timedOut |-> TRUE]
    BY <1>0, <1>7 DEF RequestTimesOut
  <2>3. [cut |-> TRUE, timedOut |-> TRUE] \in Request
    BY DEF Request
  <2> QED  BY <2>1, <2>2, <2>3, JobsAssumption DEF Quiet
<1>8. ASSUME NEW f \in Events, HostAborts(f) PROVE Quiet(e)
  <2>1. UNCHANGED run
    BY <1>8 DEF HostAborts
  <2>2. request[e] # None =>
          request'[e] = request[e] \/ request'[e] = [request[e] EXCEPT !.cut = TRUE]
    BY <1>0, <1>8 DEF HostAborts
  <2>3. request[e] # None =>
          /\ [request[e] EXCEPT !.cut = TRUE] \in Request
          /\ [request[e] EXCEPT !.cut = TRUE].cut
    BY <1>0 DEF Request
  <2> QED  BY <2>1, <2>2, <2>3, JobsAssumption DEF Quiet
<1>9. ASSUME NEW f \in Events, HandlerReturns(f) \/ SessionCompact(f)
      PROVE  Quiet(e)
  <2>1. request[f] = None /\ run[f] \in Run /\ UNCHANGED request
    BY <1>0, <1>9 DEF HandlerReturns, SessionCompact, TypeOK
  <2>2. /\ run'[f].attempt = run[f].attempt
        /\ run'[f].verdict = run[f].verdict
    BY <1>0, <1>9, <2>1 DEF HandlerReturns, SessionCompact, Run
  <2>3. f # e => run'[e] = run[e]
    BY <1>0, <1>9 DEF HandlerReturns, SessionCompact
  <2> QED  BY <1>2, <2>1, <2>2, <2>3 DEF Quiet
<1> QED
  BY <1>1, <1>3, <1>4, <1>5, <1>6, <1>7, <1>8, <1>9 DEF Next

(* A sound attempt has the types of a context.                             *)
LEMMA SoundIsStartable ==
  ASSUME NEW c, Sound(c)
  PROVE  c \in Startable
BY DEF Sound, Context, Startable

(* An aborted event is never committed afterwards, at whichever await the  *)
(* abort finds the handler (summary-provider.ts, orchestration.ts).        *)
THEOREM AbortedNeverCommits == Spec => AbortNeverCommits
<1>1. ASSUME SummaryInv, [Next]_vars, NEW e \in Events,
             run'[e].verdict = "ok", run[e].verdict # "ok", aborted[e]
      PROVE  FALSE
  <2>1. ~Quiet(e)
    BY <1>1 DEF Quiet
  <2>2. ~Begins(e)
    BY <1>1, SoundIsStartable, FlushedFields DEF Begins
  <2>3. CASE Resolves(e)
    <3>1. request[e].cut
      BY <1>1, <2>3 DEF SummaryInv, Resolves
    <3>2. PICK d : /\ TakenOn(run[e], d) /\ run'[e] = Flushed(d)
                   /\ d.verdict # "ok"
      BY <2>3, <3>1 DEF Resolves
    <3> QED
      BY <1>1, <3>2, SoundIsStartable, FlushedFields DEF TakenOn
  <2> QED  BY <1>1, <2>1, <2>2, <2>3, EventSteps
<1>2. SummaryInv /\ [Next]_vars
        => [\A e \in Events : Committed(e)' /\ ~Committed(e) => ~aborted[e]]_vars
  BY <1>1 DEF Committed
<1> QED  BY <1>2, InvHolds, PTL DEF Spec, AbortNeverCommits

(* A request that was cut, by its timeout or by an abort, is the last of   *)
(* its event (callSummaryModel, shouldRetrySummaryFailure).                *)
THEOREM CutEnds == Spec => CutEndsCompaction
<1>1. ASSUME SummaryInv, [Next]_vars, NEW e \in Events,
             request[e] # None, request[e].cut
      PROVE  \/ run'[e] = run[e] /\ request'[e] # None /\ request'[e].cut
             \/ run'[e].stage = "flush" /\ run'[e].verdict # "ok"
  <2>1. ~Begins(e)
    BY <1>1 DEF Begins, SummaryInv, TypeOK
  <2>2. CASE Quiet(e)
    BY <1>1, <2>2 DEF Quiet
  <2>3. CASE Resolves(e)
    <3>1. PICK d : /\ TakenOn(run[e], d) /\ run'[e] = Flushed(d)
                   /\ d.verdict # "ok"
      BY <1>1, <2>3 DEF Resolves
    <3> QED  BY <3>1, SoundIsStartable, FlushedFields DEF TakenOn
  <2> QED  BY <1>1, <2>1, <2>2, <2>3, EventSteps
<1>2. SummaryInv /\ [Next]_vars
        => [\A e \in Events :
              request[e] # None /\ request[e].cut =>
                \/ run'[e] = run[e] /\ request'[e] # None /\ request'[e].cut
                \/ run'[e].stage = "flush" /\ ~Committed(e)']_vars
  BY <1>1 DEF Committed
<1> QED  BY <1>2, InvHolds, PTL DEF Spec, CutEndsCompaction

(* The aggressive budget is the smaller one for every reserve and every    *)
(* limit of the model (computeSummaryBudget).                              *)
LEMMA AggressiveAsksForLess ==
  ASSUME NEW job \in Job, NEW c, NEW d, c.job = job, d.job = job,
         d.mode = "aggressive", c.mode # "aggressive"
  PROVE  MaxTokens(d) <= MaxTokens(c)
<1>1. job.reserve \in Nat /\ job.modelMax \in Nat
  BY DEF Job
<1> DEFINE less == (11 * job.reserve) \div 20
           more == (4 * job.reserve) \div 5
           half == job.reserve \div 2
<1>2. /\ less \in Nat /\ more \in Nat /\ half \in Nat /\ less <= more
  BY <1>1
<1>3. /\ HistoryBudget(job, d.mode) = CappedByModel(job, less)
      /\ HistoryBudget(job, c.mode) = CappedByModel(job, more)
  BY DEF HistoryBudget
<1>4. PrefixBudget(job) = IF job.prefix THEN CappedByModel(job, half) ELSE 0
  BY DEF PrefixBudget
<1> HIDE DEF less, more, half
<1>5. /\ CappedByModel(job, less) <= CappedByModel(job, more)
      /\ CappedByModel(job, less) \in Nat /\ CappedByModel(job, more) \in Nat
      /\ CappedByModel(job, half) \in Nat
  BY <1>1, <1>2 DEF CappedByModel, Least
<1> QED  BY <1>3, <1>4, <1>5 DEF MaxTokens

(* The retry is aggressive after an attempt that was not, and asks for no  *)
(* more than that attempt did (summary-pipeline.ts, summary-request.ts).   *)
THEOREM RetryIsSmaller == Spec => RetryAsksForLess
<1>1. ASSUME SummaryInv, [Next]_vars, NEW e \in Events,
             run[e].attempt = 1, run'[e].attempt = 2
      PROVE  /\ run[e].mode # "aggressive" /\ run'[e].mode = "aggressive"
             /\ MaxTokens(run'[e]) <= MaxTokens(run[e])
  <2>1. ~Quiet(e)
    BY <1>1 DEF Quiet
  <2>2. ~Begins(e)
    BY <1>1 DEF Begins, SummaryInv, RunSound
  <2>3. CASE Resolves(e)
    <3>1. PICK d : TakenOn(run[e], d) /\ (run'[e] = d \/ run'[e] = Flushed(d))
      BY <2>3 DEF Resolves
    <3>2. d.attempt = 2 /\ run'[e].mode = d.mode /\ run'[e].job = d.job
      BY <1>1, <3>1, SoundIsStartable, FlushedFields DEF TakenOn
    <3>3. /\ run[e].mode # "aggressive" /\ run'[e].mode = "aggressive"
          /\ run'[e].job = run[e].job
      BY <1>1, <3>1, <3>2 DEF TakenOn
    <3>4. run[e].job \in Job
      BY <3>1, JobsAssumption DEF TakenOn, Sound, Context
    <3> QED  BY <3>3, <3>4, AggressiveAsksForLess
  <2> QED  BY <1>1, <2>1, <2>2, <2>3, EventSteps
<1>2. SummaryInv /\ [Next]_vars
        => [\A e \in Events :
              run[e].attempt = 1 /\ run'[e].attempt = 2 =>
                /\ run[e].mode # "aggressive" /\ run'[e].mode = "aggressive"
                /\ MaxTokens(run'[e]) <= MaxTokens(run[e])]_vars
  BY <1>1
<1> QED  BY <1>2, InvHolds, PTL DEF Spec, RetryAsksForLess

(* The generation of a compaction planned after another was applied is the *)
(* larger one (calvoproxy-coordination.ts, handleSessionCompact).          *)
THEOREM GenerationsGrow == Spec => GenerationsAdvance
<1>1. ASSUME SummaryInv, [Next]_vars, NEW e \in Events, NEW before \in Events,
             run[e].attempt = 0, run'[e].attempt > 0,
             run[before].stage = "done"
      PROVE  run[before].generation < run'[e].generation
  <2>1. ~Quiet(e)
    BY <1>1 DEF Quiet
  <2>2. ~Resolves(e)
    BY <1>1, Waiting DEF Resolves
  <2>3. CASE Begins(e)
    <3>1. run'[e].generation = compactionCount + 1
      BY <2>3, SoundIsStartable, FlushedFields DEF Begins
    <3>2. run[before].generation <= compactionCount
      BY <1>1 DEF SummaryInv
    <3>3. run[before].generation \in Nat /\ compactionCount \in Nat
      <4>1. run[before] \in Run /\ compactionCount \in Nat
        BY <1>1 DEF SummaryInv, TypeOK
      <4> QED  BY <4>1 DEF Run
    <3> QED  BY <3>1, <3>2, <3>3
  <2> QED  BY <1>1, <2>1, <2>2, <2>3, EventSteps
<1>2. SummaryInv /\ [Next]_vars
        => [\A e, before \in Events :
              run[e].attempt = 0 /\ run'[e].attempt > 0
                /\ run[before].stage = "done"
                => run[before].generation < run'[e].generation]_vars
  BY <1>1
<1> QED  BY <1>2, InvHolds, PTL DEF Spec, GenerationsAdvance

-----------------------------------------------------------------------------
(* The diagnostics *)

(* The end of a sequence that is at most n long.                           *)
LEMMA LastElements ==
  ASSUME NEW S, NEW s \in Seq(S), NEW n \in Nat \ {0}
  PROVE  /\ LastOf(s, n) \in Seq(S)
         /\ Len(LastOf(s, n)) = Least(Len(s), n)
         /\ \A i \in 1..Least(Len(s), n) :
              LastOf(s, n)[i] = s[Len(s) - Least(Len(s), n) + i]
<1>0. Len(s) \in Nat /\ \A i \in 1..Len(s) : s[i] \in S
  OBVIOUS
<1>1. CASE Len(s) > n
  <2>1. /\ Least(Len(s), n) = n
        /\ LastOf(s, n) = SubSeq(s, Len(s) - n + 1, Len(s))
    BY <1>0, <1>1 DEF Least, LastOf
  <2>2. Len(s) - n + 1 \in 1..Len(s) /\ Len(s) \in Int
    BY <1>0, <1>1
  <2>3. SubSeq(s, Len(s) - n + 1, Len(s)) \in Seq(S)
    BY <1>0, <2>2
  <2> QED  BY <1>0, <2>1, <2>2, <2>3
<1>2. CASE ~(Len(s) > n)
  <2>1. Least(Len(s), n) = Len(s) /\ LastOf(s, n) = s
    BY <1>0, <1>2 DEF Least, LastOf
  <2>2. \A i \in 1..Len(s) : Len(s) - Len(s) + i = i
    BY <1>0
  <2> QED  BY <2>1, <2>2
<1> QED  BY <1>1, <1>2

(* Only the end that was kept matters for the next one.                    *)
LEMMA LastOfKept ==
  ASSUME NEW S, NEW s \in Seq(S), NEW x \in S, NEW n \in Nat \ {0}
  PROVE  LastOf(Append(s, x), n) = LastOf(Append(LastOf(s, n), x), n)
<1> DEFINE t == LastOf(s, n)
           a == Append(s, x)
           b == Append(t, x)
<1>1. /\ t \in Seq(S) /\ Len(t) = Least(Len(s), n)
      /\ \A i \in 1..Least(Len(s), n) :
           t[i] = s[Len(s) - Least(Len(s), n) + i]
  BY LastElements
<1> HIDE DEF t
<1>2. /\ a \in Seq(S) /\ Len(a) = Len(s) + 1 /\ a[Len(s) + 1] = x
      /\ \A i \in 1..Len(s) : a[i] = s[i]
      /\ b \in Seq(S) /\ Len(b) = Len(t) + 1 /\ b[Len(t) + 1] = x
      /\ \A i \in 1..Len(t) : b[i] = t[i]
  BY <1>1
<1> HIDE DEF a, b
<1>3. /\ LastOf(a, n) \in Seq(S) /\ Len(LastOf(a, n)) = Least(Len(a), n)
      /\ \A i \in 1..Least(Len(a), n) :
           LastOf(a, n)[i] = a[Len(a) - Least(Len(a), n) + i]
  BY <1>2, LastElements
<1>4. /\ LastOf(b, n) \in Seq(S) /\ Len(LastOf(b, n)) = Least(Len(b), n)
      /\ \A i \in 1..Least(Len(b), n) :
           LastOf(b, n)[i] = b[Len(b) - Least(Len(b), n) + i]
  BY <1>2, LastElements
<1>5. Len(s) \in Nat /\ Least(Len(a), n) = Least(Len(b), n)
  BY <1>1, <1>2 DEF Least
<1>6. ASSUME NEW i \in 1..Least(Len(a), n)
      PROVE  a[Len(a) - Least(Len(a), n) + i] = b[Len(b) - Least(Len(b), n) + i]
  <2>1. CASE Len(s) < n
    <3>1. /\ Least(Len(a), n) = Len(s) + 1 /\ Len(t) = Len(s)
          /\ Least(Len(s), n) = Len(s) /\ Len(a) = Len(s) + 1
          /\ Len(b) = Len(s) + 1
      BY <1>1, <1>2, <1>5, <2>1 DEF Least
    <3>2. /\ i \in 1..(Len(s) + 1) /\ Len(a) - Least(Len(a), n) + i = i
          /\ Len(s) - Least(Len(s), n) + i = i
      BY <1>5, <1>6, <3>1
    <3>3. i # Len(s) + 1 => t[i] = s[i]
      BY <1>1, <1>5, <3>1, <3>2
    <3> QED  BY <1>2, <1>5, <3>1, <3>2, <3>3
  <2>2. CASE Len(s) >= n
    <3>1. /\ Least(Len(a), n) = n /\ Least(Len(b), n) = n
          /\ Len(a) = Len(s) + 1 /\ Len(b) = n + 1 /\ Len(t) = n
      BY <1>1, <1>2, <1>5, <2>2 DEF Least
    <3>2. CASE i = n
      BY <1>2, <1>5, <3>1, <3>2
    <3>3. CASE i < n
      <4>1. /\ Len(s) + 1 - n + i \in 1..Len(s) /\ n + 1 - n + i \in 1..n
            /\ i + 1 \in 1..n /\ n + 1 - n + i = i + 1
        BY <1>5, <1>6, <2>2, <3>1, <3>3
      <4>2. t[i + 1] = s[Len(s) - n + (i + 1)]
        BY <1>1, <1>5, <2>2, <3>1, <4>1
      <4>3. Len(s) - n + (i + 1) = Len(s) + 1 - n + i
        BY <1>5, <4>1
      <4>4. /\ a[Len(s) + 1 - n + i] = s[Len(s) + 1 - n + i]
            /\ b[i + 1] = t[i + 1]
        BY <1>2, <3>1, <4>1
      <4> QED  BY <3>1, <4>1, <4>2, <4>3, <4>4
    <3> QED  BY <1>6, <3>1, <3>2, <3>3
  <2> QED  BY <1>5, <2>1, <2>2
<1> HIDE DEF LastOf, Least
<1>7. \A i \in 1..Least(Len(a), n) : LastOf(a, n)[i] = LastOf(b, n)[i]
  BY <1>3, <1>4, <1>5, <1>6
<1>8. /\ LastOf(a, n) = [i \in 1..Least(Len(a), n) |-> LastOf(a, n)[i]]
      /\ LastOf(b, n) = [i \in 1..Least(Len(a), n) |-> LastOf(b, n)[i]]
  BY <1>3, <1>4, <1>5
<1> QED  BY <1>7, <1>8 DEF a, b, t

(* The events of a sequence of entries.                                    *)
EventsOf(entries) == [i \in DOMAIN entries |-> entries[i].event]

LEMMA EventsOfLast ==
  ASSUME NEW entries \in Seq(Entry), NEW entry \in Entry,
         NEW n \in Nat \ {0}
  PROVE  EventsOf(LastOf(Append(entries, entry), n))
           = LastOf(Append(EventsOf(entries), entry.event), n)
<1> DEFINE a == Append(entries, entry)
           b == Append(EventsOf(entries), entry.event)
<1>1. /\ EventsOf(entries) \in Seq(Events) /\ entry.event \in Events
      /\ Len(EventsOf(entries)) = Len(entries)
      /\ \A i \in 1..Len(entries) : EventsOf(entries)[i] = entries[i].event
  <2>1. \A i \in 1..Len(entries) : entries[i] \in Entry
    OBVIOUS
  <2> QED  BY <2>1 DEF EventsOf, Entry
<1>2. /\ a \in Seq(Entry) /\ b \in Seq(Events) /\ Len(a) = Len(b)
      /\ \A i \in 1..Len(a) : b[i] = a[i].event
  BY <1>1
<1> HIDE DEF a, b
<1>3. /\ LastOf(a, n) \in Seq(Entry) /\ Len(LastOf(a, n)) = Least(Len(a), n)
      /\ \A i \in 1..Least(Len(a), n) :
           LastOf(a, n)[i] = a[Len(a) - Least(Len(a), n) + i]
  BY <1>2, LastElements
<1>4. /\ LastOf(b, n) \in Seq(Events) /\ Len(LastOf(b, n)) = Least(Len(b), n)
      /\ \A i \in 1..Least(Len(b), n) :
           LastOf(b, n)[i] = b[Len(b) - Least(Len(b), n) + i]
  BY <1>2, LastElements
<1>5. /\ Len(a) \in Nat /\ Least(Len(a), n) \in Nat
      /\ \A i \in 1..Least(Len(a), n) :
           Len(a) - Least(Len(a), n) + i \in 1..Len(a)
  BY <1>2 DEF Least
<1>6. \A i \in 1..Least(Len(a), n) : LastOf(b, n)[i] = LastOf(a, n)[i].event
  BY <1>2, <1>3, <1>4, <1>5
<1> HIDE DEF LastOf, Least
<1>7. EventsOf(LastOf(a, n)) = [i \in 1..Least(Len(a), n) |-> LastOf(a, n)[i].event]
  BY <1>3, <1>5 DEF EventsOf
<1>8. LastOf(b, n) = [i \in 1..Least(Len(a), n) |-> LastOf(b, n)[i]]
  BY <1>2, <1>4, <1>5
<1> QED  BY <1>6, <1>7, <1>8 DEF a, b

(* An event the handler has decided.                                       *)
Decided(e) == run[e].stage \in {"flush", "returned", "done"}

(* What the diagnostics hold, at every moment.                             *)
DiagnosticsInv ==
  /\ LastOf(ended, MaxDiagnostics) = EventsOf(diagnostics)
  /\ \A i \in DOMAIN diagnostics :
       /\ Decided(diagnostics[i].event)
       /\ diagnostics[i].outcome.terminal = "completed"
            <=> Committed(diagnostics[i].event)

(* An entry that tells the truth about its event.                          *)
Truthful(c, outcome) ==
  outcome \in Outcomes /\ (outcome.terminal = "completed" <=> c.verdict = "ok")

(* A step that decides an event, for the first time.                       *)
Decides(e) ==
  /\ ~Decided(e)
  /\ \E c, outcome : /\ Ends(e, c, outcome) /\ Truthful(c, outcome)
                     /\ Flushed(c).verdict = c.verdict
                     /\ Flushed(c).stage = "flush"

(* A step that decides none.                                               *)
Waits ==
  /\ UNCHANGED <<diagnostics, ended>>
  /\ \A e \in Events :
       Decided(e) => Decided(e)' /\ run'[e].verdict = run[e].verdict

(* The outcome recorded of an attempt says whether it was committed.       *)
LEMMA AttemptsTellTruth ==
  ASSUME NEW c, Sound(c), c.verdict # None, NEW isAborted \in BOOLEAN
  PROVE  Truthful(c, AttemptOutcome(c, isAborted))
<1>1. AttemptOutcome(c, isAborted) \in Outcomes
  BY OutcomesOfAttempts DEF Sound
<1>2. \A terminal, category, retries :
        Outcome(terminal, category, retries).terminal = terminal
  BY DEF Outcome
<1>3. AttemptOutcome(c, isAborted).terminal = "completed" <=> c.verdict = "ok"
  BY <1>2 DEF AttemptOutcome
<1> QED  BY <1>1, <1>3 DEF Truthful

(* An event that ends before its first attempt is not committed.           *)
LEMMA EarlyOutcomes ==
  ASSUME NEW c \in Run, c.verdict = None,
         NEW terminal \in {"skipped", "failed", "fallback"},
         NEW category \in {"incompatible-event", "missing-model",
                          "missing-auth", "empty-input",
                          "preprocessing-failed", "unexpected-error"}
  PROVE  /\ Truthful(c, Outcome(terminal, category, 0))
         /\ Flushed(c).verdict = c.verdict /\ Flushed(c).stage = "flush"
<1>1. Outcome(terminal, category, 0) \in Outcomes
  BY DEF Outcome, Outcomes
<1>2. Outcome(terminal, category, 0).terminal = terminal
  BY DEF Outcome
<1> QED  BY <1>1, <1>2, Verdicts DEF Truthful, Flushed, Run

(* An attempt that proceeds either waits or is decided.                    *)
LEMMA ProceedsDecides ==
  ASSUME SummaryInv, NEW e \in Events, ~Decided(e), NEW c, Sound(c),
         Proceeds(e, c)
  PROVE  Decides(e) \/ Waits
<1>1. CASE c.verdict # None
  <2>1. aborted[e] \in BOOLEAN
    BY DEF SummaryInv, TypeOK
  <2>2. Ends(e, c, AttemptOutcome(c, aborted[e]))
    BY <1>1 DEF Proceeds
  <2>3. Truthful(c, AttemptOutcome(c, aborted[e]))
    BY <1>1, <2>1, AttemptsTellTruth
  <2>4. Flushed(c).verdict = c.verdict /\ Flushed(c).stage = "flush"
    BY DEF Sound, Context, Flushed
  <2> QED  BY <2>2, <2>3, <2>4, Zenon DEF Decides
<1>2. CASE c.verdict = None
  BY <1>2 DEF Proceeds, Waits, Decided, SummaryInv, TypeOK
<1> QED  BY <1>1, <1>2

(* Every step decides one event or none.                                   *)
LEMMA StepsDecide ==
  ASSUME SummaryInv, [Next]_vars
  PROVE  Waits \/ \E e \in Events : Decides(e)
<1>0. /\ TypeOK /\ run \in [Events -> Run]
      /\ request \in [Events -> Request \cup {None}]
  BY DEF SummaryInv, TypeOK
<1>1. CASE UNCHANGED vars
  BY <1>1 DEF vars, Waits, Decided
<1>2. ASSUME NEW e \in Events, ~Decided(e), NEW c \in Run, c.verdict = None,
             NEW terminal \in {"skipped", "failed", "fallback"},
             NEW category \in {"incompatible-event", "missing-model",
                              "missing-auth", "empty-input",
                              "preprocessing-failed", "unexpected-error"},
             Ends(e, c, Outcome(terminal, category, 0))
      PROVE  Decides(e)
  <2>1. /\ Truthful(c, Outcome(terminal, category, 0))
        /\ Flushed(c).verdict = c.verdict /\ Flushed(c).stage = "flush"
    BY <1>2, EarlyOutcomes
  <2> QED  BY <1>2, <2>1, Zenon DEF Decides
<1>3. ASSUME NEW e \in Events, ~Decided(e), UNCHANGED <<diagnostics, ended>>,
             \A f \in Events \ {e} : run'[f] = run[f]
      PROVE  Waits
  BY <1>3 DEF Waits, Decided
<1>4. ASSUME NEW e \in Events, BeforeCompact(e) PROVE Waits \/ Decides(e)
  <2>1. /\ ~Decided(e) /\ run[e] \in Run /\ run[e].verdict = None
    BY <1>0, <1>4 DEF BeforeCompact, Decided, SummaryInv, RunSound
  <2>2. CASE Ends(e, run[e], Outcome("skipped", "incompatible-event", 0))
    BY <1>2, <2>1, <2>2
  <2>3. ASSUME NEW job \in Jobs,
               Ends(e, [run[e] EXCEPT !.job = job],
                    Outcome("skipped", "missing-model", 0))
        PROVE  Decides(e)
    <3>1. /\ [run[e] EXCEPT !.job = job] \in Run
          /\ [run[e] EXCEPT !.job = job].verdict = None
      BY <2>1 DEF Run
    <3> QED  BY <1>2, <2>1, <2>3, <3>1
  <2>4. ASSUME NEW job \in Jobs,
               run' = [run EXCEPT ![e].job = job, ![e].stage = "auth"],
               UNCHANGED <<request, diagnostics, ended>>
        PROVE  Waits
    BY <1>0, <1>3, <2>1, <2>4
  <2> QED  BY <1>4, <2>2, <2>3, <2>4 DEF BeforeCompact
<1>5. ASSUME NEW e \in Events, AuthResolves(e) PROVE Waits \/ Decides(e)
  <2>1. /\ ~Decided(e) /\ run[e] \in Run /\ run[e].verdict = None
    BY <1>0, <1>5 DEF AuthResolves, Decided, SummaryInv, RunSound
  <2>2. CASE \/ Ends(e, run[e], Outcome("failed", "unexpected-error", 0))
             \/ Ends(e, run[e], Outcome("skipped", "missing-auth", 0))
             \/ Ends(e, run[e], Outcome("skipped", "empty-input", 0))
    BY <1>2, <2>1, <2>2
  <2>3. CASE /\ run' = [run EXCEPT ![e].stage = "preprocess"]
             /\ UNCHANGED <<request, diagnostics, ended>>
    BY <1>0, <1>3, <2>1, <2>3
  <2> QED  BY <1>5, <2>2, <2>3 DEF AuthResolves
<1>6. ASSUME NEW e \in Events, Preprocessed(e) PROVE Waits \/ Decides(e)
  <2>1. /\ ~Decided(e) /\ run[e] \in Run /\ run[e].verdict = None
        /\ run[e].stage = "preprocess"
    BY <1>0, <1>6 DEF Preprocessed, Decided, SummaryInv, RunSound
  <2>2. CASE Ends(e, run[e], Outcome("fallback", "preprocessing-failed", 0))
    BY <1>2, <2>1, <2>2
  <2> DEFINE d == WithRetry(NewAttempt(
                    [run[e] EXCEPT !.generation = compactionCount + 1], 1))
  <2>3. CASE Proceeds(e, d)
    <3>1. Sound(d)
      BY <2>1, FirstAttempt
    <3> HIDE DEF d
    <3> QED  BY <2>1, <2>3, <3>1, ProceedsDecides
  <2> QED  BY <1>6, <2>2, <2>3 DEF Preprocessed
<1>7. ASSUME NEW e \in Events,
             ModelAnswers(e) \/ ModelFails(e) \/ RequestRejected(e)
      PROVE  Waits \/ Decides(e)
  <2>1. request[e] # None
    BY <1>7 DEF ModelAnswers, ModelFails, RequestRejected
  <2>2. ~Decided(e)
    BY <1>0, <2>1 DEF TypeOK, Decided
  <2>3. PICK d : TakenOn(run[e], d) /\ Proceeds(e, d)
    <3>1. CASE ModelAnswers(e)
      <4>1. "empty" \in Failures
        BY DEF Failures
      <4> QED  BY <2>1, <3>1, <4>1, RequestEnds DEF ModelAnswers
    <3>2. CASE ModelFails(e)
      <4>1. "provider-error" \in Failures
        BY DEF Failures
      <4> QED  BY <2>1, <3>2, <4>1, RequestEnds DEF ModelFails
    <3>3. CASE RequestRejected(e)
      <4>1. CutReason(request[e]) \in Failures
        BY DEF Failures, CutReason
      <4> QED  BY <2>1, <3>3, <4>1, RequestEnds DEF RequestRejected
    <3> QED  BY <1>7, <3>1, <3>2, <3>3
  <2> QED  BY <2>2, <2>3, ProceedsDecides DEF TakenOn
<1>8. ASSUME NEW e \in Events,
             RequestTimesOut(e) \/ HostAborts(e)
      PROVE  Waits
  BY <1>8 DEF RequestTimesOut, HostAborts, Waits, Decided
<1>9. ASSUME NEW e \in Events, HandlerReturns(e) \/ SessionCompact(e)
      PROVE  Waits
  <2>1. /\ run'[e].stage \in {"returned", "done"}
        /\ run'[e].verdict = run[e].verdict
        /\ \A f \in Events \ {e} : run'[f] = run[f]
    BY <1>0, <1>9 DEF HandlerReturns, SessionCompact, Run
  <2>2. UNCHANGED <<diagnostics, ended>>
    BY <1>9 DEF HandlerReturns, SessionCompact
  <2> QED  BY <2>1, <2>2 DEF Waits, Decided
<1> QED
  BY <1>1, <1>4, <1>5, <1>6, <1>7, <1>8, <1>9 DEF Next

(* A decision goes to the end of both histories, and no earlier entry of   *)
(* the diagnostics is about its event.                                     *)
LEMMA DecidesKeepsDiagnostics ==
  ASSUME SummaryInv, DiagnosticsInv, NEW e \in Events, Decides(e)
  PROVE  DiagnosticsInv'
<1>0. PICK c, outcome : /\ Ends(e, c, outcome) /\ Truthful(c, outcome)
                        /\ Flushed(c).verdict = c.verdict
                        /\ Flushed(c).stage = "flush"
  BY DEF Decides
<1> DEFINE entry == [event |-> e, outcome |-> outcome]
           all   == Append(diagnostics, entry)
<1>1. /\ diagnostics \in Seq(Entry) /\ ended \in Seq(Events)
      /\ TypeOK /\ run \in [Events -> Run]
  BY DEF SummaryInv, TypeOK
<1>2. /\ diagnostics' = LastOf(all, MaxDiagnostics)
      /\ ended' = Append(ended, e)
  BY <1>0 DEF Ends, AppendDiagnostic
<1>3. entry \in Entry /\ entry.event = e /\ entry.outcome = outcome
  BY <1>0 DEF Truthful, Entry, Outcomes
<1> HIDE DEF entry
<1>4. LastOf(ended', MaxDiagnostics) = EventsOf(diagnostics')
  <2>1. LastOf(ended', MaxDiagnostics)
          = LastOf(Append(LastOf(ended, MaxDiagnostics), e), MaxDiagnostics)
    BY <1>1, <1>2, LastOfKept, BoundAssumption
  <2>2. EventsOf(diagnostics')
          = LastOf(Append(EventsOf(diagnostics), e), MaxDiagnostics)
    BY <1>1, <1>2, <1>3, EventsOfLast, BoundAssumption
  <2> QED  BY <2>1, <2>2 DEF DiagnosticsInv
<1>5. /\ run'[e] = Flushed(c)
      /\ \A f \in Events \ {e} : run'[f] = run[f]
  BY <1>0, <1>1, EndsTo
<1>6. run'[e].stage = "flush" /\ run'[e].verdict = c.verdict
  BY <1>0, <1>5
<1>7. \A i \in 1..Len(all) :
        all[i] = entry \/ \E j \in DOMAIN diagnostics : all[i] = diagnostics[j]
  BY <1>1, <1>3
<1>8. ASSUME NEW i \in DOMAIN diagnostics'
      PROVE  /\ run'[diagnostics'[i].event].stage
                  \in {"flush", "returned", "done"}
             /\ diagnostics'[i].outcome.terminal = "completed"
                  <=> run'[diagnostics'[i].event].verdict = "ok"
  <2>1. \E j \in 1..Len(all) : diagnostics'[i] = all[j]
    <3>1. all \in Seq(Entry) /\ Len(all) \in Nat
      BY <1>1, <1>3
    <3> HIDE DEF all
    <3>2. /\ diagnostics' \in Seq(Entry)
          /\ Len(diagnostics') = Least(Len(all), MaxDiagnostics)
          /\ \A j \in 1..Least(Len(all), MaxDiagnostics) :
               diagnostics'[j]
                 = all[Len(all) - Least(Len(all), MaxDiagnostics) + j]
      BY <1>2, <3>1, LastElements, BoundAssumption
    <3>3. i \in 1..Least(Len(all), MaxDiagnostics)
      BY <3>2
    <3>4. Len(all) - Least(Len(all), MaxDiagnostics) + i \in 1..Len(all)
      <4>1. MaxDiagnostics \in Nat
        BY BoundAssumption
      <4> QED  BY <3>1, <3>3, <4>1 DEF Least
    <3> QED  BY <3>2, <3>3, <3>4
  <2>2. CASE diagnostics'[i] = entry
    <3>1. outcome.terminal = "completed" <=> run'[e].verdict = "ok"
      BY <1>0, <1>6 DEF Truthful
    <3> QED  BY <1>3, <1>6, <2>2, <3>1
  <2>3. ASSUME NEW j \in DOMAIN diagnostics,
               diagnostics'[i] = diagnostics[j]
        PROVE  /\ run'[diagnostics'[i].event].stage
                  \in {"flush", "returned", "done"}
               /\ diagnostics'[i].outcome.terminal = "completed"
                    <=> run'[diagnostics'[i].event].verdict = "ok"
    <3>1. diagnostics[j] \in Entry
      BY <1>1
    <3>2. diagnostics[j].event \in Events /\ diagnostics[j].event # e
      BY <3>1 DEF Entry, Decides, DiagnosticsInv
    <3>3. run'[diagnostics[j].event] = run[diagnostics[j].event]
      BY <1>5, <3>2
    <3> QED  BY <2>3, <3>3 DEF DiagnosticsInv, Decided, Committed
  <2> QED  BY <1>7, <2>1, <2>2, <2>3
<1> QED  BY <1>4, <1>8 DEF DiagnosticsInv, Decided, Committed

(* The diagnostics are the latest decisions in their order, and an entry   *)
(* says "completed" exactly when a summary was committed, whatever other   *)
(* events the handlers interleave with                                     *)
(* (orchestration.ts, lifecycle-diagnostics.ts).                           *)
THEOREM DiagnosticsHonest == Spec => []DiagnosticsTellOutcome
<1>1. Init => DiagnosticsInv
  <2> SUFFICES ASSUME Init PROVE DiagnosticsInv
    OBVIOUS
  <2>1. ended = <<>> /\ diagnostics = <<>>
    BY DEF Init
  <2>2. LastOf(<<>>, MaxDiagnostics) = <<>>
    BY BoundAssumption DEF LastOf
  <2>3. EventsOf(<<>>) = <<>>
    BY DEF EventsOf
  <2> QED  BY <2>1, <2>2, <2>3 DEF DiagnosticsInv
<1>2. SummaryInv /\ DiagnosticsInv /\ [Next]_vars => DiagnosticsInv'
  <2> SUFFICES ASSUME SummaryInv, DiagnosticsInv, [Next]_vars
               PROVE  DiagnosticsInv'
    OBVIOUS
  <2>1. CASE Waits
    <3>1. \A i \in DOMAIN diagnostics : diagnostics[i].event \in Events
      <4>1. diagnostics \in Seq(Entry)
        BY DEF SummaryInv, TypeOK
      <4>2. \A i \in DOMAIN diagnostics : diagnostics[i] \in Entry
        BY <4>1
      <4> QED  BY <4>2 DEF Entry
    <3> QED  BY <2>1, <3>1 DEF Waits, DiagnosticsInv, Decided, Committed
  <2> QED  BY <2>1, StepsDecide, DecidesKeepsDiagnostics
<1>3. DiagnosticsInv => DiagnosticsTellOutcome
  BY DEF DiagnosticsInv, DiagnosticsTellOutcome, EventsOf
<1> QED  BY <1>1, <1>2, <1>3, InvHolds, PTL DEF Spec

=============================================================================
