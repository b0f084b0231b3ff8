---------------------------- MODULE Autocompact ----------------------------
(***************************************************************************)
(* The trigger side of the extension: the event handlers registered in     *)
(* src/extensions/index.ts, the deferred compaction of scheduler.ts and    *)
(* compaction-trigger.ts, the /autocompact-now command, and the            *)
(* coordination state of state.ts they share.                              *)
(*                                                                         *)
(* JavaScript runs one callback at a time, so a step is the code between   *)
(* two suspension points. The agent_end and input handlers suspend once,   *)
(* at "await loadEffectiveConfig": each is an arrival step that leaves a   *)
(* suspended handler with what it has read, and a resumption step. The     *)
(* Pi host is the environment: it delivers events, becomes idle or busy,   *)
(* runs the compactions the extension asks for, and may compact by itself. *)
(***************************************************************************)
EXTENDS Policy, FiniteSets

CONSTANTS
  None,              \* no timer, no suspended handler, no prompt, no reason
  Prompts,           \* the prompts the user may submit
  Configs,           \* what loadEffectiveConfig may find on disk
  ContextWindow,     \* of the model in use
  UsageLevels,       \* the token counts the host may report
  PromptTokens,      \* the estimated size of a prompt
  ToolLoads,         \* tool results of an agent run: [count, tokens]
  MaxDeferAttempts,  \* MAX_AUTOCOMPACT_DEFER_ATTEMPTS
  HostReasons,       \* the reasons session_compact events may give
  HostBehaviours,    \* which of the optional behaviours the host shows
  MaxTurns, MaxManual, MaxCore, MaxShutdowns   \* bounds on host events

OptionalBehaviours ==
  {"throws",         \* ctx.compact may throw, called by a timeout or for a
                     \* prompt
   "manual-throws"}  \* ctx.compact may throw, called by /autocompact-now

Reasons == CompactReasons \cup {"manual-now"} \cup HostReasons
Phases      == {"idle", "requested", "scheduled", "triggering", "compacting",
                "completed", "failed", "cancelled"}
ActivePhases == {"requested", "scheduled", "triggering"}

ASSUME ConstantsAssumption ==
  /\ None \notin Prompts \cup Reasons
  /\ HostReasons \cap (CompactReasons \cup {"manual-now"}) = {}
  /\ \A config \in Configs : NormalConfig(config)
  /\ ContextWindow \in Nat /\ PromptTokens \in Nat
  /\ UsageLevels \subseteq Nat
  /\ ToolLoads \subseteq [count : Nat, tokens : Nat]
  /\ MaxDeferAttempts \in Nat
  /\ HostBehaviours \subseteq OptionalBehaviours
  /\ MaxTurns \in Nat /\ MaxManual \in Nat
  /\ MaxCore \in Nat /\ MaxShutdowns \in Nat

VARIABLES
  (* AutoCompactState *)
  compactInFlight, compactionPhase, lastTriggerTurn, lastCompactionReason,
  previousTokens, consecutiveGrowthTurns, compactionCount,
  agentTurnIndex,
  (* ScheduledAutocompact *)
  timer,          \* the armed timeout with what its closure captured, or None
  schedule,       \* turnIndex, reason, attempts, generation
  (* handlers suspended at their await *)
  endHandler, inputHandler,
  (* the host *)
  busy,           \* not idle, or messages pending, or an abort signal
  outstanding,    \* compactions asked for whose callback is still to come
  sent,           \* the prompts submitted so far
  spent,          \* how many manual commands, core compactions, shutdowns
  sessionUp,
  (* observations the program does not make *)
  calls,          \* calls of ctx.compact that were accepted
  delivered,      \* how many times each prompt reached the agent
  growthRun,      \* consecutive agent runs that grew the context
  asked,          \* how often the policy has asked for a compaction, and the
                  \* agent run the last of these requests belongs to: the
                  \* one that has ended or the one a prompt would begin
  crossed         \* a completion, or the end of a session, has cleared the
                  \* flag while it was set for another request

stateVars     == <<compactInFlight, compactionPhase, lastTriggerTurn,
                   lastCompactionReason, previousTokens,
                   consecutiveGrowthTurns, compactionCount>>
scheduleVars  == <<timer, schedule>>
handlerVars   == <<endHandler, inputHandler>>
compactVars   == <<outstanding, calls>>
promptVars    == <<sent, delivered>>
observers     == <<growthRun, asked, crossed>>
vars == <<stateVars, agentTurnIndex, scheduleVars, handlerVars, busy,
          compactVars, promptVars, spent, sessionUp, observers>>

-----------------------------------------------------------------------------
(* The coordination state *)

Init ==
  /\ compactInFlight = FALSE /\ compactionPhase = "idle"
  /\ lastTriggerTurn = Null /\ lastCompactionReason = None
  /\ previousTokens = Null /\ consecutiveGrowthTurns = 0
  /\ compactionCount = 0 /\ agentTurnIndex = 0
  /\ timer = None
  /\ schedule = [turnIndex |-> Null, reason |-> None,
                 attempts |-> 0, generation |-> 0]
  /\ endHandler = None /\ inputHandler = None
  /\ busy = FALSE /\ outstanding = {} /\ calls = 0
  /\ sent = {} /\ delivered = [p \in Prompts |-> 0]
  /\ spent = [manual |-> 0, core |-> 0, shutdown |-> 0]
  /\ sessionUp = TRUE /\ growthRun = 0
  /\ asked = [no |-> 0, run |-> 0] /\ crossed = FALSE

(* What has happened so far that makes an earlier request out of date.     *)
Now == [compactions |-> compactionCount, shutdowns |-> spent.shutdown]

Evaluation(config, tokens, before, turn, load) ==
  [config |-> config, currentTokens |-> tokens, previousTokens |-> before,
   contextWindow |-> ContextWindow, turnIndex |-> turn,
   consecutiveGrowthTurns |-> consecutiveGrowthTurns,
   compactInFlight |-> compactInFlight, lastTriggerTurn |-> lastTriggerTurn,
   toolResultTokens |-> load.tokens, toolResultsCount |-> load.count]

NoteEvaluation(in) == consecutiveGrowthTurns' = NextGrowthTurns(in)

(* Fault: the request does not take the flag.                              *)
NoteRequestedWithoutFlag(turn, reason, phase) ==
  /\ UNCHANGED compactInFlight
  /\ compactionPhase' = phase
  /\ lastTriggerTurn' = turn
  /\ lastCompactionReason' = reason

(* Fault: the reason of an earlier request stays stored.                   *)
NoteRequestedKeepsReason(turn, reason, phase) ==
  /\ compactInFlight' = TRUE
  /\ compactionPhase' = phase
  /\ lastTriggerTurn' = turn
  /\ UNCHANGED lastCompactionReason

(* noteCompactionRequested, with the phase the caller moves on to in the   *)
(* same step.                                                              *)
NoteRequested(turn, reason, phase) ==
  /\ compactInFlight' = TRUE
  /\ compactionPhase' = phase
  /\ lastTriggerTurn' = turn
  /\ lastCompactionReason' = reason

(* Fault: the phase moves on and the flag stays set.                       *)
NoteSettledPhaseOnly(phase) ==
  /\ UNCHANGED compactInFlight
  /\ compactionPhase' = phase

(* noteCompactionFailed and noteCompactionCancelled; completion also       *)
(* begins so.                                                              *)
NoteSettled(phase) ==
  /\ compactInFlight' = FALSE
  /\ compactionPhase' = phase

(* Fault: a deferral that gives up only reports the failure.               *)
NoteGivenUpReportOnly ==
  UNCHANGED <<compactInFlight, compactionPhase>>

NoteGivenUp == NoteSettled("failed")

NoteCompleted(reason) ==
  /\ NoteSettled("completed")
  /\ previousTokens' = Null /\ consecutiveGrowthTurns' = 0 /\ growthRun' = 0
  /\ compactionCount' = compactionCount + 1
  /\ lastCompactionReason' = reason
  /\ UNCHANGED lastTriggerTurn

-----------------------------------------------------------------------------
(* Calls of ctx.compact *)

(* A request of the policy, of the agent run it belongs to.                *)
Asks(run) == asked' = [no |-> asked.no + 1, run |-> run]

(* Fault: the prompt is not kept for the callback to replay.               *)
StartCompactionForgetsPrompt(by, reason, prompt, asOf) ==
  /\ calls' = calls + 1
  /\ outstanding' = outstanding \cup
       {[id |-> calls + 1, by |-> by, reason |-> reason, prompt |-> None,
         asOf |-> asOf, emitted |-> FALSE]}

StartCompaction(by, reason, prompt, asOf) ==
  /\ calls' = calls + 1
  /\ outstanding' = outstanding \cup
       {[id |-> calls + 1, by |-> by, reason |-> reason, prompt |-> prompt,
         asOf |-> asOf, emitted |-> FALSE]}

Deliver(p) == delivered' = [delivered EXCEPT ![p] = @ + 1]

Replay(call) ==
  IF call.prompt = None THEN UNCHANGED delivered ELSE Deliver(call.prompt)

-----------------------------------------------------------------------------
(* The deferred compaction *)

(* Fault: the pending timeout is left armed.                               *)
CancelScheduledLeavesTimer ==
  /\ UNCHANGED timer
  /\ schedule' = [schedule EXCEPT !.generation = @ + 1]

CancelScheduled ==
  /\ timer' = None
  /\ schedule' = [schedule EXCEPT !.generation = @ + 1]

(* Cancelling advances the generation, and the new request advances it     *)
(* again. The timer carries the closure's generation and options.          *)
Schedule(turn, reason) ==
  LET generation == schedule.generation + 2 IN
  /\ schedule' = [turnIndex |-> turn, reason |-> reason, attempts |-> 0,
                  generation |-> generation]
  /\ timer' = [turnIndex |-> turn, reason |-> reason,
               generation |-> generation, asOf |-> Now]

(* Fault: only the generation is compared.                                 *)
IsCurrentGeneration(t) == schedule.generation = t.generation

IsCurrent(t) ==
  /\ compactInFlight
  /\ schedule.generation = t.generation
  /\ schedule.turnIndex = t.turnIndex
  /\ schedule.reason = t.reason
  /\ lastTriggerTurn = t.turnIndex
  /\ lastCompactionReason = t.reason

TimerStale ==
  /\ timer # None /\ ~IsCurrent(timer)
  /\ timer' = None
  /\ UNCHANGED <<stateVars, agentTurnIndex, schedule, handlerVars, busy,
                 compactVars, promptVars, spent, sessionUp, observers>>

(* Fault: the attempts are not counted.                                    *)
TimerDefersForever ==
  /\ timer # None /\ IsCurrent(timer)
  /\ busy
  /\ UNCHANGED vars

TimerDefers ==
  /\ timer # None /\ IsCurrent(timer)
  /\ busy /\ schedule.attempts < MaxDeferAttempts
  /\ schedule' = [schedule EXCEPT !.attempts = @ + 1]
  /\ UNCHANGED <<stateVars, agentTurnIndex, timer, handlerVars, busy,
                 compactVars, promptVars, spent, sessionUp, observers>>

TimerGivesUp ==
  /\ timer # None /\ IsCurrent(timer)
  /\ busy /\ schedule.attempts >= MaxDeferAttempts
  /\ timer' = None
  /\ NoteGivenUp
  /\ UNCHANGED <<lastTriggerTurn, lastCompactionReason, previousTokens,
                 consecutiveGrowthTurns, compactionCount, agentTurnIndex,
                 schedule, handlerVars, busy, compactVars, promptVars, spent,
                 sessionUp, observers>>

(* triggerScheduledCompaction. It looks at ctx.signal once more, in the    *)
(* same step as the idle test above, so that test never fails there.       *)
TimerTriggers ==
  /\ timer # None /\ IsCurrent(timer)
  /\ ~busy
  /\ timer' = None
  /\ \/ /\ compactInFlight' = TRUE
        /\ compactionPhase' = "triggering"
        /\ StartCompaction("scheduled", timer.reason, None, timer.asOf)
     \/ /\ "throws" \in HostBehaviours
        /\ NoteSettled("failed")
        /\ UNCHANGED compactVars
  /\ UNCHANGED <<lastTriggerTurn, lastCompactionReason, previousTokens,
                 consecutiveGrowthTurns, compactionCount, agentTurnIndex,
                 schedule, handlerVars, busy, promptVars, spent, sessionUp,
                 observers>>

TimerFires == TimerStale \/ TimerDefers \/ TimerGivesUp \/ TimerTriggers

-----------------------------------------------------------------------------
(* agent_end *)

(* Fault: a usage whose token count is null is not turned away.            *)
KnownUsageOrNull == UsageLevels \cup {Null}

(* The token counts with which a handler goes on.                          *)
KnownUsage == UsageLevels

AgentEnd ==
  /\ sessionUp /\ endHandler = None /\ agentTurnIndex < MaxTurns
  /\ agentTurnIndex' = agentTurnIndex + 1
  /\ \/ UNCHANGED endHandler                   \* the usage is not known
     \/ \E tokens \in KnownUsage, load \in ToolLoads :
          endHandler' = [tokens |-> tokens, load |-> load]
  /\ UNCHANGED <<stateVars, scheduleVars, inputHandler, busy, compactVars,
                 promptVars, spent, sessionUp, observers>>

AgentEndResumes ==
  /\ endHandler # None
  /\ endHandler' = None
  /\ \E config \in Configs :
       LET in == Evaluation(config, endHandler.tokens, previousTokens,
                            agentTurnIndex, endHandler.load) IN
       /\ NoteEvaluation(in)
       /\ previousTokens' = endHandler.tokens
       /\ growthRun' = IF DeltaTokens(in) >= config.minGrowthStepTokens
                       THEN growthRun + 1 ELSE 0
       /\ \/ /\ Compacts(in)
             /\ NoteRequested(agentTurnIndex, Decide(in), "scheduled")
             /\ Schedule(agentTurnIndex, Decide(in))
             /\ Asks(agentTurnIndex)
          \/ /\ ~Compacts(in)
             /\ UNCHANGED <<compactInFlight, compactionPhase, lastTriggerTurn,
                            lastCompactionReason, scheduleVars, asked>>
  /\ UNCHANGED <<compactionCount, agentTurnIndex, inputHandler, busy,
                 compactVars, promptVars, spent, sessionUp, crossed>>

-----------------------------------------------------------------------------
(* input *)

(* A prompt typed while the host is busy, or with no known usage, goes     *)
(* straight to the agent. A replayed prompt comes back with the source     *)
(* "extension" and does the same, as part of Replay.                       *)
UserPrompt ==
  /\ sessionUp /\ inputHandler = None
  /\ \E p \in Prompts \ sent :
       /\ sent' = sent \cup {p}
       /\ \/ Deliver(p) /\ UNCHANGED inputHandler
          \/ /\ ~busy
             /\ \E tokens \in KnownUsage :
                  inputHandler' = [prompt |-> p, tokens |-> tokens]
             /\ UNCHANGED delivered
  /\ UNCHANGED <<stateVars, agentTurnIndex, scheduleVars, endHandler, busy,
                 compactVars, spent, sessionUp, observers>>

(* Fault: a prompt counts as part of the run before it.                    *)
NextTurnIndexOfLastRun == agentTurnIndex

NextTurnIndex == agentTurnIndex + 1

(* The second disjunct holds the prompt ("handled") until the compaction   *)
(* it asked for settles; the third hands it over after a failed call.      *)
InputResumes ==
  /\ inputHandler # None
  /\ inputHandler' = None
  /\ \E config \in Configs :
       LET turn == NextTurnIndex
           in   == Evaluation(config, inputHandler.tokens + PromptTokens,
                              inputHandler.tokens, turn,
                              [count |-> 0, tokens |-> 0]) IN
       /\ NoteEvaluation(in)
       /\ \/ /\ ~Compacts(in)
             /\ Deliver(inputHandler.prompt)
             /\ UNCHANGED <<compactInFlight, compactionPhase, lastTriggerTurn,
                            lastCompactionReason, scheduleVars, compactVars,
                            asked>>
          \/ /\ Compacts(in)
             /\ Asks(agentTurnIndex + 1)
             /\ CancelScheduled
             /\ NoteRequested(turn, Decide(in), "triggering")
             /\ StartCompaction("prompt", Decide(in), inputHandler.prompt, Now)
             /\ UNCHANGED delivered
          \/ /\ Compacts(in) /\ "throws" \in HostBehaviours
             /\ Asks(agentTurnIndex + 1)
             /\ CancelScheduled
             /\ lastTriggerTurn' = turn
             /\ lastCompactionReason' = Decide(in)
             /\ NoteSettled("failed")
             /\ Deliver(inputHandler.prompt)
             /\ UNCHANGED compactVars
  /\ UNCHANGED <<previousTokens, compactionCount, agentTurnIndex, endHandler,
                 busy, sent, spent, sessionUp, growthRun, crossed>>

-----------------------------------------------------------------------------
(* /autocompact-now *)

(* With a compaction in flight the command only warns. The call is not in  *)
(* a try block: when it throws, compactInFlight stays set.                 *)
ManualCompact ==
  /\ sessionUp /\ spent.manual < MaxManual
  /\ spent' = [spent EXCEPT !.manual = @ + 1]
  /\ ~compactInFlight
  /\ compactInFlight' = TRUE
  /\ lastCompactionReason' = "manual-now"
  /\ \/ StartCompaction("manual", "manual-now", None, Now)
     \/ "manual-throws" \in HostBehaviours /\ UNCHANGED compactVars
  /\ UNCHANGED <<compactionPhase, lastTriggerTurn, previousTokens,
                 consecutiveGrowthTurns, compactionCount, agentTurnIndex,
                 scheduleVars, handlerVars, busy, promptVars, sessionUp,
                 observers>>

-----------------------------------------------------------------------------
(* session_compact and the callbacks of ctx.compact *)

(* The reason recorded for a completed compaction is the one the extension *)
(* asked with only when the summary came from the extension.               *)
CompletedReason(fromExtension, reason) ==
  IF fromExtension /\ lastCompactionReason # None
  THEN lastCompactionReason ELSE reason

(* compactionCauseFor: the cause the CalvoProxy header of a summary         *)
(* request names.                                                          *)
CompactionCauseFor(trigger, fallback) ==
  CASE trigger = "manual-now"                                  -> "manual"
    [] trigger \in {"rapid-growth", "sustained-growth"}        -> "growth"
    [] trigger = "tool-heavy-turn"                             -> "tools"
    [] trigger = "emergency-near-limit"                        -> "emergency"
    [] trigger = "soft-threshold"                              -> "threshold"
    [] OTHER -> IF fallback = "overflow" THEN "emergency" ELSE fallback

(* The session_compact handler up to its await. What it does with the      *)
(* status it has read is only shown; the time it waits for it, after the   *)
(* flag was cleared, lies between this step and OnComplete.                *)
SessionCompact(call) ==
  /\ ~call.emitted
  /\ \E fromExtension \in BOOLEAN, reason \in HostReasons :
       NoteCompleted(CompletedReason(fromExtension, reason))
  /\ outstanding' = (outstanding \ {call}) \cup
                      {[call EXCEPT !.emitted = TRUE]}
  /\ UNCHANGED <<agentTurnIndex, scheduleVars, handlerVars, busy, calls,
                 promptVars, spent, sessionUp, asked, crossed>>

(* The callback does not ask whose flag it clears; that of the manual      *)
(* command leaves the phase alone. The flag of this call was cleared by    *)
(* SessionCompact: if it is set, it is the flag of another.                *)
OnComplete(call) ==
  /\ call.emitted
  /\ outstanding' = outstanding \ {call}
  /\ compactInFlight' = FALSE
  /\ compactionPhase' = IF call.by = "manual" THEN compactionPhase
                        ELSE "completed"
  /\ crossed' = (crossed \/ compactInFlight)
  /\ Replay(call)
  /\ UNCHANGED <<lastTriggerTurn, lastCompactionReason, previousTokens,
                 consecutiveGrowthTurns, compactionCount, agentTurnIndex,
                 scheduleVars, handlerVars, busy, calls, sent, spent,
                 sessionUp, growthRun, asked>>

(* Fault: a failed compaction does not give the prompt back.               *)
OnErrorWithoutReplay(call) ==
  /\ ~call.emitted
  /\ outstanding' = outstanding \ {call}
  /\ NoteSettled("failed")
  /\ UNCHANGED <<lastTriggerTurn, lastCompactionReason, previousTokens,
                 consecutiveGrowthTurns, compactionCount, agentTurnIndex,
                 scheduleVars, handlerVars, busy, calls, promptVars, spent,
                 sessionUp, observers>>

OnError(call) ==
  /\ ~call.emitted
  /\ outstanding' = outstanding \ {call}
  /\ NoteSettled("failed")
  /\ Replay(call)
  /\ UNCHANGED <<lastTriggerTurn, lastCompactionReason, previousTokens,
                 consecutiveGrowthTurns, compactionCount, agentTurnIndex,
                 scheduleVars, handlerVars, busy, calls, sent, spent,
                 sessionUp, observers>>

Settles(call) == SessionCompact(call) \/ OnComplete(call) \/ OnError(call)

Running == {call \in outstanding : ~call.emitted}

(* The host compacts on its own account.                                   *)
CoreCompacts ==
  /\ sessionUp /\ spent.core < MaxCore
  /\ spent' = [spent EXCEPT !.core = @ + 1]
  /\ crossed' = (crossed \/ Running # {})
  /\ \E fromExtension \in BOOLEAN, reason \in HostReasons :
       NoteCompleted(CompletedReason(fromExtension, reason))
  /\ UNCHANGED <<agentTurnIndex, scheduleVars, handlerVars, busy, compactVars,
                 promptVars, sessionUp, asked>>

-----------------------------------------------------------------------------
(* The session and the host *)

SessionShutdown ==
  /\ sessionUp /\ spent.shutdown < MaxShutdowns
  /\ sessionUp' = FALSE
  /\ spent' = [spent EXCEPT !.shutdown = @ + 1]
  /\ CancelScheduled
  /\ NoteSettled("cancelled")
  /\ crossed' = (crossed \/ Running # {})
  /\ UNCHANGED <<lastTriggerTurn, lastCompactionReason, previousTokens,
                 consecutiveGrowthTurns, compactionCount, agentTurnIndex,
                 handlerVars, busy, compactVars, promptVars, growthRun,
                 asked>>

(* The next session runs on the same coordination state; what its handler  *)
(* does to the session id and the diagnostics is not modelled here.        *)
SessionStart ==
  /\ ~sessionUp
  /\ sessionUp' = TRUE
  /\ UNCHANGED <<stateVars, agentTurnIndex, scheduleVars, handlerVars, busy,
                 compactVars, promptVars, spent, observers>>

HostBusyOrIdle ==
  /\ busy' = ~busy
  /\ UNCHANGED <<stateVars, agentTurnIndex, scheduleVars, handlerVars,
                 compactVars, promptVars, spent, sessionUp, observers>>

-----------------------------------------------------------------------------
Extension == TimerFires \/ AgentEndResumes \/ InputResumes

Host ==
  \/ AgentEnd \/ UserPrompt \/ ManualCompact \/ CoreCompacts
  \/ SessionShutdown \/ SessionStart \/ HostBusyOrIdle

Next == Extension \/ Host \/ \E call \in outstanding : Settles(call)

Spec == Init /\ [][Next]_vars

(* A timeout that is armed fires, a settings file that is being read is    *)
(* read, and every compaction that is asked for ends. The user and the     *)
(* agent need do nothing.                                                  *)
Fairness ==
  /\ WF_vars(TimerFires)
  /\ WF_vars(AgentEndResumes)
  /\ WF_vars(InputResumes)
  /\ WF_vars(\E call \in outstanding : Settles(call))

FairSpec == Spec /\ Fairness

-----------------------------------------------------------------------------
(* Types *)

Timer ==
  [turnIndex : Nat, reason : CompactReasons, generation : Nat,
   asOf : [compactions : Nat, shutdowns : Nat]]

Call ==
  [id : Nat, by : {"scheduled", "prompt", "manual"},
   reason : CompactReasons \cup {"manual-now"}, prompt : Prompts \cup {None},
   asOf : [compactions : Nat, shutdowns : Nat], emitted : BOOLEAN]

EndHandler   == [tokens : UsageLevels, load : ToolLoads]
InputHandler == [prompt : Prompts, tokens : UsageLevels]

ASSUME NoneAssumption == None \notin Timer \cup EndHandler \cup InputHandler

(* Type correctness of the coordination state, the schedule, the suspended *)
(* handlers and the host.                                                  *)
TypeOK ==
  /\ compactInFlight \in BOOLEAN /\ compactionPhase \in Phases
  /\ lastTriggerTurn \in Nat \cup {Null}
  /\ lastCompactionReason \in Reasons \cup {None}
  /\ previousTokens \in Nat \cup {Null}
  /\ consecutiveGrowthTurns \in Nat /\ compactionCount \in Nat
  /\ agentTurnIndex \in Nat
  /\ timer \in Timer \cup {None}
  /\ schedule \in [turnIndex : Nat \cup {Null},
                   reason : CompactReasons \cup {None},
                   attempts : Nat, generation : Nat]
  /\ endHandler \in EndHandler \cup {None}
  /\ inputHandler \in InputHandler \cup {None}
  /\ busy \in BOOLEAN
  /\ outstanding \in SUBSET Call /\ calls \in Nat
  /\ sent \in SUBSET Prompts /\ delivered \in [Prompts -> Nat]
  /\ spent \in [manual : Nat, core : Nat, shutdown : Nat]
  /\ sessionUp \in BOOLEAN /\ growthRun \in Nat
  /\ asked \in [no : Nat, run : Nat] /\ crossed \in BOOLEAN

-----------------------------------------------------------------------------
(* Safety *)

(* There is at most one live timeout and it is the one the schedule record *)
(* describes: cancelScheduledAutocompact and a new request never leave an  *)
(* older timeout behind (scheduler.ts).                                    *)
TimerIsLatest ==
  timer # None =>
    /\ timer.generation = schedule.generation
    /\ timer.turnIndex = schedule.turnIndex
    /\ timer.reason = schedule.reason

(* The in-flight flag always has an owner that will clear it: a timeout    *)
(* that is still current, or a compaction the host has not finished. If it *)
(* had none, no compaction would be requested again in the session         *)
(* (policy.ts answers "in-flight" for ever).                               *)
InFlightHasOwner ==
  compactInFlight => \/ timer # None /\ IsCurrent(timer)
                     \/ Running # {}

(* A deferred compaction that is still current was requested after the     *)
(* last completed compaction and in the session that is running: whatever  *)
(* completed or shut down in between has made it stale                     *)
(* (isCurrentScheduledCompaction).                                         *)
CurrentTimerIsFresh ==
  timer # None /\ IsCurrent(timer) => timer.asOf = Now

(* ctx.compact is never called from a timeout for a request that predates  *)
(* a completed compaction or a shutdown.                                   *)
NoStaleTrigger ==
  [][\A call \in outstanding' :
       call.id > calls /\ call.by = "scheduled" => call.asOf = Now]_vars

Waits(p) == inputHandler # None /\ inputHandler.prompt = p
Held(p)  == {call \in outstanding : call.prompt = p}

(* A prompt is in one place: with its suspended handler, with the one      *)
(* compaction it waits for, or delivered, and it is delivered once.        *)
PromptInOnePlace ==
  \A p \in Prompts :
    /\ delivered[p] <= 1
    /\ Waits(p) => Held(p) = {} /\ delivered[p] = 0
    /\ Held(p) # {} => delivered[p] = 0
    /\ \A c1, c2 \in Held(p) : c1 = c2
    /\ p \in sent <=> (Waits(p) \/ Held(p) # {} \/ delivered[p] = 1)

(* At most one of the extension's requests is on its way at any time: no   *)
(* two compactions run, and none runs while another is scheduled           *)
(* (README.md: "Uses cooldown and in-flight guards to avoid repeated or    *)
(* overlapping compactions"). See Autocompact_overlap.cfg for what breaks *)
(* it, and RequestsApart for what does hold.                               *)
NoOverlap ==
  /\ \A c1, c2 \in Running : c1 = c2
  /\ Running # {} => ~(timer # None /\ IsCurrent(timer))

(* Requests come to overlap in one way only: a late onComplete, a          *)
(* compaction of the host's own or a shutdown clears the flag of a request *)
(* that is on its way. No order of timeouts, deferrals, prompts, manual    *)
(* commands, failures and suspended handlers does it without one of these  *)
(* (the guards of policy.ts and of /autocompact-now, and scheduler.ts).    *)
RequestsApart == ~crossed => NoOverlap

(* While the flag is set the phase in the status report is an active one,  *)
(* save for a compaction asked for by hand, which leaves the phase alone.  *)
(* The phase is not left active without the flag, unless the flag was      *)
(* cleared for another request (state.ts changes both, the callback of the *)
(* manual command only one).                                               *)
PhaseTellsInFlight ==
  LET inFlight == compactInFlight /\ lastCompactionReason # "manual-now" IN
  /\ inFlight => compactionPhase \in ActivePhases
  /\ compactionPhase \in ActivePhases => inFlight \/ crossed

(* A compaction the extension asked for is summarised, and its completion  *)
(* reported, under the cause it was asked for: nothing replaces the stored *)
(* reason while the host works on it, also not a request made between the  *)
(* session_compact event and the callback of an earlier one, unless the    *)
(* flag was cleared for another request before.                            *)
CauseTellsRequest ==
  ~crossed =>
    \A call \in Running, fallback \in HostReasons :
      CompactionCauseFor(lastCompactionReason, fallback)
        = CompactionCauseFor(call.reason, fallback)

(* Two requests in a row of which the second is made below the emergency   *)
(* band belong to agent runs at least minTurnsBetweenCompacts apart,       *)
(* whichever handlers made them, whatever became of the first, and however *)
(* completions, commands and shutdowns came between (policy.ts:79). The    *)
(* request made for a prompt belongs to the run it would begin, so that    *)
(* the two handlers, which may ask in either order around one run, agree.  *)
CooldownKept ==
  [][ /\ asked'.no > asked.no /\ asked.no > 0
      /\ lastCompactionReason' # "emergency-near-limit"
      => \E config \in Configs :
           asked'.run - asked.run >= config.minTurnsBetweenCompacts ]_vars

(* After session_shutdown no deferred compaction is left armed. It does    *)
(* not hold of a handler that was suspended: see Autocompact_shutdown.cfg. *)
NoTimerAfterShutdown == ~sessionUp => timer = None

(* An agent run that ends a streak of sustainedGrowthTurns runs, each of   *)
(* which grew the context, with the context above the floor, is followed   *)
(* by a compaction (README: "Triggers on ... sustained growth"), unless    *)
(* one is in flight or the cooldown applies.                               *)
SustainedGrowthTriggers ==
  [][ \A config \in Configs :
        /\ endHandler # None /\ endHandler' = None
        /\ config.enabled /\ ~compactInFlight /\ lastTriggerTurn = Null
        /\ growthRun' >= config.sustainedGrowthTurns
        /\ endHandler.tokens >=
             ComputeThresholds(ContextWindow, config).sustainedGrowthFloor
        => compactInFlight' ]_vars

-----------------------------------------------------------------------------
(* Liveness *)

Gate == INSTANCE PromptGate

(* The prompts are served as PromptGate promises: none is lost or doubled, *)
(* and each reaches the agent in the end.                                  *)
PromptsServed == Gate!GateSpec

(* The in-flight flag is released again and again: neither a host that     *)
(* never becomes idle, nor a failed, cancelled or overtaken compaction     *)
(* blocks later requests for good.                                         *)
InFlightReleased == []<>(~compactInFlight)
=============================================================================
