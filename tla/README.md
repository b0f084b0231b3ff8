# Formal models of the autocompact extension

TLA+ models of pi-compaction-improvement, an extension of the Pi coding agent
that decides when the conversation is compacted and writes the summary that
replaces it. This directory holds the models, the TLC configurations that check
them on small instances, and TLAPS proofs of what matters most for every value
of the constants. Paths below are relative to the repository's `src/` unless they
name `extensions/` or `bridge/`.

    tlc -workers 2 -config Autocompact_core.cfg MCAutocompact.tla
    tlapm AutocompactProofs.tla

`PROJECT.json` lists the runs, the source lines behind every definition, the
hazards the properties are for, and, for each property of a passing run, a fault
in the code that would break it. The operators named there, marked `Fault:` in
the modules, are no part of the specifications.

## The system

| Component | State | Operations | Hard because | Correct when |
|---|---|---|---|---|
| Trigger coordinator: `extensions/index.ts`, `state.ts`, `scheduler.ts`, `compaction-trigger.ts`, `manual-compact-command.ts` | `AutoCompactState`, the deferred compaction (timeout, generation, attempts), turn index | handlers of `agent_end`, `input`, `session_start`, `session_shutdown`, `session_compact`; the timeout; `/autocompact-now`; `onComplete`, `onError` | two handlers suspend while the configuration is read; callbacks of old requests meet newer ones; timeouts outlive what they were for | requests do not overlap while no flag is cleared for another, none follows too soon, the in-flight flag is released, a prompt reaches the agent once |
| Policy: `policy.ts` | none | `computeThresholds`, `decideAutoCompact` | rules are tried in order, limits meet at boundaries | thresholds ordered, more pressure never compacts less |
| Configuration: `config.ts`, `config-command-handlers.ts` | two files, shared by all sessions | load, merge, normalise; commands that set one value, edit all, or reset | read-modify-write of files, writes that empty the file first, commands of other sessions | normalised values are in range, a command changes one setting as if at once, `/autocompact-off` is obeyed by a load that can read the file |
| Summary: `orchestration.ts`, `summary-pipeline.ts`, `lifecycle-state-machine.ts`, `compaction-workflow.ts` and what they call | one context per event, the lifecycle of the attempt | `session_before_compact` up to the result | abort, timeout and answer race at four awaits; one retry; partial results | nothing aborted or unverified is committed, every event is answered |
| Summary provider: `summary-provider.ts` | the request's abort controller and timeout | `requestSummary` | signal already aborted, timeout after abort | a cut request ends the event |
| CalvoProxy coordination: `calvoproxy-coordination.ts` | session id; reads `compactionCount`, `lastCompactionReason` | headers of each request | numbers are taken early and counted late; the reason is overwritten by every request | generations advance, the cause is that of the running request |
| Diagnostics: `lifecycle-diagnostics.ts`, `lifecycle-diagnostic-persistence.ts`, `status-command-handlers.ts` | bounded history, one file | append, persist, load, clear | flush, clear and load interleave | the history tells the outcomes |
| Cervo bridge: `cervo-preprocessor.ts`, `bridge/cervo-compress` | a child process per event, its timeout, the chunks received | start, collect, validate the answer, split it | exit, timeout, pipe errors and the output limit come in any order | answers once, leaves nothing behind, hands back the same conversation |
| File tags: `file-tags.ts`, `file-operations.ts` | none; lists travel inside summaries | parse, strip, merge, format | what one compaction writes the next one reads, out of a text the model wrote | no file is forgotten or taken for unchanged |
| Summary requests: `summary-request.ts`, `summary-noise-filter.ts` | none | budgets, truncation, composition of two prompts, condensing of lists | budgets derived from budgets, markers with a length of their own, three passes over each other's output | requests fit, cuts spare what matters, every line is accounted for |
| | Tool result estimates, display and telemetry, benchmarks, scripts, CI | | | | not modelled, see below |

The coordinator asks the host for a compaction (`ctx.compact`). The host then
sends `session_before_compact`, to which the summary side answers with a summary
or `undefined`; the host compacts with that summary or by itself, sends
`session_compact`, and calls `onComplete`, or calls `onError`. The two sides
share `AutoCompactState`: the coordinator writes `lastCompactionReason` and
`compactionCount`, the summary side reads them. Within one event the summary
side calls the bridge once (`Summary` uses it as one of its awaits; `Bridge` is
that call), builds one or two prompts (`SummaryRequest`), and appends the file
lists to what the model answered (`FileLists`). Every handler loads the
configuration first (`ConfigStore`).

## Modules

| Module | What it is |
|---|---|
| `Policy` | normalisation, thresholds and the decision, as operators |
| `PolicyEvaluation`, `MCPolicy` | one evaluation while the context grows; values for TLC |
| `Autocompact`, `MCAutocompact` | the trigger coordinator and the host around it |
| `PromptGate` | what is promised about prompts: each reaches the agent once |
| `AutocompactProofs` | theorems about `Autocompact`, `Policy` and `PolicyEvaluation` |
| `Summary`, `MCSummary` | the summary side: handler, pipeline, provider |
| `SummaryProofs` | theorems about `Summary` |
| `Diagnostics`, `MCDiagnostics` | the history of diagnostics and its file |
| `DiagnosticsProofs` | theorems about `Diagnostics` |
| `BridgeResponse` | what is accepted as an answer of the helper, as operators |
| `Bridge`, `MCBridge` | one call of the helper |
| `Preprocessing` | what is promised of such a call: one answer, the same conversation |
| `BridgeProofs` | theorems about `Bridge` |
| `ConfigStore`, `MCConfigStore` | the two settings files, commands and loads |
| `ConfigStoreProofs` | theorems about `ConfigStore` |
| `FileLists`, `MCFileLists` | the lists of files from compaction to compaction |
| `FileListsProofs` | theorems about `FileLists` |
| `NoiseFilter` | the three passes that condense lists, as operators |
| `SummaryRequest`, `MCSummaryRequest` | prompts and their budgets, while the conversation grows |
| `SummaryRequestProofs` | theorems about `SummaryRequest` and `NoiseFilter` |
| `Induction` | induction over the natural numbers, and what follows for sums and sequences: used by the proofs |

### Policy

`NormalizeConfig`, `ComputeThresholds` and `Decide` are the functions of the
code with the texts left out. `null` among numbers is `Null`, an absent or
non-numeric setting `NoValue`. Numbers are integers, the fractions of the code
being floors of integer percentages. `PolicyEvaluation` turns them into a state
machine whose only step is that the context grows, so that a property can
compare two decisions about the same situation.

### Autocompact

A step is the code between two suspension points. `AgentEnd` and `UserPrompt`
run up to `await loadEffectiveConfig` and leave what they have read in
`endHandler` or `inputHandler`; `AgentEndResumes` and `InputResumes` go on from
there, with whatever the shared state has become. The four actions under
`TimerFires` are the four ways through the timeout's callback. `timer` carries
what the closure captured, `schedule` is the mutable record it is compared with.
`outstanding` holds the calls of `ctx.compact` whose callback is still to come;
`SessionCompact`, `OnComplete` and `OnError` settle them.

The host is the environment. It is idle or busy as it likes, may compact by
itself (`CoreCompacts`), shut the session down and start another on the same
state. Two behaviours are optional, so that a run can say what it depends on:
`"throws"` and `"manual-throws"` (a call of `ctx.compact` throws). Between
`SessionCompact` and `OnComplete` anything may run, in every run and theorem:
the `session_compact` handler clears the flag and then awaits
`buildStatusSnapshot` (`index.ts:118`), for which a host that awaits its
handlers waits before it calls `onComplete`. Two assumptions are built in:
events of one kind are handled one at a time, so that at most one `agent_end`
and one `input` handler are suspended, and every accepted call ends in exactly
one callback.

`CompactionCauseFor` is the cause sent with the requests of a compaction;
`CauseTellsRequest` compares it with the reason the running call was made for.
`asOf`, `calls`, `delivered`, `growthRun`, `asked` and `crossed` are observers:
no guard reads them. `asked` counts the requests the policy makes and remembers
the agent run the last one belongs to, which two requests at one turn index
have in common; `crossed` says that a completion or the end of a session has
cleared the flag while it was set for another request.
Left out are the fields that only the display reads.

### Summary

`run[e]` is the handler of event `e`: its stage is the await it is suspended
at, the other fields are the pipeline's context. The filters are functions from
context to context, and `FromStart`, `FromHistory` and `FromPrefix` compose them
up to the next request, as the synchronous code between two awaits does (the
microtasks between filters admit no event of the host). `Advance` is the
lifecycle automaton; a transition it lacks throws, which ends in the handler's
catch block. `request[e]` is the request to the model: `cut` when its controller
has been aborted, by the host's signal or by the timeout.

A text is its size, whether it passes the structure guard, and whether it has
the heading of a split turn; prompts, headers and notifications are left out.
Whether a message cannot be serialised and whether a file path breaks the tags
are attributes of the job. The model's library is assumed to reject a request
whose signal is aborted, as the provider's tests have it. The `skipped`
transitions of the automaton are unused by this handler and left out.

### Diagnostics

`memory` is the array in the state, `file` and `temp` are what the two paths
hold. A flush takes the steps of `persistLifecycleDiagnostics`, each of which may
fail; hydration those of `session_start`; the clear command empties the memory
at once and deletes the two files in any order. `Restart` ends the process
wherever it is. An entry is the number of its decision, which the exact
allowlists of the parser accept; files that something else has written are not
modelled, nor is the size limit, which twenty entries cannot reach. The user has
opted in. Two assumptions are about the host: it runs one
`session_before_compact` handler at a time up to the end of its flush, and it
waits for `session_start` before it compacts. Within them a session may start
during a flush, and a clear may come at any time. `durable`, `cleared` and
`erased` are observers; the first and the last take in only what happened while
no other of the three operations was under way, since the code promises nothing
about two that overlap (see `Diagnostics_clear.cfg` under Findings).

### Bridge

One call of `preprocessWithCervoCompress`. A step is the code between two events
of Node's loop. `outcome` is the promise, which keeps the first outcome it is
given; `settled` is the flag of `runProcess`, which is something else: an
exception after the timeout is armed rejects the promise and settles nothing.
`child` is the process and the events still due from it. It is any program: it
writes as it likes, exits with any code, and may leave its output open in a
process of its own. The search for the helper in several places is one step,
since only its end matters; `output` is the answer it would give if left alone,
and `json` whether that parses. A message is a role, the form of its content,
an id for all that the helper must not touch, and its text.

`Bridge` implements `Preprocessing` (`Service!Spec`, with `answer` mapped to
`outcome` and the categories of failure to those of the code).

### ConfigStore

`files` is what the two paths hold: no file, an empty one, a torn one, or
settings. `fs.writeFile` is two steps, since opening empties the file. `command`
is the command a session is carrying out, at the await it is suspended at
(`reading`, `editing`, `opening`, `filling`, `unlinking`); any step may fail and
any session may end in between, and another one take its place. `load` is a
handler between the reading of the two files; `EffectiveConfig` is what it
returns, given what it reads of the project's file (`ProjectReads`). With
`ReadsMayFail` the read of a whole file may fail, too: a command then refuses, a
load goes on as if the file were missing. Sessions share both files, some of
them in a trusted project. A value is one that its setting keeps or one that is
replaced by the default; the ranges of numbers are in `Policy`. `before`,
`alone`, `paused`, `read` and `writing` are observers.

### FileLists

A text is a sequence of lines, each of them a tag, a file name or prose; a path
is the sequence of the lines it takes. `Compacts` is a compaction by the
extension: it plans the lists (`Planned`), strips tags from what the model
wrote, appends its own, and is committed only if the result is verified. A
compaction that fails is left to the core (`CoreCompacts`), which the model
takes to leave some text of `CoreSummaries`. Tags inside a line and the limits
on the number of files are left out. `seen` and `tidy` are observers: the files
compacted since the core last compacted, and whether all texts so far had their
tags in pairs and the core's lists named each file once and no tag. The names
are sorted by `NameOrder`, which is assumed to hold every name, and to have the
closing tag of the modified files, taken for a name, before the opening one, as
"/" comes before every letter.

### NoiseFilter and SummaryRequest

A line is its kind, which is what the patterns of the filter tell apart, and for
an inserted note the number of lines it stands for. A bulleted header such as
`- Todos (2/5)`, which both the header and the row pattern match, is a kind of
its own. The three passes are the
functions of the code, written over runs of lines rather than an index.
`LinesStoodFor` adds up what the lines of a text stand for (`StandsFor`): a note
for the lines it counts, the placeholder for none, any other line for itself;
`EveryLineAccounted` says that condensing keeps this sum and keeps headers and
prose as they are.

`SummaryRequest` works on lengths: a truncated text is the lengths of head,
marker and tail, and `Survivors` says how much of a stretch of a text outlives
the cut of the whole. The state machine is that the conversation grows by a
line; the rest of a request is chosen at the start. In the run the thresholds of
the filter are scaled down (2 for 8 todo rows, and so on), so that five lines
reach all of its cases; the operators take them as constants.

## Runs

| Run | Result | Question |
|---|---|---|
| `core` | passes | Is a deferred compaction ever out of date when it fires? Is a prompt ever lost or doubled? Do two requests in a row come closer than the cooldown? Do requests overlap, is the phase untrue, or the cause another's, in any way other than through a flag that was cleared for another request? Every optional behaviour of the host, one manual command, core compaction and shutdown each, two agent runs, one prompt, one deferral. 1.5 million states. |
| `live` | passes | Is the flag released, and does each prompt reach the agent (`PromptGate` as a property)? |
| `policy` | passes | 324 settings files with absent, too small, too large and swapped values, windows on both sides of the reserve, situations that make each rule the first to apply. |
| `summary` | passes | Two events at once in every interleaving, eight jobs that together reach every failure, one of them with the split-turn heading in its previous summary, answers that pass and fail every check, a history of one entry. Is every event answered by a model that never answers? |
| `diagnostics` | passes | Is the file ever half written, an entry doubled, a flushed entry lost, a cleared one back? Four decisions, a history of two, two clears, two restarts or session starts, every file operation may fail. |
| `bridge` | passes | Is an answer judged that is not whole? Does the memory for output stay bounded? Is the helper left running? Does what comes back differ from the conversation where it must not (`Preprocessing` as a property)? |
| `config` | passes | Does a command that has the file to itself change more or less than its setting? Does a load after `/autocompact-off` that can read the global file, while nobody writes it, find autocompaction enabled? Every read and write may fail. 1.8 million states. |
| `files` | passes | Is a listed file forgotten over three compactions, or a modified one taken for read? Are the lists exact while tags pair up? |
| `prompt` | passes | Does a request exceed the model's window? Which part of it is cut? Is a line dropped that no note counts? |
| `growth` | violated | see Findings |
| `overlap` | violated | see Findings |
| `split` | violated | see Findings |

The bounds. Autocompact: one prompt, because prompts only meet through the
coordination state, and a second one adds no new kind of holder; one manual
command, core compaction and shutdown each, because each invalidates everything
a handler may hold and the handlers hold one thing at a time; two agent runs
with a cooldown of one, so that requests of one run are too close together and
those of two in a row are not, and three for the growth streak of two; one
deferral, so that the limit is reached after one retry. `core` has the soft
threshold, where the cooldown counts, `live` and `overlap` the emergency band,
where it does not; the theorems have both. Summary: two events, because they
share only a counter and the bounded history. Diagnostics: four decisions on a
history of two, so that an entry is pushed out both before and after a restart.
Bridge: one or two messages, split in every way, whose four kinds cover what may
and what may not be rewritten; texts of one and two bytes, and a second text of
two, so that a rewrite can save something, nothing, or exchange a text for one
of its length; a limit of two bytes, with inputs and outputs on both sides of
it. ConfigStore: one trusted session and one that is not, two settings and a
value neither keeps, two commands, because a command observes the other ones
only as "some other command used the file"; in `ConfigStore_pause.cfg` no read
of a whole file fails, so that the counterexample needs no failure. FileLists:
two ordinary paths and one with a line break; answers without tags, with tags in
pairs, and with one that is open or has none to close; two operations and three
compactions, so that a list is read back that was itself read back.
SummaryRequest: five lines of 10,000 characters; windows that are unknown, below
the smallest prompt, tight and ample; previous summaries that are absent, fit,
and do not fit. `CHECK_DEADLOCK FALSE` is set where all events may be used up,
or where a call comes to its end.

Fairness. In `Autocompact`, a timeout that is armed fires, a file read ends, and
each compaction asked for settles; nothing is assumed of the user, of the agent,
or of the host becoming idle. In `Summary`, the timeout of a request fires, a
request that is cut is rejected, and authentication, preprocessing (which has
its own limit of time) and the final file accesses end; nothing is assumed of
the model or of the host's abort. In `Bridge`, the search for the helper ends, a
due `error` event comes, the timeout fires, and a helper that was killed exits;
nothing is assumed of a helper left alone, so that it is the timeout that
answers for it.

## Findings

Three runs end in a counterexample to what the repository says of itself:

- `overlap` (`NoOverlap`): `onComplete` clears the in-flight flag without asking
  whose it is. While the `session_compact` handler, which has cleared the flag,
  waits for `buildStatusSnapshot`, a newer request takes it; `onComplete` then
  clears it for that one, and a third starts beside it. The README promises
  guards that "avoid repeated or overlapping compactions".
- `split` (`SplitTurnKept`): the check for split-turn context accepts the heading
  of an earlier split turn that the previous summary carried over, so that a
  summary which says nothing of this turn is committed. `invariants.ts` wants
  "explicit split-turn context".
- `growth` (`SustainedGrowthTriggers`): the `input` handler stores the streak it
  computes from the growth of the prompt alone, so that each prompt resets the
  streak of the agent runs.

Four further configurations, which are not among the runs, show where a property
needs the condition under which it is stated. Each ends in a counterexample:

- `Autocompact_stuck.cfg` (`InFlightHasOwner`): `/autocompact-now` calls
  `ctx.compact` outside a try block; if it throws, nobody owns the flag. It stays
  set until the callback of an older compaction, a compaction of the host's own
  or the end of the session clears it for other reasons. The other two callers
  catch this, and a test covers one of them.
- `ConfigStore_pause.cfg` (`PausedStaysPaused`): a load that meets the global
  file between `open` and the end of a write finds it empty or unreadable, and
  falls back to the defaults, which are enabled. A read that fails for another
  reason does the same; `OffIsObeyed` excuses both, and so much has to be said
  about what `docs/EXAMPLES.md` promises of `/autocompact-off`.
- `Diagnostics_clear.cfg` (`ClearedStaysGone`): a flush under way when
  `/autocompact-status clear` runs renames the entries it serialised before into
  the place of the deleted file.
- `Autocompact_shutdown.cfg` (`NoTimerAfterShutdown`): an `agent_end` handler
  suspended at its await goes on after `session_shutdown` and arms a timeout
  nobody cancels.

Observed while modelling, and left as they are in the models:

- Two commands on one file can lose the change of the first (the second writes
  back what it read before); the models say what holds when they do not overlap.
- Saving the project editor when there is no project file writes all defaults,
  which from then on override the global file; a value the project file has and
  normalisation refuses hides a valid global one.
- A tag that does not pair up makes prose, and files that were only read, be
  listed as modified, and may make the verification turn down a summary; the
  core compacts then. A path with a line break is read back as two names, so its
  summaries are never verified.
- When 512 tokens or fewer are left for the variable parts of a prompt, the
  budget of the previous summary is 0, which the truncation takes for no limit:
  only the last cut of the whole prompt bounds it. Instructions that take more
  than three fifths of a budget can be cut.
- A todo row written `- [x]` is not taken for completed, so it is kept among the
  rows the note calls active.
- `lastCompactionReason` is never cleared: a compaction the host starts by
  itself is sent under the cause of an earlier request.

## Proofs

`tlapm` checks every module to the last leaf; nothing is assumed but the named
ASSUMEs of the modules, which TLC evaluates in the runs, and the hypotheses
stated in the theorems.

- `AutocompactProofs`. `TypeOK` is inductive. `TimerIsLatest` is inductive with
  it. `CurrentTimerIsFresh` needs both: what completes or shuts down either
  clears the flag or changes the generation, and a new request takes a new
  generation and turn, so a timeout that still agrees with everything it is
  compared with was requested since. `NoStaleTrigger` follows, with the count of
  the calls (`CallsCounted`). `InFlightHasOwner` is proved for hosts that do not
  throw at the manual command (see `Autocompact_stuck.cfg`).
  `RequestsApart` comes from the inductive `OneRequest`: as long as no flag was
  cleared for another request (`~crossed`), the host works on one request at most,
  and while it does the flag is set and no timeout is current. It takes no assumption about the host; what is
  left out by `~crossed` is what the `overlap` run shows. On the same invariant
  rests `CauseTellsRequest`: a newer request may replace the stored reason
  between the `session_compact` event and the callback of an older one, but not
  while the host still works on it. `PhaseTellsInFlight` is inductive with the
  types. `CooldownKept` needs `TurnRecorded`, that the index the coordinator keeps
  is that of the last request's run. Then
  `PromptInOnePlace`, and the refinement of `PromptGate`: the initial states are
  its initial states and every step is one of its steps or leaves its variables
  alone. The last part is about the policy: normalisation is normal for every
  file; thresholds are ordered for every window; from this, that the emergency
  band lies above the soft threshold and each rule above its floor, a case split
  over the rules shows that a larger token count keeps the decision and its mode.
- `SummaryProofs`, for every set of events, jobs and texts. The filters come
  first: a lemma for each stretch of the pipeline says where it may leave an
  attempt (`Sound`), which rests on `Advances`, that the automaton has each
  transition the pipeline asks for. The inductive `SummaryInv` adds to `TypeOK`
  that every waiting attempt is sound, that a request of an aborted event is
  cut, and that no generation runs ahead of the count of compactions. It gives
  `TypeOK`, `NoInvalidTransition` and `CompactionShrinks` (with the arithmetic
  of the limit). `EventSteps` then says that a step leaves an event alone, begins
  its first attempt or ends its request; from these three cases follow
  `AbortNeverCommits`, `CutEndsCompaction`, `RetryAsksForLess` and
  `GenerationsAdvance`. The invariant is needed for each of them: an abort is
  harmless only because the request it meets is cut, and a first attempt cannot
  commit before a request only because some message is there to be summarised.
  `SplitTurnsBearHeading` says what the code's check for split turns is worth:
  what is committed has a summary of the turn's own messages or a history text
  with the heading; more does not hold, as the `split` run shows. `DiagnosticsTellOutcome` needs
  `DiagnosticsInv`: the events of the history are the last ones decided, and an
  entry is about a decided event, which no later step decides again.
- `DiagnosticsProofs`, for every length of the history, every set of failing
  operations and any number of restarts and clears. `Typed` strengthens `TypeOK`
  with the bound on whatever memory may be replaced by, and with the text a
  flush has written being the one it renames; `FileWhole` follows. `RecordedOnce`
  needs `InOrder`, that memory, the file and what is on its way between them are
  in order and no newer than the last decision. `ErasedStaysGone` needs
  `Erasing`, what an undisturbed clear has already made certain while it deletes
  its files. `DurableSurvives` needs `KeptEverywhere`, that a durable entry is in
  every copy from which memory or the file may next be replaced, and
  `FlushHolds`, that a flush that nothing interferes with holds the decision it
  will make durable.
- `BridgeProofs`, for every helper, every limit and all conversations. The
  inductive `Good` adds to `TypeOK` that what is kept has been received, what is
  received has been written, and nothing beyond the answer is written; it gives
  `BufferBounded`. An answer that parses is then as long as what was written, so
  that nothing is missing from it (`OnlyWholeAnswers`). `AccountingIsHonest` is
  an induction over the messages: the characters reported are recursive sums over
  the whole conversation, and two of them differ by the same as their summands
  (`Induction`). `ImplementsPreprocessing` is the safety part of the refinement:
  only an event that finds the promise pending answers it, and an accepted answer
  is the same conversation because validation compares message by message what
  may not change, and the split is taken where history ended.
- `ConfigStoreProofs`, for any sessions, settings and commands. The invariant
  behind `SavedAsIfAtOnce` is `Alone`: a command that has had the file to itself
  is the only one using it, finds there what it read or made itself, and has
  something to write only if it could read. `OffIsObeyed` needs `Paused`: as
  long as nothing may have undone `/autocompact-off`, the global file says off,
  or the one command using it has found it off and changes another setting; and
  `LoadedOff`, the same of what a load has already read, if its read succeeded
  and met no write. The project's file may be unreadable in either case.
- `FileListsProofs`, for any paths, and any texts the model or the core writes,
  of any length. `ListsCarriedOver`: the plan contains what the previous summary
  listed, and only a verified summary is committed. `PlansAreDisjoint` is the
  fact about merging that no file is planned twice. `ListsExact` is not
  inductive by itself: it would let a tag stand in a list as if it were a name,
  and the next summary would not read such a list back. `ListsInv` adds
  `SeenNamesNoTag`, that no file that was seen bears the name of a tag. The proof
  that it is kept follows a summary from being written to being read: of a text
  with its tags in pairs no tag survives stripping (an induction over its
  lines), so that the first opening tag is the extension's own; the section of a
  kind holds the names of its files and nothing else (an induction over the
  sorted names); and what is found between the two tags are those names.
  `OwnListsVerified` follows in every state of the invariant, with a second
  argument for histories whose tags do not pair up.
- `SummaryRequestProofs`, for every setting, every length and every length of the
  marker. Lemmas about truncation say how long a cut text is (`CutLength`), that
  its tail survives (`TailSurvives`) and how much the cut takes of a stretch
  (`GapTakes`); the budgets are then arithmetic, case by case
  (`PromptsFit`, `InstructionsAreWhole`, `PreviousSummaryIsKept`,
  `MessagesGetHalf`). The noise filter comes next, for texts and lists of any
  length. `Keeps` is what each of its passes keeps: the sum of what the lines
  stand for, and the lines that are headers or prose. A pass replaces each line
  by nothing, by itself, or, where a run begins, by what stands for the run
  (`Replaces`); `PassKeeps` shows, by induction over the lines, that this keeps
  both, since what a run adds to the sum is gathered at its beginning
  (`RunsAddUp` in `Induction`). It remains to show that the notes of each pass
  count right (`CondensedRun`, `TodoRowsMeasure`) and that the passes find the
  runs (`RunsKeep`, `TodoSnapshotsKeep`). The invariant of the specification is
  `RequestInv`, that the conversation holds only lines the filter reads and none
  that it writes: a placeholder among the rows of a snapshot would be counted as
  a line. `LinesAlwaysAccounted`, `RequestsAlwaysFit` and
  `CutsAlwaysSpareTheRest` follow for every conversation.
- `Induction` proves from the well-foundedness of the natural numbers
  (`WellFoundedInduction`) that a set that holds 0 and with each number the next
  one holds all (`InductionTo`), and that a function given by recursion exists
  and is the one the definition chooses. Sums, sequences joined into one
  (`FlattenSeq`) and the elements of a sequence that are in a set are built on
  this. The library states induction with an operator for a parameter, which the
  provers cannot instantiate, hence sets here; a filtered sequence is written
  with `FlattenSeq`, because `SelectSeq` has no definition for the prover.

One thing about the prover. The encoding of sequences for the SMT solver takes
anything whose domain is 1..n for a sequence of length n, and anything of length
n for one with that domain, whatever it is. Only the first of these is true of
values that are no sequences. The proofs that mention sequences have therefore
also been checked with that rule limited to sequences.

Only model-checked: the liveness properties (`InFlightReleased`,
`EveryEventAnswered`, `NothingLeftBehind`, and `PromptsServed` and `ServiceKept`
beyond their safety parts), since the prover reaches neither fairness nor
ENABLED. Every invariant and every action property of a passing run is stated by
a theorem, some of them under the conditions named above. The properties of the
violated runs are not theorems.

## Not modelled

- Tool result estimates: sizes computed from messages, without state; their
  results are inputs of `Policy`.
- Status display, notifications and telemetry: formatting that nothing else
  reads. With it the fields of the state that only the display shows.
- The wording of prompts and custom instructions, the session id and the merging
  of headers in `calvoproxy-coordination.ts`: texts, hashes and copies.
- The compression inside `bridge/cervo-compress`: it is any program here.
- What two processes do to the diagnostics file at once, which the repository's
  ADR 0001 leaves out, and two flushes of one process, which the host does not
  start.
- Benchmarks, scripts and CI: tooling around the extension.

What would come next: a `Session` module composing `Autocompact` and `Summary`,
so that the generation and the cause of one compaction are followed from the
request to the record.
