----------------------------- MODULE ConfigStore -----------------------------
(***************************************************************************)
(* The two settings files and who reads and writes them: the commands      *)
(* /autocompact-on, -off and -config (config-command-handlers.ts), which   *)
(* read, change and write a file with awaits between, and the loads of     *)
(* every handler (loadEffectiveConfig in config.ts). A session is a Pi     *)
(* process in the project's directory; sessions share both files.          *)
(*                                                                         *)
(* fs.writeFile opens the file, which empties it, and then fills it. A     *)
(* file is read in one step, as settings are far smaller than one read;    *)
(* the read may also fail, of a file that is whole (no descriptor left, no *)
(* permission, an error of the disk).                                      *)
(***************************************************************************)
EXTENDS Naturals

CONSTANTS
  None,
  Absent, Empty, Torn,  \* contents that are no settings: no file, one that
                        \* was opened and not filled, the text of one write
                        \* with the rest of a longer one after it
  Sessions,
  Trusted,              \* the sessions with isProjectTrusted
  Keys, RawValues,      \* the settings, and what a file may have for one
  Valid,                \* the values each setting keeps
  Default,              \* DEFAULT_CONFIG
  EditorTexts,          \* the settings a user may leave in the editor
  ReadsMayFail,         \* whether the read of a whole file may fail
  MaxCommands           \* bound on the commands given

Scopes == {"global", "project"}

RawConfigs == UNION {[K -> RawValues] : K \in SUBSET Keys}

Broken == {Empty, Torn}

ASSUME ConfigAssumption ==
  /\ Trusted \subseteq Sessions
  /\ "enabled" \in Keys /\ {TRUE, FALSE} \subseteq Valid["enabled"]
  /\ Valid \in [Keys -> SUBSET RawValues]
  /\ Default \in [Keys -> RawValues]
  /\ EditorTexts \subseteq RawConfigs
  /\ ReadsMayFail \in BOOLEAN /\ MaxCommands \in Nat
  /\ {Absent, Empty, Torn} \cap RawConfigs = {} /\ Absent \notin Broken

VARIABLES
  files,      \* the content of each file
  command,    \* the command of each session, or how its last one ended
  load,       \* the load a session is in the middle of
  commands,   \* how many commands were given
  paused      \* observer: /autocompact-off was carried out, and no command
              \* that may undo it has been given, or has failed, since

vars == <<files, command, load, commands, paused>>

-----------------------------------------------------------------------------
(* Merging and normalising *)

NoSettings == [k \in {} |-> None]

Override(over, base) ==
  [k \in DOMAIN over \cup DOMAIN base |->
     IF k \in DOMAIN over THEN over[k] ELSE base[k]]

Change(base, key, value) ==
  [k \in DOMAIN base \cup {key} |-> IF k = key THEN value ELSE base[k]]

Normalize(raw) ==
  [k \in Keys |-> IF k \in DOMAIN raw /\ raw[k] \in Valid[k]
                  THEN raw[k] ELSE Default[k]]

(* What a load makes of a file that is missing or cannot be parsed.        *)
Readable(content) == IF content \in RawConfigs THEN content ELSE NoSettings

(* Whether a read gives the content of the file.                           *)
ReadOutcomes == IF ReadsMayFail THEN BOOLEAN ELSE {TRUE}

-----------------------------------------------------------------------------
Changes ==
  [op : {"set"}, scope : Scopes, key : Keys, value : RawValues]
  \cup [op : {"edit", "reset"}, scope : Scopes, key : {None}, value : {None}]

Ended == [stage : {"none", "saved", "failed"}]

Busy(s) == command[s] \notin Ended

Using(scope) == {s \in Sessions : Busy(s) /\ command[s].scope = scope}

Writing(scope) == {s \in Using(scope) : command[s].stage = "filling"}

Init ==
  /\ files \in [Scopes -> {Absent, Empty} \cup EditorTexts]
  /\ command = [s \in Sessions |-> [stage |-> "none"]]
  /\ load = [s \in Sessions |-> None]
  /\ commands = 0 /\ paused = FALSE

Becomes(s, c) == command' = [command EXCEPT ![s] = c]

Ends(s, stage) == Becomes(s, [stage |-> stage])

(* A command that fails before it has opened the file.                     *)
Refused(s) ==
  Ends(s, "failed") /\ UNCHANGED <<files, load, commands, paused>>

-----------------------------------------------------------------------------
(* The commands *)

MayUndoPause(c) ==
  /\ c.scope = "global"
  /\ c.op # "set" \/ c.key = "enabled" \/ Using("global") # {}

(* "alone" observes whether another command used the file meanwhile.       *)
Starts(s) ==
  /\ ~Busy(s) /\ commands < MaxCommands
  /\ commands' = commands + 1
  /\ \E c \in Changes :
       /\ command' = [t \in Sessions |->
            IF t = s
            THEN [op |-> c.op, scope |-> c.scope, key |-> c.key,
                  value |-> c.value,
                  stage |-> IF c.op = "reset" THEN "unlinking" ELSE "reading",
                  text |-> None, linked |-> FALSE,
                  before |-> files[c.scope], alone |-> Using(c.scope) = {}]
            ELSE IF t \in Using(c.scope) THEN [command[t] EXCEPT !.alone = FALSE]
            ELSE command[t]]
       /\ paused' = (paused /\ ~MayUndoPause(c))
  /\ UNCHANGED <<files, load>>

(* Fault: a file that cannot be parsed is taken for one that is missing.   *)
ReadFailsNever(content) == FALSE

ReadFails(content) == content \in Broken

(* loadScopeConfig. Only a missing file counts as empty; a value that      *)
(* cannot be coerced is refused.                                           *)
Reads(s) ==
  LET c == command[s]
      content == files[c.scope] IN
  /\ Busy(s) /\ c.stage = "reading"
  /\ \/ /\ \/ ReadFails(content) \/ FALSE \in ReadOutcomes
           \/ c.op = "set" /\ c.value \notin Valid[c.key]
        /\ Refused(s)
     \/ /\ ~ReadFails(content)
        /\ \/ /\ c.op = "set" /\ c.value \in Valid[c.key]
              /\ Becomes(s, [c EXCEPT
                   !.stage = "opening",
                   !.text = Change(Readable(content), c.key, c.value)])
           \/ /\ c.op = "edit"
              /\ Becomes(s, [c EXCEPT !.stage = "editing"])
        /\ UNCHANGED <<files, load, commands, paused>>

(* The user cancels, leaves text that is not accepted, or leaves settings. *)
EditorReturns(s) ==
  /\ Busy(s) /\ command[s].stage = "editing"
  /\ \/ Refused(s)
     \/ /\ \E text \in EditorTexts :
             Becomes(s, [command[s] EXCEPT !.stage = "opening", !.text = text])
        /\ UNCHANGED <<files, load, commands, paused>>

(* writeScopeConfig, as far as the file is opened.                         *)
Opens(s) ==
  /\ Busy(s) /\ command[s].stage = "opening"
  /\ \/ Refused(s)
     \/ /\ files' = [files EXCEPT ![command[s].scope] = Empty]
        /\ Becomes(s, [command[s] EXCEPT !.stage = "filling", !.linked = TRUE])
        /\ UNCHANGED <<load, commands, paused>>

IsOff(c) ==
  c.op = "set" /\ c.scope = "global" /\ c.key = "enabled" /\ c.value = FALSE

(* What is written into a file that another command has filled meanwhile   *)
(* may be shorter than what is there.                                      *)
Filled(content, text) ==
  IF content = Empty THEN {text} ELSE {text, Torn}

(* A file that was unlinked after it was opened is filled to no effect.    *)
Fills(s) ==
  LET c == command[s] IN
  /\ Busy(s) /\ c.stage = "filling"
  /\ IF c.linked
     THEN \E content \in Filled(files[c.scope], c.text) :
            files' = [files EXCEPT ![c.scope] = content]
     ELSE UNCHANGED files
  /\ Ends(s, "saved")
  /\ paused' = (paused \/ (IsOff(c) /\ c.alone))
  /\ UNCHANGED <<load, commands>>

(* Nothing or only a part is written.                                      *)
FillFails(s) ==
  LET c == command[s] IN
  /\ Busy(s) /\ c.stage = "filling"
  /\ IF c.linked
     THEN \E content \in {files[c.scope], Torn} :
            files' = [files EXCEPT ![c.scope] = content]
     ELSE UNCHANGED files
  /\ Ends(s, "failed") /\ paused' = (paused /\ c.scope # "global")
  /\ UNCHANGED <<load, commands>>

(* resetScopeConfig: a file that is not there counts as removed.           *)
Unlinks(s) ==
  LET scope == command[s].scope IN
  /\ Busy(s) /\ command[s].stage = "unlinking"
  /\ \/ Refused(s)
     \/ /\ files' = [files EXCEPT ![scope] = Absent]
        /\ command' = [t \in Sessions |->
             IF t = s THEN [stage |-> "saved"]
             ELSE IF t \in Using(scope)
                  THEN [command[t] EXCEPT !.linked = FALSE]
             ELSE command[t]]
        /\ UNCHANGED <<load, commands, paused>>

(* The process of a session ends and the user starts another.              *)
SessionEnds(s) ==
  /\ Busy(s)
  /\ Ends(s, "failed")
  /\ load' = [load EXCEPT ![s] = None]
  /\ paused' = (paused /\ s \notin Writing("global"))
  /\ UNCHANGED <<files, commands>>

-----------------------------------------------------------------------------
(* loadEffectiveConfig *)

(* A load goes on without the settings of a file whose read fails. The     *)
(* observers tell whether the read of the global file succeeded, whether   *)
(* autocompaction was paused, and whether the file was being written.      *)
LoadStarts(s) ==
  /\ load[s] = None
  /\ \E read \in ReadOutcomes :
       load' = [load EXCEPT ![s] =
         [global |-> IF read THEN Readable(files["global"]) ELSE NoSettings,
          read |-> read, paused |-> paused,
          writing |-> Writing("global") # {}]]
  /\ UNCHANGED <<files, command, commands, paused>>

(* Fault: the project's file counts in any project.                        *)
ProjectReadsOfAny(s) == {Readable(files["project"])}

(* What the load may have of the project if it reads its file now.         *)
ProjectReads(s) ==
  {IF read /\ s \in Trusted THEN Readable(files["project"]) ELSE NoSettings :
     read \in ReadOutcomes}

(* What the load returns.                                                  *)
EffectiveConfig(s, project) == Normalize(Override(project, load[s].global))

LoadEnds(s) ==
  /\ load[s] # None
  /\ load' = [load EXCEPT ![s] = None]
  /\ UNCHANGED <<files, command, commands, paused>>

-----------------------------------------------------------------------------
Next ==
  \E s \in Sessions :
    \/ Starts(s) \/ Reads(s) \/ EditorReturns(s) \/ Opens(s) \/ Fills(s)
    \/ FillFails(s) \/ Unlinks(s) \/ SessionEnds(s)
    \/ LoadStarts(s) \/ LoadEnds(s)

Spec == Init /\ [][Next]_vars

-----------------------------------------------------------------------------
Contents == RawConfigs \cup {Absent} \cup Broken

Stages == {"reading", "editing", "opening", "filling", "unlinking"}

Command ==
  [op : {"set", "edit", "reset"}, scope : Scopes, key : Keys \cup {None},
   value : RawValues \cup {None}, stage : Stages,
   text : RawConfigs \cup {None}, linked : BOOLEAN, before : Contents,
   alone : BOOLEAN]

Load ==
  [global : RawConfigs, read : BOOLEAN, paused : BOOLEAN, writing : BOOLEAN]

ASSUME NoneAssumption == None \notin Load \cup RawConfigs

(* Type correctness: what is written and what is loaded are settings.      *)
TypeOK ==
  /\ files \in [Scopes -> Contents]
  /\ command \in [Sessions -> Command \cup Ended]
  /\ load \in [Sessions -> Load \cup {None}]
  /\ commands \in Nat /\ paused \in BOOLEAN

-----------------------------------------------------------------------------
(* Properties *)

(* What a command that has the file to itself should make of it. A file    *)
(* that cannot be parsed can only be removed: to change one setting of it  *)
(* would drop all the others.                                              *)
Effect(c, after) ==
  CASE c.op = "set"   -> /\ c.before \notin Broken
                         /\ after = Change(Readable(c.before), c.key, c.value)
    [] c.op = "edit"  -> c.before \notin Broken /\ after \in EditorTexts
    [] c.op = "reset" -> after = Absent

Saves(s) == Busy(s) /\ command'[s].stage = "saved"

(* A command that reports success, and during which no other command used  *)
(* the file, has changed the file as if at once: one setting is changed    *)
(* and every other keeps what it was before the command, whatever commands *)
(* have failed, crashed or overlapped earlier (setGlobalEnabled,           *)
(* setScopeConfigValue, editConfig, resetScopeConfig).                     *)
SavedAsIfAtOnce ==
  [][\A s \in Sessions :
       Saves(s) /\ command[s].alone
         => Effect(command[s], files'[command[s].scope])]_vars

(* The session compacts only on demand: the load finds "enabled" false, or *)
(* the project, which is trusted, says what it is.                         *)
Obeys(s) ==
  \A project \in ProjectReads(s) :
    \/ EffectiveConfig(s, project)["enabled"] = FALSE
    \/ s \in Trusted /\ "enabled" \in DOMAIN project

(* After /autocompact-off, and later commands that do not touch the        *)
(* setting, a load finds autocompaction disabled, unless the trusted       *)
(* project overrides it, whether or not the project's file could be read.  *)
(* A load is excused whose read of the global file fails, or falls into a  *)
(* write: loadEffectiveConfig then goes on with the defaults, which have   *)
(* it enabled (config.ts).                                                 *)
OffIsObeyed ==
  \A s \in Sessions :
    load[s] # None /\ load[s].paused /\ load[s].read /\ ~load[s].writing
      => Obeys(s)

(* The same without the excuses: docs/EXAMPLES.md, "Use `/autocompact-off` *)
(* to pause automatic triggers while investigating". It does not hold: see *)
(* ConfigStore_pause.cfg.                                                  *)
PausedStaysPaused ==
  \A s \in Sessions : load[s] # None /\ load[s].paused => Obeys(s)
=============================================================================
