-------------------------- MODULE ConfigStoreProofs --------------------------
(***************************************************************************)
(* Theorems about the settings files, for any number of sessions and       *)
(* commands, any settings, and any failure or end of a process.            *)
(***************************************************************************)
EXTENDS ConfigStore, TLAPS

(* A command that is under way is told by its stage.                       *)
LEMMA BusyCommand ==
  ASSUME TypeOK, NEW s \in Sessions
  PROVE  /\ Busy(s) => command[s] \in Command
         /\ command[s].stage \in Stages => Busy(s)
         /\ Busy(s) => command[s].stage \in Stages
<1>1. command[s] \in Command \cup Ended
  BY DEF TypeOK
<1>2. \A c \in Ended : c.stage \notin Stages
  BY DEF Ended, Stages
<1>3. \A c \in Command : c.stage \in Stages
  BY DEF Command
<1>4. QED
  BY <1>1, <1>2, <1>3 DEF Busy

LEMMA NotEnded == \A c \in Command : c \notin Ended
<1>1. \A c \in Ended : c.stage \notin Stages
  BY DEF Ended, Stages
<1>2. \A c \in Command : c.stage \in Stages
  BY DEF Command
<1>3. QED
  BY <1>1, <1>2

LEMMA NoSettingsTyped == NoSettings \in RawConfigs
<1>1. NoSettings \in [{} -> RawValues]
  BY DEF NoSettings
<1>2. {} \in SUBSET Keys
  OBVIOUS
<1>3. QED
  BY <1>1, <1>2 DEF RawConfigs

LEMMA ReadableTyped == ASSUME NEW content PROVE Readable(content) \in RawConfigs
BY NoSettingsTyped DEF Readable

(* Changing one setting gives settings.                                    *)
LEMMA ChangeTyped ==
  ASSUME NEW base \in RawConfigs, NEW key \in Keys, NEW value \in RawValues
  PROVE  Change(base, key, value) \in RawConfigs
<1>1. PICK K \in SUBSET Keys : base \in [K -> RawValues]
  BY DEF RawConfigs
<1>2. Change(base, key, value) \in [K \cup {key} -> RawValues]
  BY <1>1 DEF Change
<1>3. K \cup {key} \in SUBSET Keys
  BY <1>1
<1>4. QED
  BY <1>2, <1>3 DEF RawConfigs

(* A command that sets a setting has one to set, and one that writes has   *)
(* settings to write.                                                      *)
Proper(c) ==
  /\ c.op = "set" => c.key \in Keys /\ c.value \in RawValues
  /\ c.stage \in {"opening", "filling"} => c.text \in RawConfigs

Typed ==
  /\ TypeOK
  /\ \A s \in Sessions : Busy(s) => Proper(command[s])

(* What replaces the command of one session keeps the types.               *)
LEMMA BecomesTyped ==
  ASSUME Typed, NEW s \in Sessions, NEW c, Becomes(s, c),
         c \in Ended \/ (c \in Command /\ Proper(c))
  PROVE  /\ command' \in [Sessions -> Command \cup Ended]
         /\ \A t \in Sessions : Busy(t)' => Proper(command[t])'
<1>1. command \in [Sessions -> Command \cup Ended]
  BY DEF Typed, TypeOK
<1>2. command' = [command EXCEPT ![s] = c]
  BY DEF Becomes
<1>3. command' \in [Sessions -> Command \cup Ended]
  BY <1>1, <1>2
<1>4. ASSUME NEW t \in Sessions, command'[t] \notin Ended
      PROVE  Proper(command'[t])
  <2>1. CASE t = s
    BY <1>1, <1>2, <1>4, <2>1
  <2>2. CASE t # s
    BY <1>1, <1>2, <1>4, <2>2 DEF Typed, Busy
  <2>3. QED
    BY <2>1, <2>2
<1>5. QED
  BY <1>3, <1>4 DEF Busy, Proper

LEMMA EndsTyped ==
  ASSUME Typed, NEW s \in Sessions,
         Ends(s, "saved") \/ Ends(s, "failed")
  PROVE  /\ command' \in [Sessions -> Command \cup Ended]
         /\ \A t \in Sessions : Busy(t)' => Proper(command[t])'
<1>1. [stage |-> "saved"] \in Ended /\ [stage |-> "failed"] \in Ended
  BY DEF Ended
<1>2. QED
  BY <1>1, BecomesTyped DEF Ends

LEMMA InitTyped == Init => Typed
<1> SUFFICES ASSUME Init PROVE Typed
  OBVIOUS
<1>1. files \in [Scopes -> Contents]
  BY ConfigAssumption DEF Init, Contents, Broken
<1>2. command \in [Sessions -> Command \cup Ended] /\ \A s \in Sessions : ~Busy(s)
  BY DEF Init, Ended, Busy
<1>3. QED
  BY <1>1, <1>2 DEF Init, Typed, TypeOK

(* A new command, and what its start does to the others.                   *)
LEMMA StartsTyped ==
  ASSUME Typed, NEW s \in Sessions, Starts(s)
  PROVE  /\ command' \in [Sessions -> Command \cup Ended]
         /\ \A t \in Sessions : Busy(t)' => Proper(command[t])'
<1>1. PICK c \in Changes :
        command' = [t \in Sessions |->
            IF t = s
            THEN [op |-> c.op, scope |-> c.scope, key |-> c.key,
                  value |-> c.value,
                  stage |-> IF c.op = "reset" THEN "unlinking" ELSE "reading",
                  text |-> None, linked |-> FALSE,
                  before |-> files[c.scope], alone |-> Using(c.scope) = {}]
            ELSE IF t \in Using(c.scope) THEN [command[t] EXCEPT !.alone = FALSE]
            ELSE command[t]]
  BY DEF Starts
<1>2. files[c.scope] \in Contents
  BY DEF Typed, TypeOK, Changes
<1>3. /\ c.op \in {"set", "edit", "reset"} /\ c.scope \in Scopes
      /\ c.key \in Keys \cup {None} /\ c.value \in RawValues \cup {None}
      /\ c.op = "set" => c.key \in Keys /\ c.value \in RawValues
  BY DEF Changes
<1>4. command'[s] \in Command /\ Proper(command'[s])
  BY <1>1, <1>2, <1>3 DEF Command, Stages, Proper
<1>5. ASSUME NEW t \in Sessions, t # s
      PROVE  /\ command'[t] \in Command \cup Ended
             /\ command'[t] \notin Ended => Proper(command'[t])
  <2>1. CASE t \in Using(c.scope)
    <3>1. command[t] \in Command /\ Proper(command[t])
      BY <2>1, BusyCommand DEF Typed, Using
    <3>2. command'[t] = [command[t] EXCEPT !.alone = FALSE]
      BY <1>1, <1>5, <2>1
    <3>3. QED
      BY <3>1, <3>2 DEF Command, Proper
  <2>2. CASE t \notin Using(c.scope)
    BY <1>1, <1>5, <2>2 DEF Typed, TypeOK, Busy
  <2>3. QED
    BY <2>1, <2>2
<1>6. command' \in [Sessions -> Command \cup Ended]
  <2>1. \A t \in Sessions : command'[t] \in Command \cup Ended
    BY <1>4, <1>5
  <2>2. QED
    BY <1>1, <2>1
<1>7. \A t \in Sessions : command'[t] \notin Ended => Proper(command'[t])
  BY <1>4, <1>5
<1>8. QED
  BY <1>6, <1>7 DEF Busy, Proper

(* What is read is settings, or nothing is read.                           *)
LEMMA ReadsTyped ==
  ASSUME Typed, NEW s \in Sessions, Reads(s)
  PROVE  /\ command' \in [Sessions -> Command \cup Ended]
         /\ \A t \in Sessions : Busy(t)' => Proper(command[t])'
<1>1. command[s] \in Command /\ Proper(command[s])
  BY BusyCommand DEF Reads, Typed
<1> DEFINE text == Change(Readable(files[command[s].scope]),
                          command[s].key, command[s].value)
<1>2. CASE Ends(s, "failed")
  BY <1>2, EndsTyped
<1>3. CASE /\ command[s].op = "set"
           /\ Becomes(s, [command[s] EXCEPT !.stage = "opening", !.text = text])
  <2>1. text \in RawConfigs
    BY <1>1, <1>3, ReadableTyped, ChangeTyped DEF Proper
  <2> HIDE DEF text
  <2>2. [command[s] EXCEPT !.stage = "opening", !.text = text] \in Command
    BY <1>1, <2>1 DEF Command, Stages
  <2>3. Proper([command[s] EXCEPT !.stage = "opening", !.text = text])
    BY <1>1, <2>1 DEF Command, Proper
  <2>4. QED
    BY <1>3, <2>2, <2>3, BecomesTyped
<1>4. CASE Becomes(s, [command[s] EXCEPT !.stage = "editing"])
  <2>1. /\ [command[s] EXCEPT !.stage = "editing"] \in Command
        /\ Proper([command[s] EXCEPT !.stage = "editing"])
    BY <1>1 DEF Command, Stages, Proper
  <2>2. QED
    BY <1>4, <2>1, BecomesTyped
<1>5. QED
  BY <1>2, <1>3, <1>4 DEF Reads, Refused

LEMMA EditorReturnsTyped ==
  ASSUME Typed, NEW s \in Sessions, EditorReturns(s)
  PROVE  /\ command' \in [Sessions -> Command \cup Ended]
         /\ \A t \in Sessions : Busy(t)' => Proper(command[t])'
<1>1. command[s] \in Command /\ Proper(command[s])
  BY BusyCommand DEF EditorReturns, Typed
<1>2. CASE Ends(s, "failed")
  BY <1>2, EndsTyped
<1>3. ASSUME NEW text \in EditorTexts,
             Becomes(s, [command[s] EXCEPT !.stage = "opening", !.text = text])
      PROVE  /\ command' \in [Sessions -> Command \cup Ended]
             /\ \A t \in Sessions : Busy(t)' => Proper(command[t])'
  <2>1. text \in RawConfigs
    BY ConfigAssumption
  <2>2. /\ [command[s] EXCEPT !.stage = "opening", !.text = text] \in Command
        /\ Proper([command[s] EXCEPT !.stage = "opening", !.text = text])
    BY <1>1, <2>1 DEF Command, Stages, Proper
  <2>3. QED
    BY <1>3, <2>2, BecomesTyped
<1>4. QED
  BY <1>2, <1>3 DEF EditorReturns, Refused

LEMMA OpensTyped ==
  ASSUME Typed, NEW s \in Sessions, Opens(s)
  PROVE  /\ command' \in [Sessions -> Command \cup Ended]
         /\ \A t \in Sessions : Busy(t)' => Proper(command[t])'
<1>1. command[s] \in Command /\ Proper(command[s])
  BY BusyCommand DEF Opens, Typed
<1>2. CASE Ends(s, "failed")
  BY <1>2, EndsTyped
<1>3. CASE Becomes(s, [command[s] EXCEPT !.stage = "filling", !.linked = TRUE])
  <2>1. /\ [command[s] EXCEPT !.stage = "filling", !.linked = TRUE] \in Command
        /\ Proper([command[s] EXCEPT !.stage = "filling", !.linked = TRUE])
    BY <1>1 DEF Command, Stages, Proper, Opens
  <2>2. QED
    BY <1>3, <2>1, BecomesTyped
<1>4. QED
  BY <1>2, <1>3 DEF Opens, Refused

LEMMA UnlinksTyped ==
  ASSUME Typed, NEW s \in Sessions, Unlinks(s)
  PROVE  /\ command' \in [Sessions -> Command \cup Ended]
         /\ \A t \in Sessions : Busy(t)' => Proper(command[t])'
<1> DEFINE scope == command[s].scope
<1>1. CASE Ends(s, "failed")
  BY <1>1, EndsTyped
<1>2. CASE command' = [t \in Sessions |->
             IF t = s THEN [stage |-> "saved"]
             ELSE IF t \in Using(scope)
                  THEN [command[t] EXCEPT !.linked = FALSE]
             ELSE command[t]]
  <2>1. command'[s] \in Ended
    BY <1>2 DEF Ended
  <2>2. ASSUME NEW t \in Sessions, t # s
        PROVE  /\ command'[t] \in Command \cup Ended
               /\ command'[t] \notin Ended => Proper(command'[t])
    <3>1. CASE t \in Using(scope)
      <4>1. command[t] \in Command /\ Proper(command[t])
        BY <3>1, BusyCommand DEF Typed, Using
      <4>2. command'[t] = [command[t] EXCEPT !.linked = FALSE]
        BY <1>2, <2>2, <3>1
      <4>3. QED
        BY <4>1, <4>2 DEF Command, Proper
    <3>2. CASE t \notin Using(scope)
      BY <1>2, <2>2, <3>2 DEF Typed, TypeOK, Busy
    <3>3. QED
      BY <3>1, <3>2
  <2>3. \A t \in Sessions : command'[t] \in Command \cup Ended
    BY <2>1, <2>2
  <2>4. command' \in [Sessions -> Command \cup Ended]
    BY <1>2, <2>3
  <2>5. \A t \in Sessions : command'[t] \notin Ended => Proper(command'[t])
    BY <2>1, <2>2
  <2>6. QED
    BY <2>4, <2>5 DEF Busy, Proper
<1>3. QED
  BY <1>1, <1>2 DEF Unlinks, Refused

(* What a step puts into the files.                                        *)
LEMMA FilesTyped ==
  ASSUME Typed, NEW s \in Sessions,
         \/ UNCHANGED files
         \/ Opens(s) \/ Fills(s) \/ FillFails(s) \/ Unlinks(s)
  PROVE  files' \in [Scopes -> Contents]
<1>1. files \in [Scopes -> Contents]
  BY DEF Typed, TypeOK
<1>2. ASSUME NEW scope, NEW content \in Contents,
             files' = [files EXCEPT ![scope] = content]
      PROVE  files' \in [Scopes -> Contents]
  BY <1>1, <1>2
<1>3. Empty \in Contents /\ Torn \in Contents /\ Absent \in Contents
  BY DEF Contents, Broken
<1>4. CASE Opens(s)
  BY <1>1, <1>2, <1>3, <1>4 DEF Opens, Refused
<1>5. CASE Fills(s) /\ command[s].linked
  <2>1. command[s].text \in Contents
    BY <1>5 DEF Fills, Typed, Proper, Contents
  <2>2. PICK content \in Filled(files[command[s].scope], command[s].text) :
          files' = [files EXCEPT ![command[s].scope] = content]
    BY <1>5 DEF Fills
  <2>3. content \in Contents
    BY <1>3, <2>1 DEF Filled
  <2>4. QED
    BY <1>2, <2>2, <2>3
<1>6. CASE FillFails(s) /\ command[s].linked
  <2>1. command[s].scope \in Scopes
    BY <1>6, BusyCommand DEF FillFails, Typed, Command
  <2>2. PICK content \in {files[command[s].scope], Torn} :
          files' = [files EXCEPT ![command[s].scope] = content]
    BY <1>6 DEF FillFails
  <2>3. content \in Contents
    BY <1>1, <1>3, <2>1
  <2>4. QED
    BY <1>2, <2>2, <2>3
<1>7. CASE Unlinks(s)
  BY <1>1, <1>2, <1>3, <1>7 DEF Unlinks, Refused
<1>8. QED
  BY <1>1, <1>4, <1>5, <1>6, <1>7 DEF Fills, FillFails

LEMMA LoadTyped ==
  ASSUME Typed, NEW s \in Sessions, LoadStarts(s)
  PROVE  load' \in [Sessions -> Load \cup {None}]
<1>1. PICK read \in ReadOutcomes :
        load' = [load EXCEPT ![s] =
          [global |-> IF read THEN Readable(files["global"]) ELSE NoSettings,
           read |-> read, paused |-> paused,
           writing |-> Writing("global") # {}]]
  BY DEF LoadStarts
<1> DEFINE global == IF read THEN Readable(files["global"]) ELSE NoSettings
<1>2. global \in RawConfigs
  BY ReadableTyped, NoSettingsTyped
<1>3. /\ read \in BOOLEAN /\ paused \in BOOLEAN
      /\ (Writing("global") # {}) \in BOOLEAN
  BY DEF ReadOutcomes, Typed, TypeOK
<1> HIDE DEF global
<1>4. [global |-> global, read |-> read, paused |-> paused,
       writing |-> Writing("global") # {}] \in Load
  BY <1>2, <1>3 DEF Load
<1>5. QED
  BY <1>1, <1>4 DEF global, Typed, TypeOK

LEMMA TypedStep == Typed /\ [Next]_vars => Typed'
<1> SUFFICES ASSUME Typed, [Next]_vars PROVE Typed'
  OBVIOUS
<1> USE DEF Typed, TypeOK
<1>1. ASSUME NEW s \in Sessions, Starts(s) PROVE Typed'
  <2>1. PICK c \in Changes : paused' = (paused /\ ~MayUndoPause(c))
    BY <1>1 DEF Starts
  <2>2. commands' = commands + 1 /\ UNCHANGED <<files, load>>
    BY <1>1 DEF Starts
  <2>3. QED
    BY <1>1, <2>1, <2>2, StartsTyped
<1>2. ASSUME NEW s \in Sessions, Reads(s) PROVE Typed'
  BY <1>2, ReadsTyped DEF Reads, Refused
<1>3. ASSUME NEW s \in Sessions, EditorReturns(s) PROVE Typed'
  BY <1>3, EditorReturnsTyped DEF EditorReturns, Refused
<1>4. ASSUME NEW s \in Sessions, Opens(s) PROVE Typed'
  BY <1>4, OpensTyped, FilesTyped DEF Opens, Refused
<1>5. ASSUME NEW s \in Sessions, Fills(s) PROVE Typed'
  BY <1>5, EndsTyped, FilesTyped DEF Fills
<1>6. ASSUME NEW s \in Sessions, FillFails(s) PROVE Typed'
  BY <1>6, EndsTyped, FilesTyped DEF FillFails
<1>7. ASSUME NEW s \in Sessions, Unlinks(s) PROVE Typed'
  BY <1>7, UnlinksTyped, FilesTyped DEF Unlinks, Refused
<1>8. ASSUME NEW s \in Sessions, SessionEnds(s) PROVE Typed'
  BY <1>8, EndsTyped DEF SessionEnds
<1>9. ASSUME NEW s \in Sessions, LoadStarts(s) PROVE Typed'
  BY <1>9, LoadTyped DEF LoadStarts, Busy
<1>10. ASSUME NEW s \in Sessions, LoadEnds(s) PROVE Typed'
  BY <1>10 DEF LoadEnds, Busy
<1>11. CASE UNCHANGED vars
  BY <1>11 DEF vars, Busy
<1>12. QED
  BY <1>1, <1>2, <1>3, <1>4, <1>5, <1>6, <1>7, <1>8, <1>9, <1>10, <1>11
  DEF Next

(* Type correctness, whatever the sessions do.                             *)
THEOREM TypeCorrect == Spec => []TypeOK
<1>1. Typed => TypeOK
  BY DEF Typed
<1>2. QED
  BY <1>1, InitTyped, TypedStep, PTL DEF Spec

-----------------------------------------------------------------------------
(* What the theorems rest on: a command that has had the file to itself is *)
(* the only one that uses it, finds there what it read or made itself, and *)
(* has something to write only if it could read what was there.            *)
Course(c, content) ==
  /\ c.stage \in {"reading", "editing", "opening", "unlinking"}
       => content = c.before
  /\ c.stage = "filling" => content = Empty /\ c.linked
  /\ c.stage = "reading" => c.op # "reset"
  /\ c.stage = "editing" => c.op = "edit" /\ c.before \notin Broken
  /\ c.stage = "unlinking" => c.op = "reset"
  /\ c.stage \in {"opening", "filling"}
       => c.op # "reset" /\ Effect(c, c.text)

Only(s) ==
  \A t \in Sessions : Busy(t) /\ command[t].scope = command[s].scope => t = s

Alone ==
  \A s \in Sessions :
    Busy(s) /\ command[s].alone
      => Only(s) /\ Course(command[s], files[command[s].scope])

SameOrder(c, d) ==
  /\ c.scope = d.scope /\ c.alone = d.alone
  /\ c.op = d.op /\ c.key = d.key /\ c.before = d.before

(* What a step of one command leaves of the others: commands on its file   *)
(* that are no longer alone, or were not, and the rest as it was.          *)
Moves(s) ==
  /\ Busy(s)
  /\ \A scope \in Scopes : scope # command[s].scope => files'[scope] = files[scope]
  /\ \A t \in Sessions : t # s =>
       \/ command'[t] = command[t]
       \/ /\ Busy(t) /\ ~command'[t].alone
          /\ command[t].scope = command[s].scope
          /\ command'[t].scope = command[s].scope
  /\ Busy(s)' => SameOrder(command'[s], command[s])

LEMMA MovesAlone ==
  ASSUME Typed, Alone, NEW s \in Sessions, Moves(s),
         Busy(s)' /\ command'[s].alone
           => Course(command'[s], files'[command[s].scope])
  PROVE  Alone'
<1> SUFFICES ASSUME NEW t \in Sessions, Busy(t)', command'[t].alone
             PROVE  Only(t)' /\ Course(command'[t], files'[command'[t].scope])
  BY DEF Alone
<1>1. ASSUME NEW u \in Sessions, Busy(u)'
      PROVE  Busy(u) /\ command'[u].scope = command[u].scope
  BY <1>1 DEF Moves, Busy, SameOrder
<1>2. Busy(t) /\ command[t].alone
  BY DEF Moves, Busy, SameOrder
<1>3. Only(t) /\ Course(command[t], files[command[t].scope])
  BY <1>2 DEF Alone
<1>4. Only(t)'
  BY <1>1, <1>2, <1>3 DEF Only
<1>5. CASE t = s
  BY <1>1, <1>4, <1>5
<1>6. CASE t # s
  <2>1. command[t].scope # command[s].scope
    BY <1>3, <1>6 DEF Only, Moves
  <2>2. command'[t] = command[t]
    BY <1>6 DEF Moves
  <2>3. command[t].scope \in Scopes
    BY <1>2, BusyCommand DEF Command, Typed
  <2>4. files'[command[t].scope] = files[command[t].scope]
    BY <2>1, <2>3 DEF Moves
  <2>5. QED
    BY <1>3, <1>4, <2>2, <2>4
<1>7. QED
  BY <1>5, <1>6

(* The steps of the commands are such.                                     *)
LEMMA EndsMoves ==
  ASSUME Typed, NEW s \in Sessions, Busy(s),
         Ends(s, "saved") \/ Ends(s, "failed"),
         \A scope \in Scopes : scope # command[s].scope => files'[scope] = files[scope]
  PROVE  Moves(s) /\ ~Busy(s)'
<1>1. PICK c \in Ended : Becomes(s, c)
  BY DEF Ends, Ended
<1>2. command'[s] = c
  BY <1>1 DEF Becomes, Typed, TypeOK
<1>3. \A t \in Sessions : t # s => command'[t] = command[t]
  BY <1>1 DEF Becomes, Typed, TypeOK
<1>4. QED
  BY <1>2, <1>3 DEF Moves, Busy

LEMMA BecomesMoves ==
  ASSUME Typed, NEW s \in Sessions, Busy(s), NEW c, Becomes(s, c),
         SameOrder(c, command[s]),
         \A scope \in Scopes : scope # command[s].scope => files'[scope] = files[scope]
  PROVE  Moves(s) /\ command'[s] = c
<1>1. command'[s] = c
  BY DEF Becomes, Typed, TypeOK
<1>2. \A t \in Sessions : t # s => command'[t] = command[t]
  BY DEF Becomes, Typed, TypeOK
<1>3. QED
  BY <1>1, <1>2 DEF Moves

(* A step, as the invariants see it.                                       *)
Advances(s) ==
  /\ Moves(s)
  /\ Busy(s)' /\ command'[s].alone
       => Course(command'[s], files'[command[s].scope])

LEMMA ReadsAdvances ==
  ASSUME Typed, Alone, NEW s \in Sessions, Reads(s)
  PROVE  Advances(s)
<1>1. command[s] \in Command /\ Busy(s) /\ files' = files
  BY BusyCommand DEF Reads, Refused, Typed
<1>2. command[s].alone => Course(command[s], files[command[s].scope])
  BY <1>1 DEF Alone
<1> DEFINE text == Change(Readable(files[command[s].scope]),
                          command[s].key, command[s].value)
           c == [command[s] EXCEPT !.stage = "opening", !.text = text]
           e == [command[s] EXCEPT !.stage = "editing"]
<1>3. CASE Ends(s, "failed")
  BY <1>1, <1>3, EndsMoves DEF Advances
<1>4. CASE command[s].op = "set" /\ ~ReadFails(files[command[s].scope]) /\ Becomes(s, c)
  <2>1. /\ SameOrder(c, command[s])
        /\ c.stage = "opening" /\ c.text = text /\ c.op = "set"
        /\ c.before = command[s].before /\ c.key = command[s].key
        /\ c.value = command[s].value
    BY <1>1, <1>4 DEF Command, SameOrder
  <2>2. command[s].stage = "reading"
    BY DEF Reads
  <2>3. ASSUME command[s].alone PROVE Course(c, files[command[s].scope])
    <3>1. files[command[s].scope] = command[s].before
      BY <1>2, <2>2, <2>3 DEF Course
    <3>2. c.before \notin Broken /\ c.before = files[command[s].scope]
      BY <1>4, <2>1, <3>1 DEF ReadFails
    <3>3. c.text = Change(Readable(c.before), c.key, c.value)
      BY <2>1, <3>1
    <3> HIDE DEF c, text
    <3>4. Effect(c, c.text)
      BY <2>1, <3>2, <3>3 DEF Effect
    <3>5. QED
      BY <2>1, <3>2, <3>4 DEF Course
  <2> HIDE DEF c
  <2>4. Moves(s) /\ command'[s] = c
    BY <1>1, <1>4, <2>1, BecomesMoves
  <2>5. QED
    BY <1>1, <2>1, <2>3, <2>4 DEF Advances, SameOrder
<1>5. CASE command[s].op = "edit" /\ ~ReadFails(files[command[s].scope]) /\ Becomes(s, e)
  <2>1. /\ SameOrder(e, command[s])
        /\ e.stage = "editing" /\ e.op = "edit"
        /\ e.before = command[s].before
    BY <1>1, <1>5 DEF Command, SameOrder
  <2>2. command[s].stage = "reading"
    BY DEF Reads
  <2>3. command[s].alone => Course(e, files[command[s].scope])
    BY <1>2, <1>5, <2>1, <2>2 DEF Course, Effect, ReadFails
  <2> HIDE DEF e
  <2>4. Moves(s) /\ command'[s] = e
    BY <1>1, <1>5, <2>1, BecomesMoves
  <2>5. QED
    BY <1>1, <2>1, <2>3, <2>4 DEF Advances, SameOrder
<1>6. QED
  BY <1>3, <1>4, <1>5 DEF Reads, Refused

LEMMA EditorReturnsAdvances ==
  ASSUME Typed, Alone, NEW s \in Sessions, EditorReturns(s)
  PROVE  Advances(s)
<1>1. command[s] \in Command /\ Busy(s) /\ files' = files
  BY BusyCommand DEF EditorReturns, Refused, Typed
<1>2. command[s].alone => Course(command[s], files[command[s].scope])
  BY <1>1 DEF Alone
<1>3. CASE Ends(s, "failed")
  BY <1>1, <1>3, EndsMoves DEF Advances
<1>4. ASSUME NEW text \in EditorTexts,
             Becomes(s, [command[s] EXCEPT !.stage = "opening", !.text = text])
      PROVE  Advances(s)
  <2> DEFINE c == [command[s] EXCEPT !.stage = "opening", !.text = text]
  <2>1. /\ SameOrder(c, command[s])
        /\ c.stage = "opening" /\ c.text = text /\ c.op = command[s].op
        /\ c.before = command[s].before
    BY <1>1 DEF Command, SameOrder
  <2>2. command[s].stage = "editing"
    BY DEF EditorReturns
  <2>3. command[s].alone => Course(c, files[command[s].scope])
    BY <1>2, <2>1, <2>2 DEF Course, Effect
  <2>4. Becomes(s, c)
    BY <1>4
  <2> HIDE DEF c
  <2>5. Moves(s) /\ command'[s] = c
    BY <1>1, <2>1, <2>4, BecomesMoves
  <2>6. QED
    BY <1>1, <2>1, <2>3, <2>5 DEF Advances, SameOrder
<1>5. QED
  BY <1>3, <1>4 DEF EditorReturns, Refused

LEMMA OpensAdvances ==
  ASSUME Typed, Alone, NEW s \in Sessions, Opens(s)
  PROVE  Advances(s)
<1>1. command[s] \in Command /\ Busy(s)
  BY BusyCommand DEF Opens, Typed
<1>2. command[s].alone => Course(command[s], files[command[s].scope])
  BY <1>1 DEF Alone
<1>3. CASE Ends(s, "failed") /\ files' = files
  BY <1>1, <1>3, EndsMoves DEF Advances
<1> DEFINE c == [command[s] EXCEPT !.stage = "filling", !.linked = TRUE]
<1>4. CASE Becomes(s, c) /\ files' = [files EXCEPT ![command[s].scope] = Empty]
  <2>1. /\ SameOrder(c, command[s])
        /\ c.stage = "filling" /\ c.linked /\ c.op = command[s].op
        /\ c.text = command[s].text /\ c.before = command[s].before
        /\ c.key = command[s].key /\ c.value = command[s].value
    BY <1>1 DEF Command, SameOrder
  <2>2. command[s].stage = "opening" /\ command[s].scope \in Scopes
    BY <1>1 DEF Opens, Command
  <2>3. /\ files'[command[s].scope] = Empty
        /\ \A scope \in Scopes : scope # command[s].scope => files'[scope] = files[scope]
    BY <1>4, <2>2 DEF Typed, TypeOK
  <2> HIDE DEF c
  <2>4. command[s].alone => Course(c, Empty)
    BY <1>2, <2>1, <2>2 DEF Course, Effect
  <2>5. Moves(s) /\ command'[s] = c
    BY <1>1, <1>4, <2>1, <2>3, BecomesMoves
  <2>6. QED
    BY <2>1, <2>3, <2>4, <2>5 DEF Advances, SameOrder
<1>5. QED
  BY <1>3, <1>4 DEF Opens, Refused

(* A command that ends has nothing more to keep.                           *)
LEMMA FillsAdvances ==
  ASSUME Typed, NEW s \in Sessions, Fills(s) \/ FillFails(s)
  PROVE  Advances(s) /\ ~Busy(s)'
<1>1. \A scope \in Scopes : scope # command[s].scope => files'[scope] = files[scope]
  BY DEF Fills, FillFails, Typed, TypeOK
<1>2. Moves(s) /\ ~Busy(s)'
  BY <1>1, EndsMoves DEF Fills, FillFails
<1>3. QED
  BY <1>2 DEF Advances

LEMMA SessionEndsAdvances ==
  ASSUME Typed, NEW s \in Sessions, SessionEnds(s)
  PROVE  Advances(s) /\ ~Busy(s)'
BY EndsMoves DEF SessionEnds, Advances

LEMMA UnlinksAdvances ==
  ASSUME Typed, Alone, NEW s \in Sessions, Unlinks(s)
  PROVE  Advances(s) /\ ~Busy(s)'
<1> DEFINE scope == command[s].scope
<1>1. Busy(s)
  BY DEF Unlinks
<1>2. CASE Ends(s, "failed") /\ files' = files
  BY <1>1, <1>2, EndsMoves DEF Advances
<1>3. CASE /\ files' = [files EXCEPT ![scope] = Absent]
           /\ command' = [t \in Sessions |->
             IF t = s THEN [stage |-> "saved"]
             ELSE IF t \in Using(scope)
                  THEN [command[t] EXCEPT !.linked = FALSE]
             ELSE command[t]]
  <2>1. command'[s] \in Ended
    BY <1>3 DEF Ended
  <2>2. \A x \in Scopes : x # scope => files'[x] = files[x]
    BY <1>3 DEF Typed, TypeOK
  <2>3. ASSUME NEW t \in Sessions, t # s, t \in Using(scope)
        PROVE  /\ Busy(t) /\ ~command'[t].alone
               /\ command[t].scope = scope /\ command'[t].scope = scope
    <3>1. Busy(t) /\ command[t].scope = scope
      BY <2>3 DEF Using
    <3>2. command[t] \in Command
      BY <3>1, BusyCommand DEF Typed
    <3>3. ~command[t].alone
      BY <1>1, <2>3, <3>1 DEF Alone, Only
    <3>4. command'[t] = [command[t] EXCEPT !.linked = FALSE]
      BY <1>3, <2>3
    <3>5. QED
      BY <3>1, <3>2, <3>3, <3>4 DEF Command
  <2>4. ASSUME NEW t \in Sessions, t # s, t \notin Using(scope)
        PROVE  command'[t] = command[t]
    BY <1>3, <2>4
  <2>5. ~Busy(s)'
    BY <2>1 DEF Busy
  <2>6. QED
    BY <1>1, <2>2, <2>3, <2>4, <2>5 DEF Moves, Advances
<1>4. QED
  BY <1>2, <1>3 DEF Unlinks, Refused

LEMMA StartsAlone ==
  ASSUME Typed, Alone, NEW s \in Sessions, Starts(s)
  PROVE  Alone'
<1>1. PICK c \in Changes :
        command' = [t \in Sessions |->
            IF t = s
            THEN [op |-> c.op, scope |-> c.scope, key |-> c.key,
                  value |-> c.value,
                  stage |-> IF c.op = "reset" THEN "unlinking" ELSE "reading",
                  text |-> None, linked |-> FALSE,
                  before |-> files[c.scope], alone |-> Using(c.scope) = {}]
            ELSE IF t \in Using(c.scope) THEN [command[t] EXCEPT !.alone = FALSE]
            ELSE command[t]]
  BY DEF Starts
<1>2. files' = files /\ ~Busy(s)
  BY DEF Starts
<1>3. /\ command'[s].scope = c.scope /\ command'[s].before = files[c.scope]
      /\ command'[s].alone = (Using(c.scope) = {}) /\ command'[s].op = c.op
      /\ command'[s].stage = IF c.op = "reset" THEN "unlinking" ELSE "reading"
  BY <1>1
<1>4. ASSUME NEW t \in Sessions, t # s, t \in Using(c.scope)
      PROVE  ~command'[t].alone /\ Busy(t) /\ command'[t].scope = c.scope
  <2>1. command[t] \in Command /\ command[t].scope = c.scope /\ Busy(t)
    BY <1>4, BusyCommand DEF Typed, Using
  <2>2. command'[t] = [command[t] EXCEPT !.alone = FALSE]
    BY <1>1, <1>4
  <2>3. QED
    BY <2>1, <2>2 DEF Command
<1>5. ASSUME NEW t \in Sessions, t # s, t \notin Using(c.scope)
      PROVE  command'[t] = command[t]
  BY <1>1, <1>5
<1>6. ASSUME NEW t \in Sessions, t # s, Busy(t)'
      PROVE  Busy(t) /\ command'[t].scope = command[t].scope
  BY <1>4, <1>5, <1>6 DEF Busy, Using
<1> SUFFICES ASSUME NEW t \in Sessions, Busy(t)', command'[t].alone
             PROVE  Only(t)' /\ Course(command'[t], files'[command'[t].scope])
  BY DEF Alone
<1>7. CASE t = s
  <2>1. Using(c.scope) = {}
    BY <1>3, <1>7
  <2>2. Only(t)'
    BY <1>3, <1>6, <1>7, <2>1 DEF Only, Using
  <2>3. Course(command'[s], files[c.scope])
    BY <1>3 DEF Course, Changes
  <2>4. QED
    BY <1>2, <1>3, <1>7, <2>2, <2>3
<1>8. CASE t # s
  <2>1. t \notin Using(c.scope)
    BY <1>4, <1>8
  <2>2. command'[t] = command[t] /\ Busy(t)
    BY <1>5, <1>6, <1>8, <2>1
  <2>3. Only(t) /\ Course(command[t], files[command[t].scope])
    BY <2>2 DEF Alone
  <2>4. command[t].scope # c.scope
    BY <2>1, <2>2 DEF Using
  <2>5. Only(t)'
    BY <1>3, <1>6, <1>8, <2>2, <2>3, <2>4 DEF Only
  <2>6. QED
    BY <1>2, <2>2, <2>3, <2>5
<1>9. QED
  BY <1>7, <1>8

LEMMA AloneStep == Typed /\ Alone /\ [Next]_vars => Alone'
<1> SUFFICES ASSUME Typed, Alone, [Next]_vars PROVE Alone'
  OBVIOUS
<1>1. ASSUME NEW s \in Sessions, Advances(s) PROVE Alone'
  BY <1>1, MovesAlone DEF Advances
<1>2. CASE command' = command /\ files' = files
  BY <1>2 DEF Alone, Only, Busy
<1>3. ASSUME NEW s \in Sessions, LoadStarts(s) \/ LoadEnds(s) PROVE Alone'
  BY <1>2, <1>3 DEF LoadStarts, LoadEnds
<1>4. CASE UNCHANGED vars
  BY <1>2, <1>4 DEF vars
<1>5. QED
  BY <1>1, <1>3, <1>4, StartsAlone, ReadsAdvances, EditorReturnsAdvances,
     OpensAdvances, FillsAdvances, UnlinksAdvances, SessionEndsAdvances
  DEF Next

LEMMA InitAlone == Init => Alone
BY DEF Init, Alone, Busy, Ended

(* Only its own write or removal makes a command report success.           *)
LEMMA SavedBy ==
  ASSUME Typed, [Next]_vars, NEW s \in Sessions, Saves(s)
  PROVE  Fills(s) \/ (Unlinks(s) /\ ~Ends(s, "failed"))
<1>1. command[s] \in Command /\ command'[s].stage = "saved"
  BY BusyCommand DEF Saves, Typed
<1>2. command'[s] # command[s]
  BY <1>1 DEF Command, Stages
<1>3. ASSUME NEW u \in Sessions, NEW c, Becomes(u, c)
      PROVE  u = s /\ c.stage = "saved"
  BY <1>1, <1>2, <1>3 DEF Becomes, Typed, TypeOK
<1>4. ASSUME NEW u \in Sessions, NEW stage, Ends(u, stage)
      PROVE  u = s /\ stage = "saved"
  BY <1>3, <1>4 DEF Ends
<1>5. ASSUME NEW u \in Sessions PROVE ~Ends(u, "failed")
  BY <1>4
<1>6. ASSUME NEW u \in Sessions, Starts(u) PROVE FALSE
  <2>1. s # u
    BY <1>6 DEF Starts, Saves
  <2>2. command'[s] = [command[s] EXCEPT !.alone = FALSE]
    BY <1>2, <1>6, <2>1 DEF Starts
  <2>3. QED
    BY <1>1, <2>2 DEF Command, Stages
<1>7. ASSUME NEW u \in Sessions, Reads(u) PROVE FALSE
  <2>1. command[u] \in Command
    BY <1>7, BusyCommand DEF Reads, Typed
  <2>2. ASSUME NEW text,
               Becomes(u, [command[u] EXCEPT !.stage = "opening", !.text = text])
        PROVE  FALSE
    <3>1. [command[u] EXCEPT !.stage = "opening", !.text = text].stage = "opening"
      BY <2>1 DEF Command
    <3>2. QED
      BY <1>3, <2>2, <3>1, Zenon
  <2>3. ~Becomes(u, [command[u] EXCEPT !.stage = "editing"])
    BY <1>3, <2>1 DEF Command
  <2>4. QED
    BY <1>5, <1>7, <2>2, <2>3 DEF Reads, Refused
<1>8. ASSUME NEW u \in Sessions, EditorReturns(u) PROVE FALSE
  <2>1. command[u] \in Command
    BY <1>8, BusyCommand DEF EditorReturns, Typed
  <2>2. ASSUME NEW text,
               Becomes(u, [command[u] EXCEPT !.stage = "opening", !.text = text])
        PROVE  FALSE
    <3>1. [command[u] EXCEPT !.stage = "opening", !.text = text].stage = "opening"
      BY <2>1 DEF Command
    <3>2. QED
      BY <1>3, <2>2, <3>1, Zenon
  <2>3. QED
    BY <1>5, <1>8, <2>2 DEF EditorReturns, Refused
<1>9. ASSUME NEW u \in Sessions, Opens(u) PROVE FALSE
  <2>1. command[u] \in Command
    BY <1>9, BusyCommand DEF Opens, Typed
  <2>2. ASSUME Becomes(u, [command[u] EXCEPT !.stage = "filling", !.linked = TRUE])
        PROVE  FALSE
    <3>1. [command[u] EXCEPT !.stage = "filling", !.linked = TRUE].stage = "filling"
      BY <2>1 DEF Command
    <3>2. QED
      BY <1>3, <2>2, <3>1, Zenon
  <2>3. QED
    BY <1>5, <1>9, <2>2 DEF Opens, Refused
<1>10. ASSUME NEW u \in Sessions, Unlinks(u)
       PROVE  u = s
  <2>1. CASE u # s
    <3>1. command'[s] = [command[s] EXCEPT !.linked = FALSE]
      BY <1>2, <1>5, <1>10, <2>1 DEF Unlinks, Refused
    <3>2. QED
      BY <1>1, <3>1 DEF Command, Stages
  <2>2. QED
    BY <2>1
<1>11. ASSUME NEW u \in Sessions, Fills(u) PROVE u = s
  BY <1>4, <1>11 DEF Fills
<1>12. ASSUME NEW u \in Sessions,
              FillFails(u) \/ SessionEnds(u) \/ LoadStarts(u) \/ LoadEnds(u)
       PROVE  FALSE
  BY <1>2, <1>5, <1>12 DEF FillFails, SessionEnds, LoadStarts, LoadEnds
<1>13. CASE UNCHANGED vars
  BY <1>2, <1>13 DEF vars
<1>14. QED
  BY <1>5, <1>6, <1>7, <1>8, <1>9, <1>10, <1>11, <1>12, <1>13 DEF Next

(* What a command that had the file to itself leaves in it.                *)
LEMMA AloneFilled ==
  ASSUME Typed, Alone, NEW s \in Sessions, Fills(s), command[s].alone
  PROVE  /\ files'[command[s].scope] = command[s].text
         /\ command[s].op # "reset" /\ Effect(command[s], command[s].text)
<1>1. Course(command[s], files[command[s].scope]) /\ command[s].stage = "filling"
  BY DEF Alone, Fills
<1>2. /\ files[command[s].scope] = Empty /\ command[s].linked
      /\ command[s].op # "reset" /\ Effect(command[s], command[s].text)
  BY <1>1 DEF Course
<1>3. command[s].scope \in Scopes
  BY BusyCommand DEF Fills, Typed, Command
<1>4. files' = [files EXCEPT ![command[s].scope] = command[s].text]
  BY <1>2 DEF Fills, Filled
<1>5. QED
  BY <1>2, <1>3, <1>4 DEF Typed, TypeOK

LEMMA SavedEffect ==
  ASSUME Typed, Alone, [Next]_vars, NEW s \in Sessions,
         Saves(s), command[s].alone
  PROVE  Effect(command[s], files'[command[s].scope])
<1>1. CASE Fills(s)
  BY <1>1, AloneFilled
<1>2. CASE Unlinks(s) /\ ~Ends(s, "failed")
  <2>1. command[s].scope \in Scopes
    BY <1>2, BusyCommand DEF Unlinks, Typed, Command
  <2>2. Course(command[s], files[command[s].scope]) /\ command[s].stage = "unlinking"
    BY <1>2 DEF Alone, Unlinks
  <2>3. command[s].op = "reset"
    BY <2>2 DEF Course
  <2>4. files'[command[s].scope] = Absent
    BY <1>2, <2>1 DEF Unlinks, Refused, Typed, TypeOK
  <2>5. QED
    BY <2>3, <2>4 DEF Effect
<1>3. QED
  BY <1>1, <1>2, SavedBy

(* A command that reports success and had the file to itself has changed   *)
(* it as if at once, after any earlier failures, ends and overlaps.        *)
THEOREM CommandsAreAtomic == Spec => SavedAsIfAtOnce
<1>1. Typed /\ Alone /\ [Next]_vars
        => [\A s \in Sessions :
              Saves(s) /\ command[s].alone
                => Effect(command[s], files'[command[s].scope])]_vars
  BY SavedEffect
<1>2. QED
  BY <1>1, InitTyped, TypedStep, InitAlone, AloneStep, PTL
  DEF Spec, SavedAsIfAtOnce

-----------------------------------------------------------------------------
(* After /autocompact-off the global file has the setting off, or the only *)
(* command that uses it has found it off and changes another setting.      *)
Off(content) ==
  /\ content \in RawConfigs /\ "enabled" \in DOMAIN content
  /\ content["enabled"] = FALSE

Harmless(c) ==
  c.alone /\ c.op = "set" /\ c.key # "enabled" /\ Off(c.before)

Calm ==
  /\ \A s \in Using("global") : Harmless(command[s])
  /\ Using("global") = {} => Off(files["global"])

LoadedOff ==
  \A s \in Sessions :
    load[s] # None /\ load[s].paused /\ load[s].read /\ ~load[s].writing
      => Off(load[s].global)

LEMMA CalmMoves ==
  ASSUME Typed, Alone, Calm, NEW s \in Sessions, Moves(s),
         ~Busy(s)' /\ command[s].scope = "global" => Off(files'["global"])
  PROVE  Calm'
<1>1. CASE command[s].scope = "global"
  <2>1. s \in Using("global") /\ Busy(s)
    BY <1>1 DEF Using, Moves
  <2>2. Harmless(command[s]) /\ Only(s)
    BY <2>1 DEF Calm, Harmless, Alone
  <2>3. ASSUME NEW t \in Sessions, t # s, Busy(t)'
        PROVE  command'[t].scope # "global"
    BY <1>1, <2>2, <2>3 DEF Only, Moves, Busy
  <2>4. CASE Busy(s)'
    <3>1. Harmless(command'[s]) /\ command'[s].scope = "global"
      BY <1>1, <2>2, <2>4 DEF Moves, SameOrder, Harmless
    <3>2. s \in Using("global")'
      BY <2>4, <3>1 DEF Using
    <3>3. \A t \in Using("global")' : t = s
      BY <2>3 DEF Using
    <3>4. QED
      BY <3>1, <3>2, <3>3 DEF Calm
  <2>5. CASE ~Busy(s)'
    <3>1. Using("global")' = {}
      BY <2>3, <2>5 DEF Using
    <3>2. QED
      BY <1>1, <2>5, <3>1 DEF Calm
  <2>6. QED
    BY <2>4, <2>5
<1>2. CASE command[s].scope # "global"
  <2>1. files'["global"] = files["global"]
    BY <1>2 DEF Moves, Scopes
  <2>2. ASSUME NEW t \in Sessions, t # s
        PROVE  \/ command'[t] = command[t]
               \/ command[t].scope # "global" /\ command'[t].scope # "global"
    BY <1>2, <2>2 DEF Moves
  <2>3. Busy(s)' => command'[s].scope # "global"
    BY <1>2 DEF Moves, SameOrder
  <2>4. ASSUME NEW t \in Sessions
        PROVE  /\ t \in Using("global")' <=> t \in Using("global")
               /\ t \in Using("global") => command'[t] = command[t]
    BY <1>2, <2>2, <2>3 DEF Using, Busy
  <2>5. Using("global")' = Using("global")
    BY <2>4 DEF Using
  <2>6. \A t \in Using("global") : t \in Sessions
    BY DEF Using
  <2>7. QED
    BY <2>1, <2>4, <2>5, <2>6 DEF Calm
<1>3. QED
  BY <1>1, <1>2

(* A command that has not opened the file leaves it as it found it.        *)
LEMMA BeforeIsOff ==
  ASSUME Typed, Alone, Calm, NEW s \in Sessions, Busy(s),
         command[s].scope = "global", command[s].stage # "filling"
  PROVE  Off(files["global"])
<1>1. Harmless(command[s])
  BY DEF Calm, Using
<1>2. Course(command[s], files["global"])
  BY <1>1 DEF Alone, Harmless
<1>3. command[s].stage \in {"reading", "editing", "opening", "unlinking"}
  BY BusyCommand DEF Typed, Stages
<1>4. QED
  BY <1>1, <1>2, <1>3 DEF Course, Harmless

LEMMA ChangeOff ==
  /\ \A base, key, value :
       Off(base) /\ key # "enabled" /\ Change(base, key, value) \in RawConfigs
         => Off(Change(base, key, value))
  /\ \A base \in RawConfigs :
       Change(base, "enabled", FALSE) \in RawConfigs
         => Off(Change(base, "enabled", FALSE))
BY DEF Off, Change

LEMMA FillsCalm ==
  ASSUME Typed, Alone, paused => Calm, NEW s \in Sessions, Fills(s), paused'
  PROVE  Calm'
<1>1. Busy(s) /\ Moves(s) /\ ~Busy(s)' /\ Proper(command[s])
  BY FillsAdvances DEF Fills, Advances, Typed
<1>2. command[s].text \in RawConfigs
  BY <1>1 DEF Proper, Fills
<1>3. ASSUME command[s].scope = "global", paused PROVE Off(files'["global"])
  <2>1. Harmless(command[s])
    BY <1>1, <1>3 DEF Calm, Using
  <2>2. files'["global"] = command[s].text /\ Effect(command[s], command[s].text)
    BY <1>3, <2>1, AloneFilled DEF Harmless
  <2>3. command[s].text = Change(command[s].before, command[s].key, command[s].value)
    BY <2>1, <2>2 DEF Effect, Harmless, Off, Readable
  <2>4. QED
    BY <1>2, <2>1, <2>2, <2>3, ChangeOff DEF Harmless
<1>4. CASE paused
  BY <1>1, <1>3, <1>4, CalmMoves
<1>5. CASE ~paused
  <2>1. IsOff(command[s]) /\ command[s].alone
    BY <1>5 DEF Fills
  <2>2. files'["global"] = command[s].text /\ Effect(command[s], command[s].text)
    BY <2>1, AloneFilled DEF IsOff
  <2>3. command[s].text = Change(Readable(command[s].before), "enabled", FALSE)
    BY <2>1, <2>2 DEF Effect, IsOff
  <2>4. Off(files'["global"])
    BY <1>2, <2>2, <2>3, ChangeOff, ReadableTyped
  <2>5. Only(s)
    BY <1>1, <2>1 DEF Alone
  <2>6. Using("global")' = {}
    BY <1>1, <2>1, <2>5 DEF Using, Only, Moves, IsOff, Busy
  <2>7. QED
    BY <2>4, <2>6 DEF Calm
<1>6. QED
  BY <1>4, <1>5

LEMMA StartsCalm ==
  ASSUME Typed, Alone, paused => Calm, NEW s \in Sessions, Starts(s), paused'
  PROVE  Calm'
<1>1. PICK c \in Changes :
        /\ command' = [t \in Sessions |->
            IF t = s
            THEN [op |-> c.op, scope |-> c.scope, key |-> c.key,
                  value |-> c.value,
                  stage |-> IF c.op = "reset" THEN "unlinking" ELSE "reading",
                  text |-> None, linked |-> FALSE,
                  before |-> files[c.scope], alone |-> Using(c.scope) = {}]
            ELSE IF t \in Using(c.scope) THEN [command[t] EXCEPT !.alone = FALSE]
            ELSE command[t]]
        /\ paused' = (paused /\ ~MayUndoPause(c))
  BY DEF Starts
<1>2. paused /\ ~MayUndoPause(c) /\ Calm
  BY <1>1
<1>3. files' = files /\ ~Busy(s)
  BY DEF Starts
<1>4. /\ command'[s].scope = c.scope /\ command'[s].before = files[c.scope]
      /\ command'[s].alone = (Using(c.scope) = {}) /\ command'[s].op = c.op
      /\ command'[s].key = c.key
  BY <1>1
<1>5. CASE c.scope = "global"
  <2>1. c.op = "set" /\ c.key # "enabled" /\ Using("global") = {}
    BY <1>2, <1>5 DEF MayUndoPause
  <2>2. Harmless(command'[s])
    BY <1>2, <1>4, <1>5, <2>1 DEF Harmless, Calm
  <2>3. \A t \in Sessions : t # s => command'[t] = command[t]
    BY <1>1, <1>5, <2>1
  <2>4. s \in Using("global")'
    <3>1. command'[s] \notin Ended
      BY <1>1 DEF Ended
    <3>2. QED
      BY <1>4, <1>5, <3>1 DEF Using, Busy
  <2>5. \A t \in Using("global")' : t = s
    BY <2>1, <2>3 DEF Using, Busy
  <2>6. QED
    BY <2>2, <2>4, <2>5 DEF Calm
<1>6. CASE c.scope # "global"
  <2>1. ASSUME NEW t \in Sessions, t # s
        PROVE  \/ command'[t] = command[t]
               \/ command[t].scope # "global" /\ command'[t].scope # "global"
    <3>1. CASE t \in Using(c.scope)
      <4>1. command[t] \in Command /\ command[t].scope # "global"
        BY <1>6, <3>1, BusyCommand DEF Typed, Using
      <4>2. command'[t] = [command[t] EXCEPT !.alone = FALSE]
        BY <1>1, <2>1, <3>1
      <4>3. QED
        BY <4>1, <4>2 DEF Command
    <3>2. QED
      BY <1>1, <2>1, <3>1
  <2>2. ASSUME NEW t \in Sessions
        PROVE  /\ t \in Using("global")' <=> t \in Using("global")
               /\ t \in Using("global") => command'[t] = command[t]
    BY <1>3, <1>4, <1>6, <2>1 DEF Using, Busy
  <2>3. Using("global")' = Using("global")
    BY <2>2 DEF Using
  <2>4. \A t \in Using("global") : t \in Sessions
    BY DEF Using
  <2>5. QED
    BY <1>2, <1>3, <2>2, <2>3, <2>4 DEF Calm
<1>7. QED
  BY <1>5, <1>6

Paused == paused => Calm

LEMMA PausedStep == Typed /\ Alone /\ Paused /\ [Next]_vars => Paused'
<1> SUFFICES ASSUME Typed, Alone, paused => Calm, [Next]_vars, paused'
             PROVE  Calm'
  BY DEF Paused
<1>1. ASSUME NEW s \in Sessions, Starts(s) PROVE Calm'
  BY <1>1, StartsCalm
<1>2. ASSUME NEW s \in Sessions, Reads(s) \/ EditorReturns(s) PROVE Calm'
  <2>1. /\ Calm /\ Busy(s) /\ files' = files
        /\ command[s].stage # "filling"
    BY <1>2 DEF Reads, EditorReturns, Refused
  <2>2. Moves(s)
    BY <1>2, ReadsAdvances, EditorReturnsAdvances DEF Advances
  <2>3. QED
    BY <2>1, <2>2, BeforeIsOff, CalmMoves
<1>3. ASSUME NEW s \in Sessions, Opens(s) PROVE Calm'
  <2>1. Calm /\ Busy(s) /\ command[s].stage # "filling"
    BY <1>3 DEF Opens, Refused
  <2>2. Moves(s)
    BY <1>3, OpensAdvances DEF Advances
  <2>3. ~Busy(s)' => files' = files
    <3>1. CASE Refused(s)
      BY <3>1 DEF Refused
    <3>2. CASE Becomes(s, [command[s] EXCEPT !.stage = "filling", !.linked = TRUE])
      <4>1. [command[s] EXCEPT !.stage = "filling", !.linked = TRUE] \notin Ended
        BY <2>1, BusyCommand DEF Ended, Command, Typed
      <4>2. QED
        BY <3>2, <4>1 DEF Becomes, Busy, Typed, TypeOK
    <3>3. QED
      BY <1>3, <3>1, <3>2 DEF Opens
  <2>4. QED
    BY <2>1, <2>2, <2>3, BeforeIsOff, CalmMoves
<1>4. ASSUME NEW s \in Sessions, Fills(s) PROVE Calm'
  BY <1>4, FillsCalm
<1>5. ASSUME NEW s \in Sessions, FillFails(s) PROVE Calm'
  <2>1. Calm /\ command[s].scope # "global"
    BY <1>5 DEF FillFails
  <2>2. Moves(s)
    BY <1>5, FillsAdvances DEF Advances
  <2>3. QED
    BY <2>1, <2>2, CalmMoves
<1>6. ASSUME NEW s \in Sessions, Unlinks(s) PROVE Calm'
  <2>1. Calm /\ Busy(s) /\ command[s].stage = "unlinking"
    BY <1>6 DEF Unlinks, Refused
  <2>2. Moves(s)
    BY <1>6, UnlinksAdvances DEF Advances
  <2>3. command[s].scope # "global"
    BY <2>1 DEF Calm, Using, Harmless, Alone, Course
  <2>4. QED
    BY <2>1, <2>2, <2>3, CalmMoves
<1>7. ASSUME NEW s \in Sessions, SessionEnds(s) PROVE Calm'
  <2>1. Calm /\ Busy(s) /\ files' = files /\ s \notin Writing("global")
    BY <1>7 DEF SessionEnds
  <2>2. Moves(s)
    BY <1>7, SessionEndsAdvances DEF Advances
  <2>3. command[s].scope = "global" => command[s].stage # "filling"
    BY <2>1 DEF Writing, Using
  <2>4. QED
    BY <2>1, <2>2, <2>3, BeforeIsOff, CalmMoves
<1>8. CASE UNCHANGED <<files, command, paused>>
  BY <1>8 DEF Calm, Using, Busy
<1>9. ASSUME NEW s \in Sessions, LoadStarts(s) \/ LoadEnds(s) PROVE Calm'
  BY <1>8, <1>9 DEF LoadStarts, LoadEnds
<1>10. QED
  BY <1>1, <1>2, <1>3, <1>4, <1>5, <1>6, <1>7, <1>8, <1>9 DEF Next, vars

LEMMA LoadedOffStep ==
  Typed /\ Alone /\ Paused /\ LoadedOff /\ [Next]_vars => LoadedOff'
<1> SUFFICES ASSUME Typed, Alone, Paused, LoadedOff, [Next]_vars
             PROVE  LoadedOff'
  OBVIOUS
<1>1. CASE UNCHANGED load
  BY <1>1 DEF LoadedOff
<1>2. ASSUME NEW s \in Sessions, load' = [load EXCEPT ![s] = None]
      PROVE  LoadedOff'
  BY <1>2 DEF LoadedOff, Typed, TypeOK
<1>3. ASSUME NEW s \in Sessions, LoadStarts(s) PROVE LoadedOff'
  <2>1. ASSUME paused, Writing("global") = {} PROVE Off(files["global"])
    <3>1. Calm
      BY <2>1 DEF Paused
    <3>2. ASSUME NEW t \in Using("global") PROVE Off(files["global"])
      BY <2>1, <3>1, <3>2, BeforeIsOff DEF Using, Writing
    <3>3. QED
      BY <3>1, <3>2 DEF Calm
  <2>2. PICK read \in ReadOutcomes :
          load' = [load EXCEPT ![s] =
            [global |-> IF read THEN Readable(files["global"]) ELSE NoSettings,
             read |-> read, paused |-> paused,
             writing |-> Writing("global") # {}]]
    BY <1>3 DEF LoadStarts
  <2>3. Off(files["global"]) => Off(Readable(files["global"]))
    BY DEF Off, Readable
  <2>4. QED
    BY <2>1, <2>2, <2>3 DEF LoadedOff, Typed, TypeOK
<1>4. QED
  BY <1>1, <1>2, <1>3 DEF Next, vars, Starts, Reads, EditorReturns, Opens,
     Fills, FillFails, Unlinks, SessionEnds, LoadEnds, Refused

LEMMA OffObeyed == Typed /\ LoadedOff => OffIsObeyed
<1> SUFFICES ASSUME Typed, LoadedOff, NEW s \in Sessions, load[s] # None,
                    load[s].paused, load[s].read, ~load[s].writing,
                    NEW project \in ProjectReads(s),
                    ~(s \in Trusted /\ "enabled" \in DOMAIN project)
             PROVE  EffectiveConfig(s, project)["enabled"] = FALSE
  BY DEF OffIsObeyed, Obeys
<1>1. Off(load[s].global)
  BY DEF LoadedOff
<1>2. "enabled" \notin DOMAIN project
  BY DEF ProjectReads, NoSettings
<1> DEFINE raw == Override(project, load[s].global)
<1>3. "enabled" \in DOMAIN raw /\ raw["enabled"] = FALSE
  BY <1>1, <1>2 DEF Override, Off
<1> HIDE DEF raw
<1>4. Normalize(raw)["enabled"] = FALSE
  BY <1>3, ConfigAssumption DEF Normalize
<1>5. QED
  BY <1>4 DEF EffectiveConfig, raw

(* After /autocompact-off a load that reads the global file while nobody   *)
(* writes it finds autocompaction disabled, unless the trusted project     *)
(* says otherwise, whether or not reads of the project's file fail.        *)
THEOREM OffIsAlwaysObeyed == Spec => []OffIsObeyed
<1>1. Init => Paused /\ LoadedOff
  BY DEF Init, Paused, LoadedOff
<1>2. QED
  BY <1>1, InitTyped, TypedStep, InitAlone, AloneStep, PausedStep,
     LoadedOffStep, OffObeyed, PTL DEF Spec
=============================================================================
