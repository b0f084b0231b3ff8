---------------------------- MODULE NoiseFilter ----------------------------
(***************************************************************************)
(* summary-noise-filter.ts: the three passes that condense long lists in   *)
(* a serialized conversation, or a previous summary, before it becomes     *)
(* part of a prompt.                                                       *)
(*                                                                         *)
(* A line is a record of its kind, which is what the patterns tell apart,  *)
(* and, for a note the filter writes, of the number of lines it omitted:   *)
(*   header   "Todos (2/5)"           done   a row with a tick             *)
(*   bulleted "- Todos (2/5)": a      check  "- [x] ...": a todo row the   *)
(*            header, and a row where        pattern of completed rows     *)
(*            it follows another one         does not match, and a line    *)
(*   open     any other todo row             of a completed checklist      *)
(*   path     a count and a path      text   any other line                *)
(*   note, placeholder   inserted                                          *)
(***************************************************************************)
EXTENDS Naturals, SequencesExt

CONSTANTS
  TodoMinRows, TodoKeepRows,                      \* todo snapshots
  PathMinRows, PathKeepHeadRows, PathKeepTailRows,  \* count/path listings
  CheckMinRows, CheckKeepRows                     \* completed checklists

ASSUME FilterAssumption ==
  /\ TodoMinRows \in Nat /\ TodoKeepRows \in Nat \ {0}
  /\ PathKeepHeadRows \in Nat /\ PathKeepTailRows \in Nat
  /\ PathMinRows \in Nat /\ PathMinRows > PathKeepHeadRows + PathKeepTailRows
  /\ CheckKeepRows \in Nat /\ CheckMinRows \in Nat
  /\ CheckMinRows > CheckKeepRows

InputKinds ==
  {"header", "bulleted", "done", "open", "check", "path", "text"}

Line(kind)    == [kind |-> kind, omitted |-> 0]
Note(omitted) == [kind |-> "note", omitted |-> omitted]

IsTodoHeader(line) == line.kind \in {"header", "bulleted"}
IsTodoRow(line) ==
  line.kind \in {"bulleted", "done", "open", "check", "placeholder"}
IsCompletedTodoRow(line) == line.kind = "done"
IsPathLine(line)  == line.kind = "path"
IsCheckLine(line) == line.kind = "check"

(* The longest run of lines that satisfy P and begins at place i.          *)
RunFrom(lines, i, P(_)) ==
  SubSeq(lines, i,
         Max({j \in (i - 1)..Len(lines) : \A k \in i..j : P(lines[k])}))

(* The lines that satisfy P.                                               *)
Those(lines, P(_)) ==
  FlattenSeq([i \in DOMAIN lines |->
    IF P(lines[i]) THEN <<lines[i]>> ELSE <<>>])

Take(lines, n) == SubSeq(lines, 1, IF n < Len(lines) THEN n ELSE Len(lines))

(* Fault: the rows beyond the kept ones go without a note.                 *)
CondenseTodoRowsSilently(header, rows) ==
  LET actionable == Those(rows, LAMBDA row : ~IsCompletedTodoRow(row))
      kept       == Take(actionable, TodoKeepRows)
  IN IF Len(rows) < TodoMinRows THEN <<header>> \o rows
     ELSE <<header, Note(Len(rows) - Len(actionable))>> \o kept

CondenseTodoRows(header, rows) ==
  LET actionable == Those(rows, LAMBDA row : ~IsCompletedTodoRow(row))
      kept       == Take(actionable, TodoKeepRows)
      omitted    == Len(actionable) - Len(kept)
  IN IF Len(rows) < TodoMinRows THEN <<header>> \o rows
     ELSE <<header, Note(Len(rows) - Len(actionable))>>
            \o (IF kept = <<>> THEN <<Line("placeholder")>> ELSE kept)
            \o (IF omitted > 0 THEN <<Note(omitted)>> ELSE <<>>)

(* A line that follows a todo header with nothing but rows between.        *)
InSnapshot(lines, i) ==
  \E h \in 1..(i - 1) : /\ IsTodoHeader(lines[h])
                        /\ \A k \in (h + 1)..i : IsTodoRow(lines[k])

CondenseTodoSnapshots(lines) ==
  FlattenSeq([i \in DOMAIN lines |->
    IF InSnapshot(lines, i) THEN <<>>
    ELSE IF IsTodoHeader(lines[i])
         THEN CondenseTodoRows(lines[i], RunFrom(lines, i + 1, IsTodoRow))
         ELSE <<lines[i]>>])

CondenseRun(run, minRows, keepHead, keepTail) ==
  IF Len(run) < minRows THEN run
  ELSE Take(run, keepHead)
         \o <<Note(Len(run) - keepHead - keepTail)>>
         \o SubSeq(run, Len(run) - keepTail + 1, Len(run))

(* Each run is replaced where it begins.                                   *)
CondenseLineRuns(lines, IsRunLine(_), minRows, keepHead, keepTail) ==
  FlattenSeq([i \in DOMAIN lines |->
    IF ~IsRunLine(lines[i]) THEN <<lines[i]>>
    ELSE IF i > 1 /\ IsRunLine(lines[i - 1]) THEN <<>>
    ELSE CondenseRun(RunFrom(lines, i, IsRunLine), minRows,
                     keepHead, keepTail)])

CondenseCountPathRuns(lines) ==
  CondenseLineRuns(lines, IsPathLine, PathMinRows, PathKeepHeadRows,
                   PathKeepTailRows)

CondenseCompletedChecklistRuns(lines) ==
  CondenseLineRuns(lines, IsCheckLine, CheckMinRows, CheckKeepRows, 0)

CondenseNoise(lines) ==
  CondenseCompletedChecklistRuns(
    CondenseCountPathRuns(CondenseTodoSnapshots(lines)))

-----------------------------------------------------------------------------
(* The lines of the original a line stands for.                            *)
StandsFor(line) ==
  CASE line.kind = "note"        -> line.omitted
    [] line.kind = "placeholder" -> 0
    [] OTHER                     -> 1

LinesStoodFor(lines) ==
  LET upTo[i \in 0..Len(lines)] ==
        IF i = 0 THEN 0 ELSE upTo[i - 1] + StandsFor(lines[i])
  IN upTo[Len(lines)]

Prose(lines) == Those(lines, LAMBDA line : line.kind \in {"text", "header"})

(* Every line of the original is still there or counted by a note, also    *)
(* where one pass condenses what another has kept, and what belongs to no  *)
(* list is untouched.                                                      *)
LinesAccounted(lines) ==
  LET condensed == CondenseNoise(lines) IN
  /\ LinesStoodFor(condensed) = Len(lines)
  /\ Prose(condensed) = Prose(lines)
=============================================================================
