----------------------------- MODULE FileLists -----------------------------
(***************************************************************************)
(* How the lists of read and modified files travel from one compaction to  *)
(* the next: they are written at the end of a summary between tags, and    *)
(* read back from it when it has become the previous summary (file-tags.ts *)
(* and its callers in orchestration.ts, summary-pipeline.ts and            *)
(* compaction-workflow.ts).                                                *)
(*                                                                         *)
(* A text is a sequence of lines; a line is a tag, a line of prose, or a   *)
(* file name. A path is the sequence of the lines it takes: one, unless    *)
(* its name has a line break.                                              *)
(***************************************************************************)
EXTENDS Naturals, SequencesExt

CONSTANTS
  Paths,
  Prose, Blank,   \* lines that name no file
  Heading,        \* the line between history and the prefix of a split turn
  NameOrder,      \* the order in which names are sorted
  Answers,        \* what the model may answer, as texts
  CoreSummaries,  \* what the Pi core may leave behind as a summary
  MaxTouches, MaxCompactions   \* bounds on file operations, compactions

Tags == {"read-files", "modified-files"}

Opening == [read |-> "<read-files>", modified |-> "<modified-files>"]
Closing == [read |-> "</read-files>", modified |-> "</modified-files>"]
Kinds   == {"read", "modified"}

TagLines == {Opening[k] : k \in Kinds} \cup {Closing[k] : k \in Kinds}

Lines == TagLines \cup {Prose, Blank, Heading} \cup UNION {ToSet(p) : p \in Paths}

Files == Paths \cup {<<line>> : line \in Lines \ {Blank}}

(* Sorting puts "</" before any letter.                                    *)
ASSUME FileListsAssumption ==
  /\ Paths \subseteq Seq(Lines)
  /\ \A p \in Paths : p # <<>> /\ ToSet(p) \cap (TagLines \cup {Blank}) = {}
  /\ {Prose, Blank, Heading} \cap TagLines = {}
  /\ NameOrder \in Seq(Seq(Lines)) /\ Files \subseteq ToSet(NameOrder)
  /\ \A i, j \in DOMAIN NameOrder :
       NameOrder[i] = <<Closing.modified>> /\ NameOrder[j] = <<Opening.modified>>
         => i < j
  /\ Answers \subseteq Seq(Lines) /\ CoreSummaries \subseteq Seq(Lines)
  /\ MaxTouches \in Nat /\ MaxCompactions \in Nat

VARIABLES
  summary,   \* previousSummary of the next preparation; empty at first
  touches,   \* the file operations in the messages not yet compacted
  spent,     \* how many there have been, and how many compactions
  (* observers *)
  seen,      \* the files of each kind in what was compacted so far
  tidy       \* every text so far had its tags in pairs, and the core's
             \* lists were tidy

vars == <<summary, touches, spent, seen, tidy>>

-----------------------------------------------------------------------------
(* file-tags.ts *)

NoFiles == [k \in Kinds |-> {}]

Positions(text, line) == {i \in DOMAIN text : text[i] = line}

Between(text, kind) ==
  LET opens == Positions(text, Opening[kind])
      closes == {j \in Positions(text, Closing[kind]) :
                   opens # {} /\ j > Min(opens)} IN
  IF closes = {} THEN {}
  ELSE {text[i] : i \in (Min(opens) + 1)..(Min(closes) - 1)}

(* What lies between the first opening tag and the next closing one, one   *)
(* name to a line, other tags included.                                    *)
ParseTagBlock(text, kind) ==
  {<<line>> : line \in Between(text, kind) \ {Blank}}

ParseFileLists(text) == [k \in Kinds |-> ParseTagBlock(text, k)]

(* A block goes from an opening tag that has a closing tag later on to the *)
(* first such closing tag.                                                 *)
StripLine(text, kind, before, i) ==
  LET closes == {j \in Positions(text, Closing[kind]) : j > i}
      inside == \/ before.inside
                \/ text[i] = Opening[kind] /\ closes # {} IN
  [kept |-> IF inside THEN before.kept ELSE Append(before.kept, text[i]),
   inside |-> inside /\ text[i] # Closing[kind]]

StripTagBlocks(text, kind) ==
  LET upTo[i \in 0..Len(text)] ==
        IF i = 0 THEN [kept |-> <<>>, inside |-> FALSE]
        ELSE StripLine(text, kind, upTo[i - 1], i)
  IN upTo[Len(text)].kept

(* Fault: only the blocks of read files are taken out.                     *)
StripReadTagsOnly(text) == StripTagBlocks(text, "read")

StripFileTags(text) ==
  StripTagBlocks(StripTagBlocks(text, "read"), "modified")

(* Fault: a file that was read again after it was modified counts as read. *)
MergeFileListsLatest(previous, current) ==
  [read |-> previous.read \cup current.read,
   modified |-> (previous.modified \cup current.modified) \ current.read]

(* Fault: the lists of the previous summary are left to the model to keep. *)
MergeFileListsCurrent(previous, current) == current

MergeFileLists(previous, current) ==
  LET modified == previous.modified \cup current.modified IN
  [read |-> (previous.read \cup current.read) \ modified,
   modified |-> modified]

Section(kind, files) ==
  IF files = {} THEN <<>>
  ELSE <<Opening[kind]>>
       \o FlattenSeq([i \in DOMAIN NameOrder |->
            IF NameOrder[i] \in files THEN NameOrder[i] ELSE <<>>])
       \o <<Closing[kind]>>

FormatFileOperations(lists) ==
  Section("read", lists.read) \o Section("modified", lists.modified)

-----------------------------------------------------------------------------
(* computeFileLists *)
ComputeFileLists(operations) ==
  LET of(kind) == {t.path : t \in {o \in ToSet(operations) : o.kind = kind}} IN
  [read |-> of("read") \ of("modified"), modified |-> of("modified")]

-----------------------------------------------------------------------------
Init ==
  /\ summary = <<>> /\ touches = <<>>
  /\ spent = [touches |-> 0, compactions |-> 0]
  /\ seen = NoFiles /\ tidy = TRUE

(* A tool call of the agent reads, edits or writes a file.                 *)
Touch ==
  /\ spent.touches < MaxTouches
  /\ \E p \in Paths, k \in Kinds :
       touches' = Append(touches, [path |-> p, kind |-> k])
  /\ spent' = [spent EXCEPT !.touches = @ + 1]
  /\ UNCHANGED <<summary, seen, tidy>>

(* What is left of the answers: without messages of the history the        *)
(* previous summary takes the place of an answer, or the one of            *)
(* buildNoPriorHistorySummary.                                             *)
NoPriorHistory == <<Prose>>

HistoryTexts ==
  Answers \cup {IF summary = <<>> THEN NoPriorHistory ELSE summary}

(* assembleSummaryFragments. An empty prefix stands for none.              *)
Assemble(history, prefix, lists) ==
  StripFileTags(history)
  \o (IF StripFileTags(prefix) = <<>> THEN <<>>
      ELSE <<Heading>> \o StripFileTags(prefix))
  \o FormatFileOperations(lists)

(* verifyCompactionSummary, as far as files are concerned.                 *)
Verified(text, lists) ==
  LET files == ParseFileLists(text) IN
  lists.read \subseteq files.read /\ lists.modified \subseteq files.modified

Tidy(text) == ToSet(StripFileTags(text)) \cap TagLines = {}

(* Lists that name a file once and name no tag.                            *)
TidyLists(lists) ==
  /\ lists.read \cap lists.modified = {}
  /\ \A k \in Kinds : \A line \in TagLines : <<line>> \notin lists[k]

(* What the extension plans to list after the first n operations.          *)
Planned(n) ==
  MergeFileLists(ParseFileLists(summary),
                 ComputeFileLists(SubSeq(touches, 1, n)))

Counted ==
  /\ spent.compactions < MaxCompactions
  /\ spent' = [spent EXCEPT !.compactions = @ + 1]

Saw(lists) == [k \in Kinds |-> seen[k] \cup lists[k]]

(* A compaction of the extension, of the messages with the first n         *)
(* operations. One that is not verified, or fails for another reason, is   *)
(* left to the core.                                                       *)
Compacts(n, history, prefix) ==
  LET lists == Planned(n)
      text  == Assemble(history, prefix, lists) IN
  /\ Counted
  /\ Verified(text, lists)
  /\ summary' = text
  /\ touches' = SubSeq(touches, n + 1, Len(touches))
  /\ seen' = Saw(ComputeFileLists(SubSeq(touches, 1, n)))
  /\ tidy' = (tidy /\ Tidy(history) /\ Tidy(prefix))

(* The core compacts: the files its summary lists are those known from now *)
(* on.                                                                     *)
CoreCompacts(n) ==
  /\ Counted
  /\ summary' \in CoreSummaries
  /\ touches' = SubSeq(touches, n + 1, Len(touches))
  /\ seen' = ParseFileLists(summary')
  /\ tidy' = (Tidy(summary') /\ TidyLists(seen'))

Next ==
  \/ Touch
  \/ \E n \in 0..Len(touches) :
       \/ \E history \in HistoryTexts, prefix \in Answers \cup {<<>>} :
            Compacts(n, history, prefix)
       \/ CoreCompacts(n)

Spec == Init /\ [][Next]_vars

-----------------------------------------------------------------------------
(* Type correctness: a summary is a text and the lists are sets of names.  *)
TypeOK ==
  /\ summary \in Seq(Lines)
  /\ touches \in Seq([path : Paths, kind : Kinds])
  /\ spent \in [touches : Nat, compactions : Nat]
  /\ seen \in [Kinds -> SUBSET Files]
  /\ tidy \in BOOLEAN

-----------------------------------------------------------------------------
(* Properties *)

Listed == ParseFileLists(summary)

(* A file that was read or modified in anything compacted since the core   *)
(* last compacted is listed in the summary, however many compactions ago,  *)
(* and whatever the model does with the tags in its answers                *)
(* (mergeFileLists, verifyCompactionSummary).                              *)
NoFileForgotten ==
  seen["read"] \cup seen["modified"]
    \subseteq Listed["read"] \cup Listed["modified"]

(* A file once listed as modified stays so, also when it is only read      *)
(* later on, and the agent never takes it for unchanged.                   *)
ModifiedStaysModified == seen["modified"] \subseteq Listed["modified"]

(* What one compaction listed, every later one lists: the only trace the   *)
(* agent has of files it has touched.                                      *)
ListsCarriedOver == NoFileForgotten /\ ModifiedStaysModified

(* With tags in pairs, and lists of the core that name each file once, the *)
(* lists are exact: a file is listed once, as modified if it ever was, and *)
(* nothing that is no file is listed.                                      *)
ListsExact ==
  tidy => Listed = [read |-> seen["read"] \ seen["modified"],
                    modified |-> seen["modified"]]

Plain(n) == \A i \in 1..n : Len(touches[i].path) = 1

Tagged(text) == ToSet(text) \cap TagLines # {}

(* No compaction is turned down because of its files: what the extension   *)
(* appends it finds again (stripFileTags before formatFileOperations).     *)
(* It takes names of one line and a prefix without tags, and, once tags    *)
(* did not pair up, a history without them too; until then it may have     *)
(* any.                                                                    *)
OwnListsVerified ==
  \A n \in 0..Len(touches), history \in HistoryTexts,
     prefix \in Answers \cup {<<>>} :
    Plain(n) /\ ~Tagged(prefix) /\ (tidy \/ ~Tagged(history))
      => Verified(Assemble(history, prefix, Planned(n)), Planned(n))
=============================================================================
