-------------------------- MODULE DiagnosticsProofs --------------------------
(***************************************************************************)
(* Theorems about Diagnostics, for every length of the history, every set  *)
(* of failing operations and any number of restarts and clears.            *)
(***************************************************************************)
EXTENDS Diagnostics, TLAPS

(* What is kept of a history is within the bound and holds nothing else.   *)
LEMMA NewestKept ==
  ASSUME NEW S, NEW seq \in Seq(S)
  PROVE  /\ Newest(seq) \in Seq(S) /\ Len(Newest(seq)) <= MaxDiagnostics
         /\ \A i \in DOMAIN Newest(seq) : \E j \in DOMAIN seq :
              Newest(seq)[i] = seq[j]
<1>1. CASE Len(seq) > MaxDiagnostics
  <2> DEFINE first == Len(seq) - MaxDiagnostics + 1
  <2>1. first \in 1..Len(seq) /\ MaxDiagnostics \in Nat
    BY <1>1, BoundsAssumption
  <2>2. Newest(seq) = SubSeq(seq, first, Len(seq))
    BY <1>1 DEF Newest
  <2>3. Len(seq) - first + 1 = MaxDiagnostics
    BY <2>1
  <2>4. Len(SubSeq(seq, first, Len(seq))) = MaxDiagnostics
    BY <2>1, <2>3
  <2>5. \A i \in 1..MaxDiagnostics :
          /\ first + i - 1 \in 1..Len(seq)
          /\ SubSeq(seq, first, Len(seq))[i] = seq[first + i - 1]
    BY <2>1, <2>3
  <2> HIDE DEF first
  <2>6. SubSeq(seq, first, Len(seq)) \in Seq(S)
    BY <2>1
  <2>7. DOMAIN SubSeq(seq, first, Len(seq)) = 1..MaxDiagnostics
    BY <2>4, <2>6
  <2>8. DOMAIN seq = 1..Len(seq)
    OBVIOUS
  <2>9. MaxDiagnostics <= MaxDiagnostics
    BY <2>1
  <2> HIDE DEF first
  <2> QED  BY <2>2, <2>4, <2>5, <2>6, <2>7, <2>8, <2>9
<1>2. CASE ~(Len(seq) > MaxDiagnostics)
  BY <1>2, BoundsAssumption DEF Newest
<1> QED  BY <1>1, <1>2

-----------------------------------------------------------------------------
(* What a sequence of entries may hold *)

Above(seq, bound) == \A i \in DOMAIN seq : seq[i] > bound

Ordered(seq, last) == Increasing(seq) /\ \A i \in DOMAIN seq : seq[i] <= last

(* Keeping the newest, appending a newer one and reading back respect the  *)
(* bound below.                                                            *)
LEMMA EmptyAbove == ASSUME NEW bound PROVE Above(<<>>, bound)
BY DEF Above

LEMMA NewestAbove ==
  ASSUME NEW seq \in Seq(Decisions), NEW bound, Above(seq, bound)
  PROVE  Above(Newest(seq), bound)
BY NewestKept DEF Above

LEMMA AppendAbove ==
  ASSUME NEW seq \in Seq(Decisions), NEW entry \in Decisions,
         NEW bound, Above(seq, bound), entry > bound
  PROVE  Above(Append(seq, entry), bound)
BY DEF Above

(* And they keep the entries in the order of their decisions.              *)
LEMMA EmptyOrdered == ASSUME NEW last PROVE Ordered(<<>>, last)
BY DEF Ordered, Increasing

LEMMA NewestOrdered ==
  ASSUME NEW seq \in Seq(Decisions), NEW last, Ordered(seq, last)
  PROVE  Ordered(Newest(seq), last)
<1>1. CASE Len(seq) > MaxDiagnostics
  <2> DEFINE first == Len(seq) - MaxDiagnostics + 1
             kept == SubSeq(seq, first, Len(seq))
  <2>1. first \in 1..Len(seq) /\ MaxDiagnostics \in Nat
    BY <1>1, BoundsAssumption
  <2>2. Newest(seq) = kept
    BY <1>1 DEF Newest
  <2>3. /\ DOMAIN kept = 1..MaxDiagnostics
        /\ \A i \in 1..MaxDiagnostics : /\ first + i - 1 \in 1..Len(seq)
                                        /\ kept[i] = seq[first + i - 1]
    BY <2>1
  <2> HIDE DEF kept
  <2>4. \A i, j \in 1..MaxDiagnostics :
          i < j => first + i - 1 < first + j - 1
    BY <2>1
  <2> HIDE DEF first
  <2>5. DOMAIN seq = 1..Len(seq)
    OBVIOUS
  <2> QED  BY <2>2, <2>3, <2>4, <2>5 DEF Ordered, Increasing
<1>2. CASE ~(Len(seq) > MaxDiagnostics)
  BY <1>2 DEF Newest
<1> QED  BY <1>1, <1>2

LEMMA EntriesAreNumbers ==
  ASSUME NEW seq \in Seq(Decisions), NEW i \in DOMAIN seq
  PROVE  seq[i] \in Nat
<1>1. Decisions \subseteq Nat
  BY BoundsAssumption DEF Decisions
<1>2. seq[i] \in Decisions
  OBVIOUS
<1> QED  BY <1>1, <1>2

LEMMA AppendOrdered ==
  ASSUME NEW seq \in Seq(Decisions), NEW last \in Nat, Ordered(seq, last),
         last + 1 \in Decisions
  PROVE  Ordered(Append(seq, last + 1), last + 1)
<1> DEFINE longer == Append(seq, last + 1)
<1>a. DOMAIN longer = 1..(Len(seq) + 1) /\ Len(seq) \in Nat
  OBVIOUS
<1>b. /\ \A i \in 1..Len(seq) : longer[i] = seq[i]
      /\ longer[Len(seq) + 1] = last + 1
  OBVIOUS
<1>c. DOMAIN seq = 1..Len(seq)
  OBVIOUS
<1>d. \A i \in DOMAIN seq : seq[i] \in Nat
  BY EntriesAreNumbers
<1> HIDE DEF longer
<1>1. /\ DOMAIN longer = 1..(Len(seq) + 1) /\ Len(seq) \in Nat
      /\ \A i \in 1..Len(seq) : longer[i] = seq[i]
      /\ longer[Len(seq) + 1] = last + 1
      /\ DOMAIN seq = 1..Len(seq)
      /\ \A i \in 1..Len(seq) : seq[i] \in Nat
  BY <1>a, <1>b, <1>c, <1>d
<1>2. \A i \in DOMAIN longer : longer[i] <= last + 1
  BY <1>1 DEF Ordered
<1>3. Increasing(longer)
  <2> SUFFICES ASSUME NEW i \in DOMAIN longer, NEW j \in DOMAIN longer, i < j
               PROVE  longer[i] < longer[j]
    BY DEF Increasing
  <2>1. CASE j = Len(seq) + 1
    <3>1. i \in 1..Len(seq)
      BY <1>1, <2>1
    <3> QED  BY <1>1, <2>1, <3>1 DEF Ordered
  <2>2. CASE j # Len(seq) + 1
    <3>1. i \in 1..Len(seq) /\ j \in 1..Len(seq)
      BY <1>1, <2>2
    <3> QED  BY <1>1, <3>1 DEF Ordered, Increasing
  <2> QED  BY <2>1, <2>2
<1> QED  BY <1>2, <1>3 DEF Ordered, longer

LEMMA OrderedLater ==
  ASSUME NEW seq \in Seq(Decisions), NEW last \in Nat, NEW later \in Nat,
         Ordered(seq, last), last <= later
  PROVE  Ordered(seq, later)
<1>1. \A i \in DOMAIN seq : seq[i] \in Nat
  BY EntriesAreNumbers
<1> QED  BY <1>1 DEF Ordered

(* A file that is whole reads back as it was written, any other as empty.  *)
LEMMA ParsedContent ==
  ASSUME NEW content \in Content
  PROVE  /\ Parsed(content) \in Seq(Decisions)
         /\ content \in Seq(Decisions) => Parsed(content) = content
         /\ Parsed(None) = <<>>
<1>1. <<>> \in Seq(Decisions)
  OBVIOUS
<1> QED  BY <1>1, FilesAssumption DEF Parsed, Content

-----------------------------------------------------------------------------
(* Type correctness. A decision that is flushed has been made, so the one  *)
(* the flush makes durable is one. What is read back fits the bound of the *)
(* history because what is written does, and a flush renames the text it   *)
(* has written.                                                            *)

DecidedWhenFlushing == flush.stage # "idle" => decided \in Decisions

Written == flush.stage = "written" => temp \in {None, flush.text}

Fits(seq) == Len(seq) <= MaxDiagnostics

Fitting == Fits(flush.text) /\ Fits(hydration.persisted) /\ Fits(Parsed(file))

Typed == TypeOK /\ DecidedWhenFlushing /\ Written /\ Fitting

LEMMA TypeInit == Init => Typed
<1> SUFFICES ASSUME Init PROVE Typed
  OBVIOUS
<1>1. <<>> \in Seq(Decisions) /\ Len(<<>>) = 0
  OBVIOUS
<1>2. memory \in Seq(Decisions) /\ Len(memory) <= MaxDiagnostics
  BY <1>1, BoundsAssumption DEF Init
<1>3. file \in Content /\ temp \in Content
  BY DEF Init, Content
<1>4. flush \in [stage : {"idle", "config", "mkdir", "open", "written",
                        "cleanup"},
                text : Seq(Decisions), alone : BOOLEAN]
  BY <1>1 DEF Init, NoFlush
<1>5. hydration \in [stage : {"idle", "config", "read"},
                    persisted : Seq(Decisions)]
  BY <1>1 DEF Init, Starting, NoHydration
<1>6. clearing \in [stage : {"idle", "unlink"},
                   pending : SUBSET {"file", "temp"},
                   upTo : 0..MaxDecisions, alone : BOOLEAN]
  BY BoundsAssumption DEF Init, NoClear
<1>7. 0 \in 0..MaxDecisions /\ 0 \in 0..MaxRestarts /\ 0 \in 0..MaxClears
  BY BoundsAssumption
<1>8. TypeOK /\ DecidedWhenFlushing
  BY <1>2, <1>3, <1>4, <1>5, <1>6, <1>7
  DEF Init, TypeOK, DecidedWhenFlushing, NoFlush
<1>9. Fitting
  BY <1>1, ParsedContent, BoundsAssumption
  DEF Init, Fitting, Fits, NoFlush, Starting, NoHydration, Content
<1>10. Written
  BY DEF Init, Written, NoFlush
<1> QED  BY <1>8, <1>9, <1>10 DEF Typed

LEMMA TypeStep ==
  Typed /\ [Next]_vars => TypeOK' /\ DecidedWhenFlushing'
<1> SUFFICES ASSUME Typed, [Next]_vars PROVE TypeOK' /\ DecidedWhenFlushing'
  OBVIOUS
<1> USE DEF files, bounds, observers
<1>0. <<>> \in Seq(Decisions) /\ Len(<<>>) = 0
  OBVIOUS
<1>t. TypeOK /\ DecidedWhenFlushing
  BY DEF Typed
<1>1. CASE UNCHANGED vars
  BY <1>1, <1>t DEF vars, TypeOK, DecidedWhenFlushing
<1>2. CASE Decide
  <2>1. decided' \in Decisions /\ decided' \in 0..MaxDecisions
    BY <1>2, <1>t, BoundsAssumption DEF Decide, Decisions, TypeOK
  <2>2. memory' \in Seq(Decisions) /\ Len(memory') <= MaxDiagnostics
    <3>1. Append(memory, decided') \in Seq(Decisions)
      BY <2>1, <1>t DEF TypeOK
    <3> QED  BY <1>2, <3>1, NewestKept DEF Decide
  <2> QED  BY <1>0, <1>2, <1>t, <2>1, <2>2
           DEF Decide, NoFlush, TypeOK, DecidedWhenFlushing
<1>3. CASE FlushSerializes
  <2>1. Newest(memory) \in Seq(Decisions)
    BY <1>t, NewestKept DEF TypeOK
  <2> QED  BY <1>3, <1>t, <2>1
           DEF FlushSerializes, TypeOK, DecidedWhenFlushing
<1>4. CASE FlushOpens
  BY <1>t, <1>4 DEF FlushOpens, TypeOK, DecidedWhenFlushing, Content
<1>5. CASE FlushWrites
  BY <1>t, <1>5 DEF FlushWrites, TypeOK, DecidedWhenFlushing, Content
<1>6. CASE FlushFails
  BY <1>t, <1>6 DEF FlushFails, TypeOK, DecidedWhenFlushing
<1>7. CASE FlushCleansUp
  BY <1>0, <1>t, <1>7
  DEF FlushCleansUp, NoFlush, TypeOK, DecidedWhenFlushing, Content
<1>8. CASE FlushRenames
  BY <1>0, <1>t, <1>8
  DEF FlushRenames, NoFlush, TypeOK, DecidedWhenFlushing, Content
<1>9. CASE SessionStart
  <2>1. restarts' \in 0..MaxRestarts
    BY <1>t, <1>9, BoundsAssumption DEF SessionStart, TypeOK
  <2>2. Starting \in [stage : {"idle", "config", "read"},
                     persisted : Seq(Decisions)]
    BY <1>0 DEF Starting, NoHydration
  <2> QED  BY <1>t, <1>9, <2>1, <2>2
           DEF SessionStart, TypeOK, DecidedWhenFlushing
<1>10. CASE HydrationReads
  <2>1. Parsed(file) \in Seq(Decisions)
    BY <1>t, ParsedContent DEF TypeOK
  <2>2. hydration' \in [stage : {"idle", "config", "read"},
                       persisted : Seq(Decisions)]
    <3>1. PICK persisted \in Seq(Decisions) :
            hydration' = [stage |-> "read", persisted |-> persisted]
      BY <1>0, <1>10, <2>1 DEF HydrationReads
    <3> QED  BY <3>1
  <2>3. durable' \subseteq Decisions
    BY <1>t, <1>10 DEF HydrationReads, TypeOK
  <2> QED  BY <1>t, <1>10, <2>2, <2>3
           DEF HydrationReads, TypeOK, DecidedWhenFlushing
<1>11. CASE HydrationReplaces
  BY <1>t, <1>11
  DEF HydrationReplaces, NoHydration, Typed, Fitting, Fits, TypeOK,
      DecidedWhenFlushing
<1>12. CASE Clear
  <2>1. clears' \in 0..MaxClears
    BY <1>t, <1>12, BoundsAssumption DEF Clear, TypeOK
  <2>2. clearing' \in [stage : {"idle", "unlink"},
                      pending : SUBSET {"file", "temp"},
                      upTo : 0..MaxDecisions, alone : BOOLEAN]
    <3>1. Undisturbed \in BOOLEAN /\ decided \in 0..MaxDecisions
      BY <1>t DEF Undisturbed, TypeOK
    <3>2. {"file", "temp"} \in SUBSET {"file", "temp"}
      OBVIOUS
    <3> QED  BY <1>12, <3>1, <3>2 DEF Clear
  <2>3. memory' \in Seq(Decisions) /\ Len(memory') <= MaxDiagnostics
    BY <1>0, <1>12, BoundsAssumption DEF Clear
  <2> QED  BY <1>t, <1>12, <2>1, <2>2, <2>3
           DEF Clear, TypeOK, DecidedWhenFlushing
<1>13. ASSUME NEW which \in {"file", "temp"}, ClearUnlinks(which)
       PROVE  TypeOK' /\ DecidedWhenFlushing'
  <2>1. clearing.pending \ {which} \in SUBSET {"file", "temp"}
    BY <1>t DEF TypeOK
  <2>2. clearing' \in [stage : {"idle", "unlink"},
                      pending : SUBSET {"file", "temp"},
                      upTo : 0..MaxDecisions, alone : BOOLEAN]
    BY <1>t, <1>13, <2>1 DEF ClearUnlinks, TypeOK
  <2>3. file' \in Content /\ temp' \in Content
    BY <1>t, <1>13 DEF ClearUnlinks, TypeOK, Content
  <2> QED  BY <1>t, <1>13, <2>2, <2>3
           DEF ClearUnlinks, TypeOK, DecidedWhenFlushing
<1>14. CASE ClearEnds
  BY <1>t, <1>14, BoundsAssumption
  DEF ClearEnds, NoClear, TypeOK, DecidedWhenFlushing
<1>15. CASE Restart
  <2>1. restarts' \in 0..MaxRestarts
    BY <1>t, <1>15, BoundsAssumption DEF Restart, TypeOK
  <2>2. Starting \in [stage : {"idle", "config", "read"},
                     persisted : Seq(Decisions)]
    BY <1>0 DEF Starting, NoHydration
  <2> QED  BY <1>0, <1>t, <1>15, <2>1, <2>2, BoundsAssumption
           DEF Restart, NoFlush, NoClear, TypeOK, DecidedWhenFlushing
<1> QED
  BY <1>1, <1>2, <1>3, <1>4, <1>5, <1>6, <1>7, <1>8, <1>9, <1>10, <1>11,
     <1>12, <1>13, <1>14, <1>15 DEF Next

LEMMA FitStep == Typed /\ [Next]_vars => Written' /\ Fitting'
<1> SUFFICES ASSUME Typed, [Next]_vars PROVE Written' /\ Fitting'
  OBVIOUS
<1> USE DEF files, bounds, observers
<1>0. <<>> \in Seq(Decisions) /\ Len(<<>>) = 0 /\ Fits(<<>>)
  BY BoundsAssumption DEF Fits
<1>t. TypeOK /\ Written /\ Fitting
  BY DEF Typed
<1>p. Parsed(None) = <<>>
  BY ParsedContent DEF Content
<1>1. CASE UNCHANGED vars
  BY <1>1, <1>t DEF vars, Written, Fitting, Fits, Parsed
<1>2. CASE Decide
  BY <1>0, <1>2, <1>t DEF Decide, NoFlush, Written, Fitting, Parsed
<1>3. CASE FlushSerializes
  <2>1. Fits(Newest(memory))
    BY <1>t, NewestKept DEF TypeOK, Fits
  <2> QED  BY <1>3, <1>t, <2>1
           DEF FlushSerializes, TypeOK, Written, Fitting, Parsed
<1>4. CASE FlushOpens \/ FlushFails
  BY <1>4, <1>t DEF FlushOpens, FlushFails, TypeOK, Written, Fitting, Parsed
<1>5. CASE FlushWrites
  BY <1>5, <1>t DEF FlushWrites, TypeOK, Written, Fitting, Parsed
<1>6. CASE FlushCleansUp
  BY <1>0, <1>6, <1>t
  DEF FlushCleansUp, NoFlush, TypeOK, Written, Fitting, Parsed
<1>7. CASE FlushRenames
  <2>1. Parsed(file') = flush.text
    BY <1>7, <1>t, ParsedContent DEF FlushRenames, TypeOK, Written, Content
  <2> QED  BY <1>0, <1>7, <1>t, <2>1
           DEF FlushRenames, NoFlush, Written, Fitting, Fits, Parsed
<1>8. CASE SessionStart
  BY <1>0, <1>8, <1>t
  DEF SessionStart, Starting, NoHydration, TypeOK, Written, Fitting, Parsed
<1>9. CASE HydrationReads
  BY <1>0, <1>9, <1>t DEF HydrationReads, TypeOK, Written, Fitting, Fits, Parsed
<1>10. CASE HydrationReplaces
  BY <1>0, <1>10, <1>t
  DEF HydrationReplaces, NoHydration, TypeOK, Written, Fitting, Parsed
<1>11. CASE Clear
  BY <1>11, <1>t DEF Clear, TypeOK, Written, Fitting, Parsed
<1>12. ASSUME NEW which \in {"file", "temp"}, ClearUnlinks(which)
       PROVE  Written' /\ Fitting'
  <2>1. Parsed(file') \in {<<>>, Parsed(file)}
    BY <1>12, <1>p DEF ClearUnlinks, Parsed
  <2>2. UNCHANGED <<flush, hydration>> /\ temp' \in {None, temp}
    BY <1>12 DEF ClearUnlinks
  <2> QED  BY <1>0, <1>t, <2>1, <2>2 DEF Written, Fitting, Fits, Parsed
<1>13. CASE ClearEnds
  BY <1>13, <1>t DEF ClearEnds, Written, Fitting, Parsed
<1>14. CASE Restart
  BY <1>0, <1>14, <1>t
  DEF Restart, NoFlush, Starting, NoHydration, Written, Fitting, Parsed
<1> QED
  BY <1>1, <1>2, <1>3, <1>4, <1>5, <1>6, <1>7, <1>8, <1>9, <1>10, <1>11,
     <1>12, <1>13, <1>14 DEF Next

(* The state of the history keeps its types, and memory never holds more   *)
(* than the bound, though a hydration takes over whatever the file holds.  *)
THEOREM TypeCorrect == Spec => []TypeOK
<1>1. Init => Typed
  BY TypeInit
<1>2. Typed /\ [Next]_vars => Typed'
  BY TypeStep, FitStep DEF Typed
<1>3. Typed => TypeOK
  BY DEF Typed
<1> QED  BY <1>1, <1>2, <1>3, PTL DEF Spec

-----------------------------------------------------------------------------
(* The file is whole *)

LEMMA TypedAlways == Spec => []Typed
<1>1. Typed /\ [Next]_vars => Typed'
  BY TypeStep, FitStep DEF Typed
<1> QED  BY TypeInit, <1>1, PTL DEF Spec

LEMMA RenameWhole ==
  ASSUME Typed, FlushRenames
  PROVE  file' = flush.text /\ file' \in Seq(Decisions)
         /\ Parsed(file') = flush.text
<1>1. TypeOK /\ Written
  BY DEF Typed
<1>2. file' = flush.text /\ flush.text \in Seq(Decisions)
  BY <1>1 DEF FlushRenames, TypeOK, Written
<1> QED  BY <1>2, ParsedContent DEF Content

(* Only the temporary file is ever half written: a process that ends, a    *)
(* write that fails or a clear under the flush cannot tear the file.       *)
THEOREM FileAlwaysWhole == Spec => []FileWhole
<1>1. Init => FileWhole
  BY FilesAssumption DEF Init, FileWhole
<1>2. Typed /\ FileWhole /\ [Next]_vars => FileWhole'
  <2> SUFFICES ASSUME Typed, FileWhole, [Next]_vars PROVE FileWhole'
    OBVIOUS
  <2> USE DEF files, bounds, observers
  <2>1. CASE FlushRenames
    BY <2>1, RenameWhole, FilesAssumption DEF FileWhole
  <2>2. ASSUME NEW which \in {"file", "temp"}, ClearUnlinks(which)
        PROVE  FileWhole'
    BY <2>2, FilesAssumption DEF ClearUnlinks, FileWhole
  <2>3. CASE \/ Decide \/ FlushSerializes \/ FlushOpens \/ FlushWrites
             \/ FlushFails \/ FlushCleansUp \/ SessionStart \/ HydrationReads
             \/ HydrationReplaces \/ Clear \/ ClearEnds \/ Restart
             \/ UNCHANGED vars
    BY <2>3
    DEF Decide, FlushSerializes, FlushOpens, FlushWrites, FlushFails,
        FlushCleansUp, SessionStart, HydrationReads, HydrationReplaces, Clear,
        ClearEnds, Restart, FileWhole, vars
  <2> QED  BY <2>1, <2>2, <2>3 DEF Next
<1> QED  BY <1>1, <1>2, TypedAlways, PTL DEF Spec

-----------------------------------------------------------------------------
(* The order of the entries: wherever the history is, in memory, in the    *)
(* file or on its way between them, it is in order and no newer than the   *)
(* last decision, so the next one may be appended.                         *)

InOrder ==
  /\ Ordered(memory, decided) /\ Ordered(Parsed(file), decided)
  /\ Ordered(flush.text, decided) /\ Ordered(hydration.persisted, decided)

LEMMA OrderStep == Typed /\ InOrder /\ [Next]_vars => InOrder'
<1> SUFFICES ASSUME Typed, InOrder, [Next]_vars PROVE InOrder'
  OBVIOUS
<1> USE DEF files, bounds, observers
<1>t. TypeOK
  BY DEF Typed
<1>0. /\ memory \in Seq(Decisions) /\ Parsed(file) \in Seq(Decisions)
      /\ flush.text \in Seq(Decisions)
      /\ hydration.persisted \in Seq(Decisions)
      /\ decided \in Nat
  BY <1>t, ParsedContent, BoundsAssumption DEF TypeOK
<1>e. Ordered(<<>>, decided) /\ Ordered(<<>>, decided')
  BY EmptyOrdered
<1>1. CASE UNCHANGED vars
  BY <1>1 DEF vars, InOrder, Parsed
<1>2. CASE Decide
  <2>1. decided' = decided + 1 /\ decided' \in Decisions /\ decided' \in Nat
    BY <1>0, <1>2, BoundsAssumption DEF Decide, Decisions
  <2>2. Ordered(memory', decided')
    <3>1. Append(memory, decided') \in Seq(Decisions)
      BY <1>0, <2>1
    <3>2. Ordered(Append(memory, decided'), decided')
      BY <1>0, <2>1, AppendOrdered DEF InOrder
    <3> QED  BY <1>2, <3>1, <3>2, NewestOrdered DEF Decide
  <2>3. /\ Ordered(Parsed(file), decided')
        /\ Ordered(hydration.persisted, decided')
    BY <1>0, <2>1, OrderedLater DEF InOrder
  <2>4. file' = file /\ hydration' = hydration /\ flush'.text = <<>>
    BY <1>2 DEF Decide, NoFlush
  <2> QED  BY <1>e, <2>2, <2>3, <2>4 DEF InOrder, Parsed
<1>3. CASE FlushSerializes
  <2>1. Ordered(Newest(memory), decided)
    BY <1>0, NewestOrdered DEF InOrder
  <2>2. flush'.text = Newest(memory)
    BY <1>3, <1>t DEF FlushSerializes, TypeOK
  <2> QED  BY <1>3, <2>1, <2>2 DEF FlushSerializes, InOrder, Parsed
<1>4. CASE FlushRenames
  <2>1. Parsed(file') = flush.text
    BY <1>4, RenameWhole
  <2> QED  BY <1>4, <1>e, <2>1 DEF FlushRenames, NoFlush, InOrder
<1>5. CASE FlushOpens \/ FlushWrites \/ FlushFails \/ FlushCleansUp
  <2>1. flush'.text \in {flush.text, <<>>}
    BY <1>5, <1>t
    DEF FlushOpens, FlushWrites, FlushFails, FlushCleansUp, NoFlush, TypeOK
  <2> QED  BY <1>5, <1>e, <2>1
           DEF FlushOpens, FlushWrites, FlushFails, FlushCleansUp, InOrder,
               Parsed
<1>6. CASE SessionStart \/ Clear \/ ClearEnds \/ Restart
  <2>1. /\ flush'.text \in {flush.text, <<>>} /\ memory' \in {memory, <<>>}
        /\ hydration'.persisted \in {hydration.persisted, <<>>}
    BY <1>6, <1>t
    DEF SessionStart, Clear, ClearEnds, Restart, Starting, NoFlush,
        NoHydration, TypeOK
  <2>2. file' = file /\ decided' = decided
    BY <1>6 DEF SessionStart, Clear, ClearEnds, Restart
  <2> QED  BY <1>e, <2>1, <2>2 DEF InOrder, Parsed
<1>7. CASE HydrationReads
  <2>1. hydration'.persisted \in {Parsed(file), <<>>}
    BY <1>7 DEF HydrationReads
  <2> QED  BY <1>7, <1>e, <2>1 DEF HydrationReads, InOrder, Parsed
<1>8. CASE HydrationReplaces
  BY <1>8, <1>e DEF HydrationReplaces, NoHydration, InOrder, Parsed
<1>9. ASSUME NEW which \in {"file", "temp"}, ClearUnlinks(which)
      PROVE  InOrder'
  <2>1. Parsed(file') \in {<<>>, Parsed(file)}
    <3>1. Parsed(None) = <<>>
      BY ParsedContent DEF Content
    <3> QED  BY <1>9, <3>1 DEF ClearUnlinks, Parsed
  <2> QED  BY <1>9, <1>e, <2>1 DEF ClearUnlinks, InOrder
<1> QED
  BY <1>1, <1>2, <1>3, <1>4, <1>5, <1>6, <1>7, <1>8, <1>9 DEF Next

(* No decision is recorded twice or out of order, for any number of        *)
(* session starts: a hydration takes the file's entries over and adds none *)
(* of memory's to them.                                                    *)
THEOREM EachRecordedOnce == Spec => []RecordedOnce
<1>1. Init => InOrder
  <2>1. Parsed(None) = <<>>
    BY ParsedContent DEF Content
  <2> QED  BY <2>1, EmptyOrdered
           DEF Init, InOrder, NoFlush, Starting, NoHydration
<1>2. InOrder => RecordedOnce
  BY DEF InOrder, RecordedOnce, Ordered, Parsed
<1> QED  BY <1>1, <1>2, OrderStep, TypedAlways, PTL DEF Spec

-----------------------------------------------------------------------------
(* What a clear erases. While a clear that nothing has disturbed deletes   *)
(* its files, memory and the text of a flush that has begun since hold     *)
(* only newer entries, and once the file has been deleted, so does         *)
(* whatever file a flush has put in its place.                             *)

NothingUnderWay ==
  /\ flush.stage = "idle" => flush.text = <<>>
  /\ hydration.stage = "idle" => hydration.persisted = <<>>

HoldOnlyAbove(entry) ==
  /\ Above(memory, entry) /\ Above(Parsed(file), entry)
  /\ Above(flush.text, entry) /\ Above(hydration.persisted, entry)

Erasing ==
  clearing.stage = "unlink" /\ clearing.alone =>
    /\ clearing.upTo <= decided /\ hydration.stage = "idle"
    /\ Above(memory, clearing.upTo) /\ Above(flush.text, clearing.upTo)
    /\ "file" \notin clearing.pending => Above(Parsed(file), clearing.upTo)

ErasedForGood ==
  NothingUnderWay /\ Erasing /\ erased <= decided /\ HoldOnlyAbove(erased)

LEMMA UnderWayStep == Typed /\ NothingUnderWay /\ [Next]_vars => NothingUnderWay'
<1> SUFFICES ASSUME Typed, NothingUnderWay, [Next]_vars PROVE NothingUnderWay'
  OBVIOUS
<1> USE DEF files, bounds, observers
<1>t. TypeOK
  BY DEF Typed
<1>1. CASE Decide \/ FlushSerializes \/ FlushOpens \/ FlushWrites
        \/ FlushRenames \/ FlushFails \/ FlushCleansUp
  <2>1. hydration' = hydration
    BY <1>1
    DEF Decide, FlushSerializes, FlushOpens, FlushWrites, FlushRenames,
        FlushFails, FlushCleansUp
  <2>2. flush'.stage = "idle" => flush'.text = <<>>
    <3>1. CASE Decide
      BY <3>1 DEF Decide, NoFlush
    <3>2. CASE FlushRenames \/ FlushCleansUp
      <4>1. flush' = NoFlush
        BY <3>2 DEF FlushRenames, FlushCleansUp
      <4> QED  BY <4>1 DEF NoFlush
    <3>3. CASE FlushSerializes \/ FlushOpens \/ FlushWrites \/ FlushFails
      BY <3>3, <1>t
      DEF FlushSerializes, FlushOpens, FlushWrites, FlushFails, TypeOK
    <3> QED  BY <1>1, <3>1, <3>2, <3>3
  <2> QED  BY <2>1, <2>2 DEF NothingUnderWay
<1>2. CASE SessionStart \/ HydrationReads \/ HydrationReplaces
  BY <1>2, <1>t
  DEF SessionStart, HydrationReads, HydrationReplaces, Starting, NoHydration,
      NothingUnderWay, TypeOK
<1>3. CASE Clear \/ ClearEnds \/ Restart \/ UNCHANGED vars
  BY <1>3, <1>t
  DEF Clear, ClearEnds, Restart, Starting, NoFlush, NoHydration,
      NothingUnderWay, TypeOK, vars
<1>4. ASSUME NEW which \in {"file", "temp"}, ClearUnlinks(which)
      PROVE  NothingUnderWay'
  BY <1>4 DEF ClearUnlinks, NothingUnderWay
<1> QED  BY <1>1, <1>2, <1>3, <1>4 DEF Next

(* One bound at a time: entries above one that has been decided stay above *)
(* it, because what a step adds is the next decision.                      *)
LEMMA StaysAbove ==
  ASSUME Typed, [Next]_vars, NEW entry \in Nat, entry <= decided,
         HoldOnlyAbove(entry)
  PROVE  HoldOnlyAbove(entry)'
<1> USE DEF files, bounds, observers
<1>t. TypeOK
  BY DEF Typed
<1>e. Above(<<>>, entry)
  BY EmptyAbove
<1>1. CASE Decide
  <2>1. decided' \in Decisions /\ decided' > entry
    BY <1>1, <1>t, BoundsAssumption DEF Decide, Decisions, TypeOK
  <2>2. Above(memory', entry)
    <3>1. Append(memory, decided') \in Seq(Decisions)
      BY <1>t, <2>1 DEF TypeOK
    <3>2. Above(Append(memory, decided'), entry)
      BY <1>t, <2>1, AppendAbove DEF HoldOnlyAbove, TypeOK
    <3> QED  BY <1>1, <3>1, <3>2, NewestAbove DEF Decide
  <2> QED  BY <1>1, <1>e, <2>2 DEF Decide, NoFlush, HoldOnlyAbove, Parsed
<1>2. CASE FlushSerializes
  <2>1. Above(Newest(memory), entry)
    BY <1>t, NewestAbove DEF HoldOnlyAbove, TypeOK
  <2>2. flush'.text = Newest(memory)
    BY <1>2, <1>t DEF FlushSerializes, TypeOK
  <2> QED  BY <1>2, <2>1, <2>2 DEF FlushSerializes, HoldOnlyAbove, Parsed
<1>3. CASE FlushRenames
  <2>1. Parsed(file') = flush.text
    BY <1>3, RenameWhole
  <2> QED  BY <1>3, <1>e, <2>1 DEF FlushRenames, NoFlush, HoldOnlyAbove
<1>4. CASE FlushOpens \/ FlushWrites \/ FlushFails \/ FlushCleansUp
  <2>1. flush'.text \in {flush.text, <<>>}
    BY <1>4, <1>t
    DEF FlushOpens, FlushWrites, FlushFails, FlushCleansUp, NoFlush, TypeOK
  <2> QED  BY <1>4, <1>e, <2>1
           DEF FlushOpens, FlushWrites, FlushFails, FlushCleansUp,
               HoldOnlyAbove, Parsed
<1>5. CASE SessionStart \/ Clear \/ ClearEnds \/ Restart
  <2>1. /\ flush'.text \in {flush.text, <<>>} /\ memory' \in {memory, <<>>}
        /\ hydration'.persisted \in {hydration.persisted, <<>>}
        /\ file' = file
    BY <1>5, <1>t
    DEF SessionStart, Clear, ClearEnds, Restart, Starting, NoFlush,
        NoHydration, TypeOK
  <2> QED  BY <1>e, <2>1 DEF HoldOnlyAbove, Parsed
<1>6. CASE HydrationReads
  <2>1. hydration'.persisted \in {Parsed(file), <<>>}
    BY <1>6 DEF HydrationReads
  <2> QED  BY <1>6, <1>e, <2>1 DEF HydrationReads, HoldOnlyAbove, Parsed
<1>7. CASE HydrationReplaces
  BY <1>7, <1>e DEF HydrationReplaces, NoHydration, HoldOnlyAbove, Parsed
<1>8. ASSUME NEW which \in {"file", "temp"}, ClearUnlinks(which)
      PROVE  HoldOnlyAbove(entry)'
  <2>1. Parsed(file') \in {<<>>, Parsed(file)}
    <3>1. Parsed(None) = <<>>
      BY ParsedContent DEF Content
    <3> QED  BY <1>8, <3>1 DEF ClearUnlinks, Parsed
  <2> QED  BY <1>8, <1>e, <2>1 DEF ClearUnlinks, HoldOnlyAbove
<1>9. CASE UNCHANGED vars
  BY <1>9 DEF vars, HoldOnlyAbove, Parsed
<1> QED
  BY <1>1, <1>2, <1>3, <1>4, <1>5, <1>6, <1>7, <1>8, <1>9 DEF Next

LEMMA ErasingStep ==
  Typed /\ NothingUnderWay /\ Erasing /\ [Next]_vars => Erasing'
<1> SUFFICES ASSUME Typed, NothingUnderWay, Erasing, [Next]_vars,
                    clearing'.stage = "unlink", clearing'.alone
             PROVE  /\ clearing'.upTo <= decided' /\ hydration'.stage = "idle"
                    /\ Above(memory', clearing'.upTo)
                    /\ Above(flush'.text, clearing'.upTo)
                    /\ "file" \notin clearing'.pending =>
                         Above(Parsed(file'), clearing'.upTo)
  BY DEF Erasing, Parsed
<1> USE DEF files, bounds, observers
<1>t. TypeOK
  BY DEF Typed
<1>e. \A upTo : Above(<<>>, upTo)
  BY EmptyAbove
<1>n. clearing.upTo \in Nat /\ decided \in Nat
  BY <1>t, BoundsAssumption DEF TypeOK
<1>1. CASE Decide
  <2>1. /\ decided' = decided + 1 /\ decided' \in Decisions
        /\ UNCHANGED <<file, hydration, clearing>> /\ flush'.text = <<>>
        /\ memory' = Newest(Append(memory, decided'))
    BY <1>1, <1>t, BoundsAssumption DEF Decide, Decisions, NoFlush, TypeOK
  <2>2. decided' > clearing.upTo
    BY <1>n, <2>1 DEF Erasing
  <2>3. Above(memory', clearing.upTo)
    <3>1. Append(memory, decided') \in Seq(Decisions)
      BY <1>t, <2>1 DEF TypeOK
    <3>2. Above(Append(memory, decided'), clearing.upTo)
      BY <1>t, <2>1, <2>2, AppendAbove DEF Erasing, TypeOK
    <3> QED  BY <2>1, <3>1, <3>2, NewestAbove
  <2>4. decided' >= clearing.upTo
    BY <1>n, <2>1, <2>2
  <2> QED  BY <1>e, <2>1, <2>3, <2>4 DEF Erasing
<1>2. CASE FlushSerializes
  <2>1. UNCHANGED <<memory, file, hydration, clearing, decided>>
        /\ flush'.text = Newest(memory)
    BY <1>2, <1>t DEF FlushSerializes, TypeOK
  <2>2. Above(Newest(memory), clearing.upTo)
    BY <1>t, <2>1, NewestAbove DEF Erasing, TypeOK
  <2> QED  BY <2>1, <2>2 DEF Erasing
<1>3. CASE FlushRenames
  <2>1. Parsed(file') = flush.text
    BY <1>3, RenameWhole
  <2> QED  BY <1>3, <1>e, <2>1 DEF FlushRenames, NoFlush, Erasing
<1>4. CASE FlushOpens \/ FlushWrites \/ FlushFails \/ FlushCleansUp
  <2>1. flush'.text \in {flush.text, <<>>}
    BY <1>4, <1>t
    DEF FlushOpens, FlushWrites, FlushFails, FlushCleansUp, NoFlush, TypeOK
  <2>2. UNCHANGED <<memory, file, hydration, clearing, decided>>
    BY <1>4 DEF FlushOpens, FlushWrites, FlushFails, FlushCleansUp
  <2> QED  BY <1>e, <2>1, <2>2 DEF Erasing
<1>5. CASE SessionStart
  BY <1>5, <1>t DEF SessionStart, TypeOK
<1>6. CASE HydrationReads \/ HydrationReplaces
  <2>1. clearing' = clearing /\ hydration.stage # "idle"
    BY <1>6 DEF HydrationReads, HydrationReplaces
  <2> QED  BY <2>1 DEF Erasing
<1>7. CASE Clear
  <2>1. Undisturbed /\ clearing'.upTo = decided /\ "file" \in clearing'.pending
    BY <1>7 DEF Clear
  <2>2. flush'.text = <<>>
    BY <1>7, <1>t, <2>1 DEF Clear, Undisturbed, NothingUnderWay, TypeOK
  <2>3. memory' = <<>> /\ hydration' = hydration /\ decided' = decided
    BY <1>7 DEF Clear
  <2>4. decided <= decided
    BY <1>n
  <2> QED  BY <1>e, <2>1, <2>2, <2>3, <2>4 DEF Undisturbed
<1>8. ASSUME NEW which \in {"file", "temp"}, ClearUnlinks(which)
      PROVE  /\ clearing'.upTo <= decided' /\ hydration'.stage = "idle"
             /\ Above(memory', clearing'.upTo)
             /\ Above(flush'.text, clearing'.upTo)
             /\ "file" \notin clearing'.pending =>
                  Above(Parsed(file'), clearing'.upTo)
  <2>1. /\ UNCHANGED <<memory, flush, hydration, decided>>
        /\ file' = IF which = "file" THEN None ELSE file
        /\ clearing' = [clearing EXCEPT !.pending = @ \ {which}]
    BY <1>8, <1>t DEF ClearUnlinks, TypeOK
  <2>2. /\ clearing'.upTo = clearing.upTo /\ clearing'.stage = clearing.stage
        /\ clearing'.alone = clearing.alone
        /\ clearing'.pending = clearing.pending \ {which}
    BY <1>t, <2>1 DEF TypeOK
  <2>3. Parsed(None) = <<>>
    BY ParsedContent DEF Content
  <2>4. ASSUME "file" \notin clearing'.pending
        PROVE  Above(Parsed(file'), clearing.upTo)
    <3>1. CASE which = "file"
      BY <1>e, <2>1, <2>3, <3>1
    <3>2. CASE which # "file"
      BY <2>1, <2>2, <2>4, <3>2 DEF Erasing
    <3> QED  BY <3>1, <3>2
  <2> QED  BY <2>1, <2>2, <2>4 DEF Erasing
<1>9. CASE ClearEnds \/ Restart
  BY <1>9 DEF ClearEnds, Restart, NoClear
<1>10. CASE UNCHANGED vars
  BY <1>10 DEF vars, Erasing
<1> QED
  BY <1>1, <1>2, <1>3, <1>4, <1>5, <1>6, <1>7, <1>8, <1>9, <1>10 DEF Next

LEMMA ErasedStep == Typed /\ ErasedForGood /\ [Next]_vars => ErasedForGood'
<1> SUFFICES ASSUME Typed, ErasedForGood, [Next]_vars PROVE ErasedForGood'
  OBVIOUS
<1> USE DEF files, bounds, observers
<1>t. TypeOK
  BY DEF Typed
<1>n. erased \in Nat /\ decided \in Nat
  BY <1>t, BoundsAssumption DEF TypeOK
<1>1. NothingUnderWay' /\ Erasing'
  BY UnderWayStep, ErasingStep DEF ErasedForGood
<1>2. CASE ClearEnds /\ clearing.alone
  <2>1. erased' = clearing.upTo /\ "file" \notin clearing.pending
        /\ clearing.stage = "unlink"
        /\ UNCHANGED <<memory, file, flush, hydration, decided>>
    BY <1>2 DEF ClearEnds
  <2>2. hydration.persisted = <<>>
    BY <1>2, <2>1 DEF ErasedForGood, Erasing, NothingUnderWay
  <2> QED  BY <1>1, <1>2, <2>1, <2>2, EmptyAbove
           DEF ErasedForGood, Erasing, HoldOnlyAbove, Parsed
<1>3. CASE ~(ClearEnds /\ clearing.alone)
  <2>1. erased' = erased
    BY <1>3
    DEF Next, Decide, FlushSerializes, FlushOpens, FlushWrites, FlushRenames,
        FlushFails, FlushCleansUp, SessionStart, HydrationReads,
        HydrationReplaces, Clear, ClearUnlinks, ClearEnds, Restart, vars
  <2>2. decided' \in {decided, decided + 1}
    BY DEF Next, Decide, FlushSerializes, FlushOpens, FlushWrites, FlushRenames,
        FlushFails, FlushCleansUp, SessionStart, HydrationReads,
        HydrationReplaces, Clear, ClearUnlinks, ClearEnds, Restart, vars
  <2>3. erased <= decided'
    BY <1>n, <2>2 DEF ErasedForGood
  <2>4. HoldOnlyAbove(erased)'
    <3>1. \A entry \in Nat :
            entry <= decided /\ HoldOnlyAbove(entry) => HoldOnlyAbove(entry)'
      BY StaysAbove
    <3> QED  BY <1>n, <2>1, <3>1 DEF ErasedForGood, HoldOnlyAbove
  <2> QED  BY <1>1, <2>1, <2>3, <2>4 DEF ErasedForGood
<1> QED  BY <1>2, <1>3

(* What an undisturbed clear has removed never comes back, with any number *)
(* of restarts, clears and failed operations: nothing that could write it  *)
(* again is left in memory, in the file or in a flush.                     *)
THEOREM ErasedNeverReturns == Spec => []ErasedStaysGone
<1>1. Init => ErasedForGood
  <2>1. Parsed(None) = <<>>
    BY ParsedContent DEF Content
  <2> QED  BY <2>1, EmptyAbove
           DEF Init, ErasedForGood, NothingUnderWay, Erasing, HoldOnlyAbove,
               NoFlush, Starting, NoHydration, NoClear
<1>2. ErasedForGood => ErasedStaysGone
  BY DEF ErasedForGood, HoldOnlyAbove, Above, ErasedStaysGone, Recorded, Entries
<1> QED  BY <1>1, <1>2, ErasedStep, TypedAlways, PTL DEF Spec

-----------------------------------------------------------------------------
(* What is durable. A history within the bound keeps an entry or has       *)
(* pushed it out.                                                          *)

Kept(entry, seq) == entry \in Entries(seq) \/ PushedOut(entry, seq)

LEMMA NewestOfFew ==
  ASSUME NEW seq \in Seq(Decisions), Fits(seq) PROVE Newest(seq) = seq
BY BoundsAssumption DEF Newest, Fits

(* The newest of a history and one decision more: all of it if there is    *)
(* room, otherwise all but the first.                                      *)
LEMMA NewestAppended ==
  ASSUME NEW seq \in Seq(Decisions), NEW last \in Nat, Fits(seq),
         Ordered(seq, last), last + 1 \in Decisions
  PROVE  /\ last + 1 \in Entries(Newest(Append(seq, last + 1)))
         /\ \A entry \in Nat : entry <= last /\ Kept(entry, seq) =>
              Kept(entry, Newest(Append(seq, last + 1)))
<1> DEFINE longer == Append(seq, last + 1)
           kept == Newest(longer)
           n == Len(seq)
<1>0. n \in Nat /\ MaxDiagnostics \in Nat /\ n <= MaxDiagnostics
  BY BoundsAssumption DEF Fits
<1>1. /\ longer \in Seq(Decisions) /\ Len(longer) = n + 1
      /\ n \in Nat /\ n <= MaxDiagnostics /\ MaxDiagnostics \in Nat \ {0}
      /\ DOMAIN seq = 1..n
  BY BoundsAssumption DEF Fits
<1>2. \A i \in 1..n : longer[i] = seq[i]
  OBVIOUS
<1>3. longer[n + 1] = last + 1
  OBVIOUS
<1>4. \A i \in 1..n : seq[i] \in Nat /\ seq[i] <= last
  BY <1>1, EntriesAreNumbers DEF Ordered
<1>5. CASE n < MaxDiagnostics
  <2>1. kept = longer /\ DOMAIN longer = 1..(n + 1)
    BY <1>1, <1>5 DEF Newest
  <2> HIDE DEF kept, longer
  <2>2. n + 1 \in DOMAIN kept /\ kept[n + 1] = last + 1
    BY <1>1, <1>3, <2>1
  <2>3. last + 1 \in Entries(kept)
    BY <2>2 DEF Entries
  <2>4. \A entry : Kept(entry, seq) => entry \in Entries(seq)
    <3>1. Len(seq) # MaxDiagnostics
      BY <1>0, <1>5
    <3> QED  BY <3>1, Zenon DEF Kept, PushedOut
  <2>5. ASSUME NEW entry \in Entries(seq) PROVE entry \in Entries(kept)
    <3>1. PICK i \in 1..n : entry = seq[i]
      BY <1>1 DEF Entries
    <3>2. i \in DOMAIN kept /\ kept[i] = entry
      BY <1>1, <1>2, <2>1, <3>1
    <3> QED  BY <3>2 DEF Entries
  <2> QED  BY <2>3, <2>4, <2>5 DEF Kept, kept, longer
<1>6. CASE n = MaxDiagnostics
  <2>1. kept = SubSeq(longer, 2, n + 1)
    <3>1. n + 1 - MaxDiagnostics + 1 = 2 /\ n + 1 > MaxDiagnostics
      BY <1>1, <1>6
    <3> QED  BY <1>1, <3>1 DEF Newest
  <2> HIDE DEF longer
  <2>2. /\ Len(kept) = MaxDiagnostics /\ DOMAIN kept = 1..n
        /\ \A i \in 1..n : kept[i] = longer[i + 1]
    BY <1>1, <1>6, <2>1
  <2> HIDE DEF kept
  <2>3. \A i \in 1..n : i < n => kept[i] = seq[i + 1]
    BY <1>1, <1>2, <2>2
  <2>4. n \in 1..n /\ kept[n] = last + 1
    BY <1>1, <1>3, <1>6, <2>2
  <2>5. last + 1 \in Entries(kept)
    BY <2>2, <2>4 DEF Entries
  <2>6. ASSUME NEW entry \in Nat, entry <= last,
               \A i \in 1..n : i # 1 => seq[i] > entry
        PROVE  PushedOut(entry, kept)
    <3>1. ASSUME NEW i \in 1..n PROVE kept[i] > entry
      <4>1. CASE i = n
        BY <2>4, <2>6, <4>1
      <4>2. CASE i # n
        <5>1. i \in Nat /\ i >= 1 /\ i <= n /\ n \in Nat
          BY <1>1
        <5>2. i < n /\ i + 1 \in 1..n /\ i + 1 # 1
          BY <4>2, <5>1
        <5> QED  BY <2>3, <2>6, <5>2
      <4> QED  BY <4>1, <4>2
    <3> QED  BY <2>2, <3>1 DEF PushedOut
  <2>7. ASSUME NEW entry \in Nat, entry <= last, Kept(entry, seq)
        PROVE  Kept(entry, kept)
    <3>1. CASE PushedOut(entry, seq)
      BY <1>1, <2>6, <2>7, <3>1 DEF PushedOut, Kept
    <3>2. CASE entry \in Entries(seq)
      <4>1. PICK k \in 1..n : entry = seq[k]
        BY <1>1, <3>2 DEF Entries
      <4>2. CASE k = 1
        <5>1. \A i \in 1..n : i # 1 => seq[i] > entry
          <6>1. \A i \in 1..n : i # 1 => 1 < i
            BY <1>1
          <6>2. \A i \in 1..n : i # 1 => seq[1] < seq[i]
            BY <1>1, <4>1, <4>2, <6>1 DEF Ordered, Increasing
          <6> QED  BY <1>4, <4>1, <4>2, <6>2
        <5> QED  BY <2>6, <2>7, <5>1 DEF Kept
      <4>3. CASE k # 1
        <5>1. k - 1 \in 1..n /\ k - 1 < n /\ (k - 1) + 1 = k
          BY <1>1, <4>3
        <5>2. kept[k - 1] = entry
          BY <2>3, <4>1, <5>1
        <5> QED  BY <2>2, <5>1, <5>2 DEF Entries, Kept
      <4> QED  BY <4>2, <4>3
    <3> QED  BY <2>7, <3>1, <3>2 DEF Kept
  <2> QED  BY <2>5, <2>7 DEF kept, longer
<1>7. n < MaxDiagnostics \/ n = MaxDiagnostics
  BY <1>0
<1> QED  BY <1>5, <1>6, <1>7

(* While a flush is alone, the decision it flushes is in memory and, once  *)
(* it has been serialized, in its text.                                    *)
FlushHolds ==
  flush.stage # "idle" /\ flush.alone =>
    /\ hydration.stage = "idle" /\ clearing.stage = "idle"
    /\ decided \in Entries(memory)
    /\ flush.stage \in {"mkdir", "open", "written"} =>
         decided \in Entries(flush.text)

ClearHolds ==
  /\ clearing.stage = "idle" => clearing.pending = {}
  /\ durable # {} => clearing.stage = "idle"

(* Wherever a durable entry may next be looked for, it has been kept: a    *)
(* hydration forgets memory until it has read the file, and a flush has a  *)
(* text once it has serialized memory.                                     *)
KeptEverywhere(entry) ==
  /\ entry <= decided
  /\ file \in Seq(Decisions) /\ Kept(entry, file)
  /\ hydration.stage = "idle" \/ flush.stage # "idle" => Kept(entry, memory)
  /\ flush.stage \in {"mkdir", "open", "written"} => Kept(entry, flush.text)
  /\ hydration.stage = "read" => Kept(entry, hydration.persisted)

DurableKept == \A entry \in durable : KeptEverywhere(entry)

LEMMA FlushHoldsStep ==
  Typed /\ InOrder /\ FlushHolds /\ [Next]_vars => FlushHolds'
<1> SUFFICES ASSUME Typed, InOrder, FlushHolds, [Next]_vars,
                    flush'.stage # "idle", flush'.alone
             PROVE  /\ hydration'.stage = "idle" /\ clearing'.stage = "idle"
                    /\ decided' \in Entries(memory')
                    /\ flush'.stage \in {"mkdir", "open", "written"} =>
                         decided' \in Entries(flush'.text)
  BY DEF FlushHolds, Entries
<1> USE DEF files, bounds, observers
<1>t. TypeOK
  BY DEF Typed
<1>1. CASE Decide
  <2>1. /\ clearing'.stage = "idle" /\ hydration'.stage = "idle"
        /\ flush'.stage = "config"
    <3>1. flush'.stage = "config" /\ flush'.alone = (clearing.stage = "idle")
      BY <1>1 DEF Decide, NoFlush
    <3> QED  BY <1>1, <3>1 DEF Decide
  <2>2. /\ decided' = decided + 1 /\ decided' \in Decisions /\ decided \in Nat
        /\ memory' = Newest(Append(memory, decided + 1))
    BY <1>1, <1>t, BoundsAssumption DEF Decide, Decisions, TypeOK
  <2>3. Fits(memory) /\ memory \in Seq(Decisions) /\ Ordered(memory, decided)
    BY <1>t DEF TypeOK, Fits, InOrder
  <2>4. decided' \in Entries(memory')
    BY <2>2, <2>3, NewestAppended
  <2> QED  BY <2>1, <2>4
<1>2. CASE FlushSerializes
  <2>1. Newest(memory) = memory
    BY <1>t, NewestOfFew DEF TypeOK, Fits
  <2>2. /\ flush'.text = memory /\ flush'.alone = flush.alone
        /\ UNCHANGED <<memory, hydration, clearing, decided>>
        /\ flush.stage # "idle"
    BY <1>2, <1>t, <2>1 DEF FlushSerializes, TypeOK
  <2> QED  BY <2>2 DEF FlushHolds
<1>3. CASE FlushOpens \/ FlushWrites \/ FlushFails
  <2>1. /\ flush'.text = flush.text /\ flush'.alone = flush.alone
        /\ UNCHANGED <<memory, hydration, clearing, decided>>
        /\ flush.stage \in {"mkdir", "open", "written"}
        /\ flush'.stage = "cleanup" \/ flush.stage \in {"mkdir", "open"}
    BY <1>3, <1>t DEF FlushOpens, FlushWrites, FlushFails, TypeOK
  <2> QED  BY <2>1 DEF FlushHolds
<1>4. CASE FlushRenames \/ FlushCleansUp \/ Restart
  <2>1. flush' = NoFlush
    BY <1>4 DEF FlushRenames, FlushCleansUp, Restart
  <2> QED  BY <2>1 DEF NoFlush
<1>5. CASE SessionStart \/ Clear
  <2>1. flush'.stage = flush.stage /\ flush'.alone = (flush.stage = "idle")
    BY <1>5, <1>t DEF SessionStart, Clear, TypeOK
  <2> QED  BY <2>1
<1>6. CASE HydrationReads \/ HydrationReplaces
  <2>1. flush' = flush /\ hydration.stage # "idle"
    BY <1>6 DEF HydrationReads, HydrationReplaces
  <2> QED  BY <2>1 DEF FlushHolds
<1>7. ASSUME NEW which \in {"file", "temp"}, ClearUnlinks(which)
      PROVE  /\ hydration'.stage = "idle" /\ clearing'.stage = "idle"
             /\ decided' \in Entries(memory')
             /\ flush'.stage \in {"mkdir", "open", "written"} =>
                  decided' \in Entries(flush'.text)
  <2>1. /\ UNCHANGED <<memory, flush, hydration, decided>>
        /\ clearing'.stage = clearing.stage
    BY <1>7, <1>t DEF ClearUnlinks, TypeOK
  <2> QED  BY <2>1 DEF FlushHolds
<1>8. CASE ClearEnds
  <2>1. /\ UNCHANGED <<memory, flush, hydration, decided>>
        /\ clearing'.stage = "idle"
    BY <1>8 DEF ClearEnds, NoClear
  <2> QED  BY <2>1 DEF FlushHolds
<1>9. CASE UNCHANGED vars
  BY <1>9 DEF vars, FlushHolds
<1> QED
  BY <1>1, <1>2, <1>3, <1>4, <1>5, <1>6, <1>7, <1>8, <1>9 DEF Next

LEMMA ClearHoldsStep ==
  Typed /\ FlushHolds /\ ClearHolds /\ [Next]_vars => ClearHolds'
<1> SUFFICES ASSUME Typed, FlushHolds, ClearHolds, [Next]_vars
             PROVE  ClearHolds'
  OBVIOUS
<1> USE DEF files, bounds, observers
<1>t. TypeOK
  BY DEF Typed
<1>1. CASE FlushRenames
  <2>1. clearing' = clearing /\ flush.stage # "idle"
        /\ (durable' = durable \/ flush.alone)
    BY <1>1 DEF FlushRenames
  <2> QED  BY <2>1 DEF ClearHolds, FlushHolds
<1>2. CASE Decide \/ FlushSerializes \/ FlushOpens \/ FlushWrites
        \/ FlushFails \/ FlushCleansUp \/ HydrationReplaces
        \/ UNCHANGED vars
  <2>1. clearing' = clearing /\ durable' = durable
    BY <1>2
    DEF Decide, FlushSerializes, FlushOpens, FlushWrites, FlushFails,
        FlushCleansUp, HydrationReplaces, vars
  <2> QED  BY <2>1 DEF ClearHolds
<1>3. CASE HydrationReads
  <2>1. clearing' = clearing /\ durable' \in {durable, {}}
    BY <1>3 DEF HydrationReads
  <2> QED  BY <2>1 DEF ClearHolds
<1>4. CASE SessionStart
  <2>1. /\ clearing'.stage = clearing.stage /\ durable' = durable
        /\ clearing'.pending = clearing.pending
    BY <1>4, <1>t DEF SessionStart, TypeOK
  <2> QED  BY <2>1 DEF ClearHolds
<1>5. CASE Clear
  BY <1>5 DEF Clear, ClearHolds
<1>6. CASE ClearEnds \/ Restart
  <2>1. clearing' = NoClear
    BY <1>6 DEF ClearEnds, Restart
  <2> QED  BY <2>1 DEF NoClear, ClearHolds
<1>7. ASSUME NEW which \in {"file", "temp"}, ClearUnlinks(which)
      PROVE  ClearHolds'
  <2>1. /\ clearing'.stage = clearing.stage /\ durable' = durable
        /\ clearing'.pending = clearing.pending \ {which}
        /\ which \in clearing.pending
    BY <1>7, <1>t DEF ClearUnlinks, TypeOK
  <2> QED  BY <2>1 DEF ClearHolds
<1> QED  BY <1>1, <1>2, <1>3, <1>4, <1>5, <1>6, <1>7 DEF Next

LEMMA DurableStep ==
  /\ Typed /\ InOrder /\ FlushHolds /\ ClearHolds /\ DurableKept
  /\ [Next]_vars
  => DurableKept'
<1> SUFFICES ASSUME Typed, InOrder, FlushHolds, ClearHolds, DurableKept,
                    [Next]_vars,
                    NEW entry \in durable'
             PROVE  KeptEverywhere(entry)'
  BY DEF DurableKept
<1> USE DEF files, bounds, observers
<1>t. TypeOK
  BY DEF Typed
<1>k. entry \in durable => KeptEverywhere(entry)
  BY DEF DurableKept
<1>n. /\ decided \in Nat
      /\ durable \subseteq Nat
      /\ memory \in Seq(Decisions) /\ Fits(memory)
      /\ flush.text \in Seq(Decisions)
  BY <1>t, BoundsAssumption DEF TypeOK, Fits, Decisions
<1>1. CASE Decide
  <2>1. /\ decided' = decided + 1 /\ decided + 1 \in Decisions
        /\ memory' = Newest(Append(memory, decided + 1))
        /\ flush.stage = "idle" /\ flush'.stage = "config"
        /\ hydration.stage = "idle"
        /\ UNCHANGED <<file, hydration, durable>>
    BY <1>1, <1>n, BoundsAssumption DEF Decide, NoFlush, Decisions
  <2>2. entry \in Nat /\ entry <= decided /\ Kept(entry, memory)
    BY <1>k, <1>n, <2>1 DEF KeptEverywhere
  <2>3. Kept(entry, memory')
    BY <1>n, <2>1, <2>2, NewestAppended DEF InOrder
  <2>4. entry <= decided'
    BY <1>n, <2>1, <2>2
  <2>5. file \in Seq(Decisions) /\ Kept(entry, file)
    BY <1>k, <2>1 DEF KeptEverywhere
  <2> QED  BY <2>1, <2>3, <2>4, <2>5 DEF KeptEverywhere, Kept, PushedOut, Entries
<1>2. CASE FlushSerializes
  <2>1. /\ flush'.text = memory /\ flush'.stage = "mkdir"
        /\ UNCHANGED <<memory, file, hydration, decided, durable>>
        /\ flush.stage = "config"
    <3>1. Newest(memory) = memory
      BY <1>n, NewestOfFew
    <3> QED  BY <1>2, <1>t, <3>1 DEF FlushSerializes, TypeOK
  <2> QED  BY <1>k, <2>1 DEF KeptEverywhere, Kept, PushedOut, Entries
<1>3. CASE FlushOpens \/ FlushWrites \/ FlushFails
  <2>1. /\ flush'.text = flush.text
        /\ UNCHANGED <<memory, file, hydration, decided, durable>>
        /\ flush.stage \in {"mkdir", "open", "written"} /\ flush'.stage # "idle"
    BY <1>3, <1>t DEF FlushOpens, FlushWrites, FlushFails, TypeOK
  <2> QED  BY <1>k, <2>1 DEF KeptEverywhere, Kept, PushedOut, Entries
<1>4. CASE FlushCleansUp
  <2>1. /\ flush'.stage = "idle" /\ flush.stage = "cleanup"
        /\ UNCHANGED <<memory, file, hydration, decided, durable>>
    BY <1>4 DEF FlushCleansUp, NoFlush
  <2> QED  BY <1>k, <2>1 DEF KeptEverywhere, Kept, PushedOut, Entries
<1>5. CASE FlushRenames
  <2>1. /\ file' = flush.text /\ flush.stage = "written" /\ flush'.stage = "idle"
        /\ UNCHANGED <<memory, hydration, decided>>
    BY <1>5, RenameWhole DEF FlushRenames, NoFlush
  <2>2. CASE entry \in durable
    BY <1>k, <1>n, <2>1, <2>2 DEF KeptEverywhere, Kept, PushedOut, Entries
  <2>3. CASE entry \notin durable
    <3>1. entry = decided /\ flush.alone
      BY <1>5, <2>3 DEF FlushRenames
    <3>2. /\ hydration.stage = "idle" /\ decided \in Entries(memory)
          /\ decided \in Entries(flush.text)
      BY <2>1, <3>1 DEF FlushHolds
    <3>3. decided <= decided
      BY <1>n
    <3> QED  BY <1>n, <2>1, <3>1, <3>2, <3>3
             DEF KeptEverywhere, Kept, PushedOut, Entries
  <2> QED  BY <2>2, <2>3
<1>6. CASE SessionStart
  <2>1. /\ flush'.text = flush.text /\ flush'.stage = flush.stage
        /\ UNCHANGED <<memory, file, decided, durable>>
        /\ hydration.stage = "idle" /\ hydration'.stage = "config"
    BY <1>6, <1>t DEF SessionStart, Starting, NoHydration, TypeOK
  <2> QED  BY <1>k, <2>1 DEF KeptEverywhere, Kept, PushedOut, Entries
<1>7. CASE HydrationReads
  <2>1. /\ hydration' = [stage |-> "read", persisted |-> Parsed(file)]
        /\ UNCHANGED <<memory, file, flush, decided, durable>>
        /\ hydration.stage # "idle"
    BY <1>7 DEF HydrationReads
  <2>2. Parsed(file) = file
    BY <1>k, <2>1, ParsedContent DEF KeptEverywhere, Content
  <2>3. hydration'.persisted = file /\ hydration'.stage # "idle"
    BY <2>1, <2>2
  <2> QED  BY <1>k, <2>1, <2>3 DEF KeptEverywhere, Kept, PushedOut, Entries
<1>8. CASE HydrationReplaces
  <2>1. /\ memory' = hydration.persisted /\ hydration.stage = "read"
        /\ hydration'.stage = "idle"
        /\ UNCHANGED <<file, flush, decided, durable>>
    BY <1>8 DEF HydrationReplaces, NoHydration
  <2> QED  BY <1>k, <2>1 DEF KeptEverywhere, Kept, PushedOut, Entries
<1>9. CASE Clear
  BY <1>9 DEF Clear
<1>10. ASSUME NEW which \in {"file", "temp"}, ClearUnlinks(which)
       PROVE  KeptEverywhere(entry)'
  <2>1. clearing.pending # {} /\ durable' = durable
    BY <1>10 DEF ClearUnlinks
  <2> QED  BY <2>1 DEF ClearHolds
<1>11. CASE ClearEnds \/ UNCHANGED vars
  <2>1. UNCHANGED <<memory, file, flush, hydration, decided, durable>>
    BY <1>11 DEF ClearEnds, vars
  <2> QED  BY <1>k, <2>1 DEF KeptEverywhere, Kept, PushedOut, Entries
<1>12. CASE Restart
  <2>1. /\ flush'.stage = "idle" /\ hydration'.stage = "config"
        /\ UNCHANGED <<file, decided, durable>>
    BY <1>12 DEF Restart, NoFlush, Starting, NoHydration
  <2> QED  BY <1>k, <2>1 DEF KeptEverywhere, Kept, PushedOut, Entries
<1> QED
  BY <1>1, <1>2, <1>3, <1>4, <1>5, <1>6, <1>7, <1>8, <1>9, <1>10, <1>11,
     <1>12 DEF Next

(* What a flush that nothing interfered with has written stays recorded,   *)
(* for every length of the history and any number of restarts and failed   *)
(* flushes, until newer entries push it out: whatever replaces memory or   *)
(* the file has been derived from one that held it.                        *)
THEOREM DurableNeverLost == Spec => []DurableSurvives
<1> DEFINE IInv == InOrder /\ FlushHolds /\ ClearHolds /\ DurableKept
<1>1. Init => IInv
  <2>1. Parsed(None) = <<>>
    BY ParsedContent DEF Content
  <2> QED  BY <2>1, EmptyOrdered
           DEF Init, InOrder, FlushHolds, ClearHolds, DurableKept, NoFlush,
               Starting, NoHydration, NoClear
<1>2. Typed /\ IInv /\ [Next]_vars => IInv'
  BY OrderStep, FlushHoldsStep, ClearHoldsStep, DurableStep
<1>3. IInv => DurableSurvives
  BY FilesAssumption
  DEF DurableKept, KeptEverywhere, Kept, DurableSurvives
<1> HIDE DEF IInv
<1> QED  BY <1>1, <1>2, <1>3, TypedAlways, PTL DEF Spec
=============================================================================
