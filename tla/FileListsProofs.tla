--------------------------- MODULE FileListsProofs ---------------------------
(***************************************************************************)
(* Theorems about the lists of files, for every set of paths, whatever the *)
(* model answers and the core leaves behind, and for any number of         *)
(* compactions.                                                            *)
(***************************************************************************)
EXTENDS FileLists, Induction, SequenceTheorems, TLAPS

(* Merging loses no file, and no file that was modified becomes one that   *)
(* was only read (mergeFileLists).                                         *)
LEMMA MergeKeeps ==
  ASSUME NEW previous, NEW current
  PROVE  LET merged == MergeFileLists(previous, current) IN
         /\ merged.modified = previous.modified \cup current.modified
         /\ merged.read \cap merged.modified = {}
         /\ merged.read \cup merged.modified
              = previous.read \cup current.read
                  \cup previous.modified \cup current.modified
BY DEF MergeFileLists

(* A compaction that was verified lists what the summary before it listed  *)
(* and what the messages it replaces have touched.                         *)
LEMMA CompactsCarries ==
  ASSUME ListsCarriedOver, NEW n, NEW history, NEW prefix,
         Compacts(n, history, prefix)
  PROVE  ListsCarriedOver'
<1> DEFINE current == ComputeFileLists(SubSeq(touches, 1, n))
           old     == ParseFileLists(summary)
           merged  == MergeFileLists(old, current)
           new     == ParseFileLists(summary')
<1>1. /\ merged.read \subseteq new["read"]
      /\ merged.modified \subseteq new["modified"]
  BY DEF Compacts, Verified, Planned
<1>2. /\ seen'["read"] = seen["read"] \cup current.read
      /\ seen'["modified"] = seen["modified"] \cup current.modified
  BY DEF Compacts, Saw, Kinds
<1>3. /\ seen["read"] \cup seen["modified"]
           \subseteq old["read"] \cup old["modified"]
      /\ seen["modified"] \subseteq old["modified"]
  BY DEF ListsCarriedOver, NoFileForgotten, ModifiedStaysModified, Listed
<1>4. /\ merged.modified = old.modified \cup current.modified
      /\ merged.read \cup merged.modified
           = old.read \cup current.read \cup old.modified \cup current.modified
  BY MergeKeeps
<1> HIDE DEF current, old, merged, new
<1>5. /\ seen'["read"] \cup seen'["modified"]
           \subseteq new["read"] \cup new["modified"]
      /\ seen'["modified"] \subseteq new["modified"]
  BY <1>1, <1>2, <1>3, <1>4
<1>6. QED
  BY <1>5 DEF new, ListsCarriedOver, NoFileForgotten, ModifiedStaysModified,
              Listed

(* A file once listed is listed for good, and as modified if it ever was:  *)
(* the previous summary's lists are merged into the plan, and a summary    *)
(* that does not list all that was planned is not committed.               *)
THEOREM FilesAreCarriedOver == Spec => []ListsCarriedOver
<1> USE DEF ListsCarriedOver, NoFileForgotten, ModifiedStaysModified, Listed
<1>1. Init => ListsCarriedOver
  BY DEF Init, NoFiles, Kinds
<1>2. ListsCarriedOver /\ [Next]_vars => ListsCarriedOver'
  <2> SUFFICES ASSUME ListsCarriedOver, [Next]_vars PROVE ListsCarriedOver'
    OBVIOUS
  <2>1. CASE Touch
    BY <2>1 DEF Touch
  <2>2. ASSUME NEW n, NEW history, NEW prefix, Compacts(n, history, prefix)
        PROVE  ListsCarriedOver'
    BY <2>2, CompactsCarries
  <2>3. ASSUME NEW n, CoreCompacts(n)
        PROVE  ListsCarriedOver'
    BY <2>3 DEF CoreCompacts
  <2>4. CASE UNCHANGED vars
    BY <2>4 DEF vars
  <2>5. QED
    BY <2>1, <2>2, <2>3, <2>4, Zenon DEF Next
<1>3. QED
  BY <1>1, <1>2, PTL DEF Spec

(* No file is both planned as read and planned as modified, so that the    *)
(* lists the extension appends name every file once.                       *)
THEOREM PlansAreDisjoint ==
  ASSUME NEW n
  PROVE  Planned(n).read \cap Planned(n).modified = {}
BY MergeKeeps DEF Planned

-----------------------------------------------------------------------------
(* What is left of a text without its blocks *)

(* kept is a subsequence of text, by the places in the text it takes.      *)
SubsequenceOf(kept, o, text, n) ==
  /\ o \in [1..Len(kept) -> 1..n]
  /\ \A p \in 1..Len(kept) : kept[p] = text[o[p]]
  /\ \A p, q \in 1..Len(kept) : p < q => o[p] < o[q]

(* No block is left: no closing tag comes after an opening one.            *)
NoBlock(text, kind) ==
  \A p, q \in 1..Len(text) :
    p < q => ~(text[p] = Opening[kind] /\ text[q] = Closing[kind])

(* What is kept of the first i lines. Once an opening tag was kept no      *)
(* closing one is to come.                                                 *)
Stripped(text, kind, i, kept) ==
  /\ kept \in Seq(Lines)
  /\ \E o : SubsequenceOf(kept, o, text, i)
  /\ NoBlock(kept, kind)
  /\ \A p \in 1..Len(kept) : kept[p] = Opening[kind] =>
       \A j \in 1..Len(text) : j > i => text[j] # Closing[kind]

(* The four tags are different lines.                                      *)
LEMMA TagsDiffer ==
  /\ \A k, l \in Kinds : Opening[k] # Closing[l]
  /\ Opening["read"] # Opening["modified"]
  /\ Closing["read"] # Closing["modified"]
  /\ TagLines = {Opening["read"], Opening["modified"],
                 Closing["read"], Closing["modified"]}
BY DEF Kinds, Opening, Closing, TagLines

(* A line that is kept comes after those kept before it.                   *)
LEMMA SubsequenceAppend ==
  ASSUME NEW text \in Seq(Lines), NEW i \in 1..Len(text),
         NEW kept \in Seq(Lines), NEW o, SubsequenceOf(kept, o, text, i - 1)
  PROVE  /\ SubsequenceOf(kept, o, text, i)
         /\ \E p : SubsequenceOf(Append(kept, text[i]), p, text, i)
<1> DEFINE t == Append(kept, text[i])
           u == [p \in 1..Len(t) |-> IF p <= Len(kept) THEN o[p] ELSE i]
<1>1. /\ i \in Nat /\ Len(kept) \in Nat /\ text[i] \in Lines
      /\ Len(t) = Len(kept) + 1 /\ t[Len(kept) + 1] = text[i]
      /\ \A p \in 1..Len(kept) : t[p] = kept[p]
  OBVIOUS
<1> HIDE DEF t
<1>2. \A p \in 1..Len(kept) : o[p] \in 1..(i - 1) /\ o[p] \in 1..i
  BY <1>1 DEF SubsequenceOf
<1>3. SubsequenceOf(kept, o, text, i)
  BY <1>2 DEF SubsequenceOf
<1>4. \A p \in 1..Len(t) :
        \/ p \in 1..Len(kept) /\ t[p] = kept[p] /\ u[p] = o[p]
        \/ p = Len(kept) + 1 /\ t[p] = text[i] /\ u[p] = i
  BY <1>1
<1>5. u \in [1..Len(t) -> 1..i]
  <2>1. \A p \in 1..Len(t) : u[p] \in 1..i
    BY <1>1, <1>2, <1>4
  <2> QED  BY <2>1
<1> HIDE DEF u
<1>6. \A p \in 1..Len(t) : t[p] = text[u[p]]
  BY <1>4 DEF SubsequenceOf
<1>7. ASSUME NEW p \in 1..Len(t), NEW q \in 1..Len(t), p < q
      PROVE  u[p] < u[q]
  <2>1. p \in 1..Len(kept) /\ u[p] = o[p]
    BY <1>1, <1>4, <1>7
  <2>2. CASE q \in 1..Len(kept) /\ u[q] = o[q]
    BY <1>7, <2>1, <2>2 DEF SubsequenceOf
  <2>3. CASE u[q] = i
    BY <1>1, <1>2, <2>1, <2>3
  <2> QED  BY <1>4, <2>2, <2>3
<1>8. SubsequenceOf(t, u, text, i)
  BY <1>5, <1>6, <1>7 DEF SubsequenceOf
<1> QED  BY <1>3, <1>8 DEF t

LEMMA StripLineKeeps ==
  ASSUME NEW text \in Seq(Lines), NEW kind \in Kinds, NEW i \in 1..Len(text),
         NEW before, Stripped(text, kind, i - 1, before.kept)
  PROVE  Stripped(text, kind, i, StripLine(text, kind, before, i).kept)
<1> DEFINE kept  == before.kept
           after == StripLine(text, kind, before, i).kept
<1>1. i \in Nat /\ text[i] \in Lines
  OBVIOUS
<1>2. PICK o : SubsequenceOf(kept, o, text, i - 1)
  BY DEF Stripped
<1>3. kept \in Seq(Lines) /\ NoBlock(kept, kind)
  BY DEF Stripped
<1>4. \A p \in 1..Len(kept) : kept[p] = Opening[kind] =>
        /\ text[i] # Closing[kind]
        /\ \A j \in 1..Len(text) : j > i => text[j] # Closing[kind]
  <2>1. i > i - 1 /\ \A j \in 1..Len(text) : j > i => j > i - 1
    BY <1>1
  <2> QED  BY <2>1 DEF Stripped
<1>5. CASE after = kept
  <2>1. SubsequenceOf(kept, o, text, i)
    BY <1>2, <1>3, SubsequenceAppend
  <2> QED  BY <1>3, <1>4, <1>5, <2>1 DEF Stripped
<1>6. CASE /\ after = Append(kept, text[i])
           /\ text[i] = Opening[kind] =>
                \A j \in 1..Len(text) : j > i => text[j] # Closing[kind]
  <2> DEFINE t == Append(kept, text[i])
  <2>1. /\ Len(kept) \in Nat /\ t \in Seq(Lines)
        /\ Len(t) = Len(kept) + 1 /\ t[Len(kept) + 1] = text[i]
        /\ \A p \in 1..Len(kept) : t[p] = kept[p]
    BY <1>1, <1>3
  <2>2. \E p : SubsequenceOf(t, p, text, i)
    BY <1>2, <1>3, SubsequenceAppend
  <2> HIDE DEF t
  <2>3. \A p \in 1..Len(t) :
          \/ p \in 1..Len(kept) /\ t[p] = kept[p]
          \/ p = Len(kept) + 1 /\ t[p] = text[i]
    BY <2>1
  <2>4. ASSUME NEW p \in 1..Len(t), NEW q \in 1..Len(t), p < q,
               t[p] = Opening[kind], t[q] = Closing[kind]
        PROVE  FALSE
    <3>1. p \in 1..Len(kept) /\ kept[p] = Opening[kind]
      BY <2>1, <2>3, <2>4
    <3>2. CASE q \in 1..Len(kept) /\ t[q] = kept[q]
      BY <1>3, <2>4, <3>1, <3>2 DEF NoBlock
    <3>3. CASE t[q] = text[i]
      BY <1>4, <2>4, <3>1, <3>3
    <3> QED  BY <2>3, <3>2, <3>3
  <2>5. NoBlock(t, kind)
    BY <2>4 DEF NoBlock
  <2>6. \A p \in 1..Len(t) : t[p] = Opening[kind] =>
          \A j \in 1..Len(text) : j > i => text[j] # Closing[kind]
    BY <1>4, <1>6, <2>3
  <2>7. after = t
    BY <1>6 DEF t
  <2> QED  BY <2>1, <2>2, <2>5, <2>6, <2>7 DEF Stripped
<1>7. \/ after = kept
      \/ /\ after = Append(kept, text[i])
         /\ text[i] = Opening[kind] =>
              \A j \in 1..Len(text) : j > i => text[j] # Closing[kind]
  <2>1. DOMAIN text = 1..Len(text)
    OBVIOUS
  <2> QED  BY <2>1 DEF StripLine, Positions
<1> QED  BY <1>5, <1>6, <1>7

LEMMA StripBlocks ==
  ASSUME NEW text \in Seq(Lines), NEW kind \in Kinds
  PROVE  LET kept == StripTagBlocks(text, kind) IN
         /\ kept \in Seq(Lines) /\ NoBlock(kept, kind)
         /\ \E o : SubsequenceOf(kept, o, text, Len(text))
<1> DEFINE N == Len(text)
           D == [kept : Seq(Lines), inside : BOOLEAN]
           start == [kept |-> <<>>, inside |-> FALSE]
           Upto(f) == f = [i \in 0..N |-> IF i = 0 THEN start
                             ELSE StripLine(text, kind, f[i - 1], i)]
           step == [i \in 1..N |-> [a \in D |-> StripLine(text, kind, a, i)]]
<1>1. N \in Nat /\ \A i \in 1..N : text[i] \in Lines
  OBVIOUS
<1>2. StripTagBlocks(text, kind) = (CHOOSE f : Upto(f))[N].kept
  BY DEF StripTagBlocks
<1>3. \E f : Upto(f)
  <2>1. \A i \in 1..N : \A a \in D : StripLine(text, kind, a, i) \in D
    <3> SUFFICES ASSUME NEW i \in 1..N, NEW a \in D
                 PROVE  StripLine(text, kind, a, i) \in D
      OBVIOUS
    <3>1. a.kept \in Seq(Lines) /\ Append(a.kept, text[i]) \in Seq(Lines)
      BY <1>1
    <3> QED  BY <3>1 DEF StripLine
  <2>2. step \in Steps(N, D)
    BY <2>1 DEF Steps
  <2>3. start \in D
    OBVIOUS
  <2>4. \A i \in 1..N : \A a \in D : step[i][a] = StripLine(text, kind, a, i)
    OBVIOUS
  <2> HIDE DEF D, start, step
  <2>5. PICK f : Recurs(f, N, D, start, step)
    BY <1>1, <2>2, <2>3, RecursionExists
  <2>6. ASSUME NEW i \in 0..N
        PROVE  f[i] = IF i = 0 THEN start
                      ELSE StripLine(text, kind, f[i - 1], i)
    <3>1. i # 0 => i \in 1..N /\ i - 1 \in 0..N
      BY <1>1
    <3> QED  BY <2>4, <2>5, <3>1 DEF Recurs
  <2>7. f = [i \in 0..N |-> f[i]]
    BY <2>5 DEF Recurs
  <2> QED  BY <2>6, <2>7
<1> HIDE DEF Upto, step, D
<1>4. PICK f : Upto(f) /\ StripTagBlocks(text, kind) = f[N].kept
  BY <1>2, <1>3
<1>5. f[0] = start /\ \A i \in 1..N : f[i] = StripLine(text, kind, f[i - 1], i)
  <2>1. \A i \in 0..N : f[i] = IF i = 0 THEN start
                               ELSE StripLine(text, kind, f[i - 1], i)
    BY <1>4 DEF Upto
  <2> QED  BY <1>1, <2>1
<1> DEFINE T == {i \in 0..N : Stripped(text, kind, i, f[i].kept)}
<1>6. 0 \in T
  <2>1. f[0].kept = <<>>
    BY <1>5
  <2>2. SubsequenceOf(<<>>, [p \in 1..0 |-> 0], text, 0)
    BY DEF SubsequenceOf
  <2>3. Stripped(text, kind, 0, <<>>)
    BY <2>2 DEF Stripped, NoBlock
  <2> QED  BY <1>1, <2>1, <2>3
<1>7. ASSUME NEW n \in 0..(N - 1), n \in T PROVE n + 1 \in T
  <2>1. n + 1 \in 1..N /\ n + 1 \in 0..N /\ (n + 1) - 1 = n
    BY <1>1
  <2>2. f[n + 1] = StripLine(text, kind, f[n], n + 1)
    BY <1>5, <2>1
  <2>3. Stripped(text, kind, (n + 1) - 1, f[n].kept)
    BY <1>7, <2>1
  <2>4. Stripped(text, kind, n + 1, StripLine(text, kind, f[n], n + 1).kept)
    BY <2>1, <2>3, StripLineKeeps
  <2> QED  BY <2>1, <2>2, <2>4
<1> HIDE DEF T
<1>8. N \in T
  BY <1>1, <1>6, <1>7, InductionTo, N \in 0..N
<1> QED  BY <1>4, <1>8 DEF T, Stripped

(* Of a text without its blocks, lines of the text are left and no block.  *)
LEMMA StripTags ==
  ASSUME NEW text \in Seq(Lines)
  PROVE  LET kept == StripFileTags(text) IN
         /\ kept \in Seq(Lines)
         /\ NoBlock(kept, "read") /\ NoBlock(kept, "modified")
         /\ \A p \in 1..Len(kept) : \E q \in 1..Len(text) : kept[p] = text[q]
<1> DEFINE first == StripTagBlocks(text, "read")
           kept  == StripTagBlocks(first, "modified")
<1>1. "read" \in Kinds /\ "modified" \in Kinds
  BY DEF Kinds
<1>2. first \in Seq(Lines) /\ NoBlock(first, "read")
      /\ \E o : SubsequenceOf(first, o, text, Len(text))
  BY <1>1, StripBlocks
<1> HIDE DEF first
<1>3. kept \in Seq(Lines) /\ NoBlock(kept, "modified")
      /\ \E o : SubsequenceOf(kept, o, first, Len(first))
  BY <1>1, <1>2, StripBlocks
<1> HIDE DEF kept
<1>4. PICK a : SubsequenceOf(first, a, text, Len(text))
  BY <1>2
<1>5. PICK b : SubsequenceOf(kept, b, first, Len(first))
  BY <1>3
<1>6. ASSUME NEW p \in 1..Len(kept)
      PROVE  /\ b[p] \in 1..Len(first) /\ kept[p] = first[b[p]]
             /\ a[b[p]] \in 1..Len(text) /\ kept[p] = text[a[b[p]]]
  <2>1. b[p] \in 1..Len(first) /\ kept[p] = first[b[p]]
    BY <1>5 DEF SubsequenceOf
  <2> QED  BY <1>4, <2>1 DEF SubsequenceOf
<1>7. ASSUME NEW p \in 1..Len(kept), NEW q \in 1..Len(kept), p < q
      PROVE  ~(kept[p] = Opening["read"] /\ kept[q] = Closing["read"])
  <2>1. b[p] < b[q]
    BY <1>5, <1>7 DEF SubsequenceOf
  <2>2. /\ b[p] \in 1..Len(first) /\ kept[p] = first[b[p]]
        /\ b[q] \in 1..Len(first) /\ kept[q] = first[b[q]]
    BY <1>6
  <2>3. NoBlock(first, "read")
    BY <1>2
  <2>4. ~(first[b[p]] = Opening["read"] /\ first[b[q]] = Closing["read"])
    BY <2>1, <2>2, <2>3 DEF NoBlock
  <2> QED  BY <2>2, <2>4
<1> QED  BY <1>3, <1>6, <1>7 DEF StripFileTags, NoBlock, first, kept

-----------------------------------------------------------------------------
(* What is found between two tags *)

LEMMA MinOf ==
  ASSUME NEW T \in SUBSET Nat, T # {}
  PROVE  Min(T) \in T /\ \A m \in T : Min(T) <= m
<1>1. \E x \in T : \A y \in T : x <= y
  BY LeastElement
<1> QED  BY <1>1 DEF Min

(* The lines between the first opening tag and the closing tag after it.   *)
LEMMA BetweenBlock ==
  ASSUME NEW text \in Seq(Lines), NEW kind \in Kinds,
         NEW o \in 1..Len(text), NEW c \in 1..Len(text), o < c,
         text[o] = Opening[kind], text[c] = Closing[kind],
         \A i, j \in 1..Len(text) :
           i < j /\ text[i] = Opening[kind] /\ text[j] = Closing[kind]
             => c <= j
  PROVE  /\ \A i \in (o + 1)..(c - 1) : text[i] \in Between(text, kind)
         /\ (\A i \in 1..Len(text) : text[i] = Opening[kind] => o <= i)
              => Between(text, kind) = {text[i] : i \in (o + 1)..(c - 1)}
<1> DEFINE opens  == Positions(text, Opening[kind])
           closes == {j \in Positions(text, Closing[kind]) :
                        opens # {} /\ j > Min(opens)}
<1>1. Len(text) \in Nat /\ DOMAIN text = 1..Len(text)
  OBVIOUS
<1>2. /\ \A i : i \in opens <=> i \in 1..Len(text) /\ text[i] = Opening[kind]
      /\ \A j : j \in closes <=> /\ j \in 1..Len(text)
                                 /\ text[j] = Closing[kind]
                                 /\ opens # {} /\ j > Min(opens)
  BY <1>1 DEF Positions
<1>3. Between(text, kind) =
        IF closes = {} THEN {}
        ELSE {text[i] : i \in (Min(opens) + 1)..(Min(closes) - 1)}
  BY DEF Between
<1> HIDE DEF opens, closes
<1>4. opens \in SUBSET Nat /\ closes \in SUBSET Nat
  BY <1>1, <1>2
<1>5. Min(opens) \in opens /\ Min(opens) <= o
  <2>1. o \in opens
    BY <1>2
  <2> QED  BY <1>4, <2>1, MinOf
<1>6. Min(opens) \in 1..Len(text) /\ text[Min(opens)] = Opening[kind]
  BY <1>2, <1>5
<1>7. c \in closes
  <2>1. c > Min(opens)
    BY <1>1, <1>5, <1>6
  <2> QED  BY <1>2, <1>5, <2>1
<1>8. Min(closes) = c
  <2>1. Min(closes) \in closes /\ Min(closes) <= c
    BY <1>4, <1>7, MinOf
  <2>2. /\ Min(closes) \in 1..Len(text) /\ text[Min(closes)] = Closing[kind]
        /\ Min(opens) < Min(closes)
    BY <1>1, <1>2, <1>6, <2>1
  <2>3. c <= Min(closes)
    BY <1>6, <2>2
  <2> QED  BY <1>1, <2>1, <2>2, <2>3
<1>9. Between(text, kind) = {text[i] : i \in (Min(opens) + 1)..(c - 1)}
  BY <1>3, <1>7, <1>8
<1>10. ASSUME NEW i \in (o + 1)..(c - 1)
       PROVE  text[i] \in Between(text, kind)
  <2>1. i \in (Min(opens) + 1)..(c - 1)
    BY <1>1, <1>5, <1>6
  <2> QED  BY <1>9, <2>1
<1>11. ASSUME \A i \in 1..Len(text) : text[i] = Opening[kind] => o <= i
       PROVE  Between(text, kind) = {text[i] : i \in (o + 1)..(c - 1)}
  <2>1. Min(opens) = o
    BY <1>1, <1>5, <1>6, <1>11
  <2> QED  BY <1>9, <2>1
<1> QED  BY <1>10, <1>11

(* Without an opening tag nothing is found.                                *)
LEMMA BetweenNothing ==
  ASSUME NEW text \in Seq(Lines), NEW kind \in Kinds,
         \A i \in 1..Len(text) : text[i] # Opening[kind]
  PROVE  Between(text, kind) = {}
<1>1. DOMAIN text = 1..Len(text)
  OBVIOUS
<1> QED  BY <1>1 DEF Between, Positions

(* What lies between the tags is lines of the text, never a closing tag.   *)
LEMMA BetweenLines ==
  ASSUME NEW text \in Seq(Lines), NEW kind \in Kinds
  PROVE  /\ Between(text, kind) \subseteq Lines
         /\ Closing[kind] \notin Between(text, kind)
<1> DEFINE opens  == Positions(text, Opening[kind])
           closes == {j \in Positions(text, Closing[kind]) :
                        opens # {} /\ j > Min(opens)}
<1>1. Len(text) \in Nat /\ DOMAIN text = 1..Len(text)
      /\ \A i \in 1..Len(text) : text[i] \in Lines
  OBVIOUS
<1>2. /\ \A i : i \in opens <=> i \in 1..Len(text) /\ text[i] = Opening[kind]
      /\ \A j : j \in closes <=> /\ j \in 1..Len(text)
                                 /\ text[j] = Closing[kind]
                                 /\ opens # {} /\ j > Min(opens)
  BY <1>1 DEF Positions
<1>3. Between(text, kind) =
        IF closes = {} THEN {}
        ELSE {text[i] : i \in (Min(opens) + 1)..(Min(closes) - 1)}
  BY DEF Between
<1> HIDE DEF opens, closes
<1>4. CASE closes = {}
  BY <1>3, <1>4
<1>5. CASE closes # {}
  <2>1. opens \in SUBSET Nat /\ closes \in SUBSET Nat /\ opens # {}
    BY <1>1, <1>2, <1>5
  <2>2. /\ Min(opens) \in 1..Len(text) /\ Min(closes) \in 1..Len(text)
        /\ \A j \in closes : Min(closes) <= j
    BY <1>2, <1>5, <2>1, MinOf
  <2>3. ASSUME NEW i \in (Min(opens) + 1)..(Min(closes) - 1)
        PROVE  text[i] \in Lines /\ text[i] # Closing[kind]
    <3>1. i \in 1..Len(text) /\ i > Min(opens) /\ ~(Min(closes) <= i)
      BY <1>1, <2>2
    <3>2. i \notin closes
      BY <2>2, <3>1
    <3> QED  BY <1>1, <1>2, <2>1, <3>1, <3>2
  <2> QED  BY <1>3, <1>5, <2>3
<1> QED  BY <1>4, <1>5

-----------------------------------------------------------------------------
(* The section of one list *)

(* Names of one line.                                                      *)
OneLine == {<<line>> : line \in Lines \ {Blank}}

(* The names of a section are those of its files, each of them is there,   *)
(* and they come in the order of names.                                    *)
LEMMA NamesListed ==
  ASSUME NEW files \in SUBSET OneLine, NEW names,
         names = FlattenSeq([i \in DOMAIN NameOrder |->
                    IF NameOrder[i] \in files THEN NameOrder[i] ELSE <<>>])
  PROVE  /\ names \in Seq(Lines)
         /\ \A p \in 1..Len(names) : <<names[p]>> \in files
         /\ \A line : <<line>> \in files =>
              \E p \in 1..Len(names) : names[p] = line
         /\ \A p, q \in 1..Len(names) :
              names[p] = Opening.modified /\ names[q] = Closing.modified
                => q < p
<1> DEFINE N == Len(NameOrder)
           ss == [i \in DOMAIN NameOrder |->
                    IF NameOrder[i] \in files THEN NameOrder[i] ELSE <<>>]
<1>1. /\ NameOrder \in Seq(Seq(Lines)) /\ Files \subseteq ToSet(NameOrder)
      /\ \A i, j \in DOMAIN NameOrder :
           /\ NameOrder[i] = <<Closing.modified>>
           /\ NameOrder[j] = <<Opening.modified>>
           => i < j
  BY FileListsAssumption
<1>2. /\ N \in Nat /\ DOMAIN NameOrder = 1..N
      /\ \A i \in 1..N : NameOrder[i] \in Seq(Lines)
  BY <1>1
<1>3. /\ ss \in Seq(Seq(Lines)) /\ Len(ss) = N
      /\ \A i \in 1..N :
           ss[i] = IF NameOrder[i] \in files THEN NameOrder[i] ELSE <<>>
  <2>1. \A i \in 1..N :
          (IF NameOrder[i] \in files THEN NameOrder[i] ELSE <<>>) \in Seq(Lines)
    BY <1>2
  <2> QED  BY <1>2, <2>1
<1>4. names = FlattenSeq(ss)
  OBVIOUS
<1> HIDE DEF ss
<1>5. names \in Seq(Lines) /\ Covers(names, N, ss)
      /\ \E o : Placed(names, o, N, ss)
  BY <1>3, <1>4, FlattenPlaces
<1>6. PICK o : Placed(names, o, N, ss)
  BY <1>5
<1>7. \A p \in 1..Len(names) : o[p] \in 1..N
  BY <1>6 DEF Placed
<1>8. ASSUME NEW i \in 1..N
      PROVE  \/ Len(ss[i]) = 0
             \/ /\ NameOrder[i] \in files /\ Len(ss[i]) = 1
                /\ NameOrder[i] = <<ss[i][1]>>
  <2>1. CASE NameOrder[i] \notin files
    <3>1. ss[i] = <<>>
      BY <1>3, <2>1, Zenon
    <3> QED  BY <3>1
  <2>2. CASE NameOrder[i] \in files
    <3>1. ss[i] = NameOrder[i]
      BY <1>3, <2>2
    <3>2. PICK line \in Lines : NameOrder[i] = <<line>>
      BY <2>2 DEF OneLine
    <3>3. Len(<<line>>) = 1 /\ <<line>>[1] = line
      OBVIOUS
    <3> QED  BY <2>2, <3>1, <3>2, <3>3
  <2> QED  BY <2>1, <2>2
<1>9. ASSUME NEW p \in 1..Len(names)
      PROVE  NameOrder[o[p]] = <<names[p]>> /\ <<names[p]>> \in files
  <2>1. PICK q \in 1..Len(ss[o[p]]) : names[p] = ss[o[p]][q]
    BY <1>6 DEF Placed
  <2>2. Len(ss[o[p]]) # 0
    BY <2>1
  <2>3. /\ NameOrder[o[p]] \in files /\ Len(ss[o[p]]) = 1
        /\ NameOrder[o[p]] = <<ss[o[p]][1]>>
    BY <1>7, <1>8, <2>2
  <2>4. q = 1
    BY <2>3
  <2> QED  BY <2>1, <2>3, <2>4
<1>10. ASSUME NEW line, <<line>> \in files
       PROVE  \E p \in 1..Len(names) : names[p] = line
  <2>1. PICK i \in 1..N : NameOrder[i] = <<line>>
    <3>1. <<line>> \in Files
      BY <1>10 DEF Files, OneLine
    <3> QED  BY <1>1, <1>2, <3>1 DEF ToSet
  <2>2. ss[i] = <<line>> /\ Len(<<line>>) = 1 /\ <<line>>[1] = line
    BY <1>3, <1>10, <2>1
  <2>3. 1 \in 1..Len(ss[i])
    BY <2>2
  <2>4. \E p \in 1..Len(names) : names[p] = ss[i][1]
    BY <1>5, <2>3 DEF Covers
  <2> QED  BY <2>2, <2>4
<1>11. ASSUME NEW p \in 1..Len(names), NEW q \in 1..Len(names),
              names[p] = Opening.modified, names[q] = Closing.modified
       PROVE  q < p
  <2>1. o[q] < o[p]
    <3>1. NameOrder[o[q]] = <<Closing.modified>>
          /\ NameOrder[o[p]] = <<Opening.modified>>
      BY <1>9, <1>11
    <3> QED  BY <1>1, <1>2, <1>7, <3>1
  <2>2. p <= q => o[p] <= o[q]
    BY <1>6 DEF Placed
  <2>3. o[p] \in Nat /\ o[q] \in Nat /\ p \in Nat /\ q \in Nat
    BY <1>7
  <2> QED  BY <2>1, <2>2, <2>3
<1> QED  BY <1>5, <1>9, <1>10, <1>11

(* s is the section of files, which are not none.                          *)
IsSection(s, kind, files) ==
  /\ s \in Seq(Lines) /\ Len(s) >= 2
  /\ s[1] = Opening[kind] /\ s[Len(s)] = Closing[kind]
  /\ \A i \in 2..(Len(s) - 1) : <<s[i]>> \in files
  /\ \A line : <<line>> \in files => \E i \in 2..(Len(s) - 1) : s[i] = line
  /\ \A i, j \in 2..(Len(s) - 1) :
       s[i] = Opening.modified /\ s[j] = Closing.modified => j < i

(* A list without files has no section, any other is one between its tags. *)
LEMMA SectionIs ==
  ASSUME NEW kind \in Kinds, NEW files \in SUBSET OneLine
  PROVE  /\ Section(kind, files) \in Seq(Lines)
         /\ files = {} => Section(kind, files) = <<>>
         /\ files # {} => IsSection(Section(kind, files), kind, files)
<1>1. files = {} => Section(kind, files) = <<>>
  BY DEF Section
<1>2. ASSUME files # {}
      PROVE  IsSection(Section(kind, files), kind, files)
  <2> DEFINE names == FlattenSeq([i \in DOMAIN NameOrder |->
                    IF NameOrder[i] \in files THEN NameOrder[i] ELSE <<>>])
             s == (<<Opening[kind]>> \o names) \o <<Closing[kind]>>
  <2>1. Section(kind, files) = s
    BY <1>2 DEF Section
  <2>2. /\ names \in Seq(Lines)
        /\ \A p \in 1..Len(names) : <<names[p]>> \in files
        /\ \A line : <<line>> \in files =>
             \E p \in 1..Len(names) : names[p] = line
        /\ \A p, q \in 1..Len(names) :
             names[p] = Opening.modified /\ names[q] = Closing.modified
               => q < p
    BY NamesListed
  <2> HIDE DEF names
  <2>3. Opening[kind] \in Lines /\ Closing[kind] \in Lines
    BY DEF Lines, TagLines, Kinds
  <2>4. /\ s \in Seq(Lines) /\ Len(names) \in Nat /\ Len(s) = Len(names) + 2
        /\ s[1] = Opening[kind] /\ s[Len(s)] = Closing[kind]
        /\ \A i \in 2..(Len(s) - 1) :
             i - 1 \in 1..Len(names) /\ s[i] = names[i - 1]
    BY <2>2, <2>3
  <2> HIDE DEF s
  <2>5. \A i \in 2..(Len(s) - 1) : <<s[i]>> \in files
    BY <2>2, <2>4
  <2>6. ASSUME NEW line, <<line>> \in files
        PROVE  \E i \in 2..(Len(s) - 1) : s[i] = line
    <3>1. PICK p \in 1..Len(names) : names[p] = line
      BY <2>2, <2>6
    <3>2. p + 1 \in 2..(Len(s) - 1) /\ (p + 1) - 1 = p
      BY <2>4
    <3> QED  BY <2>4, <3>1, <3>2
  <2>7. ASSUME NEW i \in 2..(Len(s) - 1), NEW j \in 2..(Len(s) - 1),
               s[i] = Opening.modified, s[j] = Closing.modified
        PROVE  j < i
    <3>1. /\ i - 1 \in 1..Len(names) /\ names[i - 1] = Opening.modified
          /\ j - 1 \in 1..Len(names) /\ names[j - 1] = Closing.modified
      BY <2>4, <2>7
    <3>2. j - 1 < i - 1
      BY <2>2, <3>1
    <3> QED  BY <2>4, <3>2
  <2>8. Len(s) >= 2
    BY <2>4
  <2> QED  BY <2>1, <2>4, <2>5, <2>6, <2>7, <2>8 DEF IsSection
<1>3. Section(kind, files) \in Seq(Lines)
  <2>1. CASE files = {}
    <3>1. <<>> \in Seq(Lines)
      OBVIOUS
    <3> QED  BY <1>1, <2>1, <3>1
  <2>2. CASE files # {}
    BY <1>2, <2>2 DEF IsSection
  <2> QED  BY <2>1, <2>2
<1> QED  BY <1>1, <1>2, <1>3

(* A text of three parts, line by line.                                    *)
LaidOut(text, body, r, m) ==
  /\ text \in Seq(Lines)
  /\ Len(body) \in Nat /\ Len(r) \in Nat /\ Len(m) \in Nat
  /\ Len(text) = Len(body) + Len(r) + Len(m)
  /\ \A i \in 1..Len(body) : text[i] = body[i]
  /\ \A i \in 1..Len(r) : text[Len(body) + i] = r[i]
  /\ \A i \in 1..Len(m) : text[Len(body) + Len(r) + i] = m[i]

(* Two sequences put behind a third keep their lines.                      *)
LEMMA Layout ==
  ASSUME NEW body \in Seq(Lines), NEW r \in Seq(Lines), NEW m \in Seq(Lines),
         NEW text, text = body \o (r \o m)
  PROVE  LaidOut(text, body, r, m)
<1>1. /\ Len(body) \in Nat /\ Len(r) \in Nat /\ Len(m) \in Nat
  OBVIOUS
<1> DEFINE t == r \o m
<1>2. /\ t \in Seq(Lines) /\ Len(t) = Len(r) + Len(m)
      /\ \A i \in 1..Len(t) : t[i] = IF i <= Len(r) THEN r[i] ELSE m[i - Len(r)]
  BY ConcatProperties
<1> HIDE DEF t
<1>3. /\ text \in Seq(Lines) /\ Len(text) = Len(body) + Len(t)
      /\ \A i \in 1..Len(text) :
           text[i] = IF i <= Len(body) THEN body[i] ELSE t[i - Len(body)]
  <2>1. text = body \o t
    BY DEF t
  <2>0. t \in Seq(Lines)
    BY <1>2
  <2>2. /\ body \o t \in Seq(Lines) /\ Len(body \o t) = Len(body) + Len(t)
        /\ \A i \in 1..(Len(body) + Len(t)) :
             (body \o t)[i] = IF i <= Len(body) THEN body[i] ELSE t[i - Len(body)]
    BY <2>0, ConcatProperties
  <2> QED  BY <2>1, <2>2
<1>4. \A i \in 1..Len(body) : text[i] = body[i]
  BY <1>1, <1>2, <1>3
<1>5. \A i \in 1..Len(t) : text[Len(body) + i] = t[i]
  <2> SUFFICES ASSUME NEW i \in 1..Len(t) PROVE text[Len(body) + i] = t[i]
    OBVIOUS
  <2>1. /\ Len(body) + i \in 1..Len(text) /\ ~(Len(body) + i <= Len(body))
        /\ (Len(body) + i) - Len(body) = i
    BY <1>1, <1>2, <1>3
  <2> QED  BY <1>3, <2>1
<1>6. \A i \in 1..Len(r) : text[Len(body) + i] = r[i]
  <2> SUFFICES ASSUME NEW i \in 1..Len(r) PROVE text[Len(body) + i] = r[i]
    OBVIOUS
  <2>1. i \in 1..Len(t) /\ i <= Len(r)
    BY <1>1, <1>2
  <2> QED  BY <1>2, <1>5, <2>1
<1>7. \A i \in 1..Len(m) : text[Len(body) + Len(r) + i] = m[i]
  <2> SUFFICES ASSUME NEW i \in 1..Len(m)
               PROVE  text[Len(body) + Len(r) + i] = m[i]
    OBVIOUS
  <2>1. /\ Len(r) + i \in 1..Len(t) /\ ~(Len(r) + i <= Len(r))
        /\ (Len(r) + i) - Len(r) = i
        /\ Len(body) + (Len(r) + i) = Len(body) + Len(r) + i
    BY <1>1, <1>2
  <2>2. text[Len(body) + (Len(r) + i)] = t[Len(r) + i] /\ t[Len(r) + i] = m[i]
    BY <1>2, <1>5, <2>1
  <2> QED  BY <2>1, <2>2
<1> QED  BY <1>1, <1>2, <1>3, <1>4, <1>6, <1>7 DEF LaidOut

(* The lines o to c of the text list the files, between the tags.          *)
Block(text, kind, files, o, c) ==
  /\ o \in 1..Len(text) /\ c \in 1..Len(text) /\ o < c
  /\ text[o] = Opening[kind] /\ text[c] = Closing[kind]
  /\ \A i \in (o + 1)..(c - 1) : <<text[i]>> \in files
  /\ \A line : <<line>> \in files =>
       \E i \in (o + 1)..(c - 1) : text[i] = line
  /\ \A i, j \in (o + 1)..(c - 1) :
       text[i] = Opening.modified /\ text[j] = Closing.modified => j < i

(* The body of a summary ends in line b, the files read in line e.         *)
Parts(text, body, e, read, modified) ==
  /\ text \in Seq(Lines) /\ Len(body) \in Nat /\ e \in Nat
  /\ Len(body) <= e /\ e <= Len(text)
  /\ \A i \in 1..Len(body) : text[i] = body[i]
  /\ IF read = {} THEN e = Len(body)
     ELSE Block(text, "read", read, Len(body) + 1, e)
  /\ IF modified = {} THEN e = Len(text)
     ELSE Block(text, "modified", modified, e + 1, Len(text))

(* A section that was put behind the first d lines is a block.             *)
LEMMA SectionPut ==
  ASSUME NEW text \in Seq(Lines), NEW s \in Seq(Lines), NEW d \in Nat,
         NEW kind \in Kinds, NEW files \in SUBSET OneLine,
         IsSection(s, kind, files), d + Len(s) <= Len(text),
         \A i \in 1..Len(s) : text[d + i] = s[i]
  PROVE  Block(text, kind, files, d + 1, d + Len(s))
<1>1. /\ Len(text) \in Nat /\ Len(s) \in Nat /\ Len(s) >= 2
      /\ s[1] = Opening[kind] /\ s[Len(s)] = Closing[kind]
  BY DEF IsSection
<1>2. /\ d + 1 \in 1..Len(text) /\ d + Len(s) \in 1..Len(text)
      /\ d + 1 < d + Len(s) /\ 1 \in 1..Len(s) /\ Len(s) \in 1..Len(s)
  BY <1>1
<1>3. text[d + 1] = Opening[kind] /\ text[d + Len(s)] = Closing[kind]
  BY <1>1, <1>2
<1>4. \A i \in ((d + 1) + 1)..((d + Len(s)) - 1) :
        /\ i - d \in 2..(Len(s) - 1) /\ i - d \in 1..Len(s) /\ d + (i - d) = i
        /\ text[i] = s[i - d]
  <2> SUFFICES ASSUME NEW i \in ((d + 1) + 1)..((d + Len(s)) - 1)
               PROVE  /\ i - d \in 2..(Len(s) - 1) /\ i - d \in 1..Len(s)
                      /\ d + (i - d) = i /\ text[i] = s[i - d]
    OBVIOUS
  <2>1. i - d \in 2..(Len(s) - 1) /\ i - d \in 1..Len(s) /\ d + (i - d) = i
    BY <1>1
  <2>2. text[d + (i - d)] = s[i - d]
    BY <2>1
  <2> QED  BY <2>1, <2>2
<1>5. \A i \in ((d + 1) + 1)..((d + Len(s)) - 1) : <<text[i]>> \in files
  BY <1>4 DEF IsSection
<1>6. ASSUME NEW line, <<line>> \in files
      PROVE  \E i \in ((d + 1) + 1)..((d + Len(s)) - 1) : text[i] = line
  <2>1. PICK p \in 2..(Len(s) - 1) : s[p] = line
    BY <1>6 DEF IsSection
  <2>2. d + p \in ((d + 1) + 1)..((d + Len(s)) - 1) /\ p \in 1..Len(s)
    BY <1>1
  <2> QED  BY <2>1, <2>2
<1>7. ASSUME NEW i \in ((d + 1) + 1)..((d + Len(s)) - 1),
             NEW j \in ((d + 1) + 1)..((d + Len(s)) - 1),
             text[i] = Opening.modified, text[j] = Closing.modified
      PROVE  j < i
  <2>1. /\ i - d \in 2..(Len(s) - 1) /\ s[i - d] = Opening.modified
        /\ j - d \in 2..(Len(s) - 1) /\ s[j - d] = Closing.modified
    BY <1>4, <1>7
  <2>2. j - d < i - d
    BY <2>1 DEF IsSection
  <2> QED  BY <2>2
<1> QED  BY <1>2, <1>3, <1>5, <1>6, <1>7 DEF Block

(* The text of a summary: what is left of the answers, then the two lists. *)
LEMMA PartsOfSummary ==
  ASSUME NEW body \in Seq(Lines),
         NEW read \in SUBSET OneLine, NEW modified \in SUBSET OneLine,
         NEW text,
         text = body \o (Section("read", read) \o Section("modified", modified))
  PROVE  \E e : Parts(text, body, e, read, modified)
<1> DEFINE r == Section("read", read)
           m == Section("modified", modified)
           e == Len(body) + Len(r)
<1>1. "read" \in Kinds /\ "modified" \in Kinds
  BY DEF Kinds
<1>2. /\ r \in Seq(Lines)
      /\ read = {} => r = <<>>
      /\ read # {} => IsSection(r, "read", read)
  BY <1>1, SectionIs
<1>3. /\ m \in Seq(Lines)
      /\ modified = {} => m = <<>>
      /\ modified # {} => IsSection(m, "modified", modified)
  BY <1>1, SectionIs
<1> HIDE DEF r, m
<1>4. text = body \o (r \o m)
  BY DEF r, m
<1>5. /\ text \in Seq(Lines)
      /\ Len(body) \in Nat /\ Len(r) \in Nat /\ Len(m) \in Nat
      /\ Len(text) = Len(body) + Len(r) + Len(m)
      /\ \A i \in 1..Len(body) : text[i] = body[i]
      /\ \A i \in 1..Len(r) : text[Len(body) + i] = r[i]
      /\ \A i \in 1..Len(m) : text[Len(body) + Len(r) + i] = m[i]
  <2>1. r \in Seq(Lines) /\ m \in Seq(Lines)
    BY <1>2, <1>3
  <2>2. LaidOut(text, body, r, m)
    BY <1>4, <2>1, Layout
  <2> QED  BY <2>2 DEF LaidOut
<1>6. e \in Nat /\ Len(body) <= e /\ e <= Len(text) /\ e + Len(m) = Len(text)
  BY <1>5
<1>7. IF read = {} THEN e = Len(body)
      ELSE Block(text, "read", read, Len(body) + 1, e)
  <2>1. CASE read = {}
    <3>1. Len(r) = 0
      BY <1>2, <2>1
    <3> QED  BY <1>5, <2>1, <3>1
  <2>2. CASE read # {}
    <3>1. Len(body) + Len(r) <= Len(text)
      BY <1>6
    <3> QED  BY <1>1, <1>2, <1>5, <2>2, <3>1, SectionPut
  <2> QED  BY <2>1, <2>2
<1>8. IF modified = {} THEN e = Len(text)
      ELSE Block(text, "modified", modified, e + 1, Len(text))
  <2>1. CASE modified = {}
    <3>1. Len(m) = 0
      BY <1>3, <2>1
    <3> QED  BY <1>6, <2>1, <3>1
  <2>2. CASE modified # {}
    <3>1. e + Len(m) <= Len(text) /\ \A i \in 1..Len(m) : text[e + i] = m[i]
      BY <1>5, <1>6
    <3>2. Block(text, "modified", modified, e + 1, e + Len(m))
      BY <1>1, <1>3, <1>5, <1>6, <2>2, <3>1, SectionPut
    <3> QED  BY <1>6, <2>2, <3>2
  <2> QED  BY <2>1, <2>2
<1>9. Parts(text, body, e, read, modified)
  BY <1>5, <1>6, <1>7, <1>8 DEF Parts
<1> QED  BY <1>9

-----------------------------------------------------------------------------
(* What is read back from a summary *)

(* What the first opening tag finds are at least the names of the block.   *)
LEMMA BlockFound ==
  ASSUME NEW text \in Seq(Lines), NEW kind \in Kinds,
         NEW files \in SUBSET OneLine, NEW o, NEW c,
         Block(text, kind, files, o, c),
         \A i, j \in 1..Len(text) :
           i < j /\ text[i] = Opening[kind] /\ text[j] = Closing[kind]
             => c <= j
  PROVE  /\ files \subseteq ParseTagBlock(text, kind)
         /\ (\A i \in 1..Len(text) : text[i] = Opening[kind] => o <= i)
              => ParseTagBlock(text, kind) = files
<1>1. /\ o \in 1..Len(text) /\ c \in 1..Len(text) /\ o < c
      /\ text[o] = Opening[kind] /\ text[c] = Closing[kind]
      /\ \A i \in (o + 1)..(c - 1) : <<text[i]>> \in files
      /\ \A line : <<line>> \in files =>
           \E i \in (o + 1)..(c - 1) : text[i] = line
  BY DEF Block
<1>2. /\ \A i \in (o + 1)..(c - 1) : text[i] \in Between(text, kind)
      /\ (\A i \in 1..Len(text) : text[i] = Opening[kind] => o <= i)
           => Between(text, kind) = {text[i] : i \in (o + 1)..(c - 1)}
  BY <1>1, BetweenBlock
<1>3. ASSUME NEW f \in files
      PROVE  f \in ParseTagBlock(text, kind)
  <2>1. PICK line \in Lines \ {Blank} : f = <<line>>
    BY DEF OneLine
  <2>2. line \in Between(text, kind)
    BY <1>1, <1>2, <1>3, <2>1
  <2> QED  BY <2>1, <2>2 DEF ParseTagBlock
<1>4. ASSUME \A i \in 1..Len(text) : text[i] = Opening[kind] => o <= i,
             NEW f \in ParseTagBlock(text, kind)
      PROVE  f \in files
  <2>1. PICK line \in Between(text, kind) : f = <<line>>
    BY DEF ParseTagBlock
  <2>2. PICK i \in (o + 1)..(c - 1) : line = text[i]
    BY <1>2, <1>4, <2>1
  <2> QED  BY <1>1, <2>1, <2>2
<1> QED  BY <1>3, <1>4

(* The files read are found again: before their block no block is left.    *)
LEMMA FindsRead ==
  ASSUME NEW text, NEW body \in Seq(Lines), NEW e,
         NEW read \in SUBSET OneLine, NEW modified,
         Parts(text, body, e, read, modified), NoBlock(body, "read"),
         <<Closing.read>> \notin read
  PROVE  read \subseteq ParseTagBlock(text, "read")
<1> SUFFICES ASSUME read # {} PROVE read \subseteq ParseTagBlock(text, "read")
  OBVIOUS
<1>1. /\ text \in Seq(Lines) /\ Len(text) \in Nat /\ Len(body) \in Nat
      /\ e \in Nat /\ Len(body) <= e /\ e <= Len(text)
      /\ \A i \in 1..Len(body) : text[i] = body[i]
      /\ Block(text, "read", read, Len(body) + 1, e)
  BY DEF Parts
<1>2. ASSUME NEW i \in 1..Len(text), NEW j \in 1..Len(text), i < j,
             text[i] = Opening["read"], text[j] = Closing["read"]
      PROVE  e <= j
  <2>1. CASE j <= Len(body)
    <3>1. i \in 1..Len(body) /\ j \in 1..Len(body)
      BY <1>1, <1>2, <2>1
    <3>2. body[i] = Opening["read"] /\ body[j] = Closing["read"]
      BY <1>1, <1>2, <3>1
    <3> QED  BY <1>2, <3>1, <3>2 DEF NoBlock
  <2>2. CASE j = Len(body) + 1
    <3>1. text[j] = Opening["read"]
      BY <1>1, <2>2 DEF Block
    <3> QED  BY <1>2, <3>1 DEF Opening, Closing
  <2>3. CASE Len(body) + 1 < j /\ j < e
    <3>1. j \in ((Len(body) + 1) + 1)..(e - 1)
      BY <1>1, <2>3
    <3>2. <<text[j]>> \in read
      BY <1>1, <3>1 DEF Block
    <3> QED  BY <1>2, <3>2 DEF Closing
  <2> QED  BY <1>1, <2>1, <2>2, <2>3
<1>3. "read" \in Kinds
  BY DEF Kinds
<1> QED  BY <1>1, <1>2, <1>3, BlockFound

(* The files modified are found again, unless a tag that is left before    *)
(* them pairs up with one that the list of files read has for a name.      *)
LEMMA FindsModified ==
  ASSUME NEW text, NEW body \in Seq(Lines), NEW e,
         NEW read \in SUBSET OneLine, NEW modified \in SUBSET OneLine,
         Parts(text, body, e, read, modified), NoBlock(body, "modified"),
         <<Closing.modified>> \notin modified,
         \/ \A i \in 1..Len(body) : body[i] # Opening["modified"]
         \/ <<Closing.modified>> \notin read
  PROVE  modified \subseteq ParseTagBlock(text, "modified")
<1> SUFFICES ASSUME modified # {}
             PROVE  modified \subseteq ParseTagBlock(text, "modified")
  OBVIOUS
<1>1. /\ text \in Seq(Lines) /\ Len(text) \in Nat /\ Len(body) \in Nat
      /\ e \in Nat /\ Len(body) <= e /\ e <= Len(text)
      /\ \A i \in 1..Len(body) : text[i] = body[i]
      /\ IF read = {} THEN e = Len(body)
         ELSE Block(text, "read", read, Len(body) + 1, e)
      /\ Block(text, "modified", modified, e + 1, Len(text))
  BY DEF Parts
<1>2. ASSUME NEW i \in 1..Len(text), NEW j \in 1..Len(text), i < j,
             text[i] = Opening["modified"], text[j] = Closing["modified"]
      PROVE  Len(text) <= j
  <2>1. CASE j <= Len(body)
    <3>1. i \in 1..Len(body) /\ j \in 1..Len(body)
      BY <1>1, <1>2, <2>1
    <3>2. body[i] = Opening["modified"] /\ body[j] = Closing["modified"]
      BY <1>1, <1>2, <3>1
    <3> QED  BY <1>2, <3>1, <3>2 DEF NoBlock
  <2>2. CASE Len(body) < j /\ j <= e
    <3>1. Block(text, "read", read, Len(body) + 1, e)
      BY <1>1, <2>2
    <3>2. text[Len(body) + 1] = Opening["read"] /\ text[e] = Closing["read"]
      BY <3>1 DEF Block
    <3>3. j # Len(body) + 1 /\ j # e
      BY <1>2, <3>2 DEF Opening, Closing
    <3>4. j \in ((Len(body) + 1) + 1)..(e - 1)
      BY <1>1, <2>2, <3>3
    <3>5. <<text[j]>> \in read
      BY <3>1, <3>4 DEF Block
    <3>6. <<Closing.modified>> \in read
      BY <1>2, <3>5 DEF Closing
    <3>7. CASE i <= Len(body)
      <4>1. i \in 1..Len(body) /\ body[i] = Opening["modified"]
        BY <1>1, <1>2, <3>7
      <4> QED  BY <3>6, <4>1
    <3>8. CASE Len(body) < i
      <4>1. i # Len(body) + 1
        BY <1>2, <3>2 DEF Opening
      <4>2. i \in ((Len(body) + 1) + 1)..(e - 1)
        BY <1>1, <1>2, <3>4, <3>8, <4>1
      <4>3. text[i] = Opening.modified /\ text[j] = Closing.modified
        BY <1>2 DEF Opening, Closing
      <4>4. j < i
        BY <3>1, <3>4, <4>2, <4>3 DEF Block
      <4> QED  BY <1>2, <4>4
    <3> QED  BY <1>1, <3>7, <3>8
  <2>3. CASE j = e + 1
    <3>1. text[j] = Opening["modified"]
      BY <1>1, <2>3 DEF Block
    <3> QED  BY <1>2, <3>1 DEF Opening, Closing
  <2>4. CASE e + 1 < j /\ j < Len(text)
    <3>1. j \in ((e + 1) + 1)..(Len(text) - 1)
      BY <1>1, <2>4
    <3>2. Block(text, "modified", modified, e + 1, Len(text))
      BY <1>1, <2>4
    <3>3. <<text[j]>> \in modified
      BY <3>1, <3>2 DEF Block
    <3>4. text[j] = Closing.modified
      BY <1>2 DEF Closing
    <3>5. <<Closing.modified>> \in modified
      BY <3>3, <3>4
    <3> QED  BY <3>5
  <2>5. Len(text) \in Nat /\ Len(body) \in Nat /\ e \in Nat /\ j \in Nat
    BY <1>1
  <2> QED  BY <2>1, <2>2, <2>3, <2>4, <2>5
<1>3. "modified" \in Kinds
  BY DEF Kinds
<1> QED  BY <1>1, <1>2, <1>3, BlockFound

(* Without other tags exactly the files listed are found.                  *)
LEMMA FindsExactly ==
  ASSUME NEW text, NEW body \in Seq(Lines), NEW e,
         NEW read \in SUBSET OneLine, NEW modified \in SUBSET OneLine,
         Parts(text, body, e, read, modified),
         \A i \in 1..Len(body) : body[i] \notin TagLines,
         \A line \in TagLines : <<line>> \notin read /\ <<line>> \notin modified
  PROVE  /\ ParseTagBlock(text, "read") = read
         /\ ParseTagBlock(text, "modified") = modified
<1>1. /\ text \in Seq(Lines) /\ Len(text) \in Nat /\ Len(body) \in Nat
      /\ e \in Nat /\ Len(body) <= e /\ e <= Len(text)
      /\ \A i \in 1..Len(body) : text[i] = body[i]
      /\ IF read = {} THEN e = Len(body)
         ELSE Block(text, "read", read, Len(body) + 1, e)
      /\ IF modified = {} THEN e = Len(text)
         ELSE Block(text, "modified", modified, e + 1, Len(text))
  BY DEF Parts
<1>2. ASSUME NEW i \in 1..Len(text), text[i] \in TagLines
      PROVE  \/ read # {} /\ i = Len(body) + 1 /\ text[i] = Opening["read"]
             \/ read # {} /\ i = e /\ text[i] = Closing["read"]
             \/ modified # {} /\ i = e + 1 /\ text[i] = Opening["modified"]
             \/ modified # {} /\ i = Len(text) /\ text[i] = Closing["modified"]
  <2>1. CASE i <= Len(body)
    <3>1. i \in 1..Len(body) /\ text[i] = body[i]
      BY <1>1, <2>1
    <3> QED  BY <1>2, <3>1
  <2>2. CASE Len(body) < i /\ i <= e
    <3>1. read # {} /\ Block(text, "read", read, Len(body) + 1, e)
      BY <1>1, <2>2
    <3>2. text[Len(body) + 1] = Opening["read"] /\ text[e] = Closing["read"]
      BY <3>1 DEF Block
    <3>3. ASSUME i # Len(body) + 1, i # e PROVE FALSE
      <4>1. i \in ((Len(body) + 1) + 1)..(e - 1)
        BY <1>1, <2>2, <3>3
      <4>2. <<text[i]>> \in read
        BY <3>1, <4>1 DEF Block
      <4> QED  BY <1>2, <4>2
    <3> QED  BY <3>1, <3>2, <3>3
  <2>3. CASE e < i
    <3>1. modified # {} /\ Block(text, "modified", modified, e + 1, Len(text))
      BY <1>1, <2>3
    <3>2. /\ text[e + 1] = Opening["modified"]
          /\ text[Len(text)] = Closing["modified"]
      BY <3>1 DEF Block
    <3>3. ASSUME i # e + 1, i # Len(text) PROVE FALSE
      <4>1. i \in ((e + 1) + 1)..(Len(text) - 1)
        BY <1>1, <2>3, <3>3
      <4>2. <<text[i]>> \in modified
        BY <3>1, <4>1 DEF Block
      <4> QED  BY <1>2, <4>2
    <3> QED  BY <3>1, <3>2, <3>3
  <2> QED  BY <1>1, <2>1, <2>2, <2>3
<1>3. \A kind \in Kinds : Opening[kind] \in TagLines /\ Closing[kind] \in TagLines
  BY DEF TagLines
<1>4. "read" \in Kinds /\ "modified" \in Kinds
  BY DEF Kinds
<1>5. ASSUME NEW i \in 1..Len(text), text[i] = Opening["read"]
      PROVE  read # {} /\ i = Len(body) + 1
  <2>1. text[i] \in TagLines
    BY <1>3, <1>4, <1>5
  <2> QED  BY <1>2, <1>4, <1>5, <2>1, TagsDiffer
<1>6. ASSUME NEW i \in 1..Len(text), text[i] = Closing["read"]
      PROVE  read # {} /\ i = e
  <2>1. text[i] \in TagLines
    BY <1>3, <1>4, <1>6
  <2> QED  BY <1>2, <1>4, <1>6, <2>1, TagsDiffer
<1>7. ASSUME NEW i \in 1..Len(text), text[i] = Opening["modified"]
      PROVE  modified # {} /\ i = e + 1
  <2>1. text[i] \in TagLines
    BY <1>3, <1>4, <1>7
  <2> QED  BY <1>2, <1>4, <1>7, <2>1, TagsDiffer
<1>8. ASSUME NEW i \in 1..Len(text), text[i] = Closing["modified"]
      PROVE  modified # {} /\ i = Len(text)
  <2>1. text[i] \in TagLines
    BY <1>3, <1>4, <1>8
  <2> QED  BY <1>2, <1>4, <1>8, <2>1, TagsDiffer
<1>9. ParseTagBlock(text, "read") = read
  <2>1. CASE read = {}
    <3>1. Between(text, "read") = {}
      BY <1>1, <1>4, <1>5, <2>1, BetweenNothing
    <3> QED  BY <2>1, <3>1 DEF ParseTagBlock
  <2>2. CASE read # {}
    <3>1. Block(text, "read", read, Len(body) + 1, e)
      BY <1>1, <2>2
    <3>2. \A i, j \in 1..Len(text) :
            i < j /\ text[i] = Opening["read"] /\ text[j] = Closing["read"]
              => e <= j
      BY <1>1, <1>6
    <3>3. \A i \in 1..Len(text) :
            text[i] = Opening["read"] => Len(body) + 1 <= i
      BY <1>1, <1>5
    <3> QED  BY <1>1, <1>4, <3>1, <3>2, <3>3, BlockFound
  <2> QED  BY <2>1, <2>2
<1>10. ParseTagBlock(text, "modified") = modified
  <2>1. CASE modified = {}
    <3>1. Between(text, "modified") = {}
      BY <1>1, <1>4, <1>7, <2>1, BetweenNothing
    <3> QED  BY <2>1, <3>1 DEF ParseTagBlock
  <2>2. CASE modified # {}
    <3>1. Block(text, "modified", modified, e + 1, Len(text))
      BY <1>1, <2>2
    <3>2. \A i, j \in 1..Len(text) :
            i < j /\ text[i] = Opening["modified"]
                  /\ text[j] = Closing["modified"] => Len(text) <= j
      BY <1>1, <1>8
    <3>3. \A i \in 1..Len(text) :
            text[i] = Opening["modified"] => e + 1 <= i
      BY <1>1, <1>7
    <3> QED  BY <1>1, <1>4, <3>1, <3>2, <3>3, BlockFound
  <2> QED  BY <2>1, <2>2
<1> QED  BY <1>9, <1>10

Untagged(text) == \A i \in 1..Len(text) : text[i] \notin TagLines

(* A text without tags, line by line.                                      *)
LEMMA UntaggedMeans ==
  ASSUME NEW text \in Seq(Lines)
  PROVE  Untagged(text) <=> ToSet(text) \cap TagLines = {}
<1>1. DOMAIN text = 1..Len(text)
  OBVIOUS
<1> QED  BY <1>1 DEF Untagged, ToSet

(* What is left of the answers, as the body of a summary.                  *)
BodyOf(body, history, prefix) ==
  /\ body \in Seq(Lines)
  /\ \A lists : Assemble(history, prefix, lists)
       = body \o (Section("read", lists.read)
                    \o Section("modified", lists.modified))
  /\ NoBlock(body, "read") /\ NoBlock(body, "modified")
  /\ Untagged(StripFileTags(history)) => Untagged(body)

(* No block spans the two answers of a split turn when the second one has  *)
(* no tags left.                                                           *)
LEMMA BodyExists ==
  ASSUME NEW history \in Seq(Lines), NEW prefix \in Seq(Lines),
         Untagged(StripFileTags(prefix))
  PROVE  \E body : BodyOf(body, history, prefix)
<1> DEFINE a == StripFileTags(history)
           p == StripFileTags(prefix)
           t == <<Heading>> \o p
           x == IF p = <<>> THEN <<>> ELSE t
           body == a \o x
<1>1. a \in Seq(Lines) /\ NoBlock(a, "read") /\ NoBlock(a, "modified")
  BY StripTags
<1>2. p \in Seq(Lines) /\ Untagged(p)
  BY StripTags
<1> HIDE DEF a, p
<1>3. Heading \in Lines /\ Heading \notin TagLines
  BY FileListsAssumption DEF Lines
<1>4. t \in Seq(Lines) /\ Untagged(t)
  <2>1. /\ t \in Seq(Lines) /\ Len(p) \in Nat /\ Len(t) = Len(p) + 1
        /\ t[1] = Heading
        /\ \A i \in 2..Len(t) : i - 1 \in 1..Len(p) /\ t[i] = p[i - 1]
    BY <1>2, <1>3
  <2> HIDE DEF t
  <2>2. \A i \in 1..Len(t) : i = 1 \/ i \in 2..Len(t)
    BY <2>1
  <2> QED  BY <1>2, <1>3, <2>1, <2>2 DEF Untagged
<1> HIDE DEF t
<1>5. x \in Seq(Lines) /\ Untagged(x)
  <2>1. <<>> \in Seq(Lines) /\ Len(<<>>) = 0
    OBVIOUS
  <2>2. Untagged(<<>>)
    BY <2>1 DEF Untagged
  <2>3. CASE p = <<>>
    BY <2>1, <2>2, <2>3
  <2>4. CASE p # <<>>
    BY <1>4, <2>4
  <2> QED  BY <2>3, <2>4
<1>6. \A lists : Assemble(history, prefix, lists)
        = body \o (Section("read", lists.read)
                     \o Section("modified", lists.modified))
  BY DEF Assemble, FormatFileOperations, a, p, t
<1> HIDE DEF x
<1>7. /\ body \in Seq(Lines) /\ Len(a) \in Nat /\ Len(x) \in Nat
      /\ Len(body) = Len(a) + Len(x)
      /\ \A i \in 1..Len(body) :
           \/ i \in 1..Len(a) /\ body[i] = a[i]
           \/ i - Len(a) \in 1..Len(x) /\ body[i] = x[i - Len(a)]
  BY <1>1, <1>5
<1> HIDE DEF body
<1>8. \A i \in 1..Len(body) :
        \/ i \in 1..Len(a) /\ body[i] = a[i]
        \/ i > Len(a) /\ body[i] \notin TagLines
  <2> SUFFICES ASSUME NEW i \in 1..Len(body)
               PROVE  \/ i \in 1..Len(a) /\ body[i] = a[i]
                      \/ i > Len(a) /\ body[i] \notin TagLines
    OBVIOUS
  <2>1. CASE i \in 1..Len(a) /\ body[i] = a[i]
    BY <2>1
  <2>2. CASE i - Len(a) \in 1..Len(x) /\ body[i] = x[i - Len(a)]
    <3>1. i > Len(a)
      BY <1>7, <2>2
    <3>2. body[i] \notin TagLines
      BY <1>5, <2>2 DEF Untagged
    <3> QED  BY <3>1, <3>2
  <2> QED  BY <1>7, <2>1, <2>2
<1>9. Untagged(a) => Untagged(body)
  BY <1>8 DEF Untagged
<1>10. ASSUME NEW kind \in Kinds, NoBlock(a, kind)
       PROVE  NoBlock(body, kind)
  <2> SUFFICES ASSUME NEW i \in 1..Len(body), NEW j \in 1..Len(body), i < j,
                      body[i] = Opening[kind], body[j] = Closing[kind]
               PROVE  FALSE
    BY DEF NoBlock
  <2>1. Opening[kind] \in TagLines /\ Closing[kind] \in TagLines
    BY DEF TagLines
  <2>2. i \in 1..Len(a) /\ body[i] = a[i] /\ j \in 1..Len(a) /\ body[j] = a[j]
    BY <1>8, <2>1
  <2>3. a[i] = Opening[kind] /\ a[j] = Closing[kind]
    BY <2>2
  <2> QED  BY <1>10, <2>2, <2>3 DEF NoBlock
<1>11. NoBlock(body, "read") /\ NoBlock(body, "modified")
  BY <1>1, <1>10 DEF Kinds
<1>12. BodyOf(body, history, prefix)
  BY <1>6, <1>7, <1>9, <1>11 DEF BodyOf, a
<1> QED  BY <1>12

-----------------------------------------------------------------------------

(* What is read back are names of one line, and no name is the tag that    *)
(* ends its list.                                                          *)
LEMMA NamesRead ==
  ASSUME NEW text \in Seq(Lines), NEW kind \in Kinds
  PROVE  /\ ParseTagBlock(text, kind) \subseteq OneLine
         /\ <<Closing[kind]>> \notin ParseTagBlock(text, kind)
<1>1. /\ Between(text, kind) \subseteq Lines
      /\ Closing[kind] \notin Between(text, kind)
  BY BetweenLines
<1>2. \A f \in ParseTagBlock(text, kind) :
        \E line \in Between(text, kind) \ {Blank} : f = <<line>>
  BY DEF ParseTagBlock
<1>3. ASSUME NEW f \in ParseTagBlock(text, kind)
      PROVE  f \in OneLine /\ f # <<Closing[kind]>>
  <2>1. PICK line \in Between(text, kind) \ {Blank} : f = <<line>>
    BY <1>2
  <2>2. line \in Lines \ {Blank} /\ line # Closing[kind]
    BY <1>1, <2>1
  <2>3. f # <<Closing[kind]>>
    BY <2>1, <2>2
  <2> QED  BY <2>1, <2>2, <2>3 DEF OneLine
<1> QED  BY <1>3

Operations == [path : Paths, kind : Kinds]

(* The files of some operations are files the agent has touched.           *)
LEMMA FilesTouched ==
  ASSUME NEW operations \in Seq(Operations), NEW n \in 0..Len(operations),
         NEW current, current = ComputeFileLists(SubSeq(operations, 1, n))
  PROVE  /\ DOMAIN current = Kinds
         /\ \A kind \in Kinds : \A f \in current[kind] :
              \E i \in 1..n : f = operations[i].path
         /\ \A kind \in Kinds : current[kind] \subseteq Paths
<1> DEFINE first == SubSeq(operations, 1, n)
<1>1. /\ Len(operations) \in Nat /\ n \in Nat
      /\ \A i \in 1..n : i \in 1..Len(operations)
      /\ \A i \in 1..Len(operations) : operations[i] \in Operations
      /\ first \in Seq(Operations) /\ Len(first) = n
      /\ \A i \in 1..n : first[i] = operations[i]
  OBVIOUS
<1>2. DOMAIN first = 1..n
  BY <1>1
<1>3. current = ComputeFileLists(first)
  OBVIOUS
<1> HIDE DEF first
<1>4. ToSet(first) = {operations[i] : i \in 1..n}
  BY <1>1, <1>2 DEF ToSet
<1>5. DOMAIN current = Kinds
  BY <1>3 DEF ComputeFileLists, Kinds
<1>6. ASSUME NEW kind \in Kinds, NEW f \in current[kind]
      PROVE  \E i \in 1..n : f = operations[i].path
  <2> DEFINE of(k) == {t.path : t \in {o \in ToSet(first) : o.kind = k}}
  <2>1. \E o \in ToSet(first) : f = o.path
    <3>1. current = [read |-> of("read") \ of("modified"),
                     modified |-> of("modified")]
      BY <1>3 DEF ComputeFileLists
    <3>2. \A k : \A g \in of(k) : \E o \in ToSet(first) : g = o.path
      OBVIOUS
    <3> HIDE DEF of
    <3>3. f \in of("read") \/ f \in of("modified")
      BY <1>6, <3>1 DEF Kinds
    <3> QED  BY <3>2, <3>3
  <2>2. PICK o \in ToSet(first) : f = o.path
    BY <2>1
  <2>3. PICK i \in 1..n : o = operations[i]
    BY <1>4
  <2> QED  BY <2>2, <2>3
<1>7. ASSUME NEW kind \in Kinds, NEW f \in current[kind]
      PROVE  f \in Paths
  <2>1. PICK i \in 1..n : f = operations[i].path
    BY <1>6, <1>7
  <2> QED  BY <1>1, <2>1 DEF Operations
<1> QED  BY <1>5, <1>6, <1>7

(* No path has a tag for one of its lines.                                 *)
LEMMA PathsNameNoTag ==
  ASSUME NEW line, <<line>> \in Paths
  PROVE  line \notin TagLines \cup {Blank} /\ <<line>> \in OneLine
<1>1. DOMAIN <<line>> = {1} /\ <<line>>[1] = line
  OBVIOUS
<1>2. line \in ToSet(<<line>>)
  BY <1>1 DEF ToSet
<1>3. line \notin TagLines \cup {Blank}
  BY <1>2, FileListsAssumption
<1>4. line \in Lines
  BY <1>2 DEF Lines
<1> QED  BY <1>3, <1>4 DEF OneLine

-----------------------------------------------------------------------------
(* The invariant *)

(* What is planned is what was listed and what was touched since.          *)
LEMMA PlannedNames ==
  ASSUME TypeOK, NEW n \in 0..Len(touches), NEW lists, lists = Planned(n)
  PROVE  LET current == ComputeFileLists(SubSeq(touches, 1, n)) IN
         /\ lists.read = (Listed["read"] \cup current["read"])
                           \ (Listed["modified"] \cup current["modified"])
         /\ lists.modified = Listed["modified"] \cup current["modified"]
         /\ <<Closing.read>> \notin lists.read
         /\ <<Closing.modified>> \notin lists.modified
         /\ current["read"] \cup current["modified"] \subseteq Paths
<1> DEFINE current == ComputeFileLists(SubSeq(touches, 1, n))
<1>1. /\ lists.read = (Listed["read"] \cup current["read"])
                        \ (Listed["modified"] \cup current["modified"])
      /\ lists.modified = Listed["modified"] \cup current["modified"]
  BY DEF Planned, MergeFileLists, Listed
<1>2. \A kind \in Kinds : current[kind] \subseteq Paths
  BY FilesTouched DEF TypeOK, Operations
<1> HIDE DEF current
<1>3. "read" \in Kinds /\ "modified" \in Kinds
  BY DEF Kinds
<1>4. ASSUME NEW kind \in Kinds
      PROVE  <<Closing[kind]>> \notin Listed[kind] \cup current[kind]
  <2>1. <<Closing[kind]>> \notin Listed[kind]
    BY NamesRead DEF TypeOK, Listed, ParseFileLists
  <2>2. Closing[kind] \in TagLines
    BY DEF TagLines
  <2>3. <<Closing[kind]>> \notin Paths
    BY <2>2, PathsNameNoTag
  <2> QED  BY <1>2, <2>1, <2>3
<1>5. Closing["read"] = Closing.read /\ Closing["modified"] = Closing.modified
  BY DEF Closing
<1>6. /\ <<Closing.read>> \notin lists.read
      /\ <<Closing.modified>> \notin lists.modified
  BY <1>1, <1>3, <1>4, <1>5
<1>7. current["read"] \cup current["modified"] \subseteq Paths
  BY <1>2, <1>3
<1> QED  BY <1>1, <1>6, <1>7 DEF current

(* What takes the place of an answer is a text too.                        *)
LEMMA HistoriesAreTexts ==
  ASSUME TypeOK
  PROVE  /\ HistoryTexts \subseteq Seq(Lines)
         /\ Answers \cup {<<>>} \subseteq Seq(Lines)
<1>1. Answers \subseteq Seq(Lines)
  BY FileListsAssumption
<1>2. Prose \in Lines
  BY DEF Lines
<1>3. NoPriorHistory \in Seq(Lines) /\ <<>> \in Seq(Lines)
  BY <1>2 DEF NoPriorHistory
<1> QED  BY <1>1, <1>3 DEF HistoryTexts, TypeOK

(* A summary that was verified names files of one line only, and is made   *)
(* of lines.                                                               *)
LEMMA VerifiedNames ==
  ASSUME NEW text \in Seq(Lines), NEW lists, Verified(text, lists)
  PROVE  lists.read \in SUBSET OneLine /\ lists.modified \in SUBSET OneLine
<1>1. "read" \in Kinds /\ "modified" \in Kinds
  BY DEF Kinds
<1>2. /\ lists.read \subseteq ParseTagBlock(text, "read")
      /\ lists.modified \subseteq ParseTagBlock(text, "modified")
  BY <1>1 DEF Verified, ParseFileLists
<1> QED  BY <1>1, <1>2, NamesRead

(* The text of a summary is one whatever it lists: the lists are written   *)
(* in the order of names.                                                  *)
LEMMA SectionIsText ==
  ASSUME NEW kind \in Kinds, NEW files
  PROVE  Section(kind, files) \in Seq(Lines)
<1> DEFINE ss == [i \in DOMAIN NameOrder |->
                    IF NameOrder[i] \in files THEN NameOrder[i] ELSE <<>>]
<1>1. NameOrder \in Seq(Seq(Lines))
  BY FileListsAssumption
<1>2. ss \in Seq(Seq(Lines))
  <2>1. <<>> \in Seq(Lines)
    OBVIOUS
  <2>2. \A i \in DOMAIN NameOrder :
          (IF NameOrder[i] \in files THEN NameOrder[i] ELSE <<>>) \in Seq(Lines)
    BY <1>1, <2>1
  <2>3. Len(NameOrder) \in Nat /\ DOMAIN NameOrder = 1..Len(NameOrder)
    BY <1>1
  <2> QED  BY <2>2, <2>3
<1>3. Len(ss) \in Nat
  BY <1>2
<1> HIDE DEF ss
<1>4. FlattenSeq(ss) \in Seq(Lines)
  BY <1>2, <1>3, FlattenPlaces
<1>5. Opening[kind] \in Lines /\ Closing[kind] \in Lines
  BY DEF Lines, TagLines, Kinds
<1>6. (<<Opening[kind]>> \o FlattenSeq(ss)) \o <<Closing[kind]>> \in Seq(Lines)
  BY <1>4, <1>5
<1>7. <<>> \in Seq(Lines)
  OBVIOUS
<1> QED  BY <1>6, <1>7 DEF Section, ss

(* Stripping and assembling yield texts.                                   *)
LEMMA StripIsText ==
  ASSUME NEW text \in Seq(Lines)
  PROVE  StripFileTags(text) \in Seq(Lines)
BY StripTags

LEMMA AssembleIsText ==
  ASSUME NEW history \in Seq(Lines), NEW prefix \in Seq(Lines), NEW lists
  PROVE  Assemble(history, prefix, lists) \in Seq(Lines)
<1>1. StripFileTags(history) \in Seq(Lines) /\ StripFileTags(prefix) \in Seq(Lines)
  BY StripIsText
<1>2. Heading \in Lines
  BY DEF Lines
<1>3. FormatFileOperations(lists) \in Seq(Lines)
  BY SectionIsText DEF FormatFileOperations, Kinds
<1> DEFINE p == StripFileTags(prefix)
           x == IF p = <<>> THEN <<>> ELSE <<Heading>> \o p
<1>4. x \in Seq(Lines)
  BY <1>1, <1>2
<1>5. Assemble(history, prefix, lists)
        = (StripFileTags(history) \o x) \o FormatFileOperations(lists)
  BY DEF Assemble
<1> HIDE DEF x, p
<1> QED  BY <1>1, <1>3, <1>4, <1>5

(* As long as texts are tidy no file that was seen has the name of a tag.  *)
SeenNamesNoTag ==
  tidy => \A kind \in Kinds : \A line \in TagLines : <<line>> \notin seen[kind]

(* The inductive invariant: ListsExact alone says nothing of tags that     *)
(* stand in a list as names, which the next summary would not read back.   *)
ListsInv == TypeOK /\ ListsExact /\ SeenNamesNoTag

(* The operations that are not compacted yet.                              *)
LEMMA RestOf ==
  ASSUME NEW T, NEW s \in Seq(T), NEW n \in 0..Len(s)
  PROVE  SubSeq(s, n + 1, Len(s)) \in Seq(T)
<1>1. Len(s) \in Nat /\ n \in Nat
  OBVIOUS
<1>2. \A i \in (n + 1)..Len(s) : s[i] \in T
  BY <1>1
<1> QED  BY <1>1, <1>2, SubSeqProperties

(* Type correctness is inductive.                                          *)
LEMMA TypesHold ==
  ASSUME TypeOK, [Next]_vars
  PROVE  TypeOK'
<1> USE DEF TypeOK
<1>1. CASE Touch
  <2>1. PICK p \in Paths, k \in Kinds :
          touches' = Append(touches, [path |-> p, kind |-> k])
    BY <1>1 DEF Touch
  <2>2. touches' \in Seq([path : Paths, kind : Kinds])
    BY <2>1
  <2>3. spent' \in [touches : Nat, compactions : Nat]
    BY <1>1 DEF Touch
  <2> QED  BY <1>1, <2>2, <2>3 DEF Touch
<1>2. ASSUME NEW n \in 0..Len(touches)
      PROVE  SubSeq(touches, n + 1, Len(touches)) \in Seq([path : Paths, kind : Kinds])
  BY RestOf
<1>3. ASSUME NEW n \in 0..Len(touches), NEW history \in HistoryTexts,
             NEW prefix \in Answers \cup {<<>>}, Compacts(n, history, prefix)
      PROVE  TypeOK'
  <2>1. summary' \in Seq(Lines)
    BY <1>3, HistoriesAreTexts, AssembleIsText DEF Compacts
  <2>2. spent' \in [touches : Nat, compactions : Nat]
    BY <1>3 DEF Compacts, Counted
  <2>3. \A kind \in Kinds :
          ComputeFileLists(SubSeq(touches, 1, n))[kind] \subseteq Files
    BY FilesTouched DEF Operations, Files
  <2>4. seen' \in [Kinds -> SUBSET Files]
    BY <1>3, <2>3 DEF Compacts, Saw
  <2>5. tidy' \in BOOLEAN
    BY <1>3 DEF Compacts, Tidy
  <2> QED  BY <1>2, <1>3, <2>1, <2>2, <2>4, <2>5 DEF Compacts
<1>4. ASSUME NEW n \in 0..Len(touches), CoreCompacts(n)
      PROVE  TypeOK'
  <2>1. summary' \in Seq(Lines)
    BY <1>4, FileListsAssumption DEF CoreCompacts
  <2>2. spent' \in [touches : Nat, compactions : Nat]
    BY <1>4 DEF CoreCompacts, Counted
  <2>3. OneLine \subseteq Files
    BY DEF OneLine, Files
  <2>4. seen' \in [Kinds -> SUBSET Files]
    BY <1>4, <2>1, <2>3, NamesRead DEF CoreCompacts, ParseFileLists
  <2>5. tidy' \in BOOLEAN
    BY <1>4 DEF CoreCompacts, Tidy, TidyLists
  <2> QED  BY <1>2, <1>4, <2>1, <2>2, <2>4, <2>5 DEF CoreCompacts
<1>5. CASE UNCHANGED vars
  BY <1>5 DEF vars
<1> QED  BY <1>1, <1>3, <1>4, <1>5 DEF Next

(* A tidy summary of the extension is read back as it was planned.         *)
LEMMA CompactsExactly ==
  ASSUME ListsInv, NEW n \in 0..Len(touches), NEW history \in HistoryTexts,
         NEW prefix \in Answers \cup {<<>>}, Compacts(n, history, prefix),
         tidy'
  PROVE  ListsExact' /\ SeenNamesNoTag'
<1> DEFINE current == ComputeFileLists(SubSeq(touches, 1, n))
           lists == Planned(n)
<1>1. tidy /\ Tidy(history) /\ Tidy(prefix)
  BY DEF Compacts
<1>2. /\ summary' = Assemble(history, prefix, lists)
      /\ Verified(summary', lists) /\ seen' = Saw(current)
  BY DEF Compacts
<1>3. history \in Seq(Lines) /\ prefix \in Seq(Lines) /\ TypeOK
  BY HistoriesAreTexts DEF ListsInv
<1>4. /\ lists.read = (Listed["read"] \cup current["read"])
                        \ (Listed["modified"] \cup current["modified"])
      /\ lists.modified = Listed["modified"] \cup current["modified"]
      /\ current["read"] \cup current["modified"] \subseteq Paths
  BY <1>3, PlannedNames
<1> HIDE DEF current, lists
<1>5. /\ Untagged(StripFileTags(history)) /\ Untagged(StripFileTags(prefix))
  BY <1>1, <1>3, StripIsText, UntaggedMeans DEF Tidy
<1>6. PICK body : BodyOf(body, history, prefix)
  BY <1>3, <1>5, BodyExists
<1>7. /\ body \in Seq(Lines) /\ Untagged(body)
      /\ summary' = body \o (Section("read", lists.read)
                               \o Section("modified", lists.modified))
  BY <1>2, <1>5, <1>6 DEF BodyOf
<1>8. lists.read \in SUBSET OneLine /\ lists.modified \in SUBSET OneLine
  BY <1>2, <1>3, AssembleIsText, VerifiedNames
<1>9. /\ Listed["read"] = seen["read"] \ seen["modified"]
      /\ Listed["modified"] = seen["modified"]
  BY <1>1 DEF ListsInv, ListsExact
<1>10. \A line \in TagLines : <<line>> \notin seen["read"]
                              /\ <<line>> \notin seen["modified"]
  BY <1>1 DEF ListsInv, SeenNamesNoTag, Kinds
<1>11. \A line \in TagLines : <<line>> \notin current["read"]
                              /\ <<line>> \notin current["modified"]
  BY <1>4, PathsNameNoTag
<1>12. \A line \in TagLines : <<line>> \notin lists.read
                              /\ <<line>> \notin lists.modified
  BY <1>4, <1>9, <1>10, <1>11
<1>13. PICK e : Parts(summary', body, e, lists.read, lists.modified)
  BY <1>7, <1>8, PartsOfSummary
<1>14. /\ ParseTagBlock(summary', "read") = lists.read
       /\ ParseTagBlock(summary', "modified") = lists.modified
  BY <1>7, <1>8, <1>12, <1>13, FindsExactly DEF Untagged
<1>15. /\ seen'["read"] = seen["read"] \cup current["read"]
       /\ seen'["modified"] = seen["modified"] \cup current["modified"]
  BY <1>2 DEF Saw, Kinds
<1>16. Listed' = [read |-> seen'["read"] \ seen'["modified"],
                  modified |-> seen'["modified"]]
  <2>1. Listed' = [k \in Kinds |-> ParseTagBlock(summary', k)]
    BY DEF Listed, ParseFileLists
  <2>2. Listed' = [read |-> lists.read, modified |-> lists.modified]
    BY <1>14, <2>1 DEF Kinds
  <2>3. /\ lists.read = seen'["read"] \ seen'["modified"]
        /\ lists.modified = seen'["modified"]
    BY <1>4, <1>9, <1>15
  <2> QED  BY <2>2, <2>3
<1>17. SeenNamesNoTag'
  BY <1>10, <1>11, <1>15 DEF SeenNamesNoTag, Kinds
<1> QED  BY <1>16, <1>17 DEF ListsExact

(* No step breaks the invariant.                                           *)
LEMMA ListsInductive ==
  ASSUME ListsInv, [Next]_vars
  PROVE  ListsInv'
<1>1. TypeOK'
  BY TypesHold DEF ListsInv
<1>2. CASE Touch
  BY <1>1, <1>2 DEF ListsInv, Touch, ListsExact, Listed, SeenNamesNoTag
<1>3. ASSUME NEW n \in 0..Len(touches), NEW history \in HistoryTexts,
             NEW prefix \in Answers \cup {<<>>}, Compacts(n, history, prefix)
      PROVE  ListsInv'
  <2>1. CASE tidy'
    BY <1>1, <1>3, <2>1, CompactsExactly DEF ListsInv
  <2>2. CASE ~tidy'
    BY <1>1, <2>2 DEF ListsInv, ListsExact, SeenNamesNoTag
  <2> QED  BY <2>1, <2>2
<1>4. ASSUME NEW n \in 0..Len(touches), CoreCompacts(n)
      PROVE  ListsInv'
  <2>1. CASE tidy'
    <3>1. /\ seen' = ParseFileLists(summary')
          /\ seen'.read \cap seen'.modified = {}
          /\ \A k \in Kinds : \A line \in TagLines : <<line>> \notin seen'[k]
      BY <1>4, <2>1 DEF CoreCompacts, TidyLists
    <3>2. Listed' = seen'
      BY <3>1 DEF Listed
    <3>3. seen' = [read |-> seen'["read"], modified |-> seen'["modified"]]
      BY <3>1 DEF ParseFileLists, Kinds
    <3>4. seen'["read"] = seen'["read"] \ seen'["modified"]
      BY <3>1
    <3>5. ListsExact'
      BY <3>2, <3>3, <3>4 DEF ListsExact
    <3> QED  BY <1>1, <3>1, <3>5 DEF ListsInv, SeenNamesNoTag
  <2>2. CASE ~tidy'
    BY <1>1, <2>2 DEF ListsInv, ListsExact, SeenNamesNoTag
  <2> QED  BY <2>1, <2>2
<1>5. CASE UNCHANGED vars
  BY <1>1, <1>5 DEF vars, ListsInv, ListsExact, Listed, SeenNamesNoTag
<1> QED  BY <1>2, <1>3, <1>4, <1>5 DEF Next

(* The first summary is empty, and nothing was seen.                       *)
LEMMA ListsInitially == Init => ListsInv
<1> SUFFICES ASSUME Init PROVE ListsInv
  OBVIOUS
<1>1. TypeOK
  <2>1. <<>> \in Seq(Lines) /\ <<>> \in Seq([path : Paths, kind : Kinds])
    OBVIOUS
  <2> QED  BY <2>1 DEF Init, TypeOK, NoFiles
<1>2. seen["read"] = {} /\ seen["modified"] = {}
  BY DEF Init, NoFiles, Kinds
<1>3. Listed = [read |-> {}, modified |-> {}]
  <2>1. summary \in Seq(Lines) /\ Len(summary) = 0
    BY DEF Init
  <2>2. \A k \in Kinds : Between(summary, k) = {}
    <3>1. \A k \in Kinds : \A i \in 1..Len(summary) : summary[i] # Opening[k]
      BY <2>1
    <3> QED  BY <2>1, <3>1, BetweenNothing
  <2>3. \A k \in Kinds : ParseTagBlock(summary, k) = {}
    BY <2>2 DEF ParseTagBlock
  <2> QED  BY <2>3 DEF Listed, ParseFileLists, Kinds
<1>4. ListsExact
  BY <1>2, <1>3 DEF ListsExact
<1>5. SeenNamesNoTag
  BY <1>2 DEF SeenNamesNoTag, Kinds
<1> QED  BY <1>1, <1>4, <1>5 DEF ListsInv

(* A summary stays a text and the lists stay sets of names, whatever the   *)
(* model answers and the core leaves behind.                               *)
THEOREM FileListTypes == Spec => []TypeOK
<1>1. Spec => []ListsInv
  BY ListsInitially, ListsInductive, PTL DEF Spec
<1>2. ListsInv => TypeOK
  BY DEF ListsInv
<1> QED  BY <1>1, <1>2, PTL

(* With tags in pairs the lists of a summary are those of the work it      *)
(* stands for, no more and no less: of the answers no tag is left          *)
(* (stripFileTags), so that the first opening tag is the extension's own,  *)
(* and the next closing tag is too (parseTagBlock).                        *)
THEOREM ListsAreExact == Spec => []ListsExact
<1>1. Spec => []ListsInv
  BY ListsInitially, ListsInductive, PTL DEF Spec
<1>2. ListsInv => ListsExact
  BY DEF ListsInv
<1> QED  BY <1>1, <1>2, PTL

(* Of the lists the extension plans to append none is cut short, and none  *)
(* is hidden behind a tag that is left of an answer.                       *)
LEMMA OwnListsFound ==
  ASSUME ListsInv, NEW n \in 0..Len(touches), NEW history \in HistoryTexts,
         NEW prefix \in Answers \cup {<<>>},
         Plain(n), ~Tagged(prefix), tidy \/ ~Tagged(history)
  PROVE  Verified(Assemble(history, prefix, Planned(n)), Planned(n))
<1> DEFINE current == ComputeFileLists(SubSeq(touches, 1, n))
           lists == Planned(n)
           text == Assemble(history, prefix, lists)
<1>1. history \in Seq(Lines) /\ prefix \in Seq(Lines) /\ TypeOK
  BY HistoriesAreTexts DEF ListsInv
<1>2. /\ lists.read = (Listed["read"] \cup current["read"])
                        \ (Listed["modified"] \cup current["modified"])
      /\ lists.modified = Listed["modified"] \cup current["modified"]
      /\ <<Closing.read>> \notin lists.read
      /\ <<Closing.modified>> \notin lists.modified
      /\ current["read"] \cup current["modified"] \subseteq Paths
  BY <1>1, PlannedNames
<1>3. \A f \in current["read"] \cup current["modified"] :
        \E i \in 1..n : f = touches[i].path
  <2>1. \A kind \in Kinds : \A f \in current[kind] :
          \E i \in 1..n : f = touches[i].path
    <3>1. touches \in Seq(Operations)
      BY <1>1 DEF TypeOK, Operations
    <3> QED  BY <3>1, FilesTouched
  <2> HIDE DEF current
  <2> QED  BY <2>1 DEF Kinds
<1> HIDE DEF current, lists
<1>4. current["read"] \cup current["modified"] \subseteq OneLine
  <2> SUFFICES ASSUME NEW f \in current["read"] \cup current["modified"]
               PROVE  f \in OneLine
    OBVIOUS
  <2>1. f \in Paths /\ f \in Seq(Lines)
    BY <1>2, FileListsAssumption
  <2>2. PICK i \in 1..n : f = touches[i].path
    BY <1>3
  <2>3. Len(f) = 1
    BY <2>2 DEF Plain
  <2>4. f = <<f[1]>>
    BY <2>1, <2>3
  <2> QED  BY <2>1, <2>3, <2>4, PathsNameNoTag
<1>5. Listed["read"] \subseteq OneLine /\ Listed["modified"] \subseteq OneLine
  BY <1>1, NamesRead DEF TypeOK, Listed, ParseFileLists, Kinds
<1>6. lists.read \in SUBSET OneLine /\ lists.modified \in SUBSET OneLine
  BY <1>2, <1>4, <1>5
<1>7. Untagged(prefix)
  BY <1>1, UntaggedMeans DEF Tagged
<1>8. ASSUME NEW answer \in Seq(Lines), Untagged(answer)
      PROVE  Untagged(StripFileTags(answer))
  BY <1>8, StripTags DEF Untagged
<1>9. PICK body : BodyOf(body, history, prefix)
  BY <1>1, <1>7, <1>8, BodyExists
<1>10. /\ body \in Seq(Lines)
       /\ NoBlock(body, "read") /\ NoBlock(body, "modified")
       /\ text = body \o (Section("read", lists.read)
                            \o Section("modified", lists.modified))
  BY <1>9 DEF BodyOf
<1> HIDE DEF text
<1>11. PICK e : Parts(text, body, e, lists.read, lists.modified)
  BY <1>6, <1>10, PartsOfSummary
<1>12. lists.read \subseteq ParseTagBlock(text, "read")
  BY <1>2, <1>6, <1>10, <1>11, FindsRead
<1>13. \/ \A i \in 1..Len(body) : body[i] # Opening["modified"]
       \/ <<Closing.modified>> \notin lists.read
  <2>1. CASE ~Tagged(history)
    <3>1. Untagged(history)
      BY <1>1, <2>1, UntaggedMeans DEF Tagged
    <3>2. Untagged(body)
      BY <1>1, <1>8, <1>9, <3>1 DEF BodyOf
    <3> QED  BY <3>2, TagsDiffer DEF Untagged
  <2>2. CASE tidy
    <3>1. Closing.modified \in TagLines
      BY TagsDiffer DEF Closing
    <3>2. <<Closing.modified>> \notin seen["read"]
      BY <2>2, <3>1 DEF ListsInv, SeenNamesNoTag, Kinds
    <3>3. <<Closing.modified>> \notin Listed["read"]
      BY <2>2, <3>2 DEF ListsInv, ListsExact
    <3>4. <<Closing.modified>> \notin current["read"]
      BY <1>2, <3>1, PathsNameNoTag
    <3> QED  BY <1>2, <3>3, <3>4
  <2> QED  BY <2>1, <2>2
<1>14. lists.modified \subseteq ParseTagBlock(text, "modified")
  BY <1>2, <1>6, <1>10, <1>11, <1>13, FindsModified
<1>15. Verified(text, lists)
  BY <1>12, <1>14 DEF Verified, ParseFileLists, Kinds
<1> QED  BY <1>15 DEF text, lists

(* In every reachable state a summary of any answer passes the check of    *)
(* its files (verifyCompactionSummary), given names of one line and a      *)
(* prefix without tags; the history may have any as long as tags have      *)
(* paired up.                                                              *)
THEOREM OwnListsAreVerified == Spec => []OwnListsVerified
<1>1. Spec => []ListsInv
  BY ListsInitially, ListsInductive, PTL DEF Spec
<1>2. ListsInv => OwnListsVerified
  BY OwnListsFound DEF OwnListsVerified
<1> QED  BY <1>1, <1>2, PTL
=============================================================================
