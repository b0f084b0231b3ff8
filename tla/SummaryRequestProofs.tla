------------------------ MODULE SummaryRequestProofs ------------------------
(***************************************************************************)
(* Theorems about the budgets of the prompts, for every window, reserve,   *)
(* model limit, length of the conversation and of the previous summary,    *)
(* and about the noise filter, for every conversation.                     *)
(***************************************************************************)
EXTENDS SummaryRequest, Induction, SequenceTheorems, TLAPS

(* A text within its limit is left alone.                                  *)
LEMMA Uncut ==
  ASSUME NEW chars \in Nat, NEW max \in Int,
         max <= 0 \/ EstimateTokens(chars) <= max
  PROVE  Truncate(chars, max) = [head |-> chars, tail |-> 0, marker |-> 0]
BY DEF Truncate

(* One that is not takes as much as its limit allows, marker included, of  *)
(* which about two thirds come from its end.                               *)
LEMMA Cut ==
  ASSUME NEW chars \in Nat, NEW max \in Int, max >= 128,
         EstimateTokens(chars) > max
  PROVE  LET cut == Truncate(chars, max) IN
         /\ cut.head \in Nat /\ cut.tail \in Nat /\ cut.marker = MarkerChars
         /\ cut.head + MarkerChars + cut.tail = 4 * max
         /\ 100 * cut.head <= 35 * (4 * max - MarkerChars)
         /\ 35 * (4 * max - MarkerChars) < 100 * cut.head + 100
         /\ 4 * max < chars
<1> DEFINE room == max * TokenToCharRatio - MarkerChars
           head == (35 * room) \div 100
<1>1. MarkerChars \in 107..120
  BY RequestAssumption
<1>2. room \in Nat /\ room > 0 /\ room = 4 * max - MarkerChars
  BY <1>1 DEF TokenToCharRatio
<1>3. Truncate(chars, max)
        = [head |-> head, tail |-> room - head, marker |-> MarkerChars]
  BY <1>2 DEF Truncate, EstimateTokens
<1>4. 4 * max < chars
  BY DEF EstimateTokens
<1> HIDE DEF room
<1>5. /\ head \in Nat /\ 100 * head <= 35 * room
      /\ 35 * room < 100 * head + 100
  BY <1>2
<1> HIDE DEF head
<1>6. head <= room
  BY <1>2, <1>5
<1>7. QED
  BY <1>1, <1>2, <1>3, <1>4, <1>5, <1>6

LEMMA CutSize ==
  ASSUME NEW chars \in Nat, NEW max \in Int, max >= 128
  PROVE  EstimateTokens(Chars(Truncate(chars, max))) <= max
<1>1. CASE EstimateTokens(chars) <= max
  BY <1>1, Uncut DEF Chars
<1>2. CASE ~(EstimateTokens(chars) <= max)
  <2>1. EstimateTokens(chars) > max
    BY <1>2 DEF EstimateTokens
  <2>2. Chars(Truncate(chars, max)) = 4 * max
    BY <2>1, Cut, RequestAssumption DEF Chars
  <2>3. QED
    BY <2>2 DEF EstimateTokens
<1>3. QED
  BY <1>1, <1>2

(* The length of a truncated text is a number, whatever the limit.         *)
LEMMA CutLength ==
  ASSUME NEW chars \in Nat, NEW max \in Int
  PROVE  Chars(Truncate(chars, max)) \in Nat
<1> DEFINE room == max * TokenToCharRatio - MarkerChars
           head == (35 * room) \div 100
<1>1. MarkerChars \in 107..120
  BY RequestAssumption
<1>2. room \in Int
  BY <1>1 DEF TokenToCharRatio
<1>3. CASE max <= 0 \/ EstimateTokens(chars) <= max
  BY <1>3, Uncut DEF Chars
<1>4. CASE ~(max <= 0 \/ EstimateTokens(chars) <= max)
  <2>1. CASE room <= 0
    BY <1>1, <1>4, <2>1 DEF Truncate, Chars
  <2>2. CASE room > 0
    <3> HIDE DEF room
    <3>1. head \in Nat /\ head <= room
      BY <1>2, <2>2
    <3> USE DEF room
    <3> HIDE DEF head
    <3>2. Truncate(chars, max)
            = [head |-> head, tail |-> room - head, marker |-> MarkerChars]
      BY <1>2, <1>4, <2>2 DEF Truncate, head
    <3> HIDE DEF room
    <3>3. QED
      BY <1>1, <1>2, <3>1, <3>2 DEF Chars
  <2>3. QED
    BY <1>2, <2>1, <2>2
<1>5. QED
  BY <1>3, <1>4

-----------------------------------------------------------------------------
(* The limits of the answers and of the prompts.                           *)

LEMMA OutputLimits ==
  ASSUME NEW s \in Setting
  PROVE  SummaryMaxTokens(s) \in Nat /\ TurnPrefixMaxTokens(s) \in Nat
<1>1. s.reserveTokens \in Nat /\ s.modelMaxTokens \in Nat
  BY DEF Setting
<1>2. /\ (55 * s.reserveTokens) \div 100 \in Nat
      /\ (80 * s.reserveTokens) \div 100 \in Nat
      /\ s.reserveTokens \div 2 \in Nat
  BY <1>1
<1>3. QED
  BY <1>1, <1>2 DEF SummaryMaxTokens, TurnPrefixMaxTokens, AtMostModelMax,
                    AtMost

LEMMA PromptLimits ==
  ASSUME NEW s \in Setting, NEW output \in Nat,
         PromptMaxTokens(s, output) # NoLimit
  PROVE  LET max == PromptMaxTokens(s, output) IN
         /\ max \in Nat /\ max >= 512
         /\ s.modelContextWindow >= MinSerializedMessageTokens + output
                                      + SummaryPromptSafetyTokens
            => max + output + SummaryPromptSafetyTokens
                 = s.modelContextWindow
<1>1. s.modelContextWindow \in Nat
  BY DEF Setting
<1>2. QED
  BY <1>1 DEF PromptMaxTokens, AtLeast, NoLimit, MinSerializedMessageTokens,
              SummaryPromptSafetyTokens

LEMMA BudgetLimits ==
  ASSUME NEW s \in Setting
  PROVE  /\ SummaryBudget(s) \in Nat /\ TurnPrefixBudget(s) \in Nat
         /\ SummaryBudget(s) # NoLimit => SummaryBudget(s) >= 512
         /\ TurnPrefixBudget(s) # NoLimit => TurnPrefixBudget(s) >= 512
BY OutputLimits, PromptLimits DEF SummaryBudget, TurnPrefixBudget, NoLimit

-----------------------------------------------------------------------------
(* The parts of the prompts.                                               *)

LEMMA Shares ==
  ASSUME NEW s \in Setting, NEW max \in Nat
  PROVE  LET budgets == VariableBudgets(s, max) IN
         budgets.messages \in Nat /\ budgets.previous \in Nat
<1>1. /\ s.fixedPromptText \in Nat /\ s.previousSummary \in Nat
  BY DEF Setting
<1>2. /\ EstimateTokens(s.fixedPromptText) \in Nat
      /\ EstimateTokens(s.previousSummary) \in Nat
  BY <1>1 DEF EstimateTokens
<1> DEFINE fixed == EstimateTokens(s.fixedPromptText)
           summary == EstimateTokens(s.previousSummary)
           quarter == (max - fixed) \div 4
<1>3. fixed \in Nat /\ summary \in Nat
  BY <1>2
<1> HIDE DEF fixed, summary
<1>4. quarter \in Int /\ (max - fixed > 512 => quarter \in Nat)
  BY <1>3
<1> HIDE DEF quarter
<1>5. /\ AtLeast(0, max - fixed) \in Nat
      /\ max - fixed > 512 => AtMost(quarter, summary) \in Nat
      /\ max - fixed > 512
           => AtLeast(MinSerializedMessageTokens,
                      max - fixed - AtMost(quarter, summary)) \in Nat
  BY <1>3, <1>4 DEF AtLeast, AtMost, MinSerializedMessageTokens
<1>6. NoLimit \in Nat
  BY DEF NoLimit
<1>7. Roomy(s, max) => max - fixed > 512
  BY DEF Roomy, fixed, MinSerializedMessageTokens
<1>8. QED
  BY <1>5, <1>6, <1>7 DEF VariableBudgets, fixed, summary, quarter

LEMMA PromptLengths ==
  ASSUME NEW s \in Setting, NEW chars \in Nat
  PROVE  /\ Summary(s, chars).total \in Nat
         /\ Summary(s, chars).total >= s.fixedPromptText
         /\ TurnPrefix(s, chars).total \in Nat
         /\ TurnPrefix(s, chars).total >= TurnPrefixPromptChars
<1>1. s.escapes \in Nat /\ s.fixedPromptText \in Nat /\ s.previousSummary \in Nat
  BY DEF Setting
<1>2. SummaryBudget(s) \in Nat /\ TurnPrefixBudget(s) \in Nat
  BY BudgetLimits
<1>3. /\ Summary(s, chars).total \in Nat
      /\ Summary(s, chars).total >= s.fixedPromptText
  <2> DEFINE budgets == VariableBudgets(s, SummaryBudget(s))
             messages == Chars(Truncate(chars, budgets.messages))
             previous == Chars(Truncate(s.previousSummary, budgets.previous))
  <2>1. budgets.messages \in Nat /\ budgets.previous \in Nat
    BY <1>2, Shares
  <2>2. messages \in Nat /\ previous \in Nat
    <3>1. budgets.messages \in Int /\ budgets.previous \in Int
      BY <2>1
    <3> HIDE DEF budgets
    <3>2. QED
      BY <1>1, <3>1, CutLength, Zenon
  <2>3. \/ /\ s.previousSummary = 0
           /\ Summary(s, chars).total
                = messages + s.escapes + TagsAround(21) + 0 + SeparatorChars
                    + s.fixedPromptText
        \/ Summary(s, chars).total
                = messages + s.escapes + TagsAround(21)
                    + (previous + TagsAround(16) + SeparatorChars)
                    + SeparatorChars + s.fixedPromptText
    BY DEF Summary, SummaryPrompt
  <2> HIDE DEF messages, previous
  <2>4. QED
    BY <1>1, <2>2, <2>3 DEF TagsAround, SeparatorChars
<1>4. /\ TurnPrefix(s, chars).total \in Nat
      /\ TurnPrefix(s, chars).total >= TurnPrefixPromptChars
  <2> DEFINE max == IF TurnPrefixBudget(s) = NoLimit THEN NoLimit
                    ELSE AtLeast(0, TurnPrefixBudget(s)
                                      - EstimateTokens(TurnPrefixPromptChars))
             messages == Chars(Truncate(chars, max))
  <2>1. max \in Int
    BY <1>2 DEF NoLimit, AtLeast, EstimateTokens, TurnPrefixPromptChars
  <2> HIDE DEF max
  <2>2. messages \in Nat
    BY <2>1, CutLength
  <2>3. TurnPrefix(s, chars).total
          = messages + s.escapes + TagsAround(20) + SeparatorChars
              + TurnPrefixPromptChars
    BY DEF TurnPrefix, TurnPrefixPrompt, max
  <2> HIDE DEF messages
  <2>4. QED
    BY <1>1, <2>2, <2>3 DEF TagsAround, SeparatorChars, TurnPrefixPromptChars
<1>5. QED
  BY <1>3, <1>4

-----------------------------------------------------------------------------
(* Every request fits: what buildSummaryRequest and                        *)
(* buildTurnPrefixSummaryRequest send stays within the budget of the       *)
(* prompt, and with the answer and the safety margin within the window.    *)
THEOREM PromptsFit ==
  ASSUME NEW s \in Setting, NEW chars \in Nat
  PROVE  /\ Fits(s, Summary(s, chars), SummaryBudget(s), SummaryMaxTokens(s))
         /\ Fits(s, TurnPrefix(s, chars), TurnPrefixBudget(s),
                 TurnPrefixMaxTokens(s))
<1>1. ASSUME NEW prompt, NEW output \in Nat,
             prompt.total \in Nat,
             prompt.text = Truncate(prompt.total, PromptMaxTokens(s, output))
      PROVE  Fits(s, prompt, PromptMaxTokens(s, output), output)
  <2> DEFINE budget == PromptMaxTokens(s, output)
             tokens == EstimateTokens(Chars(prompt.text))
  <2> SUFFICES ASSUME budget # NoLimit
               PROVE  Fits(s, prompt, budget, output)
    BY DEF Fits
  <2>1. /\ budget \in Nat /\ budget >= 512
        /\ s.modelContextWindow >= MinSerializedMessageTokens + output
                                      + SummaryPromptSafetyTokens
            => budget + output + SummaryPromptSafetyTokens
                 = s.modelContextWindow
    BY <1>1, PromptLimits
  <2> HIDE DEF budget
  <2>2. tokens <= budget
    BY <1>1, <2>1, CutSize DEF budget
  <2>3. tokens \in Nat
    <3>1. budget \in Int
      BY <2>1
    <3>2. Chars(prompt.text) \in Nat
      BY <1>1, <3>1, CutLength, Zenon DEF budget
    <3>3. QED
      BY <3>2 DEF EstimateTokens
  <2> HIDE DEF tokens
  <2>4. budget + output + SummaryPromptSafetyTokens = s.modelContextWindow
          => tokens + output + SummaryPromptSafetyTokens
               <= s.modelContextWindow
    BY <1>1, <2>1, <2>2, <2>3 DEF SummaryPromptSafetyTokens
  <2>5. QED
    BY <2>1, <2>2, <2>4 DEF Fits, tokens
<1>2. /\ Summary(s, chars).text
            = Truncate(Summary(s, chars).total, SummaryBudget(s))
      /\ TurnPrefix(s, chars).text
            = Truncate(TurnPrefix(s, chars).total, TurnPrefixBudget(s))
  BY DEF Summary, SummaryPrompt, TurnPrefix, TurnPrefixPrompt
<1>3. QED
  BY <1>1, <1>2, OutputLimits, PromptLengths
  DEF SummaryBudget, TurnPrefixBudget

-----------------------------------------------------------------------------
(* What a cut leaves of the parts of a text.                               *)

(* A part that lies, with all that follows it, in the end a cut keeps.     *)
InKeptEnd(total, max, from, to) ==
  /\ total \in Nat /\ max \in Nat /\ from \in Nat /\ to \in Nat
  /\ from <= to /\ to <= total
  /\ \/ max = 0
     \/ /\ max >= 512
        /\ 100 * (total - from) <= 65 * (4 * max - 120)

LEMMA TailSurvives ==
  \A total, max, from, to :
    InKeptEnd(total, max, from, to)
      => Survivors(Truncate(total, max), total, from, to) = to - from
<1> SUFFICES ASSUME NEW total \in Nat, NEW max \in Nat, NEW from \in Nat,
                    NEW to \in Nat, from <= to, to <= total,
                    \/ max = 0
                    \/ /\ max >= 512
                       /\ 100 * (total - from) <= 65 * (4 * max - 120),
                    NEW cut, cut = Truncate(total, max)
             PROVE  Survivors(cut, total, from, to) = to - from
  BY DEF InKeptEnd
<1>1. CASE max = 0 \/ EstimateTokens(total) <= max
  <2>1. cut = [head |-> total, tail |-> 0, marker |-> 0]
    BY <1>1, Uncut
  <2>2. QED
    BY <2>1 DEF Survivors, AtLeast, AtMost
<1>2. CASE ~(max = 0 \/ EstimateTokens(total) <= max)
  <2>1. max >= 128 /\ EstimateTokens(total) > max
    BY <1>2 DEF EstimateTokens
  <2>2. /\ cut.head \in Nat /\ cut.tail \in Nat
        /\ cut.head + MarkerChars + cut.tail = 4 * max
        /\ 100 * cut.head <= 35 * (4 * max - MarkerChars)
        /\ 4 * max < total
    BY <2>1, Cut
  <2>3. MarkerChars \in Nat /\ MarkerChars <= 120
    BY RequestAssumption
  <2>4. 65 * (4 * max - 120) <= 100 * cut.tail
    BY <2>2, <2>3
  <2>5. total - from <= cut.tail
    BY <1>2, <2>2, <2>4
  <2>6. cut.head <= total - cut.tail /\ total - cut.tail <= from
    BY <2>2, <2>3, <2>5
  <2>7. QED
    BY <2>2, <2>6 DEF Survivors, AtLeast, AtMost
<1>3. QED
  BY <1>1, <1>2

(* What the gap between two places takes out of a part.                    *)
Overlap(first, last, from, to) ==
  AtLeast(0, AtMost(last, to) - AtLeast(from, first))

LEMMA SurvivorsOutsideGap ==
  ASSUME NEW first \in Nat, NEW last \in Nat, first <= last,
         NEW from \in Nat, NEW to \in Nat, from <= to
  PROVE  AtLeast(0, AtMost(first, to) - from)
           + AtLeast(0, to - AtLeast(from, AtLeast(first, last)))
             = (to - from) - Overlap(first, last, from, to)
<1>1. AtLeast(first, last) = last
  BY DEF AtLeast
<1>2. CASE to <= first
  BY <1>1, <1>2 DEF Overlap, AtLeast, AtMost
<1>3. CASE first < to /\ to <= last
  BY <1>1, <1>3 DEF Overlap, AtLeast, AtMost
<1>4. CASE last < to
  BY <1>1, <1>4 DEF Overlap, AtLeast, AtMost
<1>5. QED
  BY <1>2, <1>3, <1>4

LEMMA OverlapsBounded ==
  ASSUME NEW first \in Nat, NEW last \in Nat, first <= last,
         NEW a \in Nat, NEW b \in Nat, NEW c \in Nat, NEW d \in Nat,
         a <= b, b <= c, c <= d
  PROVE  /\ Overlap(first, last, a, b) \in Nat
         /\ Overlap(first, last, c, d) \in Nat
         /\ Overlap(first, last, a, b) + Overlap(first, last, c, d)
              <= last - first
BY DEF Overlap, AtLeast, AtMost

(* Two parts together lose no more than the cut takes out.                 *)
LEMMA GapTakes ==
  ASSUME NEW cut, cut.head \in Nat, cut.tail \in Nat, NEW total \in Nat,
         cut.head + cut.tail <= total,
         NEW a \in Nat, NEW b \in Nat, NEW c \in Nat, NEW d \in Nat,
         a <= b, b <= c, c <= d
  PROVE  LET kept == Survivors(cut, total, a, b) + Survivors(cut, total, c, d)
         IN  /\ kept \in Int
             /\ kept >= (b - a) + (d - c) - (total - cut.head - cut.tail)
<1> DEFINE first == cut.head
           last == total - cut.tail
           one == Overlap(first, last, a, b)
           two == Overlap(first, last, c, d)
<1>1. first \in Nat /\ last \in Nat /\ first <= last
  OBVIOUS
<1>2. /\ Survivors(cut, total, a, b)
           = AtLeast(0, AtMost(first, b) - a)
               + AtLeast(0, b - AtLeast(a, AtLeast(first, last)))
      /\ Survivors(cut, total, c, d)
           = AtLeast(0, AtMost(first, d) - c)
               + AtLeast(0, d - AtLeast(c, AtLeast(first, last)))
  BY DEF Survivors
<1> HIDE DEF first, last
<1>3. /\ Survivors(cut, total, a, b) = (b - a) - one
      /\ Survivors(cut, total, c, d) = (d - c) - two
  BY <1>1, <1>2, SurvivorsOutsideGap
<1>4. one \in Nat /\ two \in Nat /\ one + two <= last - first
  BY <1>1, OverlapsBounded
<1>5. last - first = total - cut.head - cut.tail
  BY DEF first, last
<1> HIDE DEF one, two
<1>6. QED
  BY <1>1, <1>3, <1>4, <1>5

(* What the previous summary is given, and what it takes.                  *)
LEMMA PreviousShare ==
  ASSUME NEW s \in Setting, NEW max \in Nat, Roomy(s, max)
  PROVE  LET fixed    == EstimateTokens(s.fixedPromptText)
             previous == VariableBudgets(s, max).previous
             cut      == Truncate(s.previousSummary, previous)
         IN /\ fixed \in Nat /\ previous \in Nat /\ max - fixed > 512
            /\ 4 * previous <= max - fixed
            /\ Chars(cut) <= 4 * previous
            /\ VariableBudgets(s, max).messages >= 512
            /\ VariableBudgets(s, max).messages >= max - fixed - previous
<1> DEFINE fixed == EstimateTokens(s.fixedPromptText)
           needed == EstimateTokens(s.previousSummary)
           quarter == (max - fixed) \div 4
           previous == VariableBudgets(s, max).previous
<1>1. s.fixedPromptText \in Nat /\ s.previousSummary \in Nat
  BY DEF Setting
<1>2. /\ fixed \in Nat /\ needed \in Nat /\ max - fixed > 512
      /\ s.previousSummary <= 4 * needed
  BY <1>1 DEF EstimateTokens, Roomy, MinSerializedMessageTokens
<1>3. max # NoLimit
  BY <1>2 DEF NoLimit
<1>4. /\ previous = AtMost(quarter, needed)
      /\ VariableBudgets(s, max).messages
           = AtLeast(MinSerializedMessageTokens, max - fixed - previous)
  BY <1>3 DEF VariableBudgets
<1> HIDE DEF previous, needed, fixed
<1>5. quarter \in Nat /\ quarter >= 128 /\ 4 * quarter <= max - fixed
  BY <1>2
<1> HIDE DEF quarter
<1>6. /\ previous \in Nat /\ 4 * previous <= max - fixed
      /\ previous = needed \/ (previous >= 128 /\ needed > previous)
  BY <1>2, <1>4, <1>5 DEF AtMost
<1>7. Chars(Truncate(s.previousSummary, previous)) <= 4 * previous
  <2>1. CASE previous = needed
    <3>1. Truncate(s.previousSummary, previous)
            = [head |-> s.previousSummary, tail |-> 0, marker |-> 0]
      BY <1>1, <1>2, <2>1, Uncut DEF needed
    <3>2. QED
      BY <1>1, <1>2, <2>1, <3>1 DEF Chars
  <2>2. CASE previous >= 128 /\ needed > previous
    <3>1. /\ previous \in Int
          /\ EstimateTokens(s.previousSummary) > previous
      BY <1>6, <2>2 DEF needed
    <3>2. Chars(Truncate(s.previousSummary, previous)) = 4 * previous
      BY <1>1, <2>2, <3>1, Cut, RequestAssumption DEF Chars
    <3>3. QED
      BY <1>6, <3>2
  <2>3. QED
    BY <1>6, <2>1, <2>2
<1>8. /\ VariableBudgets(s, max).messages >= 512
      /\ VariableBudgets(s, max).messages >= max - fixed - previous
  BY <1>2, <1>4, <1>6 DEF AtLeast, MinSerializedMessageTokens
<1>9. QED
  BY <1>2, <1>6, <1>7, <1>8 DEF previous, fixed

-----------------------------------------------------------------------------
(* Instructions that take at most three fifths of the budget are never     *)
(* cut, and those of a turn prefix never are.                              *)
THEOREM InstructionsAreWhole ==
  ASSUME NEW s \in Setting, NEW chars \in Nat
  PROVE  InstructionsWhole(s, chars)
<1> DEFINE S == Summary(s, chars)
           P == TurnPrefix(s, chars)
<1>1. /\ S.text = Truncate(S.total, SummaryBudget(s))
      /\ S.fixedFrom = S.total - s.fixedPromptText
      /\ P.text = Truncate(P.total, TurnPrefixBudget(s))
      /\ P.fixedFrom = P.total - TurnPrefixPromptChars
  BY DEF Summary, SummaryPrompt, TurnPrefix, TurnPrefixPrompt
<1>2. /\ S.total \in Nat /\ S.total >= s.fixedPromptText
      /\ P.total \in Nat /\ P.total >= TurnPrefixPromptChars
  BY PromptLengths
<1>3. s.fixedPromptText \in Nat
  BY DEF Setting
<1> HIDE DEF S, P
<1>4. /\ SummaryBudget(s) \in Nat /\ TurnPrefixBudget(s) \in Nat
      /\ SummaryBudget(s) = 0 \/ SummaryBudget(s) >= 512
      /\ TurnPrefixBudget(s) = 0 \/ TurnPrefixBudget(s) >= 512
  BY BudgetLimits DEF NoLimit
<1>5. FixedPartWhole(P)
  <2>1. InKeptEnd(P.total, TurnPrefixBudget(s), P.fixedFrom, P.total)
    BY <1>1, <1>2, <1>4 DEF InKeptEnd, TurnPrefixPromptChars
  <2>2. Survivors(Truncate(P.total, TurnPrefixBudget(s)), P.total,
                  P.fixedFrom, P.total) = P.total - P.fixedFrom
    BY <2>1, TailSurvives, Zenon
  <2>3. QED
    BY <1>1, <2>2 DEF FixedPartWhole
<1>6. SummaryBudget(s) = NoLimit
        \/ 5 * s.fixedPromptText <= 3 * TokenToCharRatio * SummaryBudget(s)
        => FixedPartWhole(S)
  <2> SUFFICES ASSUME
        SummaryBudget(s) # 0 => 5 * s.fixedPromptText <= 12 * SummaryBudget(s)
      PROVE FixedPartWhole(S)
    BY <1>3, <1>4 DEF NoLimit, TokenToCharRatio
  <2>1. InKeptEnd(S.total, SummaryBudget(s), S.fixedFrom, S.total)
    BY <1>1, <1>2, <1>3, <1>4 DEF InKeptEnd
  <2>2. Survivors(Truncate(S.total, SummaryBudget(s)), S.total,
                  S.fixedFrom, S.total) = S.total - S.fixedFrom
    BY <2>1, TailSurvives, Zenon
  <2>3. QED
    BY <1>1, <2>2 DEF FixedPartWhole
<1>7. QED
  BY <1>5, <1>6 DEF InstructionsWhole, S, P

(* The parts of the summary's prompt, as lengths: the messages, what       *)
(* follows them in their block, the previous summary with its tags, and    *)
(* the instructions.                                                       *)
LEMMA Parts ==
  ASSUME NEW s \in Setting, NEW chars \in Nat, Roomy(s, SummaryBudget(s))
  PROVE  LET prompt   == Summary(s, chars)
             messages == Chars(prompt.messages)
             budgets  == VariableBudgets(s, SummaryBudget(s))
         IN /\ prompt.messages = Truncate(chars, budgets.messages)
            /\ messages \in Nat
            /\ prompt.previousFrom = messages + s.escapes + 49
            /\ prompt.previousTo \in Nat
            /\ prompt.previousFrom <= prompt.previousTo
            /\ prompt.previousTo <= prompt.previousFrom
                                      + 4 * budgets.previous + 41
            /\ prompt.total = prompt.previousTo + 2 + s.fixedPromptText
            /\ prompt.text = Truncate(prompt.total, SummaryBudget(s))
<1> DEFINE budgets == VariableBudgets(s, SummaryBudget(s))
           messages == Chars(Truncate(chars, budgets.messages))
           cut == Chars(Truncate(s.previousSummary, budgets.previous))
           previous == IF s.previousSummary = 0 THEN 0
                       ELSE cut + TagsAround(16) + SeparatorChars
           prompt == Summary(s, chars)
<1>1. s.escapes \in Nat /\ s.fixedPromptText \in Nat /\ s.previousSummary \in Nat
  BY DEF Setting
<1>2. SummaryBudget(s) \in Nat
  BY BudgetLimits
<1>3. budgets.messages \in Nat /\ budgets.previous \in Nat
  BY <1>2, Shares
<1>4. cut <= 4 * budgets.previous
  BY <1>2, PreviousShare
<1>5. /\ prompt.messages = Truncate(chars, budgets.messages)
      /\ prompt.previousFrom = messages + s.escapes + TagsAround(21)
      /\ prompt.previousTo = messages + s.escapes + TagsAround(21) + previous
      /\ prompt.total = messages + s.escapes + TagsAround(21) + previous
                          + SeparatorChars + s.fixedPromptText
      /\ prompt.text = Truncate(prompt.total, SummaryBudget(s))
  BY DEF Summary, SummaryPrompt
<1> HIDE DEF prompt, budgets
<1>6. budgets.messages \in Int /\ budgets.previous \in Int
  BY <1>3
<1>7. messages \in Nat /\ cut \in Nat
  BY <1>1, <1>6, CutLength, Zenon
<1>8. Chars(prompt.messages) = messages
  BY <1>5
<1> HIDE DEF messages, cut
<1>9. previous \in Nat /\ previous <= 4 * budgets.previous + 41
  BY <1>3, <1>4, <1>7 DEF TagsAround, SeparatorChars
<1> HIDE DEF previous
<1>10. TagsAround(21) = 49 /\ SeparatorChars = 2
  BY DEF TagsAround, SeparatorChars
<1>11. QED
  BY <1>1, <1>3, <1>5, <1>7, <1>8, <1>9, <1>10 DEF prompt, budgets

(* Instructions that take at most two fifths of the budget leave the       *)
(* previous summary what it was given.                                     *)
THEOREM PreviousSummaryIsKept ==
  ASSUME NEW s \in Setting, NEW chars \in Nat
  PROVE  PreviousSummaryKept(s, chars)
<1> DEFINE max == SummaryBudget(s)
           S == Summary(s, chars)
           previous == VariableBudgets(s, max).previous
           fixed == EstimateTokens(s.fixedPromptText)
<1> SUFFICES ASSUME Roomy(s, max),
               5 * s.fixedPromptText <= 2 * TokenToCharRatio * max
             PROVE  Survivors(S.text, S.total, S.previousFrom, S.previousTo)
                      = S.previousTo - S.previousFrom
  BY DEF PreviousSummaryKept
<1>1. max \in Nat /\ (max = 0 \/ max >= 512)
  BY BudgetLimits DEF NoLimit
<1>2. s.fixedPromptText \in Nat /\ s.escapes \in Nat
  BY DEF Setting
<1>3. /\ Chars(S.messages) \in Nat
      /\ S.previousFrom = Chars(S.messages) + s.escapes + 49
      /\ S.previousTo \in Nat /\ S.previousFrom <= S.previousTo
      /\ S.previousTo <= S.previousFrom + 4 * previous + 41
      /\ S.total = S.previousTo + 2 + s.fixedPromptText
      /\ S.text = Truncate(S.total, max)
  BY Parts
<1>4. fixed \in Nat /\ previous \in Nat /\ 4 * previous <= max - fixed
  BY <1>1, PreviousShare
<1>5. s.fixedPromptText <= 4 * fixed
  BY <1>2 DEF EstimateTokens
<1>6. 5 * s.fixedPromptText <= 8 * max /\ max >= 512
  BY <1>1, PreviousShare DEF TokenToCharRatio
<1> HIDE DEF max, S, previous, fixed
<1>7. /\ S.previousFrom \in Nat /\ S.total \in Nat
      /\ S.previousTo <= S.total
  BY <1>2, <1>3
<1>8. S.total - S.previousFrom
        <= max - fixed + 43 + s.fixedPromptText
  BY <1>1, <1>2, <1>3, <1>4, <1>7
<1>9. 100 * (S.total - S.previousFrom) <= 65 * (4 * max - 120)
  BY <1>1, <1>2, <1>4, <1>5, <1>6, <1>7, <1>8
<1>10. InKeptEnd(S.total, max, S.previousFrom, S.previousTo)
  BY <1>1, <1>3, <1>7, <1>9 DEF InKeptEnd
<1>11. Survivors(Truncate(S.total, max), S.total, S.previousFrom, S.previousTo)
         = S.previousTo - S.previousFrom
  BY <1>10, TailSurvives, Zenon
<1>12. QED
  BY <1>3, <1>11

(* However long the previous summary, at least half of the room that the   *)
(* instructions leave goes to the messages.                                *)
THEOREM MessagesGetHalf ==
  ASSUME NEW s \in Setting, NEW chars \in Nat
  PROVE  MessagesKeepHalf(s, chars)
<1> DEFINE max == SummaryBudget(s)
           S == Summary(s, chars)
           cut == S.messages
           previous == VariableBudgets(s, max).previous
           given == VariableBudgets(s, max).messages
           fixed == EstimateTokens(s.fixedPromptText)
           kept == Survivors(S.text, S.total, 24, 24 + cut.head)
                     + Survivors(S.text, S.total, 24 + cut.head + cut.marker,
                                 24 + Chars(cut))
<1> SUFFICES ASSUME Roomy(s, max), s.escapes <= 100
             PROVE  kept >= AtMost(2 * (max - fixed), chars)
  <2>1. TagsAround(21) \div 2 = 24
    BY DEF TagsAround
  <2>2. QED
    BY <2>1 DEF MessagesKeepHalf
<1>1. max \in Nat
  BY BudgetLimits
<1>2. s.fixedPromptText \in Nat /\ s.escapes \in Nat
  BY DEF Setting
<1>3. MarkerChars \in Nat /\ MarkerChars <= 120
  BY RequestAssumption
<1>4. /\ fixed \in Nat /\ previous \in Nat /\ max - fixed > 512
      /\ 4 * previous <= max - fixed
      /\ given \in Nat /\ given >= 512 /\ given >= max - fixed - previous
  BY <1>1, PreviousShare, Shares
<1>5. s.fixedPromptText <= 4 * fixed
  BY <1>2 DEF EstimateTokens
<1>6. /\ cut = Truncate(chars, given)
      /\ Chars(cut) \in Nat
      /\ S.previousFrom = Chars(cut) + s.escapes + 49
      /\ S.previousTo \in Nat /\ S.previousFrom <= S.previousTo
      /\ S.previousTo <= S.previousFrom + 4 * previous + 41
      /\ S.total = S.previousTo + 2 + s.fixedPromptText
      /\ S.text = Truncate(S.total, max)
  BY Parts
<1> HIDE DEF max, fixed, previous, given
(* The messages before the last cut.                                       *)
<1>7. /\ cut.head \in Nat /\ cut.tail \in Nat /\ cut.marker \in Nat
      /\ cut.marker <= 120
      /\ Chars(cut) = cut.head + cut.marker + cut.tail
      /\ \/ cut.head + cut.tail = chars /\ cut.marker = 0
         \/ Chars(cut) = 4 * given
  <2>1. Chars(cut) = cut.head + cut.marker + cut.tail
    BY DEF Chars
  <2>2. CASE EstimateTokens(chars) <= given
    <3>1. cut = [head |-> chars, tail |-> 0, marker |-> 0]
      BY <1>4, <1>6, <2>2, Uncut
    <3>2. QED
      BY <2>1, <3>1
  <2>3. CASE ~(EstimateTokens(chars) <= given)
    <3>1. given \in Int /\ given >= 128 /\ EstimateTokens(chars) > given
      BY <1>4, <2>3 DEF EstimateTokens
    <3>2. /\ cut.head \in Nat /\ cut.tail \in Nat /\ cut.marker = MarkerChars
          /\ cut.head + MarkerChars + cut.tail = 4 * given
      BY <1>6, <3>1, Cut
    <3>3. QED
      BY <1>3, <2>1, <3>2
  <2>4. QED
    BY <2>2, <2>3
(* What the last cut takes out.                                            *)
<1>8. /\ S.total \in Nat
      /\ S.total <= Chars(cut) + s.escapes + 92 + 4 * previous + 4 * fixed
      /\ 24 + Chars(cut) <= S.total
  BY <1>2, <1>4, <1>5, <1>6
<1>9. /\ S.text.head \in Nat /\ S.text.tail \in Nat
      /\ \/ S.text.head + S.text.tail = S.total
         \/ /\ S.text.head + MarkerChars + S.text.tail = 4 * max
            /\ 4 * max < S.total
  <2>1. max \in Int /\ max >= 128
    BY <1>1, <1>4
  <2>2. CASE EstimateTokens(S.total) <= max
    <3>1. S.text = [head |-> S.total, tail |-> 0, marker |-> 0]
      BY <1>6, <1>8, <2>1, <2>2, Uncut
    <3>2. QED
      BY <1>8, <3>1
  <2>3. CASE ~(EstimateTokens(S.total) <= max)
    <3>1. EstimateTokens(S.total) > max
      BY <1>8, <2>1, <2>3 DEF EstimateTokens
    <3>2. QED
      BY <1>6, <1>8, <2>1, <3>1, Cut
  <2>4. QED
    BY <2>2, <2>3
<1> DEFINE lost == S.total - S.text.head - S.text.tail
<1>10. kept \in Int /\ kept >= cut.head + cut.tail - lost
  <2> DEFINE b == 24 + cut.head
             c == 24 + cut.head + cut.marker
             d == 24 + Chars(cut)
  <2>1. /\ 24 \in Nat /\ b \in Nat /\ c \in Nat /\ d \in Nat
        /\ 24 <= b /\ b <= c /\ c <= d /\ d <= S.total
        /\ b - 24 = cut.head /\ d - c = cut.tail
    BY <1>7, <1>8
  <2>2. S.text.head + S.text.tail <= S.total
    BY <1>3, <1>8, <1>9, <1>1
  <2>3. kept = Survivors(S.text, S.total, 24, b)
                 + Survivors(S.text, S.total, c, d)
    OBVIOUS
  <2> HIDE DEF b, c, d, kept
  <2>4. LET sum == Survivors(S.text, S.total, 24, b)
                     + Survivors(S.text, S.total, c, d)
        IN  sum \in Int /\ sum >= (b - 24) + (d - c) - lost
    BY <1>8, <1>9, <2>1, <2>2, GapTakes
  <2>5. QED
    BY <2>1, <2>3, <2>4
<1>11. lost = 0 \/ lost <= Chars(cut) + 312 + 4 * previous - 4 * (max - fixed)
  BY <1>1, <1>2, <1>3, <1>4, <1>8, <1>9, <1>7
<1>12. lost \in Int
  BY <1>8, <1>9
<1> HIDE DEF lost, kept, S
<1>13. cut.head + cut.tail - lost >= chars
         \/ cut.head + cut.tail - lost >= 2 * (max - fixed)
  BY <1>1, <1>4, <1>7, <1>11, <1>12
<1>14. QED
  BY <1>1, <1>4, <1>7, <1>10, <1>12, <1>13 DEF AtMost


-----------------------------------------------------------------------------
(* What a pass of the noise filter keeps *)

(* The lines of a text, those the filter writes included.                  *)
AllKinds   == InputKinds \cup {"note", "placeholder"}
AnyLine    == [kind : AllKinds, omitted : Int]
InputLines == {Line(kind) : kind \in InputKinds}

(* What each line stands for, and the lines that are prose.                *)
Stands     == [line \in AnyLine |-> StandsFor(line)]
ProseLines == {line \in AnyLine : line.kind \in {"text", "header"}}

(* What stands for itself, and what a line the filter writes stands for.   *)
LEMMA LinesStand ==
  /\ Stands \in [AnyLine -> Int]
  /\ \A line \in AnyLine :
       line.kind \notin {"note", "placeholder"} => Stands[line] = 1
  /\ \A n \in Int : /\ Note(n) \in AnyLine /\ Stands[Note(n)] = n
                    /\ Note(n) \notin ProseLines
  /\ /\ Line("placeholder") \in AnyLine /\ Stands[Line("placeholder")] = 0
     /\ Line("placeholder") \notin ProseLines
  /\ InputLines \subseteq AnyLine
  /\ \A line \in InputLines : line.kind \in InputKinds /\ Stands[line] = 1
<1>1. \A line \in AnyLine : line.kind \in AllKinds /\ line.omitted \in Int
  BY DEF AnyLine
<1>2. \A line \in AnyLine : /\ StandsFor(line) \in Int
                            /\ line.kind \notin {"note", "placeholder"}
                                 => StandsFor(line) = 1
  BY <1>1 DEF StandsFor
<1>3. \A n \in Int : Note(n) \in AnyLine /\ StandsFor(Note(n)) = n
                     /\ Note(n).kind = "note"
  BY DEF Note, AnyLine, AllKinds, StandsFor
<1>4. Line("placeholder") \in AnyLine /\ StandsFor(Line("placeholder")) = 0
      /\ Line("placeholder").kind = "placeholder"
  BY DEF Line, AnyLine, AllKinds, StandsFor
<1>5. \A line \in InputLines :
        line \in AnyLine /\ line.kind \in InputKinds
        /\ line.kind \notin {"note", "placeholder"}
  BY DEF InputLines, Line, AnyLine, AllKinds, InputKinds
<1> QED  BY <1>2, <1>3, <1>4, <1>5 DEF Stands, ProseLines

(* The count of LinesAccounted is a total of weights.                      *)
LEMMA StoodForIsTotal ==
  ASSUME NEW lines \in Seq(AnyLine)
  PROVE  LinesStoodFor(lines) = Total(lines, Stands)
<1> DEFINE N == Len(lines)
           x == Weights(lines, Stands)
           Upto(t) == t = [i \in 0..N |->
                             IF i = 0 THEN 0 ELSE t[i - 1] + StandsFor(lines[i])]
<1>1. N \in Nat /\ \A i \in 1..N : lines[i] \in AnyLine
  OBVIOUS
<1>2. x \in [1..N -> Int] /\ \A i \in 1..N : x[i] = StandsFor(lines[i])
  <2>1. \A i \in 1..N : /\ Stands[lines[i]] \in Int
                        /\ Stands[lines[i]] = StandsFor(lines[i])
    BY <1>1, LinesStand DEF Stands
  <2> QED  BY <2>1 DEF Weights
<1> HIDE DEF x
<1>3. \A t : Upto(t) <=> IsSumOf(t, N, x)
  <2> SUFFICES ASSUME NEW t PROVE Upto(t) <=> IsSumOf(t, N, x)
    OBVIOUS
  <2>1. \A i \in 0..N : i = 0 \/ i \in 1..N
    BY <1>1
  <2>2. \A i \in 0..N : (IF i = 0 THEN 0 ELSE t[i - 1] + StandsFor(lines[i]))
                          = (IF i = 0 THEN 0 ELSE t[i - 1] + x[i])
    BY <1>2, <2>1
  <2>3. [i \in 0..N |-> IF i = 0 THEN 0 ELSE t[i - 1] + StandsFor(lines[i])]
          = [i \in 0..N |-> IF i = 0 THEN 0 ELSE t[i - 1] + x[i]]
    BY <2>2
  <2> QED  BY <2>3 DEF IsSumOf
<1>4. LinesStoodFor(lines) = (CHOOSE t : Upto(t))[N]
  BY DEF LinesStoodFor
<1> HIDE DEF Upto
<1>5. \E t : Upto(t)
  BY <1>1, <1>2, <1>3, SumExists
<1>6. Upto(CHOOSE t : Upto(t))
  BY <1>5
<1>7. PICK f : Upto(f) /\ LinesStoodFor(lines) = f[N]
  BY <1>4, <1>6
<1>8. Sums(f, N, x)
  BY <1>1, <1>2, <1>3, <1>7, SumsOfIntegers
<1>9. PICK g : Sums(g, N, x) /\ Total(lines, Stands) = g[N]
  BY LinesStand, TotalIsSum DEF x
<1>10. f[N] = g[N]
  BY <1>1, <1>8, <1>9, SumsEqual, N \in 0..N
<1> QED  BY <1>7, <1>9, <1>10

(* The prose of a text as a choice.                                        *)
LEMMA ProseIsChosen ==
  ASSUME NEW lines \in Seq(AnyLine)
  PROVE  Prose(lines) = Chosen(lines, ProseLines)
<1>1. \A i \in DOMAIN lines :
        (lines[i].kind \in {"text", "header"}) <=> lines[i] \in ProseLines
  BY DEF ProseLines
<1>2. [i \in DOMAIN lines |->
         IF lines[i].kind \in {"text", "header"} THEN <<lines[i]>> ELSE <<>>]
        = [i \in DOMAIN lines |->
             IF lines[i] \in ProseLines THEN <<lines[i]>> ELSE <<>>]
  BY <1>1
<1> QED  BY <1>2 DEF Prose, Those, Chosen

(* What a pass of the filter must keep.                                    *)
Keeps(lines, condensed) ==
  /\ condensed \in Seq(AnyLine)
  /\ Total(condensed, Stands) = Total(lines, Stands)
  /\ Chosen(condensed, ProseLines) = Chosen(lines, ProseLines)

(* What may replace line i where runs holds the lines that continue a run: *)
(* nothing, the line itself, or what stands for the run it begins.         *)
Replaces(s, lines, runs, i) ==
  \/ i \in runs /\ s = <<>> /\ lines[i] \notin ProseLines
  \/ i \notin runs /\ i + 1 \notin runs /\ s = <<lines[i]>>
  \/ /\ i \notin runs
     /\ \E e : /\ Ends(runs, Len(lines), i, e)
               /\ Total(s, Stands) = (e - i) + 1
               /\ \A k \in i..e : Stands[lines[k]] = 1
     /\ Chosen(s, ProseLines) = Chosen(<<lines[i]>>, ProseLines)

(* A pass that replaces every line so keeps both measures of the text.     *)
LEMMA PassKeeps ==
  ASSUME NEW lines \in Seq(AnyLine), NEW runs, 1 \notin runs,
         NEW ss \in Seq(Seq(AnyLine)), Len(ss) = Len(lines),
         \A i \in 1..Len(lines) : Replaces(ss[i], lines, runs, i)
  PROVE  Keeps(lines, FlattenSeq(ss))
<1> DEFINE N == Len(lines)
           x == [i \in 1..N |-> Total(ss[i], Stands)]
           y == Weights(lines, Stands)
           tt == Singles(lines, ProseLines)
<1>1. /\ N \in Nat
      /\ \A i \in 1..N : lines[i] \in AnyLine /\ ss[i] \in Seq(AnyLine)
  OBVIOUS
<1>2. Stands \in [AnyLine -> Int]
  BY LinesStand
<1>3. FlattenSeq(ss) \in Seq(AnyLine)
  BY FlattenPlaces
<1>4. PICK f : Sums(f, N, x) /\ Total(FlattenSeq(ss), Stands) = f[N]
  BY <1>2, TotalFlatten
<1>5. PICK g : Sums(g, N, y) /\ Total(lines, Stands) = g[N]
  BY <1>2, TotalIsSum
<1>6. \A i \in 1..N : x[i] = Total(ss[i], Stands) /\ y[i] = Stands[lines[i]]
  BY DEF Weights
<1> HIDE DEF x, y
<1>7. Gathers(x, g, runs, N)
  <2> SUFFICES ASSUME NEW i \in 1..N
      PROVE  \/ i \in runs /\ x[i] = 0
             \/ /\ i \notin runs
                /\ \E e : Ends(runs, N, i, e) /\ x[i] = g[e] - g[i - 1]
    BY DEF Gathers
  <2>1. i \in Nat /\ 1 <= i /\ i <= N /\ i - 1 \in 0..N /\ i \in 0..N
    BY <1>1
  <2>2. CASE i \in runs /\ ss[i] = <<>>
    <3>1. Total(ss[i], Stands) = 0
      BY <1>1, <1>2, <2>2, TotalShort
    <3> QED  BY <1>6, <2>2, <3>1
  <2>3. CASE i \notin runs /\ i + 1 \notin runs /\ ss[i] = <<lines[i]>>
    <3>1. Ends(runs, N, i, i)
      BY <2>1, <2>3 DEF Ends
    <3>2. x[i] = y[i]
      <4>1. Total(ss[i], Stands) = Stands[lines[i]]
        BY <1>1, <1>2, <2>3, TotalShort
      <4> QED  BY <1>6, <4>1
    <3>3. g[i] = g[i - 1] + y[i] /\ g[i - 1] \in Int /\ y[i] \in Int
      BY <1>5, <2>1 DEF Sums
    <3>4. g[i] - g[i - 1] = y[i]
      BY <3>3
    <3> QED  BY <2>3, <3>1, <3>2, <3>4
  <2>4. CASE /\ i \notin runs
             /\ \E e : /\ Ends(runs, N, i, e)
                       /\ Total(ss[i], Stands) = (e - i) + 1
                       /\ \A k \in i..e : Stands[lines[k]] = 1
    <3>1. PICK e : /\ Ends(runs, N, i, e)
                   /\ Total(ss[i], Stands) = (e - i) + 1
                   /\ \A k \in i..e : Stands[lines[k]] = 1
      BY <2>4
    <3>2. e \in i..N
      BY <3>1 DEF Ends
    <3>3. /\ e \in (i - 1)..N /\ (i - 1) + 1 = i
          /\ \A k \in ((i - 1) + 1)..e : k \in i..e /\ k \in 1..N
      BY <2>1, <3>2
    <3>4. \A k \in ((i - 1) + 1)..e : y[k] = 1
      <4>1. \A k \in 1..N : y[k] = Stands[lines[k]]
        BY <1>6
      <4> QED  BY <3>1, <3>3, <4>1
    <3>5. g[e] - g[i - 1] = e - (i - 1)
      BY <1>1, <1>5, <2>1, <3>3, <3>4, SumsCount
    <3>6. e - (i - 1) = (e - i) + 1
      BY <2>1, <3>2
    <3> QED  BY <1>6, <2>4, <3>1, <3>5, <3>6
  <2>5. Replaces(ss[i], lines, runs, i)
    OBVIOUS
  <2> QED  BY <2>2, <2>3, <2>4, <2>5 DEF Replaces
<1>8. f[N] = g[N]
  BY <1>1, <1>4, <1>5, <1>7, RunsAddUp
<1>9. /\ tt \in Seq(Seq(AnyLine)) /\ Len(tt) = N
      /\ Chosen(lines, ProseLines) = FlattenSeq(tt)
  BY ChosenIsJoin
<1>10. ASSUME NEW i \in 1..N
       PROVE  Chosen(ss[i], ProseLines) = tt[i]
  <2>1. tt[i] = IF lines[i] \in ProseLines THEN <<lines[i]>> ELSE <<>>
    BY DEF Singles
  <2>2. <<lines[i]>> \in Seq(AnyLine)
    BY <1>1
  <2>3. Chosen(<<lines[i]>>, ProseLines) = tt[i]
    BY <1>1, <2>1, <2>2, ChosenShort
  <2>4. Replaces(ss[i], lines, runs, i)
    OBVIOUS
  <2>5. ss[i] \in Seq(AnyLine)
    BY <1>1
  <2>6. CASE ss[i] = <<>> /\ lines[i] \notin ProseLines
    BY <2>1, <2>5, <2>6, ChosenShort
  <2>7. CASE ss[i] = <<lines[i]>>
    BY <2>3, <2>7
  <2>8. CASE Chosen(ss[i], ProseLines) = Chosen(<<lines[i]>>, ProseLines)
    BY <2>3, <2>8
  <2> QED  BY <2>4, <2>6, <2>7, <2>8 DEF Replaces
<1> HIDE DEF tt
<1>11. Chosen(FlattenSeq(ss), ProseLines) = FlattenSeq(tt)
  BY <1>9, <1>10, ChosenFlatten
<1> QED  BY <1>3, <1>4, <1>5, <1>8, <1>9, <1>11 DEF Keeps

(* The run of lines in X that begins at place i ends at place e.           *)
RunTo(lines, i, X, e) ==
  /\ e \in (i - 1)..Len(lines)
  /\ \A k \in i..e : lines[k] \in X
  /\ e < Len(lines) => lines[e + 1] \notin X

(* The definition of a run gives such an end.                              *)
LEMMA RunEnds ==
  ASSUME NEW S, NEW lines \in Seq(S), NEW X, NEW i \in 1..(Len(lines) + 1),
         NEW e, e = Max({j \in (i - 1)..Len(lines) :
                           \A k \in i..j : lines[k] \in X})
  PROVE  RunTo(lines, i, X, e)
<1> DEFINE N == Len(lines)
           J == {j \in (i - 1)..N : \A k \in i..j : lines[k] \in X}
<1>1. N \in Nat /\ i \in Nat /\ 1 <= i /\ i <= N + 1
  OBVIOUS
<1>2. i - 1 \in J
  BY <1>1
<1>3. \E m \in J : \A j \in J : j <= m
  <2> DEFINE D == {N - j : j \in J}
  <2>1. D \in SUBSET Nat /\ D # {}
    BY <1>1, <1>2
  <2>2. PICK d \in D : \A c \in D : d <= c
    BY <2>1, LeastElement
  <2>3. PICK m \in J : d = N - m
    BY <2>2
  <2>4. ASSUME NEW j \in J PROVE j <= m
    <3>1. d <= N - j
      BY <2>2, <2>4
    <3>2. j \in Int /\ m \in Int
      BY <1>1
    <3> QED  BY <1>1, <2>3, <3>1, <3>2
  <2> QED  BY <2>3, <2>4
<1>4. e = Max(J)
  OBVIOUS
<1>5. e \in J /\ \A j \in J : j <= e
  <2> HIDE DEF J
  <2> QED  BY <1>3, <1>4 DEF Max
<1>6. e \in (i - 1)..N /\ \A k \in i..e : lines[k] \in X
  BY <1>5
<1>7. ASSUME e < N PROVE lines[e + 1] \notin X
  <2> SUFFICES ASSUME lines[e + 1] \in X PROVE FALSE
    OBVIOUS
  <2>1. e \in Int /\ e + 1 \in (i - 1)..N
    BY <1>1, <1>6, <1>7
  <2>2. \A k \in i..(e + 1) : k \in i..e \/ k = e + 1
    BY <1>1, <2>1
  <2>3. e + 1 \in J
    BY <1>6, <2>1, <2>2
  <2>4. e + 1 <= e
    BY <1>5, <2>3
  <2> QED  BY <2>1, <2>4
<1> QED  BY <1>6, <1>7 DEF RunTo

(* The run as a sequence of its own.                                       *)
LEMMA RunIs ==
  ASSUME NEW S, NEW lines \in Seq(S), NEW X, NEW i \in 1..(Len(lines) + 1),
         NEW e, RunTo(lines, i, X, e), NEW run, run = SubSeq(lines, i, e)
  PROVE  /\ run \in Seq(S) /\ Len(run) = (e - i) + 1
         /\ \A p \in 1..Len(run) : run[p] \in X
<1>1. /\ Len(lines) \in Nat /\ i \in Int /\ e \in Int /\ 1 <= i
      /\ i - 1 <= e /\ e <= Len(lines)
  BY DEF RunTo
<1>2. \A k \in i..e : lines[k] \in S
  BY <1>1
<1>3. /\ run \in Seq(S) /\ Len(run) = IF i <= e THEN e - i + 1 ELSE 0
      /\ \A p \in 1..(e - i + 1) : run[p] = lines[i + p - 1]
  BY <1>1, <1>2, SubSeqProperties
<1>4. Len(run) = (e - i) + 1
  BY <1>1, <1>3
<1>5. ASSUME NEW p \in 1..Len(run) PROVE run[p] \in X
  <2>1. p \in 1..(e - i + 1) /\ i + p - 1 \in i..e
    BY <1>1, <1>4
  <2> QED  BY <1>3, <2>1 DEF RunTo
<1> QED  BY <1>3, <1>4, <1>5

(* Lines that stand for themselves and are no prose.                       *)
Plain(s) ==
  /\ s \in Seq(AnyLine)
  /\ \A p \in 1..Len(s) : Stands[s[p]] = 1 /\ s[p] \notin ProseLines

LEMMA PlainLines ==
  ASSUME NEW s, Plain(s)
  PROVE  /\ s \in Seq(AnyLine) /\ Len(s) \in Nat
         /\ Total(s, Stands) = Len(s) /\ Chosen(s, ProseLines) = <<>>
<1>1. s \in Seq(AnyLine) /\ Stands \in [AnyLine -> Int]
  BY LinesStand DEF Plain
<1>2. Total(s, Stands) = Len(s)
  BY <1>1, TotalCounts DEF Plain
<1>3. Chosen(s, ProseLines) = <<>>
  BY <1>1, ChosenNone DEF Plain
<1> QED  BY <1>1, <1>2, <1>3

(* A part of plain lines is plain.                                         *)
LEMMA PartsOfPlain ==
  ASSUME NEW s, Plain(s), NEW m \in Nat, NEW n \in Int, 1 <= m, n <= Len(s)
  PROVE  Plain(SubSeq(s, m, n))
<1> DEFINE r == SubSeq(s, m, n)
<1>1. s \in Seq(AnyLine) /\ Len(s) \in Nat
  BY DEF Plain
<1>2. \A k \in m..n : k \in 1..Len(s) /\ s[k] \in AnyLine
  BY <1>1
<1>3. /\ r \in Seq(AnyLine) /\ Len(r) = IF m <= n THEN n - m + 1 ELSE 0
      /\ \A p \in 1..(n - m + 1) : r[p] = s[m + p - 1]
  BY <1>2, SubSeqProperties
<1> HIDE DEF r
<1>4. ASSUME NEW p \in 1..Len(r)
      PROVE  Stands[r[p]] = 1 /\ r[p] \notin ProseLines
  <2>1. p \in 1..(n - m + 1) /\ m + p - 1 \in m..n
    BY <1>3
  <2> QED  BY <1>2, <1>3, <2>1 DEF Plain
<1> QED  BY <1>3, <1>4 DEF Plain, r

LEMMA TakenFromPlain ==
  ASSUME NEW s, Plain(s), NEW n \in Nat
  PROVE  /\ Plain(Take(s, n))
         /\ Len(Take(s, n)) = IF n < Len(s) THEN n ELSE Len(s)
<1> DEFINE k == IF n < Len(s) THEN n ELSE Len(s)
<1>1. s \in Seq(AnyLine) /\ Len(s) \in Nat
  BY DEF Plain
<1>2. k \in Nat /\ k <= Len(s)
  BY <1>1
<1>3. Take(s, n) = SubSeq(s, 1, k)
  BY DEF Take
<1> HIDE DEF k
<1>4. Plain(SubSeq(s, 1, k))
  BY <1>2, PartsOfPlain
<1>5. \A j \in 1..k : s[j] \in AnyLine
  BY <1>1, <1>2
<1>6. Len(SubSeq(s, 1, k)) = IF 1 <= k THEN k - 1 + 1 ELSE 0
  BY <1>2, <1>5, SubSeqProperties
<1>7. Len(SubSeq(s, 1, k)) = k
  BY <1>2, <1>6
<1> QED  BY <1>3, <1>4, <1>7 DEF k

(* A note is no prose, and stands for the lines it omits.                  *)
LEMMA NoteStands ==
  ASSUME NEW n \in Int
  PROVE  /\ <<Note(n)>> \in Seq(AnyLine)
         /\ Total(<<Note(n)>>, Stands) = n
         /\ Chosen(<<Note(n)>>, ProseLines) = <<>>
<1>1. Note(n) \in AnyLine /\ Stands[Note(n)] = n /\ Note(n) \notin ProseLines
  BY LinesStand
<1>2. <<Note(n)>> \in Seq(AnyLine) /\ Stands \in [AnyLine -> Int]
  BY <1>1, LinesStand
<1>3. Total(<<Note(n)>>, Stands) = Stands[Note(n)]
  BY <1>1, <1>2, TotalShort
<1>4. Chosen(<<Note(n)>>, ProseLines) = <<>>
  BY <1>1, <1>2, ChosenShort
<1> QED  BY <1>1, <1>2, <1>3, <1>4

(* Both measures of a text, and how they add up.                           *)
Measures(s, total, prose) ==
  /\ s \in Seq(AnyLine) /\ total \in Int /\ prose \in Seq(AnyLine)
  /\ Total(s, Stands) = total /\ Chosen(s, ProseLines) = prose

LEMMA MeasuresAdd ==
  ASSUME NEW a, NEW b, NEW m, NEW n, NEW p, NEW q,
         Measures(a, m, p), Measures(b, n, q)
  PROVE  Measures(a \o b, m + n, p \o q)
<1>1. /\ a \in Seq(AnyLine) /\ b \in Seq(AnyLine) /\ m \in Int /\ n \in Int
      /\ p \in Seq(AnyLine) /\ q \in Seq(AnyLine)
  BY DEF Measures
<1>2. Stands \in [AnyLine -> Int]
  BY LinesStand
<1>3. Total(a \o b, Stands) = Total(a, Stands) + Total(b, Stands)
  BY <1>1, <1>2, TotalConcat
<1>4. Chosen(a \o b, ProseLines) = Chosen(a, ProseLines) \o Chosen(b, ProseLines)
  BY <1>1, ChosenConcat
<1>5. a \o b \in Seq(AnyLine) /\ p \o q \in Seq(AnyLine) /\ m + n \in Int
  BY <1>1
<1> QED  BY <1>3, <1>4, <1>5 DEF Measures

(* The measures of plain lines, of one line and of a note.                 *)
LEMMA PlainMeasures ==
  ASSUME NEW s, Plain(s)
  PROVE  Measures(s, Len(s), <<>>)
<1>1. <<>> \in Seq(AnyLine)
  OBVIOUS
<1> QED  BY <1>1, PlainLines DEF Measures

LEMMA LineMeasures ==
  ASSUME NEW line \in AnyLine, line \notin ProseLines
  PROVE  Measures(<<line>>, Stands[line], <<>>)
<1> DEFINE s == <<line>>
<1>1. s \in Seq(AnyLine) /\ <<>> \in Seq(AnyLine)
  OBVIOUS
<1>2. Stands \in [AnyLine -> Int]
  BY LinesStand
<1>3. Total(s, Stands) = Stands[line]
  BY <1>1, <1>2, TotalShort
<1>4. Chosen(s, ProseLines) = <<>>
  BY <1>1, ChosenShort
<1> HIDE DEF s
<1>5. Measures(s, Stands[line], <<>>)
  BY <1>1, <1>2, <1>3, <1>4 DEF Measures
<1> QED  BY <1>5 DEF s

LEMMA NoteMeasures ==
  ASSUME NEW n \in Int
  PROVE  Measures(<<Note(n)>>, n, <<>>)
<1>1. <<>> \in Seq(AnyLine)
  OBVIOUS
<1> QED  BY <1>1, NoteStands DEF Measures

(* A run that was cut down stands for as many lines as before.             *)
LEMMA CondensedRun ==
  ASSUME NEW run, Plain(run), NEW minRows \in Nat,
         NEW keepHead \in Nat, NEW keepTail \in Nat,
         minRows > keepHead + keepTail
  PROVE  Measures(CondenseRun(run, minRows, keepHead, keepTail),
                  Len(run), <<>>)
<1>1. run \in Seq(AnyLine) /\ Len(run) \in Nat
  BY DEF Plain
<1>2. CASE Len(run) < minRows
  <2>1. CondenseRun(run, minRows, keepHead, keepTail) = run
    BY <1>2 DEF CondenseRun
  <2> QED  BY <2>1, PlainMeasures
<1>3. CASE ~(Len(run) < minRows)
  <2> DEFINE head == Take(run, keepHead)
             note == <<Note(Len(run) - keepHead - keepTail)>>
             tail == SubSeq(run, Len(run) - keepTail + 1, Len(run))
  <2>1. /\ keepHead < Len(run) /\ keepTail < Len(run)
        /\ Len(run) - keepHead - keepTail \in Int
        /\ Len(run) - keepTail + 1 \in Nat /\ 1 <= Len(run) - keepTail + 1
    BY <1>1, <1>3
  <2>2. Plain(head) /\ Len(head) = keepHead
    BY <2>1, TakenFromPlain
  <2>3. Plain(tail)
    BY <1>1, <2>1, PartsOfPlain
  <2>4. Len(tail) = keepTail
    <3>1. \A j \in (Len(run) - keepTail + 1)..Len(run) : run[j] \in AnyLine
      BY <1>1, <2>1
    <3>2. Len(tail) = IF Len(run) - keepTail + 1 <= Len(run)
                      THEN Len(run) - (Len(run) - keepTail + 1) + 1 ELSE 0
      BY <1>1, <2>1, <3>1, SubSeqProperties
    <3> HIDE DEF tail
    <3> QED  BY <1>1, <3>2
  <2>5. CondenseRun(run, minRows, keepHead, keepTail) = (head \o note) \o tail
    BY <1>3 DEF CondenseRun
  <2>6. /\ Measures(head, keepHead, <<>>)
        /\ Measures(note, Len(run) - keepHead - keepTail, <<>>)
        /\ Measures(tail, keepTail, <<>>)
    <3>1. Measures(head, Len(head), <<>>) /\ Measures(tail, Len(tail), <<>>)
      BY <2>2, <2>3, PlainMeasures
    <3>2. Measures(note, Len(run) - keepHead - keepTail, <<>>)
      BY <2>1, NoteMeasures
    <3> HIDE DEF head, tail, note
    <3> QED  BY <2>2, <2>4, <3>1, <3>2
  <2> HIDE DEF head, note, tail
  <2> DEFINE none == <<>>
             middle == Len(run) - keepHead - keepTail
  <2>7. Measures((head \o note) \o tail,
                 (keepHead + middle) + keepTail, (none \o none) \o none)
    BY <2>6, MeasuresAdd
  <2>8. (keepHead + middle) + keepTail = Len(run)
    BY <1>1
  <2>9. (none \o none) \o none = <<>>
    <3>1. <<>> \in Seq(AnyLine)
      OBVIOUS
    <3>2. none \o none = <<>>
      BY <3>1, ConcatEmptySeq
    <3> QED  BY <3>2
  <2> QED  BY <2>5, <2>7, <2>8, <2>9
<1> QED  BY <1>2, <1>3

(* The lines of one kind that follow a line of their kind.                 *)
Continues(lines, X) == {i \in 2..Len(lines) : lines[i] \in X /\ lines[i - 1] \in X}

(* A pass that cuts runs of one kind down keeps what a pass must keep.     *)
LEMMA RunsKeep ==
  ASSUME NEW lines \in Seq(AnyLine), NEW kind \in {"path", "check"},
         NEW minRows \in Nat, NEW keepHead \in Nat, NEW keepTail \in Nat,
         minRows > keepHead + keepTail,
         NEW ss,
         ss = [i \in DOMAIN lines |->
                 IF ~(lines[i].kind = kind) THEN <<lines[i]>>
                 ELSE IF i > 1 /\ lines[i - 1].kind = kind THEN <<>>
                 ELSE CondenseRun(
                        SubSeq(lines, i,
                               Max({j \in (i - 1)..Len(lines) :
                                      \A k \in i..j : lines[k].kind = kind})),
                        minRows, keepHead, keepTail)]
  PROVE  Keeps(lines, FlattenSeq(ss))
<1> DEFINE N == Len(lines)
           X == {line \in AnyLine : line.kind = kind}
           runs == Continues(lines, X)
           end(i) == Max({j \in (i - 1)..Len(lines) :
                                      \A k \in i..j : lines[k].kind = kind})
           run(i) == SubSeq(lines, i, end(i))
<1>1. N \in Nat /\ DOMAIN lines = 1..N /\ \A i \in 1..N : lines[i] \in AnyLine
  OBVIOUS
<1>2. \A i \in 1..N : lines[i].kind = kind <=> lines[i] \in X
  BY <1>1
<1>3. \A line \in X : Stands[line] = 1 /\ line \notin ProseLines
  BY LinesStand DEF ProseLines
<1>4. X \subseteq AnyLine
  OBVIOUS
<1>5. ASSUME NEW i \in 1..N
      PROVE  /\ RunTo(lines, i, X, end(i))
             /\ Plain(run(i)) /\ Len(run(i)) = (end(i) - i) + 1
             /\ Measures(CondenseRun(run(i), minRows, keepHead, keepTail),
                         Len(run(i)), <<>>)
  <2>1. {j \in (i - 1)..Len(lines) : \A k \in i..j : lines[k].kind = kind}
          = {j \in (i - 1)..Len(lines) : \A k \in i..j : lines[k] \in X}
    <3>1. \A j \in (i - 1)..Len(lines) : \A k \in i..j : k \in 1..N
      BY <1>1
    <3> QED  BY <1>2, <3>1
  <2>2. i \in 1..(N + 1)
    BY <1>1
  <2>3. RunTo(lines, i, X, end(i))
    BY <2>1, <2>2, RunEnds
  <2>4. /\ run(i) \in Seq(AnyLine) /\ Len(run(i)) = (end(i) - i) + 1
        /\ \A p \in 1..Len(run(i)) : run(i)[p] \in X
    <3> HIDE DEF end
    <3> QED  BY <2>2, <2>3, RunIs
  <2>5. Plain(run(i))
    BY <1>3, <2>4 DEF Plain
  <2> HIDE DEF run, X
  <2> QED  BY <2>3, <2>4, <2>5, CondensedRun
<1>6. \A i \in 1..N :
        ss[i] = IF ~(lines[i] \in X) THEN <<lines[i]>>
                ELSE IF i > 1 /\ lines[i - 1] \in X THEN <<>>
                ELSE CondenseRun(run(i), minRows, keepHead, keepTail)
  <2>1. \A i \in 1..N :
          ss[i] = IF ~(lines[i].kind = kind) THEN <<lines[i]>>
                  ELSE IF i > 1 /\ lines[i - 1].kind = kind THEN <<>>
                  ELSE CondenseRun(run(i), minRows, keepHead, keepTail)
    BY <1>1
  <2>2. \A i \in 1..N : i > 1 => i - 1 \in 1..N
    BY <1>1
  <2> HIDE DEF run, X
  <2> QED  BY <1>2, <2>1, <2>2
<1>7. \A k : k \in runs <=> k \in 2..N /\ lines[k] \in X /\ lines[k - 1] \in X
  BY DEF Continues
<1>8. DOMAIN ss = 1..N /\ ss = [i \in 1..N |-> ss[i]]
  BY <1>1
<1> HIDE DEF runs, X, run, end
<1>9. ASSUME NEW i \in 1..N
      PROVE  ss[i] \in Seq(AnyLine) /\ Replaces(ss[i], lines, runs, i)
  <2>1. i \in Nat /\ 1 <= i /\ i <= N /\ lines[i] \in AnyLine
        /\ (i + 1) - 1 = i
    BY <1>1
  <2>2. CASE lines[i] \notin X
    <3>1. ss[i] = <<lines[i]>>
      BY <1>6, <2>2
    <3>2. i \notin runs /\ i + 1 \notin runs
      BY <1>7, <2>1, <2>2
    <3>3. <<lines[i]>> \in Seq(AnyLine)
      BY <2>1
    <3> QED  BY <3>1, <3>2, <3>3 DEF Replaces
  <2>3. CASE lines[i] \in X /\ i > 1 /\ lines[i - 1] \in X
    <3>0. <<>> \in Seq(AnyLine)
      OBVIOUS
    <3>1. ss[i] = <<>>
      BY <1>6, <2>3, Zenon
    <3>2. i \in 2..N
      BY <2>1, <2>3
    <3>3. i \in runs /\ lines[i] \notin ProseLines
      BY <1>3, <1>7, <2>3, <3>2
    <3> QED  BY <3>0, <3>1, <3>3 DEF Replaces
  <2>4. CASE lines[i] \in X /\ ~(i > 1 /\ lines[i - 1] \in X)
    <3> DEFINE e == end(i)
    <3>1. ss[i] = CondenseRun(run(i), minRows, keepHead, keepTail)
      BY <1>6, <2>4
    <3>2. /\ RunTo(lines, i, X, e) /\ Len(run(i)) = (e - i) + 1
          /\ Measures(ss[i], Len(run(i)), <<>>)
      BY <1>5, <3>1
    <3> HIDE DEF e
    <3>3. i \notin runs
      BY <1>7, <2>1, <2>4
    <3>4. e \in (i - 1)..N /\ (\A k \in i..e : lines[k] \in X)
          /\ (e < N => lines[e + 1] \notin X)
      BY <3>2 DEF RunTo
    <3>5. e \in i..N
      <4>1. e # i - 1
        <5> SUFFICES ASSUME e = i - 1 PROVE FALSE
          OBVIOUS
        <5>1. e < N /\ e + 1 = i
          BY <2>1
        <5> QED  BY <2>4, <3>4, <5>1
      <4> QED  BY <2>1, <3>4, <4>1
    <3>6. \A k \in (i + 1)..e : k \in runs
      <4>1. \A k \in (i + 1)..e : k \in 2..N /\ k \in i..e /\ k - 1 \in i..e
        BY <2>1, <3>5
      <4> QED  BY <1>7, <3>4, <4>1
    <3>7. e < N => e + 1 \notin runs
      BY <1>7, <3>4
    <3>8. Ends(runs, N, i, e)
      BY <3>5, <3>6, <3>7 DEF Ends
    <3>9. \A k \in i..e : Stands[lines[k]] = 1
      BY <1>3, <3>4
    <3>10. /\ ss[i] \in Seq(AnyLine) /\ Total(ss[i], Stands) = (e - i) + 1
           /\ Chosen(ss[i], ProseLines) = <<>>
      BY <3>2 DEF Measures
    <3>11. Chosen(<<lines[i]>>, ProseLines) = <<>>
      <4>1. <<lines[i]>> \in Seq(AnyLine)
        BY <2>1
      <4>2. lines[i] \notin ProseLines
        BY <1>3, <2>4
      <4> QED  BY <2>1, <4>1, <4>2, ChosenShort
    <3> QED  BY <3>3, <3>8, <3>9, <3>10, <3>11 DEF Replaces
  <2> QED  BY <2>2, <2>3, <2>4
<1>10. ss \in Seq(Seq(AnyLine)) /\ Len(ss) = N
  <2>1. \A i \in 1..N : ss[i] \in Seq(AnyLine)
    BY <1>9
  <2>2. ss \in [1..N -> Seq(AnyLine)]
    BY <1>8, <2>1
  <2> HIDE DEF N
  <2> QED  BY <1>1, <2>2
<1>11. 1 \notin runs
  BY <1>7
<1> QED  BY <1>9, <1>10, <1>11, PassKeeps

(* The second and the third pass.                                          *)
LEMMA PathRunsKeep ==
  ASSUME NEW lines \in Seq(AnyLine)
  PROVE  Keeps(lines, CondenseCountPathRuns(lines))
<1>1. /\ PathMinRows \in Nat /\ PathKeepHeadRows \in Nat
      /\ PathKeepTailRows \in Nat
      /\ PathMinRows > PathKeepHeadRows + PathKeepTailRows
  BY FilterAssumption
<1> DEFINE ss ==
       [i \in DOMAIN lines |->
                 IF ~(lines[i].kind = "path") THEN <<lines[i]>>
                 ELSE IF i > 1 /\ lines[i - 1].kind = "path" THEN <<>>
                 ELSE CondenseRun(
                        SubSeq(lines, i,
                               Max({j \in (i - 1)..Len(lines) :
                                      \A k \in i..j : lines[k].kind = "path"})),
                        PathMinRows, PathKeepHeadRows, PathKeepTailRows)]
<1>2. CondenseCountPathRuns(lines) = FlattenSeq(ss)
  BY DEF CondenseCountPathRuns, CondenseLineRuns, RunFrom, IsPathLine
<1>3. Keeps(lines, FlattenSeq(ss))
  BY <1>1, RunsKeep
<1> QED  BY <1>2, <1>3

LEMMA ChecklistRunsKeep ==
  ASSUME NEW lines \in Seq(AnyLine)
  PROVE  Keeps(lines, CondenseCompletedChecklistRuns(lines))
<1>1. /\ CheckMinRows \in Nat /\ CheckKeepRows \in Nat /\ 0 \in Nat
      /\ CheckMinRows > CheckKeepRows + 0
  BY FilterAssumption
<1> DEFINE ss ==
       [i \in DOMAIN lines |->
                 IF ~(lines[i].kind = "check") THEN <<lines[i]>>
                 ELSE IF i > 1 /\ lines[i - 1].kind = "check" THEN <<>>
                 ELSE CondenseRun(
                        SubSeq(lines, i,
                               Max({j \in (i - 1)..Len(lines) :
                                      \A k \in i..j : lines[k].kind = "check"})),
                        CheckMinRows, CheckKeepRows, 0)]
<1>2. CondenseCompletedChecklistRuns(lines) = FlattenSeq(ss)
  BY DEF CondenseCompletedChecklistRuns, CondenseLineRuns, RunFrom, IsCheckLine
<1>3. Keeps(lines, FlattenSeq(ss))
  BY <1>1, RunsKeep
<1> QED  BY <1>2, <1>3

-----------------------------------------------------------------------------
(* The pass that condenses todo snapshots, and all three *)

(* The rows of a snapshot that are kept.                                   *)
Actionable == {line \in AnyLine : ~IsCompletedTodoRow(line)}

LEMMA ActionableIsChosen ==
  ASSUME NEW rows \in Seq(AnyLine)
  PROVE  Those(rows, LAMBDA row : ~IsCompletedTodoRow(row))
           = Chosen(rows, Actionable)
<1>1. \A i \in DOMAIN rows :
        ~IsCompletedTodoRow(rows[i]) <=> rows[i] \in Actionable
  BY DEF Actionable
<1>2. [i \in DOMAIN rows |->
         IF ~IsCompletedTodoRow(rows[i]) THEN <<rows[i]>> ELSE <<>>]
        = [i \in DOMAIN rows |->
             IF rows[i] \in Actionable THEN <<rows[i]>> ELSE <<>>]
  BY <1>1
<1> QED  BY <1>2 DEF Those, Chosen

(* What is chosen from plain lines is plain.                               *)
LEMMA ChosenFromPlain ==
  ASSUME NEW rows, Plain(rows), NEW X
  PROVE  Plain(Chosen(rows, X))
<1> DEFINE r == Chosen(rows, X)
<1>1. rows \in Seq(AnyLine)
  BY DEF Plain
<1>2. r \in Seq(AnyLine)
  BY <1>1, ChosenIsJoin
<1>3. \A p \in 1..Len(r) : \E q \in 1..Len(rows) : r[p] = rows[q]
  BY <1>1, ChosenFrom
<1> HIDE DEF r
<1>4. \A p \in 1..Len(r) : Stands[r[p]] = 1 /\ r[p] \notin ProseLines
  BY <1>3 DEF Plain
<1>5. Plain(r)
  BY <1>2, <1>4 DEF Plain
<1> QED  BY <1>5 DEF r

(* A snapshot that was cut down stands for its header and all its rows.    *)
LEMMA TodoRowsMeasure ==
  ASSUME NEW header \in AnyLine, Stands[header] = 1, NEW rows, Plain(rows)
  PROVE  Measures(CondenseTodoRows(header, rows), 1 + Len(rows),
                  Chosen(<<header>>, ProseLines))
<1>1. rows \in Seq(AnyLine) /\ Len(rows) \in Nat
  BY DEF Plain
<1> DEFINE none == <<>>
           first == <<header>>
           prose == Chosen(first, ProseLines)
<1>2. Measures(first, 1, prose)
  <2>1. first \in Seq(AnyLine) /\ Stands \in [AnyLine -> Int]
    BY LinesStand
  <2>2. Total(first, Stands) = 1
    BY <2>1, TotalShort
  <2>3. prose \in Seq(AnyLine)
    BY <2>1, ChosenIsJoin
  <2> QED  BY <2>1, <2>2, <2>3 DEF Measures
<1>3. none \in Seq(AnyLine) /\ first \in Seq(AnyLine)
  OBVIOUS
<1>4. prose \o none = prose
  BY <1>2, ConcatEmptySeq DEF Measures
<1>5. CASE Len(rows) < TodoMinRows
  <2>1. CondenseTodoRows(header, rows) = first \o rows
    BY <1>5 DEF CondenseTodoRows
  <2>2. Measures(rows, Len(rows), none)
    BY PlainMeasures
  <2> HIDE DEF first, none, prose
  <2>3. Measures(first \o rows, 1 + Len(rows), prose \o none)
    BY <1>2, <2>2, MeasuresAdd
  <2>4. Measures(CondenseTodoRows(header, rows), 1 + Len(rows), prose)
    BY <1>4, <2>1, <2>3
  <2> QED  BY <2>4 DEF first, prose
<1>6. CASE ~(Len(rows) < TodoMinRows)
  <2> DEFINE actionable == Chosen(rows, Actionable)
             kept == Take(actionable, TodoKeepRows)
             omitted == Len(actionable) - Len(kept)
             done == Len(rows) - Len(actionable)
             note == <<Note(done)>>
             shown == IF kept = <<>> THEN <<Line("placeholder")>> ELSE kept
             rest == IF omitted > 0 THEN <<Note(omitted)>> ELSE <<>>
  <2>1. Plain(actionable)
    BY ChosenFromPlain
  <2>2. TodoKeepRows \in Nat
    BY FilterAssumption
  <2>3. /\ Plain(kept)
        /\ Len(kept) = IF TodoKeepRows < Len(actionable) THEN TodoKeepRows
                       ELSE Len(actionable)
    BY <2>1, <2>2, TakenFromPlain
  <2>4. Len(actionable) \in Nat /\ Len(kept) \in Nat
    BY <2>1, <2>3, PlainLines
  <2>5. CondenseTodoRows(header, rows)
          = (<<header, Note(done)>> \o shown) \o rest
    BY <1>1, <1>6, ActionableIsChosen DEF CondenseTodoRows
  <2>6. <<header, Note(done)>> = first \o note
    OBVIOUS
  <2> HIDE DEF actionable
  <2>7. done \in Int /\ omitted \in Int /\ omitted >= 0
    BY <1>1, <2>2, <2>3, <2>4
  <2>8. Measures(note, done, none)
    BY <2>7, NoteMeasures
  <2>9. Measures(shown, Len(kept), none)
    <3>1. CASE kept = <<>>
      <4>1. Len(kept) = 0
        BY <3>1
      <4> DEFINE line == Line("placeholder")
                 placeholder == <<line>>
      <4>2. line \in AnyLine /\ Stands[line] = 0 /\ line \notin ProseLines
        BY LinesStand
      <4> HIDE DEF line
      <4>3. Measures(placeholder, Stands[line], none)
        BY <4>2, LineMeasures
      <4>4. Measures(placeholder, 0, none)
        BY <4>2, <4>3
      <4> USE DEF line
      <4>5. shown = placeholder
        BY <3>1
      <4> QED  BY <4>1, <4>4, <4>5
    <3>2. CASE kept # <<>>
      <4>1. shown = kept
        BY <3>2
      <4>2. Measures(kept, Len(kept), none)
        BY <2>3, PlainMeasures
      <4> QED  BY <4>1, <4>2
    <3> QED  BY <3>1, <3>2
  <2>10. Measures(rest, omitted, none)
    <3>1. CASE omitted > 0
      <4>1. rest = <<Note(omitted)>>
        BY <3>1
      <4> HIDE DEF omitted, rest
      <4> QED  BY <2>7, <4>1, NoteMeasures
    <3>2. CASE ~(omitted > 0)
      <4>1. rest = none /\ omitted = 0
        <5>1. rest = none
          BY <3>2, Zenon
        <5>2. omitted = 0
          <6> HIDE DEF omitted
          <6> QED  BY <2>7, <3>2
        <5> QED  BY <5>1, <5>2
      <4>2. Plain(none) /\ Len(none) = 0
        BY <1>3 DEF Plain
      <4>3. Measures(none, 0, none)
        <5>1. Measures(none, Len(none), none)
          BY <4>2, PlainMeasures
        <5> QED  BY <4>2, <5>1
      <4> QED  BY <4>1, <4>3
    <3> QED  BY <3>1, <3>2
  <2>11. ((1 + done) + Len(kept)) + omitted = 1 + Len(rows)
    BY <1>1, <2>4
  <2> HIDE DEF kept, done, omitted, note, shown, rest, first, none,
           prose
  <2>12. Measures(first \o note, 1 + done, prose \o none)
    BY <1>2, <2>8, MeasuresAdd
  <2>13. Measures((first \o note) \o shown, (1 + done) + Len(kept),
                  (prose \o none) \o none)
    BY <2>9, <2>12, MeasuresAdd
  <2>14. Measures(((first \o note) \o shown) \o rest,
                  ((1 + done) + Len(kept)) + omitted,
                  ((prose \o none) \o none) \o none)
    BY <2>10, <2>13, MeasuresAdd
  <2>15. ((prose \o none) \o none) \o none = prose
    BY <1>4
  <2>16. CondenseTodoRows(header, rows) = ((first \o note) \o shown) \o rest
    BY <2>5, <2>6
  <2>17. Measures(CondenseTodoRows(header, rows), 1 + Len(rows), prose)
    BY <2>11, <2>14, <2>15, <2>16
  <2> QED  BY <2>17 DEF first, prose
<1> QED  BY <1>5, <1>6

(* The rows of a snapshot.                                                 *)
TodoRows == {line \in InputLines : IsTodoRow(line)}

(* The first pass keeps what a pass must keep.                             *)
LEMMA TodoSnapshotsKeep ==
  ASSUME NEW lines \in Seq(InputLines)
  PROVE  Keeps(lines, CondenseTodoSnapshots(lines))
<1> DEFINE N == Len(lines)
           X == TodoRows
           runs == {k \in 1..N : InSnapshot(lines, k)}
           end(i) == Max({j \in ((i + 1) - 1)..Len(lines) :
                            \A k \in (i + 1)..j : IsTodoRow(lines[k])})
           rows(i) == SubSeq(lines, i + 1, end(i))
           ss == [i \in 1..N |->
                    IF InSnapshot(lines, i) THEN <<>>
                    ELSE IF IsTodoHeader(lines[i])
                         THEN CondenseTodoRows(lines[i], rows(i))
                         ELSE <<lines[i]>>]
<1>1. N \in Nat /\ DOMAIN lines = 1..N /\ \A i \in 1..N : lines[i] \in InputLines
  OBVIOUS
<1>2. /\ \A line \in InputLines : /\ line \in AnyLine /\ Stands[line] = 1
                                  /\ line.kind \in InputKinds
  BY LinesStand
<1>3. lines \in Seq(AnyLine)
  BY <1>1, <1>2
<1>4. \A i \in 1..N : IsTodoRow(lines[i]) <=> lines[i] \in X
  BY <1>1 DEF TodoRows
<1>5. \A line \in X : line \in InputLines /\ Stands[line] = 1 /\ line \notin ProseLines
  BY <1>2 DEF TodoRows, ProseLines, IsTodoRow
<1>6. ASSUME NEW i \in 1..N
      PROVE  /\ RunTo(lines, i + 1, X, end(i))
             /\ Plain(rows(i)) /\ Len(rows(i)) = end(i) - i
  <2>0. i \in Nat /\ 1 <= i /\ i <= N
    BY <1>1
  <2>1. {j \in ((i + 1) - 1)..Len(lines) : \A k \in (i + 1)..j : IsTodoRow(lines[k])}
          = {j \in ((i + 1) - 1)..Len(lines) : \A k \in (i + 1)..j : lines[k] \in X}
    <3>1. \A j \in ((i + 1) - 1)..Len(lines) : \A k \in (i + 1)..j : k \in 1..N
      BY <1>1, <2>0
    <3> HIDE DEF X
    <3> QED  BY <1>4, <3>1
  <2>2. i + 1 \in 1..(Len(lines) + 1)
    BY <1>1, <2>0
  <2>3. RunTo(lines, i + 1, X, end(i))
    <3> HIDE DEF X
    <3> QED  BY <1>3, <2>1, <2>2, RunEnds
  <2>4. /\ rows(i) \in Seq(AnyLine) /\ Len(rows(i)) = (end(i) - (i + 1)) + 1
        /\ \A p \in 1..Len(rows(i)) : rows(i)[p] \in X
    <3> HIDE DEF end, X
    <3> QED  BY <1>3, <2>2, <2>3, RunIs
  <2>5. Plain(rows(i))
    <3> HIDE DEF rows, X
    <3> QED  BY <1>5, <2>4 DEF Plain
  <2>6. end(i) \in Int
    BY <1>1, <2>0, <2>3 DEF RunTo
  <2> HIDE DEF rows, X, end
  <2> QED  BY <2>0, <2>3, <2>4, <2>5, <2>6
<1>7. CondenseTodoSnapshots(lines) = FlattenSeq(ss)
  BY <1>1 DEF CondenseTodoSnapshots, RunFrom
<1> HIDE DEF X, rows, end
<1>8. ASSUME NEW i \in 1..N, NEW k \in (i + 1)..N, i + 1 <= k,
             IsTodoHeader(lines[i]), \A m \in (i + 1)..k : lines[m] \in X
      PROVE  k \in runs
  <2>1. k \in 1..N /\ i \in 1..(k - 1)
    BY <1>1
  <2>2. \A m \in (i + 1)..k : IsTodoRow(lines[m])
    BY <1>4, <1>8, <1>1
  <2> QED  BY <1>8, <2>1, <2>2 DEF InSnapshot
<1>9. \A k \in runs : k \in 1..N /\ lines[k] \in X /\ k # 1
  <2> SUFFICES ASSUME NEW k \in runs
      PROVE  k \in 1..N /\ lines[k] \in X /\ k # 1
    OBVIOUS
  <2>1. PICK h \in 1..(k - 1) : \A m \in (h + 1)..k : IsTodoRow(lines[m])
    BY DEF InSnapshot
  <2>2. k \in 1..N /\ h \in Nat /\ k \in (h + 1)..k /\ k # 1
    BY <1>1, <2>1
  <2> QED  BY <1>4, <2>1, <2>2
\* The line after one that neither opens nor continues a snapshot is in none.
<1>10. ASSUME NEW i \in 1..N, i \notin runs, ~IsTodoHeader(lines[i])
       PROVE  i + 1 \notin runs
  <2> SUFFICES ASSUME i + 1 \in runs PROVE FALSE
    OBVIOUS
  <2>1. PICK h \in 1..((i + 1) - 1) :
          /\ IsTodoHeader(lines[h])
          /\ \A m \in (h + 1)..(i + 1) : IsTodoRow(lines[m])
    BY DEF InSnapshot
  <2>2. h \in Int /\ i \in Nat /\ h <= i /\ h # i
    BY <1>1, <1>10, <2>1
  <2>3. h \in 1..(i - 1)
    BY <2>1, <2>2
  <2>4. \A m \in (h + 1)..i : m \in (h + 1)..(i + 1)
    BY <2>2
  <2>5. i \in runs
    BY <2>1, <2>3, <2>4 DEF InSnapshot
  <2> QED  BY <1>10, <2>5
<1>11. \A i \in 1..N :
         ss[i] = IF i \in runs THEN <<>>
                 ELSE IF IsTodoHeader(lines[i])
                      THEN CondenseTodoRows(lines[i], rows(i))
                      ELSE <<lines[i]>>
  OBVIOUS
<1>12. DOMAIN ss = 1..N /\ ss = [i \in 1..N |-> ss[i]]
  OBVIOUS
<1> HIDE DEF runs, ss
<1>13. ASSUME NEW i \in 1..N
       PROVE  ss[i] \in Seq(AnyLine) /\ Replaces(ss[i], lines, runs, i)
  <2>1. i \in Nat /\ 1 <= i /\ i <= N /\ lines[i] \in InputLines
        /\ lines[i] \in AnyLine
    BY <1>1, <1>2
  <2>2. CASE i \in runs
    <3>1. ss[i] = <<>>
      BY <1>11, <2>2, Zenon
    <3>2. lines[i] \notin ProseLines
      BY <1>5, <1>9, <2>2
    <3>3. <<>> \in Seq(AnyLine)
      OBVIOUS
    <3> QED  BY <2>2, <3>1, <3>2, <3>3 DEF Replaces
  <2>3. CASE i \notin runs /\ ~IsTodoHeader(lines[i])
    <3>1. ss[i] = <<lines[i]>>
      BY <1>11, <2>3
    <3>2. i + 1 \notin runs
      BY <1>10, <2>3
    <3>3. <<lines[i]>> \in Seq(AnyLine)
      BY <2>1
    <3> QED  BY <2>3, <3>1, <3>2, <3>3 DEF Replaces
  <2>4. CASE i \notin runs /\ IsTodoHeader(lines[i])
    <3> DEFINE e == end(i)
    <3>1. ss[i] = CondenseTodoRows(lines[i], rows(i))
      BY <1>11, <2>4
    <3>2. RunTo(lines, i + 1, X, e) /\ Plain(rows(i)) /\ Len(rows(i)) = e - i
      BY <1>6
    <3>3. Stands[lines[i]] = 1
      BY <1>2, <2>1
    <3>4. Measures(ss[i], 1 + Len(rows(i)), Chosen(<<lines[i]>>, ProseLines))
      BY <2>1, <3>1, <3>2, <3>3, TodoRowsMeasure
    <3> HIDE DEF e
    <3>5. /\ e \in ((i + 1) - 1)..N /\ (\A k \in (i + 1)..e : lines[k] \in X)
          /\ (e < N => lines[e + 1] \notin X)
      BY <3>2 DEF RunTo
    <3>6. e \in i..N /\ e \in Int
      BY <2>1, <3>5
    <3>7. \A k \in (i + 1)..e : k \in runs
      <4> SUFFICES ASSUME NEW k \in (i + 1)..e PROVE k \in runs
        OBVIOUS
      <4>1. k \in (i + 1)..N /\ i + 1 <= k
        BY <2>1, <3>6
      <4>2. \A m \in (i + 1)..k : m \in (i + 1)..e
        BY <2>1, <3>6
      <4>3. \A m \in (i + 1)..k : lines[m] \in X
        BY <3>5, <4>2
      <4> QED  BY <1>8, <2>4, <4>1, <4>3
    <3>8. e < N => e + 1 \notin runs
      BY <1>9, <3>5
    <3>9. Ends(runs, N, i, e)
      BY <3>6, <3>7, <3>8 DEF Ends
    <3>10. \A k \in i..e : Stands[lines[k]] = 1
      <4>1. \A k \in i..e : k \in 1..N
        BY <2>1, <3>6
      <4> QED  BY <1>1, <1>2, <4>1
    <3>11. /\ ss[i] \in Seq(AnyLine) /\ Total(ss[i], Stands) = 1 + Len(rows(i))
           /\ Chosen(ss[i], ProseLines) = Chosen(<<lines[i]>>, ProseLines)
      BY <3>4 DEF Measures
    <3>12. Total(ss[i], Stands) = (e - i) + 1
      BY <2>1, <3>2, <3>6, <3>11
    <3> QED  BY <2>4, <3>9, <3>10, <3>11, <3>12 DEF Replaces
  <2> QED  BY <2>2, <2>3, <2>4
<1>14. ss \in Seq(Seq(AnyLine)) /\ Len(ss) = N
  <2>1. \A i \in 1..N : ss[i] \in Seq(AnyLine)
    BY <1>13
  <2>2. ss \in [1..N -> Seq(AnyLine)]
    BY <1>12, <2>1
  <2> HIDE DEF N
  <2> QED  BY <1>1, <2>2
<1>15. 1 \notin runs
  BY <1>9
<1>16. Keeps(lines, FlattenSeq(ss))
  BY <1>3, <1>13, <1>14, <1>15, PassKeeps
<1> QED  BY <1>7, <1>16

(* What all three passes keep.                                             *)
LEMMA NoiseKeeps ==
  ASSUME NEW lines \in Seq(InputLines)
  PROVE  Keeps(lines, CondenseNoise(lines))
<1> DEFINE a == CondenseTodoSnapshots(lines)
           b == CondenseCountPathRuns(a)
           c == CondenseCompletedChecklistRuns(b)
<1>1. Keeps(lines, a)
  BY TodoSnapshotsKeep
<1> HIDE DEF a
<1>2. a \in Seq(AnyLine)
  BY <1>1 DEF Keeps
<1>3. Keeps(a, b)
  BY <1>2, PathRunsKeep
<1> HIDE DEF b
<1>4. b \in Seq(AnyLine)
  BY <1>3 DEF Keeps
<1>5. Keeps(b, c)
  BY <1>4, ChecklistRunsKeep
<1> HIDE DEF c
<1>6. Keeps(lines, c)
  BY <1>1, <1>3, <1>5 DEF Keeps
<1> QED  BY <1>6 DEF CondenseNoise, a, b, c

(* The filter accounts for every line, however long its lists are.         *)
LEMMA FilterAccounts ==
  ASSUME NEW lines \in Seq(InputLines)
  PROVE  LinesAccounted(lines) /\ CondenseNoise(lines) \in Seq(AnyLine)
<1> DEFINE condensed == CondenseNoise(lines)
<1>1. Keeps(lines, condensed)
  BY NoiseKeeps
<1> HIDE DEF condensed
<1>2. /\ condensed \in Seq(AnyLine)
      /\ Total(condensed, Stands) = Total(lines, Stands)
      /\ Chosen(condensed, ProseLines) = Chosen(lines, ProseLines)
  BY <1>1 DEF Keeps
<1>3. \A line \in InputLines : line \in AnyLine /\ Stands[line] = 1
  BY LinesStand
<1>4. lines \in Seq(AnyLine) /\ \A i \in 1..Len(lines) : Stands[lines[i]] = 1
  BY <1>3
<1>5. Total(lines, Stands) = Len(lines)
  BY <1>4, LinesStand, TotalCounts
<1>6. LinesStoodFor(condensed) = Len(lines)
  BY <1>2, <1>5, StoodForIsTotal
<1>7. Prose(condensed) = Prose(lines)
  BY <1>2, <1>4, ProseIsChosen
<1> QED  BY <1>2, <1>6, <1>7 DEF LinesAccounted, condensed

-----------------------------------------------------------------------------
(* The properties of the runs *)

(* The invariant: the lines of the conversation are those the filter       *)
(* reads, never one that it writes.                                        *)
RequestInv ==
  /\ setting \in Setting
  /\ conversation \in Seq(InputLines)

LEMMA RequestInvInductive == RequestSpec => []RequestInv
<1>1. RequestInit => RequestInv
  BY RequestAssumption DEF RequestInit, RequestInv
<1>2. RequestInv /\ [LineAdded]_requestVars => RequestInv'
  <2> SUFFICES ASSUME RequestInv, [LineAdded]_requestVars
      PROVE  RequestInv'
    OBVIOUS
  <2>1. CASE LineAdded
    <3>1. PICK kind \in InputKinds :
            conversation' = Append(conversation, Line(kind))
      BY <2>1 DEF LineAdded
    <3>2. Line(kind) \in InputLines
      BY DEF InputLines
    <3>3. conversation' \in Seq(InputLines)
      BY <3>1, <3>2 DEF RequestInv
    <3>4. setting' = setting
      BY <2>1 DEF LineAdded
    <3> QED  BY <3>3, <3>4 DEF RequestInv
  <2>2. CASE UNCHANGED requestVars
    BY <2>2 DEF RequestInv, requestVars
  <2> QED  BY <2>1, <2>2
<1> QED  BY <1>1, <1>2, PTL DEF RequestSpec

(* The length of a conversation that was condensed.                        *)
LEMMA MessagesHaveLength == RequestInv => MessageChars \in Nat
<1> SUFFICES ASSUME RequestInv PROVE MessageChars \in Nat
  OBVIOUS
<1> DEFINE condensed == CondenseNoise(conversation)
<1>1. condensed \in Seq(AnyLine)
  BY FilterAccounts DEF RequestInv
<1> HIDE DEF condensed
<1>2. Len(condensed) \in Nat /\ LineChars \in Nat
  BY <1>1, RequestAssumption
<1> QED  BY <1>2 DEF MessageChars, condensed

(* Whatever is said, in whatever order the lines come and wherever a list  *)
(* is cut, every line is in the prompt or counted there by a note.         *)
THEOREM LinesAlwaysAccounted == RequestSpec => []EveryLineAccounted
<1>1. RequestInv => EveryLineAccounted
  BY FilterAccounts DEF RequestInv, EveryLineAccounted
<1> QED  BY <1>1, RequestInvInductive, PTL

(* Every request the extension sends fits the window.                      *)
THEOREM RequestsAlwaysFit == RequestSpec => []RequestsFit
<1>1. RequestInv => RequestsFit
  BY MessagesHaveLength, PromptsFit DEF RequestInv, RequestsFit
<1> QED  BY <1>1, RequestInvInductive, PTL

(* What is cut from a request is what can be spared.                       *)
THEOREM CutsAlwaysSpareTheRest == RequestSpec => []CutsSpareTheRest
<1>1. RequestInv => CutsSpareTheRest
  BY MessagesHaveLength, InstructionsAreWhole, PreviousSummaryIsKept,
     MessagesGetHalf
  DEF RequestInv, CutsSpareTheRest
<1> QED  BY <1>1, RequestInvInductive, PTL
=============================================================================
