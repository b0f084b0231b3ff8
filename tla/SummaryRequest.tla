-------------------------- MODULE SummaryRequest --------------------------
(***************************************************************************)
(* summary-request.ts: the prompts of a compaction and the budget they     *)
(* must keep. A text is its length in characters; a truncated text is the  *)
(* lengths of the head and the tail that are kept and of the marker put    *)
(* between them. White space trimmed at the cut makes a prompt shorter     *)
(* than computed here.                                                     *)
(*                                                                         *)
(* The conversation grows line by line; everything else a request depends  *)
(* on is chosen at the start. Each state gives the prompts that would be   *)
(* built then.                                                             *)
(***************************************************************************)
EXTENDS Integers, NoiseFilter

CONSTANTS
  Settings,          \* what the requests are built from
  LineChars,         \* characters of a line
  MarkerChars,       \* the marker's length: 106 and the digits of a number
  MaxLines

Setting ==
  [modelContextWindow : Nat,      \* 0: not known
   reserveTokens : Nat, modelMaxTokens : Nat,
   mode : {"standard", "focused", "aggressive"},
   previousSummary : Nat,         \* its characters; 0: there is none
   fixedPromptText : Nat,         \* context block and instructions
   escapes : Nat]                 \* characters added by safeTaggedBlock

ASSUME RequestAssumption ==
  /\ Settings \subseteq Setting
  /\ LineChars \in Nat /\ MaxLines \in Nat
  /\ MarkerChars \in 107..120

VARIABLES setting, conversation

requestVars == <<setting, conversation>>

RequestInit == setting \in Settings /\ conversation = <<>>

LineAdded ==
  /\ Len(conversation) < MaxLines
  /\ \E kind \in InputKinds :
       conversation' = Append(conversation, Line(kind))
  /\ UNCHANGED setting

RequestSpec == RequestInit /\ [][LineAdded]_requestVars

-----------------------------------------------------------------------------
(* Budgets *)

TokenToCharRatio           == 4
SummaryPromptSafetyTokens  == 1024
MinSerializedMessageTokens == 512
TurnPrefixPromptChars      == 501
SeparatorChars             == 2

EstimateTokens(chars) == (chars + 3) \div 4

AtLeast(low, n) == IF n < low THEN low ELSE n
AtMost(high, n) == IF n > high THEN high ELSE n

AtMostModelMax(tokens, s) ==
  IF s.modelMaxTokens > 0 THEN AtMost(s.modelMaxTokens, tokens) ELSE tokens

SummaryMaxTokens(s) ==
  AtMostModelMax(IF s.mode = "aggressive" THEN (55 * s.reserveTokens) \div 100
                 ELSE (80 * s.reserveTokens) \div 100, s)

TurnPrefixMaxTokens(s) == AtMostModelMax(s.reserveTokens \div 2, s)

(* No limit: what truncateEstimatedTokens takes for none, undefined or 0.  *)
NoLimit == 0

(* Fault: the tokens of the answer are not set aside.                      *)
PromptMaxTokensForPromptOnly(s, outputMaxTokens) ==
  IF s.modelContextWindow = 0 THEN NoLimit
  ELSE AtLeast(MinSerializedMessageTokens,
               s.modelContextWindow - SummaryPromptSafetyTokens)

PromptMaxTokens(s, outputMaxTokens) ==
  IF s.modelContextWindow = 0 THEN NoLimit
  ELSE AtLeast(MinSerializedMessageTokens,
               s.modelContextWindow - outputMaxTokens
                 - SummaryPromptSafetyTokens)

-----------------------------------------------------------------------------
(* Truncation *)

Truncate(chars, maxTokens) ==
  LET room == maxTokens * TokenToCharRatio - MarkerChars
      head == (35 * room) \div 100
  IN IF maxTokens <= 0 \/ EstimateTokens(chars) <= maxTokens
     THEN [head |-> chars, tail |-> 0, marker |-> 0]
     ELSE IF room <= 0
     THEN [head |-> 0, tail |-> 0, marker |-> MarkerChars - 4]
     ELSE [head |-> head, tail |-> room - head, marker |-> MarkerChars]

Chars(cut) == cut.head + cut.marker + cut.tail

(* How many of the characters in places from+1..to of a text survive.      *)
Survivors(cut, chars, from, to) ==
  AtLeast(0, AtMost(cut.head, to) - from)
    + AtLeast(0, to - AtLeast(from, AtLeast(cut.head, chars - cut.tail)))

-----------------------------------------------------------------------------
(* The prompts *)

Roomy(s, promptMax) ==
  promptMax - EstimateTokens(s.fixedPromptText) > MinSerializedMessageTokens

(* Fault: the previous summary takes whatever it needs.                    *)
VariableBudgetsUnshared(s, promptMax) ==
  LET variable == promptMax - EstimateTokens(s.fixedPromptText)
      previous == EstimateTokens(s.previousSummary)
  IN IF promptMax = NoLimit \/ ~Roomy(s, promptMax)
     THEN [messages |-> AtLeast(0, variable), previous |-> NoLimit]
     ELSE [messages |-> AtLeast(MinSerializedMessageTokens,
                                variable - previous),
           previous |-> previous]

(* With no more than the minimum left the previous summary is given 0      *)
(* tokens, which sets it no limit at all; the prompt is cut as a whole.    *)
VariableBudgets(s, promptMax) ==
  LET variable == promptMax - EstimateTokens(s.fixedPromptText)
      previous == AtMost(variable \div 4, EstimateTokens(s.previousSummary))
  IN IF promptMax = NoLimit \/ ~Roomy(s, promptMax)
     THEN [messages |-> AtLeast(0, variable), previous |-> NoLimit]
     ELSE [messages |-> AtLeast(MinSerializedMessageTokens,
                                variable - previous),
           previous |-> previous]

(* The two tags of a block and its line breaks.                            *)
TagsAround(tagChars) == 2 * tagChars + 7

(* The parts of the prompt buildSummaryRequest joins, with the place where *)
(* each begins.                                                            *)
SummaryPrompt(s, chars, promptMax) ==
  LET budgets  == VariableBudgets(s, promptMax)
      messages == Truncate(chars, budgets.messages)
      previous == IF s.previousSummary = 0 THEN 0
                  ELSE Chars(Truncate(s.previousSummary, budgets.previous))
                         + TagsAround(16) + SeparatorChars
      block    == Chars(messages) + s.escapes + TagsAround(21)
      total    == block + previous + SeparatorChars + s.fixedPromptText
  IN [messages |-> messages, previousFrom |-> block, previousTo |-> block + previous,
      fixedFrom |-> total - s.fixedPromptText, total |-> total,
      text |-> Truncate(total, promptMax)]

TurnPrefixPrompt(s, chars, promptMax) ==
  LET messagesMax == IF promptMax = NoLimit THEN NoLimit
                     ELSE AtLeast(0, promptMax
                                    - EstimateTokens(TurnPrefixPromptChars))
      total == Chars(Truncate(chars, messagesMax)) + s.escapes
                 + TagsAround(20) + SeparatorChars + TurnPrefixPromptChars
  IN [fixedFrom |-> total - TurnPrefixPromptChars, total |-> total,
      text |-> Truncate(total, promptMax)]

-----------------------------------------------------------------------------
MessageChars == Len(CondenseNoise(conversation)) * LineChars

SummaryBudget(s)    == PromptMaxTokens(s, SummaryMaxTokens(s))
TurnPrefixBudget(s) == PromptMaxTokens(s, TurnPrefixMaxTokens(s))
Summary(s, chars)    == SummaryPrompt(s, chars, SummaryBudget(s))
TurnPrefix(s, chars) == TurnPrefixPrompt(s, chars, TurnPrefixBudget(s))

(* No list of the conversation loses a line that no note counts.           *)
EveryLineAccounted == LinesAccounted(conversation)

Fits(s, prompt, budget, outputMaxTokens) ==
  LET tokens == EstimateTokens(Chars(prompt.text)) IN
  budget # NoLimit =>
    /\ tokens <= budget
    /\ s.modelContextWindow >= MinSerializedMessageTokens + outputMaxTokens
                                 + SummaryPromptSafetyTokens
       => tokens + outputMaxTokens + SummaryPromptSafetyTokens
            <= s.modelContextWindow

(* The prompts keep their budget, markers, tags and escapes included, so   *)
(* that with the room set aside for the answer and for the errors of the   *)
(* estimate a request fits the model's window, unless the window holds     *)
(* less than the smallest prompt. CHANGELOG.md: "Bounds oversized summary  *)
(* prompts against the model context window before provider calls".        *)
RequestsFit ==
  /\ Fits(setting, Summary(setting, MessageChars), SummaryBudget(setting),
          SummaryMaxTokens(setting))
  /\ Fits(setting, TurnPrefix(setting, MessageChars),
          TurnPrefixBudget(setting), TurnPrefixMaxTokens(setting))

FixedPartWhole(prompt) ==
  Survivors(prompt.text, prompt.total, prompt.fixedFrom, prompt.total)
    = prompt.total - prompt.fixedFrom

(* The instructions end a prompt and reach the provider whole, although    *)
(* the prompt is cut as a whole without regard to its parts: those of the  *)
(* turn prefix always, those of a summary when they take at most three     *)
(* fifths of the budget.                                                   *)
InstructionsWhole(s, chars) ==
  /\ FixedPartWhole(TurnPrefix(s, chars))
  /\ SummaryBudget(s) = NoLimit
       \/ 5 * s.fixedPromptText <= 3 * TokenToCharRatio * SummaryBudget(s)
     => FixedPartWhole(Summary(s, chars))

(* When the instructions take at most two fifths of the budget, what the   *)
(* last cut removes are messages: the part of the previous summary that    *)
(* was given room stays. The previous summary is the only trace of what    *)
(* earlier compactions removed.                                            *)
PreviousSummaryKept(s, chars) ==
  LET prompt == Summary(s, chars) IN
  /\ Roomy(s, SummaryBudget(s))
  /\ 5 * s.fixedPromptText <= 2 * TokenToCharRatio * SummaryBudget(s)
  => Survivors(prompt.text, prompt.total, prompt.previousFrom,
               prompt.previousTo) = prompt.previousTo - prompt.previousFrom

(* However long the previous summary is, the new messages keep at least    *)
(* half of what the instructions leave, or are sent whole, as long as few  *)
(* characters had to be escaped.                                           *)
MessagesKeepHalf(s, chars) ==
  LET prompt == Summary(s, chars)
      cut    == prompt.messages
      from   == TagsAround(21) \div 2
      kept   == Survivors(prompt.text, prompt.total, from, from + cut.head)
                  + Survivors(prompt.text, prompt.total,
                              from + cut.head + cut.marker, from + Chars(cut))
      half   == 2 * (SummaryBudget(s) - EstimateTokens(s.fixedPromptText))
  IN Roomy(s, SummaryBudget(s)) /\ s.escapes <= 100
       => kept >= AtMost(half, chars)

(* Cutting a prompt costs what can be spared: never the instructions, the  *)
(* previous summary only beyond its share, and of the messages no more     *)
(* than half (calculatePromptMaxTokens, allocateVariablePromptBudgets,     *)
(* truncateEstimatedTokens).                                               *)
CutsSpareTheRest ==
  /\ InstructionsWhole(setting, MessageChars)
  /\ PreviousSummaryKept(setting, MessageChars)
  /\ MessagesKeepHalf(setting, MessageChars)
=============================================================================
