------------------------------ MODULE MCBridge ------------------------------
(***************************************************************************)
(* Small instances of Bridge: two messages, split in every way, with texts *)
(* of one and two bytes; answers that are right, or wrong in one or more   *)
(* of their parts.                                                         *)
(***************************************************************************)
EXTENDS Bridge

MCBytes == [t \in Texts |-> IF t = "b" THEN 1 ELSE 2]

M(role, form, id, text) ==
  [role |-> role, form |-> form, id |-> id, text |-> text]

Tool   == M("toolResult", "blocks", 1, "a")
Prompt == M("user", "string", 2, "a")
Answer == M("assistant", "blocks", 2, "a")
Nested == M("user", "results", 1, "a")

Prepare(history, turnPrefix, inputBytes) ==
  [history |-> history, turnPrefix |-> turnPrefix, inputBytes |-> inputBytes]

MCPreparations ==
  {Prepare(<<Tool>>, <<Prompt>>, 1), Prepare(<<Nested, Answer>>, <<>>, 1),
   Prepare(<<>>, <<Tool, Answer>>, 1), Prepare(<<Tool>>, <<>>, 3)}

First == {M("tool", "blocks", 1, t) : t \in {"a", "b", "c"}}
    \cup {M("user", "results", 1, t) : t \in {"a", "b"}}
    \cup {M("toolResult", "blocks", 1, "a"), M("tool", "string", 1, "b")}

Second == {M("user", "string", 2, t) : t \in {"a", "b", "c"}}
     \cup {M("assistant", "blocks", 2, t) : t \in {"a", "b"}}
     \cup {M("tool", "blocks", 2, "b"), M("user", "string", 1, "a")}

Conversations ==
  {<<m>> : m \in First} \cup (First \X Second)
  \cup {<<m, m, m>> : m \in First}

EngineLists == {<<>>, <<"dedup">>, <<"dedup", "toolnoise">>,
                <<"dedup", "dedup">>, <<"unknown">>}

Savings(engines) ==
  {[i \in DOMAIN engines |-> [Name |-> engines[i], SavedBytes |-> n]] :
     n \in 0..2}

Reply(version, messages, bytes, saved, engines, byEngine) ==
  [version |-> version, messages |-> messages, originalBytes |-> bytes,
   savedBytes |-> saved, engines |-> engines, byEngine |-> byEngine]

MCResponses ==
  UNION {
    {Reply(1, messages, bytes, saved, engines, byEngine) :
       messages \in Conversations, bytes \in {2, 4}, saved \in -1..2,
       byEngine \in Savings(engines)} :
    engines \in EngineLists}
  \cup {Reply(2, messages, 2, 0, <<>>, <<>>) : messages \in Conversations}
  \cup {Malformed}
=============================================================================
