--------------------------- MODULE BridgeResponse ---------------------------
(***************************************************************************)
(* What the extension accepts as the answer of the cervo-compress helper:  *)
(* validateBridgeResponse and what it calls (cervo-preprocessor.ts).       *)
(*                                                                         *)
(* A message is a role, the form of its content, an id that stands for all *)
(* that the helper must leave alone, and its text. The forms are a string, *)
(* a list of blocks, and a list of blocks that hold tool results; the      *)
(* texts of one message are one value.                                     *)
(***************************************************************************)
EXTENDS Integers, Sequences

CONSTANTS
  Ids, Texts,
  Bytes,        \* the length of each text
  EngineNames,  \* ENGINE_NAMES
  OtherNames,   \* what a helper may call an engine beside these
  Malformed     \* a value that is no record with the fields of a response

Forms == {"string", "blocks", "results"}
Roles == {"user", "assistant", "tool", "toolResult"}

Message == [role : Roles, form : Forms, id : Ids, text : Texts]

ASSUME TextsAssumption == Bytes \in [Texts -> Nat]

EngineSaving == [Name : EngineNames \cup OtherNames, SavedBytes : Int]

Response ==
  [version : Int, messages : Seq(Message), originalBytes : Int,
   savedBytes : Int, engines : Seq(EngineNames \cup OtherNames),
   byEngine : Seq(EngineSaving)]

ASSUME MalformedAssumption == Malformed \notin Response

-----------------------------------------------------------------------------
ToCervoDialect(m) ==
  IF m.role = "toolResult" THEN [m EXCEPT !.role = "tool"] ELSE m

RestorePiRole(m, original) ==
  IF original.role = "toolResult" THEN [m EXCEPT !.role = "toolResult"] ELSE m

(* The text the helper may rewrite: a string of any role, the blocks of a  *)
(* tool message, the tool results in a user message.                       *)
IsMutable(m) ==
  \/ m.form = "string"
  \/ m.form = "blocks" /\ m.role = "tool"
  \/ m.form = "results" /\ m.role = "user"

(* Equality of maskMutableContent of both.                                 *)
SameButMutableContent(m, n) ==
  /\ m.role = n.role /\ m.form = n.form /\ m.id = n.id
  /\ IsMutable(m) \/ m.text = n.text

MeasureMessage(m) == IF IsMutable(m) THEN Bytes[m.text] ELSE 0

MeasureCervoText(messages) ==
  LET upTo[i \in 0..Len(messages)] ==
        IF i = 0 THEN 0 ELSE upTo[i - 1] + MeasureMessage(messages[i])
  IN upTo[Len(messages)]

EngineTotal(byEngine) ==
  LET upTo[i \in 0..Len(byEngine)] ==
        IF i = 0 THEN 0 ELSE upTo[i - 1] + byEngine[i].SavedBytes
  IN upTo[Len(byEngine)]

(* The engines are known and distinct, and each saved something.           *)
HonestEngines(engines, byEngine) ==
  /\ Len(byEngine) = Len(engines)
  /\ \A i \in DOMAIN engines :
       /\ engines[i] \in EngineNames
       /\ byEngine[i].Name = engines[i]
       /\ byEngine[i].SavedBytes > 0
       /\ \A j \in DOMAIN engines : engines[i] = engines[j] => i = j

(* Fault: the savings are compared with the sum of the engines alone.      *)
HonestBytesUnmeasured(response, original) ==
  /\ response.originalBytes = MeasureCervoText(original)
  /\ response.savedBytes = EngineTotal(response.byEngine)
  /\ response.savedBytes = 0 => response.messages = original

HonestBytes(response, original) ==
  /\ response.originalBytes = MeasureCervoText(original)
  /\ response.savedBytes =
       response.originalBytes - MeasureCervoText(response.messages)
  /\ response.savedBytes = EngineTotal(response.byEngine)
  /\ response.savedBytes = 0 => response.messages = original

SameShape(messages, original) ==
  /\ Len(messages) = Len(original)
  /\ \A i \in DOMAIN original :
       SameButMutableContent(original[i], messages[i])

ValidateBridgeResponse(response, original) ==
  /\ response # Malformed
  /\ response.version = 1
  /\ response.originalBytes >= 0 /\ response.savedBytes >= 0
  /\ HonestEngines(response.engines, response.byEngine)
  /\ SameShape(response.messages, original)
  /\ HonestBytes(response, original)
=============================================================================
