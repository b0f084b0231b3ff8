--------------------------- MODULE Preprocessing ---------------------------
(***************************************************************************)
(* What the rest of the extension relies on when it preprocesses a         *)
(* conversation: it is answered once, either with a closed category of     *)
(* failure or with the same conversation, message by message, in which     *)
(* only text that may be shortened has changed.                            *)
(***************************************************************************)
EXTENDS Naturals, Sequences

CONSTANTS
  Waiting,      \* no answer yet
  Reasons,      \* the categories of failure
  Preparations  \* the conversations: history and the prefix of a split turn

VARIABLES
  prepared,  \* the conversation handed in
  answer

Failures == [ok : {FALSE}, reason : Reasons]

(* Prompts given as blocks, and all the assistant says in blocks, stay.    *)
Rewritable(m) ==
  \/ m.form = "string"
  \/ m.role = "toolResult" /\ m.form = "blocks"
  \/ m.role = "tool" /\ m.form = "blocks"
  \/ m.role = "user" /\ m.form = "results"

SameMessage(m, n) ==
  /\ <<n.role, n.form, n.id>> = <<m.role, m.form, m.id>>
  /\ Rewritable(m) \/ n.text = m.text

SameMessages(before, after) ==
  /\ Len(after) = Len(before)
  /\ \A i \in DOMAIN before : SameMessage(before[i], after[i])

(* History stays history and the prefix of the turn stays the prefix; what *)
(* is called unchanged is unchanged.                                       *)
SameConversation(reply) ==
  /\ reply.ok
  /\ SameMessages(prepared.history, reply.history)
  /\ SameMessages(prepared.turnPrefix, reply.turnPrefix)
  /\ reply.changed \/ /\ reply.history = prepared.history
                      /\ reply.turnPrefix = prepared.turnPrefix

Init == prepared \in Preparations /\ answer = Waiting

Answer ==
  /\ answer = Waiting /\ answer' # Waiting
  /\ answer' \in Failures \/ SameConversation(answer')
  /\ UNCHANGED prepared

Safety == Init /\ [][Answer]_<<prepared, answer>>

Spec == Safety /\ <>(answer # Waiting)
=============================================================================
