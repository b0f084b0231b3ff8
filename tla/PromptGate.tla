----------------------------- MODULE PromptGate -----------------------------
(***************************************************************************)
(* What the pre-prompt compaction promises about the prompts themselves:   *)
(* a prompt the user submits reaches the agent once, at once or later,     *)
(* whatever becomes of the compaction it was held back for.                *)
(***************************************************************************)
EXTENDS Naturals

CONSTANT Prompts

VARIABLES
  sent,        \* the prompts submitted so far
  delivered    \* how many times each prompt has reached the agent

gateVars == <<sent, delivered>>

GateInit == sent = {} /\ delivered = [p \in Prompts |-> 0]

HandOver(p) ==
  /\ delivered[p] = 0
  /\ delivered' = [delivered EXCEPT ![p] = 1]

Accept(p) ==
  /\ p \notin sent
  /\ sent' = sent \cup {p}
  /\ HandOver(p) \/ UNCHANGED delivered

Release(p) ==
  /\ p \in sent
  /\ HandOver(p)
  /\ UNCHANGED sent

GateNext == \E p \in Prompts : Accept(p) \/ Release(p)

GateSafety == GateInit /\ [][GateNext]_gateVars

GateSpec == GateSafety /\ \A p \in Prompts : WF_gateVars(Release(p))
=============================================================================
