---------------------------- MODULE MCConfigStore ----------------------------
(***************************************************************************)
(* Small instances of ConfigStore: a trusted and an untrusted session, the *)
(* setting "enabled" and another, and what may stand for one in a file.    *)
(***************************************************************************)
EXTENDS ConfigStore, TLC

CONSTANT junk

MCKeys == {"enabled", "debug"}

MCRawValues == {TRUE, FALSE, junk}

MCDefault == [k \in MCKeys |-> k = "enabled"]

MCValid == [k \in MCKeys |-> BOOLEAN]

MCEditorTexts ==
  {NoSettings, "enabled" :> TRUE, ("enabled" :> FALSE) @@ ("debug" :> TRUE)}
=============================================================================
