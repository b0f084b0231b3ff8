---------------------------- MODULE MCDiagnostics ----------------------------
(***************************************************************************)
(* Small instances of Diagnostics: a history of two, so that a third       *)
(* decision pushes one out, and every operation on a file may fail.        *)
(***************************************************************************)
EXTENDS Diagnostics

EveryFault == {"read", "write", "unlink"}

NoFaults == {}
=============================================================================
