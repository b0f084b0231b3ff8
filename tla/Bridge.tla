------------------------------- MODULE Bridge -------------------------------
(***************************************************************************)
(* One call of preprocessWithCervoCompress: it looks for the helper, runs  *)
(* it with the conversation on its standard input, collects its standard   *)
(* output, and accepts or refuses the answer (cervo-preprocessor.ts). The  *)
(* helper (bridge/cervo-compress) is any program: it writes and exits as   *)
(* it likes, and may leave its output open in a process of its own.        *)
(*                                                                         *)
(* A step is the code between two events of Node's loop. A promise takes   *)
(* the first outcome it is given; "settled" is the flag of runProcess.     *)
(***************************************************************************)
EXTENDS BridgeResponse

CONSTANTS
  None,
  Waiting,        \* the promise is pending
  Preparations,   \* the conversations that may have to be compressed
  Responses,      \* what the helper may answer
  Outputs,        \* lengths the whole answer may have
  MaxBridgeBytes  \* MAX_BRIDGE_BYTES

Preparation ==
  [history : Seq(Message), turnPrefix : Seq(Message), inputBytes : Nat]

ASSUME BridgeAssumption ==
  /\ Preparations \subseteq Preparation
  /\ Responses \subseteq Response \cup {Malformed}
  /\ Outputs \subseteq Nat /\ MaxBridgeBytes \in Nat

FailureReasons == {"bridge-unavailable", "bridge-failed", "invalid-output"}
SpawnErrors    == {"ENOENT", "other"}

VARIABLES
  prepared,   \* the preparation, constant during the call
  output,     \* the length of the helper's whole answer, and whether it
              \* is JSON
  child,      \* the helper's process
  stdin,      \* whether writing to the helper can still fail
  stdoutBytes, kept,   \* bytes received, and bytes of the chunks kept
  closed,     \* the close event has been handled
  timeout,    \* the timeout is armed
  settled,
  outcome     \* of the promise of preprocessWithCervoCompress

received == <<stdoutBytes, kept, closed>>
promise  == <<timeout, settled, outcome>>
vars == <<prepared, output, child, stdin, received, promise>>

NoChild == [phase |-> "none", error |-> None, code |-> None, written |-> 0,
            holds |-> FALSE, killed |-> FALSE]

Init ==
  /\ prepared \in Preparations
  /\ output \in [bytes : Outputs, json : BOOLEAN]
  /\ child = NoChild /\ stdin = "open"
  /\ stdoutBytes = 0 /\ kept = 0 /\ closed = FALSE
  /\ timeout = FALSE /\ settled = FALSE /\ outcome = Waiting

Failed(reason) == [ok |-> FALSE, reason |-> reason]

Outcome(o) == outcome' = IF outcome = Waiting THEN o ELSE outcome

-----------------------------------------------------------------------------
(* What becomes of an answer *)

Converted == prepared.history \o prepared.turnPrefix

Request == [i \in DOMAIN Converted |-> ToCervoDialect(Converted[i])]

Restored(response) ==
  [i \in DOMAIN Converted |->
     RestorePiRole(response.messages[i], Converted[i])]

(* Fault: the split is taken one message late.                             *)
AcceptedSplitLate(response) ==
  LET splitAt == Len(prepared.history) + 1 IN
  [ok |-> TRUE,
   history |-> SubSeq(Restored(response), 1, splitAt),
   turnPrefix |-> SubSeq(Restored(response), splitAt + 1, Len(Converted)),
   changed |-> response.savedBytes > 0, saved |-> response.savedBytes]

Accepted(response) ==
  LET splitAt == Len(prepared.history) IN
  [ok |-> TRUE,
   history |-> SubSeq(Restored(response), 1, splitAt),
   turnPrefix |-> SubSeq(Restored(response), splitAt + 1, Len(Converted)),
   changed |-> response.savedBytes > 0, saved |-> response.savedBytes]

Judged(response) ==
  IF ValidateBridgeResponse(response, Request) THEN Accepted(response)
  ELSE Failed("invalid-output")

-----------------------------------------------------------------------------
(* Looking for the helper and starting it *)

AccessFails ==
  /\ child.phase = "none" /\ outcome = Waiting
  /\ outcome' = Failed("bridge-unavailable")
  /\ UNCHANGED <<prepared, output, child, stdin, received, timeout, settled>>

InputTooLong ==
  /\ child.phase = "none" /\ outcome = Waiting
  /\ prepared.inputBytes > MaxBridgeBytes
  /\ outcome' = Failed("bridge-failed")
  /\ UNCHANGED <<prepared, output, child, stdin, received, timeout, settled>>

(* The child runs; or its error event is to come; or spawn throws, with no *)
(* timeout armed; or it has no file descriptors left, when the use of      *)
(* child.stdout throws with the timeout armed and the error event to come. *)
Spawn ==
  /\ child.phase = "none" /\ outcome = Waiting
  /\ prepared.inputBytes <= MaxBridgeBytes
  /\ \/ /\ child' = [child EXCEPT !.phase = "running"]
        /\ timeout' = TRUE /\ UNCHANGED outcome
     \/ \E error \in SpawnErrors :
          /\ child' = [child EXCEPT !.phase = "failed", !.error = error]
          /\ timeout' = TRUE /\ UNCHANGED outcome
     \/ /\ child' = [child EXCEPT !.phase = "failed"]
        /\ outcome' = Failed("bridge-failed") /\ UNCHANGED timeout
     \/ /\ child' = [child EXCEPT !.phase = "failed", !.error = "other"]
        /\ outcome' = Failed("bridge-failed") /\ timeout' = TRUE
  /\ UNCHANGED <<prepared, output, stdin, received, settled>>

Starts == AccessFails \/ InputTooLong \/ Spawn

-----------------------------------------------------------------------------
(* finish *)

(* Fault: the child of a failed call is left to itself.                    *)
FinishWithErrorNoKill(process, reason) ==
  /\ child' = process
  /\ settled' = TRUE /\ timeout' = FALSE
  /\ IF settled THEN UNCHANGED outcome ELSE Outcome(Failed(reason))

(* finish(error), which also kills. "process" is the child as the event    *)
(* leaves it.                                                              *)
FinishWithError(process, reason) ==
  IF settled THEN child' = process /\ UNCHANGED promise
  ELSE /\ child' = [process EXCEPT !.killed = TRUE]
       /\ settled' = TRUE /\ timeout' = FALSE
       /\ Outcome(Failed(reason))

FinishWith(response) ==
  /\ UNCHANGED child
  /\ IF settled THEN UNCHANGED promise
     ELSE settled' = TRUE /\ timeout' = FALSE /\ Outcome(Judged(response))

-----------------------------------------------------------------------------
(* The helper's process *)

ChildWrites ==
  /\ child.phase = "running"
  /\ \E n \in 1..(output.bytes - child.written) :
       child' = [child EXCEPT !.written = @ + n]
  /\ UNCHANGED <<prepared, output, stdin, received, promise>>

ChildExits ==
  /\ child.phase = "running"
  /\ \E code \in {0, 1}, holds \in BOOLEAN :
       child' = [child EXCEPT !.phase = "exited", !.code = code,
                              !.holds = holds]
  /\ UNCHANGED <<prepared, output, stdin, received, promise>>

(* The process that holds the output may let it go.                        *)
OutputReleased ==
  /\ child.holds
  /\ child' = [child EXCEPT !.holds = FALSE]
  /\ UNCHANGED <<prepared, output, stdin, received, promise>>

-----------------------------------------------------------------------------
(* Events of the child *)

ErrorReason(error) ==
  IF error = "ENOENT" THEN "bridge-unavailable" ELSE "bridge-failed"

ChildError ==
  /\ child.error # None
  /\ FinishWithError([child EXCEPT !.error = None], ErrorReason(child.error))
  /\ UNCHANGED <<prepared, output, stdin, received>>

(* Fault: the limit is tested before the chunk is counted.                 *)
StdoutDataLimitLate ==
  /\ stdoutBytes < child.written
  /\ \E n \in 1..(child.written - stdoutBytes) :
       /\ stdoutBytes' = stdoutBytes + n
       /\ IF stdoutBytes > MaxBridgeBytes
          THEN FinishWithError(child, "bridge-failed") /\ UNCHANGED kept
          ELSE kept' = kept + n /\ UNCHANGED <<child, promise>>
  /\ UNCHANGED <<prepared, output, stdin, closed>>

StdoutData ==
  /\ stdoutBytes < child.written
  /\ \E n \in 1..(child.written - stdoutBytes) :
       /\ stdoutBytes' = stdoutBytes + n
       /\ IF stdoutBytes' > MaxBridgeBytes
          THEN FinishWithError(child, "bridge-failed") /\ UNCHANGED kept
          ELSE kept' = kept + n /\ UNCHANGED <<child, promise>>
  /\ UNCHANGED <<prepared, output, stdin, closed>>

(* The close event waits for the exit and for the end of the output.       *)
Ended ==
  child.phase = "exited" /\ ~child.holds /\ stdoutBytes = child.written

(* Fault: the exit code is not looked at.                                  *)
ParsesWhatever == kept = output.bytes /\ output.json

(* JSON.parse fails on anything but the whole answer.                      *)
Parses == child.code = 0 /\ kept = output.bytes /\ output.json

Close ==
  /\ Ended /\ ~closed
  /\ closed' = TRUE
  /\ \/ Parses /\ \E response \in Responses : FinishWith(response)
     \/ ~Parses /\ FinishWithError(child, "bridge-failed")
  /\ UNCHANGED <<prepared, output, stdin, stdoutBytes, kept>>

(* The helper no longer reads what is written to it.                       *)
StdinError ==
  /\ stdin = "open"
  /\ \/ child.phase \in {"running", "exited"} /\ ~closed
     \/ child.phase = "failed" /\ settled
  /\ stdin' = "error"
  /\ FinishWithError(child, "bridge-failed")
  /\ UNCHANGED <<prepared, output, received>>

TimeoutFires ==
  /\ timeout
  /\ FinishWithError(child, "bridge-failed")
  /\ UNCHANGED <<prepared, output, stdin, received>>

-----------------------------------------------------------------------------
Next ==
  \/ Starts
  \/ ChildWrites \/ ChildExits \/ OutputReleased
  \/ ChildError \/ StdoutData \/ Close \/ StdinError \/ TimeoutFires

Spec == Init /\ [][Next]_vars

(* The search for the helper ends, an error event that is due comes, the   *)
(* timeout fires, and a helper that is killed exits. Nothing is assumed of *)
(* a helper that is left alone.                                            *)
KilledChildExits == child.killed /\ ChildExits

Fairness ==
  /\ WF_vars(Starts) /\ WF_vars(ChildError) /\ WF_vars(TimeoutFires)
  /\ WF_vars(KilledChildExits)

FairSpec == Spec /\ Fairness

-----------------------------------------------------------------------------
(* Types *)

Child ==
  [phase : {"none", "running", "exited", "failed"},
   error : SpawnErrors \cup {None}, code : {0, 1, None}, written : Nat,
   holds : BOOLEAN, killed : BOOLEAN]

Success ==
  [ok : {TRUE}, history : Seq(Message), turnPrefix : Seq(Message),
   changed : BOOLEAN, saved : Nat]

Failure == [ok : {FALSE}, reason : FailureReasons]

ASSUME NothingAssumption ==
  /\ None \notin SpawnErrors /\ None \notin {0, 1}
  /\ Waiting \notin Success \cup Failure

(* Type correctness of the call, the process and the promise.              *)
TypeOK ==
  /\ prepared \in Preparations
  /\ output \in [bytes : Outputs, json : BOOLEAN]
  /\ child \in Child /\ stdin \in {"open", "error"}
  /\ stdoutBytes \in Nat /\ kept \in Nat
  /\ closed \in BOOLEAN /\ timeout \in BOOLEAN /\ settled \in BOOLEAN
  /\ outcome \in Success \cup Failure \cup {Waiting}

-----------------------------------------------------------------------------
(* Properties *)

Answered == outcome # Waiting

Succeeded == Answered /\ outcome.ok

(* An answer is judged only when it is whole: the helper has exited with   *)
(* success and all it wrote has arrived and was kept. A cut, failed or     *)
(* unfinished answer never reaches validation (runProcess).                *)
OnlyWholeAnswers ==
  Succeeded \/ outcome = Failed("invalid-output") =>
    /\ child.phase = "exited" /\ child.code = 0 /\ closed
    /\ kept = child.written /\ kept = output.bytes

(* The memory that holds the helper's output stays within                  *)
(* MAX_BRIDGE_BYTES, also for what arrives after the call was answered     *)
(* (the data handler of runProcess).                                       *)
BufferBounded == kept <= MaxBridgeBytes

TotalBytes(messages) ==
  LET upTo[i \in 0..Len(messages)] ==
        IF i = 0 THEN 0 ELSE upTo[i - 1] + Bytes[messages[i].text]
  IN upTo[Len(messages)]

(* The bytes reported as saved are those by which the conversation, all of *)
(* it, has become shorter; one reported as changed is shorter              *)
(* (validateBridgeResponse; ARCHITECTURE.md: "honest byte accounting").    *)
HonestAccounting ==
  Succeeded =>
    /\ outcome.saved = TotalBytes(Converted)
                       - TotalBytes(outcome.history \o outcome.turnPrefix)
    /\ outcome.changed <=> outcome.saved > 0

(* Once the call is answered its timeout goes and the helper's process     *)
(* ends, also when the answer was an error event, an error of the pipe or  *)
(* a promise rejected by an exception (finish).                            *)
NothingLeftBehind ==
  Answered ~> ~timeout /\ child.phase # "running"

Service ==
  INSTANCE Preprocessing WITH answer <- outcome, Reasons <- FailureReasons

(* The call keeps what Preprocessing promises: one answer, in the end,     *)
(* that is a category of failure or the same conversation.                 *)
ServiceKept == Service!Spec
=============================================================================
