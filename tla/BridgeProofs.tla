---------------------------- MODULE BridgeProofs ----------------------------
(***************************************************************************)
(* Theorems about Bridge, for every conversation, answer of the helper,    *)
(* length of its output and limit.                                         *)
(***************************************************************************)
EXTENDS Bridge, SequenceTheorems, Induction, TLAPS

-----------------------------------------------------------------------------
(* Messages *)

(* Restoring the role of what the helper left alone gives the message back.*)
LEMMA RoleRestored ==
  ASSUME NEW m \in Message
  PROVE  RestorePiRole(ToCervoDialect(m), m) = m
BY DEF RestorePiRole, ToCervoDialect, Message, Roles

(* A message that differs in mutable content alone from what was sent is,  *)
(* with its role restored, the same message.                               *)
LEMMA MessageRestored ==
  ASSUME NEW m \in Message, NEW r \in Message,
         SameButMutableContent(ToCervoDialect(m), r)
  PROVE  RestorePiRole(r, m) \in Message
         /\ Service!SameMessage(m, RestorePiRole(r, m))
<1>1. CASE m.role = "toolResult"
  <2> DEFINE sent == [m EXCEPT !.role = "tool"]
             back == [r EXCEPT !.role = "toolResult"]
  <2>1. ToCervoDialect(m) = sent /\ RestorePiRole(r, m) = back
    BY <1>1 DEF ToCervoDialect, RestorePiRole
  <2>2. /\ sent.role = "tool" /\ sent.form = m.form /\ sent.id = m.id
        /\ sent.text = m.text
    BY DEF Message
  <2>3. /\ back \in Message /\ back.role = "toolResult"
        /\ back.form = r.form /\ back.id = r.id /\ back.text = r.text
    BY DEF Message, Roles
  <2> HIDE DEF sent, back
  <2>4. r.form = m.form /\ r.id = m.id /\ (IsMutable(sent) \/ r.text = m.text)
    BY <2>1, <2>2 DEF SameButMutableContent
  <2>5. IsMutable(sent) => Service!Rewritable(m)
    BY <1>1, <2>2 DEF IsMutable, Service!Rewritable
  <2>6. QED
    BY <1>1, <2>1, <2>3, <2>4, <2>5 DEF Service!SameMessage
<1>2. CASE m.role # "toolResult"
  <2>1. ToCervoDialect(m) = m /\ RestorePiRole(r, m) = r
    BY <1>2 DEF ToCervoDialect, RestorePiRole
  <2>2. IsMutable(m) => Service!Rewritable(m)
    BY DEF IsMutable, Service!Rewritable
  <2>3. QED
    BY <2>1, <2>2 DEF SameButMutableContent, Service!SameMessage
<1>3. QED
  BY <1>1, <1>2

-----------------------------------------------------------------------------
(* Conversations *)

LEMMA Places ==
  ASSUME NEW n \in Nat, NEW k \in Nat
  PROVE  /\ \A i \in 1..n : i \in 1..(n + k) /\ i <= n
         /\ \A i \in 1..k : n + i \in 1..(n + k) /\ ~(n + i <= n)
                              /\ (n + i) - n = i
OBVIOUS

LEMMA ConvertedType ==
  ASSUME prepared \in Preparations
  PROVE  /\ prepared.history \in Seq(Message)
         /\ prepared.turnPrefix \in Seq(Message)
         /\ Converted \in Seq(Message)
         /\ DOMAIN Converted = 1..Len(Converted)
         /\ DOMAIN prepared.history = 1..Len(prepared.history)
         /\ DOMAIN prepared.turnPrefix = 1..Len(prepared.turnPrefix)
         /\ Len(prepared.history) \in Nat /\ Len(prepared.turnPrefix) \in Nat
         /\ Len(Converted) = Len(prepared.history) + Len(prepared.turnPrefix)
         /\ \A i \in 1..Len(prepared.history) :
              Converted[i] = prepared.history[i]
         /\ \A i \in 1..Len(prepared.turnPrefix) :
              Converted[Len(prepared.history) + i] = prepared.turnPrefix[i]
<1>1. prepared \in Preparation
  BY BridgeAssumption
<1>2. /\ prepared.history \in Seq(Message)
      /\ prepared.turnPrefix \in Seq(Message)
  BY <1>1 DEF Preparation
<1>3. /\ Converted \in Seq(Message)
      /\ Len(Converted) = Len(prepared.history) + Len(prepared.turnPrefix)
      /\ \A i \in 1..Len(prepared.history) + Len(prepared.turnPrefix) :
           Converted[i] = IF i <= Len(prepared.history) THEN prepared.history[i]
                          ELSE prepared.turnPrefix[i - Len(prepared.history)]
  BY <1>2, ConcatProperties DEF Converted
<1>4. /\ Len(prepared.history) \in Nat /\ Len(prepared.turnPrefix) \in Nat
      /\ DOMAIN prepared.history = 1..Len(prepared.history)
      /\ DOMAIN prepared.turnPrefix = 1..Len(prepared.turnPrefix)
  BY <1>2
<1>5. DOMAIN Converted = 1..Len(Converted)
  BY <1>3, LenProperties
<1>6. ASSUME NEW i \in 1..Len(prepared.history)
      PROVE  Converted[i] = prepared.history[i]
  <2>1. i \in 1..Len(prepared.history) + Len(prepared.turnPrefix)
        /\ i <= Len(prepared.history)
    BY <1>4, Places
  <2>2. QED
    BY <1>3, <2>1
<1>7. ASSUME NEW i \in 1..Len(prepared.turnPrefix)
      PROVE  Converted[Len(prepared.history) + i] = prepared.turnPrefix[i]
  <2> DEFINE j == Len(prepared.history) + i
  <2>1. /\ j \in 1..Len(prepared.history) + Len(prepared.turnPrefix)
        /\ ~(j <= Len(prepared.history)) /\ j - Len(prepared.history) = i
    BY <1>4, Places
  <2> HIDE DEF j
  <2>2. Converted[j] = prepared.turnPrefix[j - Len(prepared.history)]
    BY <1>3, <2>1
  <2>3. QED
    BY <2>1, <2>2 DEF j
<1>8. QED
  BY <1>2, <1>3, <1>4, <1>5, <1>6, <1>7

(* A valid answer has a message for each that was sent.                    *)
LEMMA RestoredMessages ==
  ASSUME prepared \in Preparations, NEW response \in Responses,
         ValidateBridgeResponse(response, Request)
  PROVE  /\ Restored(response) \in Seq(Message)
         /\ Len(Restored(response)) = Len(Converted)
         /\ \A i \in 1..Len(Converted) :
              Service!SameMessage(Converted[i], Restored(response)[i])
<1>1. response \in Response /\ response.messages \in Seq(Message)
  BY BridgeAssumption DEF ValidateBridgeResponse, Response
<1>2. Converted \in Seq(Message) /\ DOMAIN Converted = 1..Len(Converted)
      /\ Len(Converted) \in Nat
  BY ConvertedType
<1>3. /\ DOMAIN Request = 1..Len(Converted)
      /\ \A i \in 1..Len(Converted) : Request[i] = ToCervoDialect(Converted[i])
  BY <1>2 DEF Request
<1>4. Len(Request) = Len(Converted)
  BY <1>2, <1>3
<1>5. /\ Len(response.messages) = Len(Converted)
      /\ \A i \in 1..Len(Converted) :
           SameButMutableContent(ToCervoDialect(Converted[i]),
                                 response.messages[i])
  BY <1>3, <1>4 DEF ValidateBridgeResponse, SameShape
<1>6. ASSUME NEW i \in 1..Len(Converted)
      PROVE  /\ Restored(response)[i] \in Message
             /\ Service!SameMessage(Converted[i], Restored(response)[i])
  <2>1. Converted[i] \in Message /\ response.messages[i] \in Message
    BY <1>1, <1>2, <1>5
  <2>2. Restored(response)[i] =
          RestorePiRole(response.messages[i], Converted[i])
    BY <1>2 DEF Restored
  <2>3. QED
    BY <1>5, <2>1, <2>2, MessageRestored
<1>7. Restored(response) \in [1..Len(Converted) -> Message]
  BY <1>2, <1>6 DEF Restored
<1>8. Restored(response) \in Seq(Message)
      /\ Len(Restored(response)) = Len(Converted)
  BY <1>2, <1>7
<1>9. QED
  BY <1>6, <1>8

(* The two parts of the answer, cut where the conversation was joined.     *)
LEMMA AnswerSplit ==
  ASSUME prepared \in Preparations, NEW all \in Seq(Message),
         Len(all) = Len(Converted)
  PROVE  LET n     == Len(prepared.history)
             first == SubSeq(all, 1, n)
             rest  == SubSeq(all, n + 1, Len(Converted))
         IN /\ first \in Seq(Message) /\ rest \in Seq(Message)
            /\ Len(first) = n /\ Len(rest) = Len(prepared.turnPrefix)
            /\ \A i \in 1..n : first[i] = all[i]
            /\ \A i \in 1..Len(prepared.turnPrefix) : rest[i] = all[n + i]
<1> DEFINE n == Len(prepared.history)
           k == Len(prepared.turnPrefix)
<1>1. n \in Nat /\ k \in Nat /\ Len(Converted) = n + k
  BY ConvertedType
<1>2. \A i \in 1..(n + k) : all[i] \in Message
  BY <1>1, ElementOfSeq
<1> HIDE DEF n, k
<1>3. /\ SubSeq(all, 1, n) \in Seq(Message)
      /\ Len(SubSeq(all, 1, n)) = IF 1 <= n THEN n - 1 + 1 ELSE 0
      /\ \A i \in 1..(n - 1 + 1) : SubSeq(all, 1, n)[i] = all[1 + i - 1]
  <2>1. \A i \in 1..n : all[i] \in Message
    BY <1>1, <1>2
  <2>2. QED
    BY <1>1, <2>1, SubSeqProperties
<1>4. /\ SubSeq(all, n + 1, n + k) \in Seq(Message)
      /\ Len(SubSeq(all, n + 1, n + k)) =
           IF n + 1 <= n + k THEN n + k - (n + 1) + 1 ELSE 0
      /\ \A i \in 1..(n + k - (n + 1) + 1) :
           SubSeq(all, n + 1, n + k)[i] = all[n + 1 + i - 1]
  <2>1. \A i \in (n + 1)..(n + k) : all[i] \in Message
    BY <1>1, <1>2
  <2>2. QED
    BY <1>1, <2>1, SubSeqProperties
<1>5. /\ Len(SubSeq(all, 1, n)) = n
      /\ Len(SubSeq(all, n + 1, n + k)) = k
  BY <1>1, <1>3, <1>4
<1>6. \A i \in 1..n : SubSeq(all, 1, n)[i] = all[i]
  BY <1>1, <1>3
<1>7. \A i \in 1..k : SubSeq(all, n + 1, n + k)[i] = all[n + i]
  BY <1>1, <1>4
<1>8. QED
  BY <1>1, <1>3, <1>4, <1>5, <1>6, <1>7 DEF n, k

(* An accepted answer is well formed and the same conversation.            *)
LEMMA AcceptedIsSame ==
  ASSUME prepared \in Preparations, NEW response \in Responses,
         ValidateBridgeResponse(response, Request)
  PROVE  /\ Accepted(response) \in Success
         /\ Service!SameConversation(Accepted(response))
<1> DEFINE n     == Len(prepared.history)
           all   == Restored(response)
           first == SubSeq(all, 1, n)
           rest  == SubSeq(all, n + 1, Len(Converted))
           saved == response.savedBytes
           answer == [ok |-> TRUE, history |-> first, turnPrefix |-> rest,
                      changed |-> saved > 0, saved |-> saved]
<1>1. Accepted(response) = answer
  BY DEF Accepted
<1>2. response \in Response /\ saved \in Nat
  BY BridgeAssumption DEF ValidateBridgeResponse, Response
<1>3. /\ all \in Seq(Message) /\ Len(all) = Len(Converted)
      /\ \A i \in 1..Len(Converted) :
           Service!SameMessage(Converted[i], all[i])
  BY RestoredMessages
<1>4. /\ n \in Nat /\ Len(prepared.turnPrefix) \in Nat
      /\ Len(Converted) = n + Len(prepared.turnPrefix)
      /\ prepared.history \in Seq(Message)
      /\ prepared.turnPrefix \in Seq(Message)
      /\ Converted \in Seq(Message)
      /\ \A i \in 1..n : Converted[i] = prepared.history[i]
      /\ \A i \in 1..Len(prepared.turnPrefix) :
           Converted[n + i] = prepared.turnPrefix[i]
  BY ConvertedType
<1> HIDE DEF all
<1>5. /\ first \in Seq(Message) /\ rest \in Seq(Message)
      /\ Len(first) = n /\ Len(rest) = Len(prepared.turnPrefix)
      /\ \A i \in 1..n : first[i] = all[i]
      /\ \A i \in 1..Len(prepared.turnPrefix) : rest[i] = all[n + i]
  BY <1>3, AnswerSplit
<1>6. saved = 0 => all = Converted
  <2>1. SUFFICES ASSUME saved = 0 PROVE all = Converted
    OBVIOUS
  <2>2. response.messages = Request
    BY <2>1 DEF ValidateBridgeResponse, HonestBytes
  <2>3. ASSUME NEW i \in 1..Len(Converted) PROVE all[i] = Converted[i]
    <3>1. i \in DOMAIN Converted /\ Converted[i] \in Message
      BY <1>4, ElementOfSeq, LenProperties
    <3>2. response.messages[i] = ToCervoDialect(Converted[i])
      BY <2>2, <3>1 DEF Request
    <3>3. all[i] = RestorePiRole(response.messages[i], Converted[i])
      BY <3>1 DEF all, Restored
    <3>4. QED
      BY <3>1, <3>2, <3>3, RoleRestored
  <2>4. QED
    BY <1>3, <1>4, <2>3, SeqEqual
<1> HIDE DEF first, rest, n
<1>7. Service!SameMessages(prepared.history, first)
  <2>1. ASSUME NEW i \in DOMAIN prepared.history
        PROVE  Service!SameMessage(prepared.history[i], first[i])
    <3>1. i \in 1..n
      BY <1>4, LenProperties DEF n
    <3>2. i \in 1..Len(Converted)
      BY <1>4, <3>1, Places
    <3>3. QED
      BY <1>3, <1>4, <1>5, <3>1, <3>2
  <2>2. QED
    BY <1>5, <2>1 DEF Service!SameMessages, n
<1>8. Service!SameMessages(prepared.turnPrefix, rest)
  <2>1. ASSUME NEW i \in DOMAIN prepared.turnPrefix
        PROVE  Service!SameMessage(prepared.turnPrefix[i], rest[i])
    <3>1. i \in 1..Len(prepared.turnPrefix) /\ n + i \in 1..Len(Converted)
      BY <1>4
    <3>2. QED
      BY <1>3, <1>4, <1>5, <3>1
  <2>2. QED
    BY <1>5, <2>1 DEF Service!SameMessages
<1>9. saved = 0 => first = prepared.history /\ rest = prepared.turnPrefix
  <2>1. SUFFICES ASSUME saved = 0
                 PROVE  first = prepared.history /\ rest = prepared.turnPrefix
    OBVIOUS
  <2>2. \A i \in 1..n : first[i] = prepared.history[i]
    BY <1>4, <1>5, <1>6, <2>1
  <2>3. \A i \in 1..Len(prepared.turnPrefix) :
          rest[i] = prepared.turnPrefix[i]
    BY <1>4, <1>5, <1>6, <2>1
  <2>4. first = prepared.history
    BY <1>4, <1>5, <2>2, SeqEqual DEF n
  <2>5. rest = prepared.turnPrefix
    BY <1>4, <1>5, <2>3, SeqEqual
  <2>6. QED
    BY <2>4, <2>5
<1> HIDE DEF saved
<1>10. answer \in Success
  <2>1. (saved > 0) \in BOOLEAN
    OBVIOUS
  <2>2. QED
    BY <1>2, <1>5, <2>1 DEF Success
<1>11. Service!SameConversation(answer)
  <2>1. saved > 0 \/ saved = 0
    BY <1>2
  <2>2. QED
    BY <1>7, <1>8, <1>9, <2>1 DEF Service!SameConversation
<1>12. QED
  BY <1>1, <1>10, <1>11

-----------------------------------------------------------------------------
(* Steps *)

(* What is kept has been received, what is received has been written, and  *)
(* no more is written than there is to say.                                *)
Counted ==
  /\ kept <= stdoutBytes /\ stdoutBytes <= child.written
  /\ child.written <= output.bytes /\ kept <= MaxBridgeBytes

(* The promise keeps its first outcome, which is a category of failure or  *)
(* the same conversation.                                                  *)
OutcomeStep ==
  \/ outcome' = outcome
  \/ /\ outcome = Waiting /\ outcome' \in Success \cup Failure
     /\ outcome' \in Failure \/ Service!SameConversation(outcome')

Good == TypeOK /\ Counted

LEMMA NumbersOK ==
  ASSUME TypeOK
  PROVE  /\ child.written \in Nat /\ output.bytes \in Nat
         /\ stdoutBytes \in Nat /\ kept \in Nat /\ MaxBridgeBytes \in Nat
BY BridgeAssumption DEF TypeOK, Child

LEMMA FailedOK ==
  ASSUME NEW reason \in FailureReasons
  PROVE  Failed(reason) \in Failure
BY DEF Failed, Failure

BridgeErrors == {"bridge-unavailable", "bridge-failed"}

(* A finish with an error leaves all of the child but its killed flag as   *)
(* the event has left it.                                                  *)
LEMMA FinishErrorStep ==
  ASSUME TypeOK, NEW process \in Child, NEW reason \in BridgeErrors,
         FinishWithError(process, reason)
  PROVE  /\ child' \in Child
         /\ child'.phase = process.phase /\ child'.code = process.code
         /\ child'.written = process.written
         /\ settled' \in BOOLEAN /\ timeout' \in BOOLEAN
         /\ outcome' \in Success \cup Failure \cup {Waiting}
         /\ \/ outcome' = outcome
            \/ outcome = Waiting /\ outcome' = Failed(reason)
         /\ OutcomeStep
<1>1. Failed(reason) \in Failure
  BY FailedOK DEF BridgeErrors, FailureReasons
<1>2. CASE settled
  BY <1>2 DEF FinishWithError, promise, OutcomeStep, TypeOK
<1>3. CASE ~settled
  <2>1. child' = [process EXCEPT !.killed = TRUE] /\ settled' = TRUE
        /\ timeout' = FALSE /\ Outcome(Failed(reason))
    BY <1>3 DEF FinishWithError
  <2>2. child' \in Child /\ child'.phase = process.phase
        /\ child'.code = process.code /\ child'.written = process.written
    BY <2>1 DEF Child
  <2>3. \/ outcome' = outcome
        \/ outcome = Waiting /\ outcome' = Failed(reason)
    BY <2>1 DEF Outcome
  <2>4. QED
    BY <1>1, <2>1, <2>2, <2>3 DEF OutcomeStep, TypeOK
<1>4. QED
  BY <1>2, <1>3

LEMMA StartsStep ==
  ASSUME Good, Starts
  PROVE  Good' /\ OutcomeStep
<1> USE DEF Good, received, promise
<1>1. Failed("bridge-unavailable") \in Failure
      /\ Failed("bridge-failed") \in Failure
  BY FailedOK DEF FailureReasons
<1>2. UNCHANGED <<prepared, output, stdoutBytes, kept, closed, settled, stdin>>
  BY DEF Starts, AccessFails, InputTooLong, Spawn
<1>3. child' \in Child /\ child'.written = child.written
  <2>1. CASE UNCHANGED child
    BY <2>1 DEF TypeOK
  <2>2. CASE child' = [child EXCEPT !.phase = "running"]
    BY <2>2 DEF TypeOK, Child
  <2>3. CASE \E error \in SpawnErrors :
               child' = [child EXCEPT !.phase = "failed", !.error = error]
    BY <2>3 DEF TypeOK, Child
  <2>4. CASE child' = [child EXCEPT !.phase = "failed"]
    BY <2>4 DEF TypeOK, Child
  <2>5. "other" \in SpawnErrors
    BY DEF SpawnErrors
  <2>6. QED
    BY <2>1, <2>2, <2>3, <2>4, <2>5
    DEF Starts, AccessFails, InputTooLong, Spawn
<1>4. /\ \/ outcome' = outcome
         \/ outcome = Waiting /\ outcome' \in Failure
      /\ timeout' \in BOOLEAN
  BY <1>1 DEF Starts, AccessFails, InputTooLong, Spawn, TypeOK
<1>5. QED
  BY <1>2, <1>3, <1>4 DEF TypeOK, Counted, OutcomeStep

LEMMA ChildStep ==
  ASSUME Good, ChildWrites \/ ChildExits \/ OutputReleased
  PROVE  Good' /\ OutcomeStep
<1> USE DEF Good, received, promise
<1>1. /\ UNCHANGED <<prepared, output, stdin, stdoutBytes, kept, closed>>
      /\ UNCHANGED <<timeout, settled, outcome>>
  BY DEF ChildWrites, ChildExits, OutputReleased
<1>2. child' \in Child /\ child.written <= child'.written
      /\ child'.written <= output.bytes
  <2>1. CASE ChildWrites
    <3>1. PICK n \in 1..(output.bytes - child.written) :
            child' = [child EXCEPT !.written = @ + n]
      BY <2>1 DEF ChildWrites
    <3>2. child.written + n \in Nat /\ child.written <= child.written + n
          /\ child.written + n <= output.bytes
      BY NumbersOK
    <3>3. child' \in Child /\ child'.written = child.written + n
      BY <3>1, <3>2 DEF TypeOK, Child
    <3>4. QED
      BY <3>2, <3>3
  <2>2. CASE ChildExits
    <3>1. PICK code \in {0, 1}, holds \in BOOLEAN :
            child' = [child EXCEPT !.phase = "exited", !.code = code,
                                   !.holds = holds]
      BY <2>2 DEF ChildExits
    <3>2. child' \in Child /\ child'.written = child.written
      BY <3>1 DEF TypeOK, Child
    <3>3. QED
      BY <3>2, NumbersOK DEF Counted
  <2>3. CASE OutputReleased
    <3>1. child' \in Child /\ child'.written = child.written
      BY <2>3 DEF OutputReleased, TypeOK, Child
    <3>2. QED
      BY <3>1, NumbersOK DEF Counted
  <2>4. QED
    BY <2>1, <2>2, <2>3
<1>3. stdoutBytes <= child'.written
  <2>1. child'.written \in Nat
    BY <1>2 DEF Child
  <2>2. QED
    BY <1>2, <2>1, NumbersOK DEF Counted
<1>4. QED
  BY <1>1, <1>2, <1>3 DEF TypeOK, Counted, OutcomeStep

LEMMA EventStep ==
  ASSUME Good, ChildError \/ StdinError \/ TimeoutFires
  PROVE  Good' /\ OutcomeStep /\ UNCHANGED <<kept, closed, output>>
         /\ child'.phase = child.phase /\ child'.code = child.code
         /\ \/ outcome' = outcome
            \/ \E reason \in BridgeErrors : outcome' = Failed(reason)
<1> USE DEF Good, received
<1>1. PICK process \in Child, reason \in BridgeErrors :
        /\ FinishWithError(process, reason)
        /\ process.phase = child.phase /\ process.code = child.code
        /\ process.written = child.written
  <2>1. CASE ChildError
    <3> DEFINE process == [child EXCEPT !.error = None]
    <3>1. process \in Child /\ process.phase = child.phase
          /\ process.code = child.code /\ process.written = child.written
      BY DEF TypeOK, Child
    <3>2. ErrorReason(child.error) \in BridgeErrors
      BY DEF ErrorReason, BridgeErrors
    <3>3. FinishWithError(process, ErrorReason(child.error))
      BY <2>1 DEF ChildError
    <3> HIDE DEF process
    <3>4. QED
      BY <3>1, <3>2, <3>3
  <2>2. CASE StdinError \/ TimeoutFires
    <3>1. FinishWithError(child, "bridge-failed")
      BY <2>2 DEF StdinError, TimeoutFires
    <3>2. child \in Child /\ "bridge-failed" \in BridgeErrors
      BY DEF TypeOK, BridgeErrors
    <3>3. QED
      BY <3>1, <3>2
  <2>3. QED
    BY <2>1, <2>2
<1>2. UNCHANGED <<prepared, output, stdoutBytes, kept, closed>>
      /\ stdin' \in {"open", "error"}
  BY DEF ChildError, StdinError, TimeoutFires, TypeOK
<1>3. /\ child' \in Child
      /\ child'.phase = process.phase /\ child'.code = process.code
      /\ child'.written = process.written
      /\ settled' \in BOOLEAN /\ timeout' \in BOOLEAN
      /\ outcome' \in Success \cup Failure \cup {Waiting}
      /\ \/ outcome' = outcome
         \/ outcome = Waiting /\ outcome' = Failed(reason)
      /\ OutcomeStep
  BY <1>1, FinishErrorStep
<1>4. QED
  BY <1>1, <1>2, <1>3 DEF TypeOK, Counted

LEMMA DataStep ==
  ASSUME Good, StdoutData
  PROVE  /\ Good' /\ OutcomeStep
         /\ UNCHANGED <<closed, output>>
         /\ child'.phase = child.phase /\ child'.code = child.code
         /\ outcome' = outcome \/ outcome' = Failed("bridge-failed")
<1> USE DEF Good, received, promise
<1>1. PICK n \in 1..(child.written - stdoutBytes) :
        /\ stdoutBytes' = stdoutBytes + n
        /\ IF stdoutBytes' > MaxBridgeBytes
           THEN FinishWithError(child, "bridge-failed") /\ UNCHANGED kept
           ELSE kept' = kept + n /\ UNCHANGED <<child, promise>>
  BY DEF StdoutData
<1>2. /\ stdoutBytes + n \in Nat /\ kept + n \in Nat
      /\ stdoutBytes + n <= child.written
      /\ kept <= stdoutBytes + n /\ kept + n <= stdoutBytes + n
  BY NumbersOK DEF Counted
<1>3. child \in Child /\ "bridge-failed" \in BridgeErrors
  BY DEF TypeOK, BridgeErrors
<1>4. UNCHANGED <<prepared, output, stdin, closed>>
  BY DEF StdoutData
<1>5. CASE stdoutBytes + n > MaxBridgeBytes
  <2>1. FinishWithError(child, "bridge-failed") /\ kept' = kept
        /\ stdoutBytes' = stdoutBytes + n
    BY <1>1, <1>5
  <2>2. /\ child' \in Child
        /\ child'.phase = child.phase /\ child'.code = child.code
        /\ child'.written = child.written
        /\ settled' \in BOOLEAN /\ timeout' \in BOOLEAN
        /\ outcome' \in Success \cup Failure \cup {Waiting}
        /\ \/ outcome' = outcome
           \/ outcome = Waiting /\ outcome' = Failed("bridge-failed")
        /\ OutcomeStep
    BY <1>3, <2>1, FinishErrorStep
  <2>3. QED
    BY <1>2, <1>4, <2>1, <2>2 DEF TypeOK, Counted
<1>6. CASE ~(stdoutBytes + n > MaxBridgeBytes)
  <2>1. stdoutBytes' = stdoutBytes + n /\ kept' = kept + n
        /\ UNCHANGED <<child, timeout, settled, outcome>>
    BY <1>1, <1>6
  <2>2. kept + n <= MaxBridgeBytes
    BY <1>2, <1>6, NumbersOK
  <2>3. QED
    BY <1>2, <1>4, <2>1, <2>2 DEF TypeOK, Counted, OutcomeStep
<1>7. QED
  BY <1>5, <1>6

(* An answer that parses gives an outcome of the closed set.               *)
LEMMA JudgedOK ==
  ASSUME TypeOK, NEW response \in Responses
  PROVE  /\ Judged(response) \in Success \cup Failure
         /\ Judged(response) \in Failure
              \/ Service!SameConversation(Judged(response))
<1>1. prepared \in Preparations
  BY DEF TypeOK
<1>2. CASE ValidateBridgeResponse(response, Request)
  BY <1>1, <1>2, AcceptedIsSame DEF Judged
<1>3. CASE ~ValidateBridgeResponse(response, Request)
  BY <1>3, FailedOK DEF Judged, FailureReasons
<1>4. QED
  BY <1>2, <1>3

LEMMA CloseStep ==
  ASSUME Good, Close
  PROVE  /\ Good' /\ OutcomeStep
         /\ UNCHANGED <<kept, output>> /\ closed' = TRUE
         /\ child'.phase = "exited" /\ child'.code = child.code
         /\ \/ Parses
            \/ outcome' = outcome \/ outcome' = Failed("bridge-failed")
<1> USE DEF Good, promise
<1>1. UNCHANGED <<prepared, output, stdin, stdoutBytes, kept>>
      /\ closed' = TRUE /\ child.phase = "exited"
  BY DEF Close, Ended
<1>2. CASE Parses /\ \E response \in Responses : FinishWith(response)
  <2>1. PICK response \in Responses : FinishWith(response)
    BY <1>2
  <2>2. /\ Judged(response) \in Success \cup Failure
        /\ Judged(response) \in Failure
             \/ Service!SameConversation(Judged(response))
    BY JudgedOK
  <2>3. \/ outcome' = outcome
        \/ outcome = Waiting /\ outcome' = Judged(response)
    BY <2>1 DEF FinishWith, Outcome
  <2>4. child' = child /\ settled' \in BOOLEAN /\ timeout' \in BOOLEAN
    BY <2>1 DEF FinishWith, TypeOK
  <2>5. OutcomeStep
    BY <2>2, <2>3 DEF OutcomeStep
  <2>6. QED
    BY <1>1, <1>2, <2>4, <2>5 DEF TypeOK, Counted, OutcomeStep
<1>3. CASE FinishWithError(child, "bridge-failed")
  <2>1. child \in Child /\ "bridge-failed" \in BridgeErrors
    BY DEF TypeOK, BridgeErrors
  <2>2. /\ child' \in Child
        /\ child'.phase = child.phase /\ child'.code = child.code
        /\ child'.written = child.written
        /\ settled' \in BOOLEAN /\ timeout' \in BOOLEAN
        /\ outcome' \in Success \cup Failure \cup {Waiting}
        /\ \/ outcome' = outcome
           \/ outcome = Waiting /\ outcome' = Failed("bridge-failed")
        /\ OutcomeStep
    BY <1>3, <2>1, FinishErrorStep
  <2>3. QED
    BY <1>1, <2>2 DEF TypeOK, Counted
<1>4. QED
  BY <1>2, <1>3 DEF Close

LEMMA GoodStep ==
  ASSUME Good, [Next]_vars
  PROVE  Good' /\ OutcomeStep /\ UNCHANGED prepared
<1>1. CASE UNCHANGED vars
  BY <1>1 DEF vars, received, promise, Good, TypeOK, Counted, OutcomeStep
<1>2. CASE Next
  <2>1. Good' /\ OutcomeStep
    <3>1. CASE Starts
      BY <3>1, StartsStep
    <3>2. CASE ChildWrites \/ ChildExits \/ OutputReleased
      BY <3>2, ChildStep
    <3>3. CASE ChildError \/ StdinError \/ TimeoutFires
      BY <3>3, EventStep
    <3>4. CASE StdoutData
      BY <3>4, DataStep
    <3>5. CASE Close
      BY <3>5, CloseStep
    <3>6. QED
      BY <1>2, <3>1, <3>2, <3>3, <3>4, <3>5 DEF Next
  <2>2. UNCHANGED prepared
    BY <1>2 DEF Next, Starts, AccessFails, InputTooLong, Spawn, ChildWrites,
      ChildExits, OutputReleased, ChildError, StdoutData, Close, StdinError,
      TimeoutFires
  <2>3. QED
    BY <2>1, <2>2
<1>3. QED
  BY <1>1, <1>2

LEMMA GoodInit == Init => Good
<1> SUFFICES ASSUME Init PROVE Good
  OBVIOUS
<1>1. NoChild \in Child /\ NoChild.written = 0
  BY DEF NoChild, Child
<1>2. output \in [bytes : Outputs, json : BOOLEAN] /\ output.bytes \in Nat
  BY BridgeAssumption DEF Init
<1>3. MaxBridgeBytes \in Nat
  BY BridgeAssumption
<1>4. TypeOK
  BY <1>1, <1>2 DEF Init, TypeOK
<1>5. Counted
  <2>1. kept = 0 /\ stdoutBytes = 0 /\ child.written = 0
    BY <1>1 DEF Init
  <2>2. QED
    BY <1>2, <1>3, <2>1 DEF Counted
<1>6. QED
  BY <1>4, <1>5 DEF Good

LEMMA GoodAlways == Spec => []Good
<1>1. Good /\ [Next]_vars => Good'
  BY GoodStep
<1>2. QED
  BY <1>1, GoodInit, PTL DEF Spec

-----------------------------------------------------------------------------
(* Theorems *)

(* The helper's process, the buffers and the promise stay within their     *)
(* types; in particular every answer is a category of the closed set or a  *)
(* well-formed conversation.                                               *)
THEOREM BridgeTypes == Spec => []TypeOK
<1>1. Good => TypeOK
  BY DEF Good
<1>2. QED
  BY <1>1, GoodAlways, PTL

(* However the output arrives and whatever follows the limit, what is kept *)
(* of it never exceeds MAX_BRIDGE_BYTES.                                   *)
THEOREM BufferStaysBounded == Spec => []BufferBounded
<1>1. Good => BufferBounded
  BY DEF Good, Counted, BufferBounded
<1>2. QED
  BY <1>1, GoodAlways, PTL

(* The outcome came from an answer that was judged.                        *)
IsJudged == Succeeded \/ outcome = Failed("invalid-output")

JudgedWhole ==
  IsJudged => /\ child.phase = "exited" /\ child.code = 0 /\ closed
              /\ kept = output.bytes

LEMMA ErrorNotJudged ==
  ASSUME NEW reason \in BridgeErrors
  PROVE  /\ Failed(reason).ok = FALSE
         /\ Failed(reason) # Failed("invalid-output")
<1>1. Failed(reason).reason = reason
      /\ Failed("invalid-output").reason = "invalid-output"
  BY DEF Failed
<1>2. reason # "invalid-output"
  BY DEF BridgeErrors
<1>3. QED
  BY <1>1, <1>2 DEF Failed

LEMMA JudgedWholeStep ==
  ASSUME Good, JudgedWhole, [Next]_vars
  PROVE  JudgedWhole'
<1> USE DEF received, promise
<1>1. SUFFICES ASSUME IsJudged'
               PROVE  /\ child'.phase = "exited" /\ child'.code = 0 /\ closed'
                      /\ kept' = output'.bytes
  BY DEF JudgedWhole
<1>2. \A reason \in BridgeErrors : outcome' # Failed(reason)
  BY <1>1, ErrorNotJudged DEF IsJudged, Succeeded, Answered
<1>3. "bridge-failed" \in BridgeErrors /\ "bridge-unavailable" \in BridgeErrors
  BY DEF BridgeErrors
<1>4. CASE outcome' = outcome
  <2>1. /\ child.phase = "exited" /\ child.code = 0 /\ closed
        /\ kept = output.bytes
    BY <1>1, <1>4 DEF JudgedWhole, IsJudged, Succeeded, Answered
  <2>2. ~StdoutData
    <3>1. /\ kept <= stdoutBytes /\ stdoutBytes <= child.written
          /\ child.written <= output.bytes
      BY DEF Good, Counted
    <3>2. ~(stdoutBytes < child.written)
      BY <2>1, <3>1, NumbersOK DEF Good
    <3>3. QED
      BY <3>2 DEF StdoutData
  <2>3. ~Close /\ ~Starts /\ ~ChildWrites /\ ~ChildExits
    BY <2>1 DEF Close, Starts, AccessFails, InputTooLong, Spawn, ChildWrites,
      ChildExits
  <2>4. CASE OutputReleased
    BY <2>1, <2>4 DEF OutputReleased, Good, TypeOK, Child
  <2>5. CASE ChildError \/ StdinError \/ TimeoutFires
    <3>1. /\ UNCHANGED <<kept, closed, output>>
          /\ child'.phase = child.phase /\ child'.code = child.code
      BY <2>5, EventStep
    <3>2. QED
      BY <2>1, <3>1
  <2>6. CASE UNCHANGED vars
    BY <2>1, <2>6 DEF vars
  <2>7. QED
    BY <2>2, <2>3, <2>4, <2>5, <2>6 DEF Next
<1>5. CASE outcome' # outcome
  <2>1. ~(ChildError \/ StdinError \/ TimeoutFires)
    BY <1>2, <1>5, EventStep
  <2>2. ~StdoutData
    BY <1>2, <1>3, <1>5, DataStep
  <2>3. ~Starts
    BY <1>2, <1>3, <1>5 DEF Starts, AccessFails, InputTooLong, Spawn
  <2>4. ~ChildWrites /\ ~ChildExits /\ ~OutputReleased /\ ~UNCHANGED vars
    BY <1>5 DEF ChildWrites, ChildExits, OutputReleased, vars
  <2>5. Close
    BY <2>1, <2>2, <2>3, <2>4 DEF Next
  <2>6. Parses
    BY <1>2, <1>3, <1>5, <2>5, CloseStep
  <2>7. QED
    BY <2>5, <2>6, CloseStep DEF Parses
<1>6. QED
  BY <1>4, <1>5

(* No answer reaches validation but the whole output of a helper that      *)
(* exited with success, in whatever order its exit, its output, its errors *)
(* and the timeout come.                                                   *)
THEOREM JudgesWholeAnswers == Spec => []OnlyWholeAnswers
<1>1. Init => JudgedWhole
  <2> SUFFICES ASSUME Init PROVE ~IsJudged
    BY DEF JudgedWhole
  <2>1. Failed("invalid-output") \in Failure
    BY FailedOK DEF FailureReasons
  <2>2. outcome = Waiting /\ Waiting # Failed("invalid-output")
    BY <2>1, NothingAssumption DEF Init
  <2>3. QED
    BY <2>2 DEF IsJudged, Succeeded, Answered
<1>2. Good /\ JudgedWhole /\ [Next]_vars => JudgedWhole'
  BY JudgedWholeStep
<1>3. Good /\ JudgedWhole => OnlyWholeAnswers
  <2> SUFFICES ASSUME Good, JudgedWhole, IsJudged
               PROVE  /\ child.phase = "exited" /\ child.code = 0 /\ closed
                      /\ kept = child.written /\ kept = output.bytes
    BY DEF OnlyWholeAnswers, IsJudged
  <2>1. /\ child.phase = "exited" /\ child.code = 0 /\ closed
        /\ kept = output.bytes
    BY DEF JudgedWhole
  <2>2. kept = child.written
    BY <2>1, NumbersOK DEF Good, Counted
  <2>3. QED
    BY <2>1, <2>2
<1>4. QED
  BY <1>1, <1>2, <1>3, GoodAlways, PTL DEF Spec

(* The call implements the safety part of Preprocessing: it is answered    *)
(* once, with a category of failure or with the same conversation.         *)
THEOREM ImplementsPreprocessing == Spec => Service!Safety
<1>1. Init => Service!Init
  BY DEF Init, Service!Init
<1>2. Good /\ [Next]_vars => [Service!Answer]_<<prepared, outcome>>
  <2> SUFFICES ASSUME Good, [Next]_vars, outcome' # outcome
               PROVE  Service!Answer
    BY GoodStep
  <2>1. OutcomeStep /\ UNCHANGED prepared
    BY GoodStep
  <2>2. Waiting \notin Success \cup Failure
    BY NothingAssumption
  <2>3. QED
    BY <2>1, <2>2
    DEF OutcomeStep, Service!Answer, Service!Failures, Failure
<1>3. QED
  BY <1>1, <1>2, GoodAlways, PTL DEF Spec, Service!Safety

-----------------------------------------------------------------------------
(* The bytes that are saved *)

(* The bytes of a conversation are a sum over its messages.                *)
LEMMA TotalOf ==
  ASSUME NEW messages \in Seq(Message), NEW N, N = Len(messages),
         NEW x, x = [i \in 1..N |-> Bytes[messages[i].text]]
  PROVE  N \in Nat /\ \E f : Sums(f, N, x) /\ TotalBytes(messages) = f[N]
<1> DEFINE Upto(f) == f = [i \in 0..N |->
             IF i = 0 THEN 0 ELSE f[i - 1] + Bytes[messages[i].text]]
<1>1. N \in Nat /\ \A i \in 1..N : messages[i].text \in Texts
  <2>1. N \in Nat /\ \A i \in 1..N : messages[i] \in Message
    OBVIOUS
  <2> QED  BY <2>1 DEF Message
<1>2. x \in [1..N -> Int] /\ \A i \in 1..N : x[i] = Bytes[messages[i].text]
  BY <1>1, TextsAssumption
<1>3. \A f : Upto(f) <=> IsSumOf(f, N, x)
  <2> SUFFICES ASSUME NEW f PROVE Upto(f) <=> IsSumOf(f, N, x)
    OBVIOUS
  <2>1. \A i \in 0..N : i = 0 \/ x[i] = Bytes[messages[i].text]
    BY <1>1, <1>2
  <2>2. [i \in 0..N |-> IF i = 0 THEN 0 ELSE f[i - 1] + x[i]]
          = [i \in 0..N |->
               IF i = 0 THEN 0 ELSE f[i - 1] + Bytes[messages[i].text]]
    BY <2>1
  <2> QED  BY <2>2 DEF IsSumOf
<1>4. TotalBytes(messages) = (CHOOSE f : Upto(f))[N]
  BY DEF TotalBytes
<1> HIDE DEF Upto
<1>5. \E f : Upto(f)
  BY <1>1, <1>2, <1>3, SumExists
<1>6. PICK f : Upto(f) /\ TotalBytes(messages) = f[N]
  BY <1>4, <1>5
<1> QED  BY <1>1, <1>2, <1>3, <1>6, SumsOfIntegers

(* So is what the helper is told to measure (measureCervoText).            *)
LEMMA MeasureOf ==
  ASSUME NEW messages \in Seq(Message), NEW N, N = Len(messages),
         NEW x, x = [i \in 1..N |-> MeasureMessage(messages[i])]
  PROVE  N \in Nat /\ \E f : Sums(f, N, x) /\ MeasureCervoText(messages) = f[N]
<1> DEFINE Upto(f) == f = [i \in 0..N |->
             IF i = 0 THEN 0 ELSE f[i - 1] + MeasureMessage(messages[i])]
<1>1. N \in Nat /\ \A i \in 1..N : MeasureMessage(messages[i]) \in Int
  <2>1. N \in Nat /\ \A i \in 1..N : messages[i] \in Message
    OBVIOUS
  <2> QED  BY <2>1, TextsAssumption DEF Message, MeasureMessage
<1>2. x \in [1..N -> Int] /\ \A i \in 1..N : x[i] = MeasureMessage(messages[i])
  BY <1>1
<1>3. \A f : Upto(f) <=> IsSumOf(f, N, x)
  <2> SUFFICES ASSUME NEW f PROVE Upto(f) <=> IsSumOf(f, N, x)
    OBVIOUS
  <2>1. \A i \in 0..N : i = 0 \/ x[i] = MeasureMessage(messages[i])
    BY <1>1, <1>2
  <2>2. [i \in 0..N |-> IF i = 0 THEN 0 ELSE f[i - 1] + x[i]]
          = [i \in 0..N |->
               IF i = 0 THEN 0 ELSE f[i - 1] + MeasureMessage(messages[i])]
    BY <2>1
  <2> QED  BY <2>2 DEF IsSumOf
<1>4. MeasureCervoText(messages) = (CHOOSE f : Upto(f))[N]
  BY DEF MeasureCervoText
<1> HIDE DEF Upto
<1>5. \E f : Upto(f)
  BY <1>1, <1>2, <1>3, SumExists
<1>6. PICK f : Upto(f) /\ MeasureCervoText(messages) = f[N]
  BY <1>4, <1>5
<1> QED  BY <1>1, <1>2, <1>3, <1>6, SumsOfIntegers

(* Two conversations differ in their bytes by as much as in what is        *)
(* measured, when every pair of their messages does.                       *)
SavesAlike(before, after, sent, got) ==
  /\ Len(after) = Len(before) /\ Len(sent) = Len(before)
  /\ Len(got) = Len(before)
  /\ \A i \in 1..Len(before) :
       Bytes[before[i].text] - Bytes[after[i].text]
         = MeasureMessage(sent[i]) - MeasureMessage(got[i])

LEMMA SameDifference ==
  ASSUME NEW before \in Seq(Message), NEW after \in Seq(Message),
         NEW sent \in Seq(Message), NEW got \in Seq(Message),
         SavesAlike(before, after, sent, got)
  PROVE  TotalBytes(before) - TotalBytes(after)
           = MeasureCervoText(sent) - MeasureCervoText(got)
<1> DEFINE N == Len(before)
           u == [i \in 1..N |-> Bytes[before[i].text]]
           v == [i \in 1..N |-> Bytes[after[i].text]]
           x == [i \in 1..N |-> MeasureMessage(sent[i])]
           y == [i \in 1..N |-> MeasureMessage(got[i])]
<1>1. N = Len(before) /\ N = Len(after) /\ N = Len(sent) /\ N = Len(got)
  BY DEF SavesAlike
<1>2. \A i \in 1..N : u[i] - v[i] = x[i] - y[i]
  BY DEF SavesAlike
<1>3. /\ u = [i \in 1..N |-> Bytes[before[i].text]]
      /\ v = [i \in 1..N |-> Bytes[after[i].text]]
      /\ x = [i \in 1..N |-> MeasureMessage(sent[i])]
      /\ y = [i \in 1..N |-> MeasureMessage(got[i])]
  OBVIOUS
<1> HIDE DEF N, u, v, x, y
<1>4. N \in Nat /\ \E f : Sums(f, N, u) /\ TotalBytes(before) = f[N]
  BY <1>1, <1>3, TotalOf
<1>5. \E f : Sums(f, N, v) /\ TotalBytes(after) = f[N]
  BY <1>1, <1>3, TotalOf
<1>6. \E f : Sums(f, N, x) /\ MeasureCervoText(sent) = f[N]
  BY <1>1, <1>3, MeasureOf
<1>7. \E f : Sums(f, N, y) /\ MeasureCervoText(got) = f[N]
  BY <1>1, <1>3, MeasureOf
<1>8. PICK a, b, c, d :
        /\ Sums(a, N, u) /\ TotalBytes(before) = a[N]
        /\ Sums(b, N, v) /\ TotalBytes(after) = b[N]
        /\ Sums(c, N, x) /\ MeasureCervoText(sent) = c[N]
        /\ Sums(d, N, y) /\ MeasureCervoText(got) = d[N]
  BY <1>4, <1>5, <1>6, <1>7
<1>9. a[N] - b[N] = c[N] - d[N]
  BY <1>2, <1>4, <1>5, <1>6, <1>7, <1>8, SumsDiffer
<1> QED  BY <1>8, <1>9

(* Restoring the role of a message of the answer leaves its text, and a    *)
(* text the helper may not rewrite is what it was.                         *)
LEMMA MessageSaves ==
  ASSUME NEW m \in Message, NEW r \in Message,
         SameButMutableContent(ToCervoDialect(m), r)
  PROVE  Bytes[m.text] - Bytes[RestorePiRole(r, m).text]
           = MeasureMessage(ToCervoDialect(m)) - MeasureMessage(r)
<1>1. RestorePiRole(r, m).text = r.text
  BY DEF RestorePiRole, Message
<1>2. ToCervoDialect(m).text = m.text
  BY DEF ToCervoDialect, Message
<1>3. Bytes[m.text] \in Int /\ Bytes[r.text] \in Int
  BY TextsAssumption DEF Message
<1>4. IsMutable(r) <=> IsMutable(ToCervoDialect(m))
  BY DEF SameButMutableContent, IsMutable
<1>5. CASE IsMutable(r)
  BY <1>1, <1>2, <1>4, <1>5 DEF MeasureMessage
<1>6. CASE ~IsMutable(r)
  <2>1. r.text = m.text
    BY <1>2, <1>4, <1>6 DEF SameButMutableContent
  <2> QED  BY <1>1, <1>2, <1>3, <1>4, <1>6, <2>1 DEF MeasureMessage
<1> QED  BY <1>5, <1>6

LEMMA ElementsOf ==
  ASSUME NEW S, NEW s \in Seq(S)
  PROVE  Len(s) \in Nat /\ \A i \in 1..Len(s) : s[i] \in S
OBVIOUS

LEMMA FunctionIsSeq ==
  ASSUME NEW S, NEW n \in Nat, NEW f \in [1..n -> S]
  PROVE  f \in Seq(S) /\ Len(f) = n
OBVIOUS

(* The accounting of an accepted answer is honest.                         *)
HonestAnswer(answer) ==
  /\ answer.saved = TotalBytes(Converted)
                    - TotalBytes(answer.history \o answer.turnPrefix)
  /\ answer.changed <=> answer.saved > 0

LEMMA AcceptedHonest ==
  ASSUME prepared \in Preparations, NEW response \in Responses,
         ValidateBridgeResponse(response, Request)
  PROVE  HonestAnswer(Accepted(response))
<1> DEFINE n   == Len(prepared.history)
           k   == Len(prepared.turnPrefix)
           all == Restored(response)
           first == SubSeq(all, 1, n)
           rest  == SubSeq(all, n + 1, Len(Converted))
<1>1. /\ response \in Response /\ response.messages \in Seq(Message)
      /\ response.savedBytes \in Int
  BY BridgeAssumption DEF ValidateBridgeResponse, Response
<1>2. /\ Converted \in Seq(Message) /\ DOMAIN Converted = 1..Len(Converted)
      /\ n \in Nat /\ k \in Nat /\ Len(Converted) = n + k
      /\ Len(Converted) \in Nat
  BY ConvertedType, ElementsOf
<1>3. /\ all \in Seq(Message) /\ Len(all) = Len(Converted)
  BY RestoredMessages
<1>4. /\ Request \in Seq(Message) /\ Len(Request) = Len(Converted)
      /\ \A i \in 1..Len(Converted) : Request[i] = ToCervoDialect(Converted[i])
  <2>1. \A i \in 1..Len(Converted) : ToCervoDialect(Converted[i]) \in Message
    <3>1. \A i \in 1..Len(Converted) : Converted[i] \in Message
      BY <1>2, ElementsOf
    <3>2. \A m \in Message : ToCervoDialect(m) \in Message
      BY DEF ToCervoDialect, Message, Roles
    <3> QED  BY <3>1, <3>2
  <2>2. Request \in [1..Len(Converted) -> Message]
    BY <1>2, <2>1 DEF Request
  <2>3. Request \in Seq(Message) /\ Len(Request) = Len(Converted)
    BY <1>2, <2>2, FunctionIsSeq
  <2> QED  BY <1>2, <2>3 DEF Request
<1>5. /\ Len(response.messages) = Len(Converted)
      /\ \A i \in 1..Len(Converted) :
           SameButMutableContent(Request[i], response.messages[i])
  <2>1. DOMAIN Request = 1..Len(Converted)
    BY <1>2 DEF Request
  <2> QED  BY <1>4, <2>1 DEF ValidateBridgeResponse, SameShape
<1>6. ASSUME NEW i \in 1..Len(Converted)
      PROVE  Bytes[Converted[i].text] - Bytes[all[i].text]
               = MeasureMessage(Request[i])
                 - MeasureMessage(response.messages[i])
  <2>1. Converted[i] \in Message /\ response.messages[i] \in Message
    BY <1>1, <1>2, <1>5, ElementsOf
  <2>2. all[i] = RestorePiRole(response.messages[i], Converted[i])
    BY <1>2 DEF Restored
  <2> HIDE DEF all
  <2>3. SameButMutableContent(ToCervoDialect(Converted[i]),
                              response.messages[i])
    BY <1>4, <1>5
  <2>4. Bytes[Converted[i].text]
          - Bytes[RestorePiRole(response.messages[i], Converted[i]).text]
          = MeasureMessage(ToCervoDialect(Converted[i]))
            - MeasureMessage(response.messages[i])
    BY <2>1, <2>3, MessageSaves
  <2> QED  BY <1>4, <2>2, <2>4
<1> HIDE DEF all
<1>7. TotalBytes(Converted) - TotalBytes(all)
        = MeasureCervoText(Request) - MeasureCervoText(response.messages)
  <2>1. SavesAlike(Converted, all, Request, response.messages)
    BY <1>3, <1>4, <1>5, <1>6 DEF SavesAlike
  <2> QED  BY <1>1, <1>2, <1>3, <1>4, <2>1, SameDifference
<1>8. response.savedBytes = TotalBytes(Converted) - TotalBytes(all)
  BY <1>7 DEF ValidateBridgeResponse, HonestBytes
<1>9. first \o rest = all
  <2>1. /\ first \in Seq(Message) /\ rest \in Seq(Message)
        /\ Len(first) = n /\ Len(rest) = k
        /\ \A i \in 1..n : first[i] = all[i]
        /\ \A i \in 1..k : rest[i] = all[n + i]
    BY <1>3, AnswerSplit
  <2> HIDE DEF first, rest, n, k
  <2>2. /\ first \o rest \in Seq(Message) /\ Len(first \o rest) = n + k
        /\ \A i \in 1..(n + k) :
             (first \o rest)[i] = IF i <= n THEN first[i] ELSE rest[i - n]
    BY <2>1, ConcatProperties
  <2>3. ASSUME NEW i \in 1..(n + k) PROVE (first \o rest)[i] = all[i]
    <3>1. CASE i <= n
      <4>1. i \in 1..n
        BY <1>2, <3>1
      <4> QED  BY <2>1, <2>2, <3>1, <4>1
    <3>2. CASE ~(i <= n)
      <4>1. i - n \in 1..k /\ n + (i - n) = i
        BY <1>2, <3>2
      <4> QED  BY <2>1, <2>2, <3>2, <4>1
    <3> QED  BY <3>1, <3>2
  <2> QED  BY <1>2, <1>3, <2>2, <2>3, SeqEqual
<1>10. /\ Accepted(response).history = first
       /\ Accepted(response).turnPrefix = rest
       /\ Accepted(response).saved = response.savedBytes
       /\ Accepted(response).changed = (response.savedBytes > 0)
  BY DEF Accepted, all
<1> HIDE DEF first, rest
<1> QED  BY <1>8, <1>9, <1>10 DEF HonestAnswer

(* The savings reported to the user are those of the conversation as a     *)
(* whole, and nothing is called changed that is not shorter, for every     *)
(* answer a helper may give (validateBridgeResponse).                      *)
THEOREM AccountingIsHonest == Spec => []HonestAccounting
<1>1. Init => HonestAccounting
  BY DEF Init, HonestAccounting, Succeeded, Answered
<1>2. Good /\ HonestAccounting /\ [Next]_vars => HonestAccounting'
  <2> SUFFICES ASSUME Good, HonestAccounting, [Next]_vars, Succeeded'
               PROVE  HonestAnswer(outcome)'
    BY DEF HonestAccounting, HonestAnswer
  <2>1. UNCHANGED prepared /\ Converted' = Converted
    BY GoodStep DEF Converted
  <2>2. CASE outcome' = outcome
    BY <2>1, <2>2
    DEF HonestAccounting, HonestAnswer, Succeeded, Answered
  <2>3. CASE outcome' # outcome
    <3>1. \A reason \in BridgeErrors : outcome' # Failed(reason)
      BY ErrorNotJudged DEF Succeeded, Answered
    <3>2. "bridge-failed" \in BridgeErrors
          /\ "bridge-unavailable" \in BridgeErrors
      BY DEF BridgeErrors
    <3>3. ~(ChildError \/ StdinError \/ TimeoutFires)
      BY <2>3, <3>1, EventStep DEF Good
    <3>4. ~StdoutData
      BY <2>3, <3>1, <3>2, DataStep DEF Good
    <3>5. ~Starts
      BY <2>3, <3>1, <3>2 DEF Starts, AccessFails, InputTooLong, Spawn
    <3>6. Close
      BY <2>3, <3>3, <3>4, <3>5 DEF Next, ChildWrites, ChildExits,
        OutputReleased, vars, promise
    <3>7. PICK response \in Responses : FinishWith(response)
      <4>1. ~FinishWithError(child, "bridge-failed")
        BY <2>3, <3>1, <3>2 DEF FinishWithError, Outcome, promise
      <4> QED  BY <3>6, <4>1 DEF Close
    <3>8. outcome' = Judged(response)
      BY <2>3, <3>7 DEF FinishWith, Outcome, promise
    <3>9. ValidateBridgeResponse(response, Request)
      BY <3>8 DEF Judged, Failed, Succeeded, Answered
    <3>10. HonestAnswer(Accepted(response)) /\ outcome' = Accepted(response)
      <4>1. prepared \in Preparations
        BY DEF Good, TypeOK
      <4> QED  BY <3>8, <3>9, <4>1, AcceptedHonest DEF Judged
    <3> QED  BY <2>1, <3>10 DEF HonestAnswer
  <2> QED  BY <2>2, <2>3
<1> QED  BY <1>1, <1>2, GoodAlways, PTL DEF Spec
=============================================================================
