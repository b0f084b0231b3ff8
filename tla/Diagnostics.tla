----------------------------- MODULE Diagnostics -----------------------------
(***************************************************************************)
(* The history of lifecycle diagnostics and its file: it is appended to by *)
(* the session_before_compact handler and flushed when the handler ends    *)
(* (extensions/index.ts, lifecycle-diagnostics.ts), read back at           *)
(* session_start and deleted by "/autocompact-status clear"                *)
(* (lifecycle-diagnostic-persistence.ts, status-command-handlers.ts), in   *)
(* one process at a time that may end at any moment and be started again.  *)
(* The user has opted in to persistence.                                   *)
(*                                                                         *)
(* An entry is the number of the decision it records. A file is missing    *)
(* (None), half written (Torn) or the sequence of its entries. A step runs *)
(* from one await to the next, or is one operation on a file.              *)
(***************************************************************************)
EXTENDS Integers, Sequences

CONSTANTS
  None, Torn,
  MaxDiagnostics,  \* MAX_LIFECYCLE_DIAGNOSTICS
  Faults,          \* which operations on files may fail
  MaxDecisions, MaxRestarts, MaxClears  \* bounds of the model

ASSUME FaultsAssumption == Faults \subseteq {"read", "write", "unlink"}

ASSUME BoundsAssumption ==
  /\ MaxDiagnostics \in Nat \ {0}
  /\ MaxDecisions \in Nat /\ MaxRestarts \in Nat /\ MaxClears \in Nat

Decisions == 1..MaxDecisions

ASSUME FilesAssumption ==
  None # Torn /\ {None, Torn} \cap Seq(Decisions) = {}

VARIABLES
  memory,     \* state.lifecycleDiagnostics
  file, temp, \* the file and the temporary file beside it
  flush,      \* where flushLifecycleDiagnostics is, and what it will write
  hydration,  \* where the session_start handler is, and what it has read
  clearing,   \* the files the clear command has still to delete
  decided,    \* decisions so far
  restarts, clears,
  durable,    \* observer: entries flushed while nothing interfered
  cleared,    \* observer: entries up to this one have been cleared
  erased      \* observer: and up to this one while nothing interfered

files     == <<file, temp>>
bounds    == <<decided, restarts, clears>>
observers == <<durable, cleared, erased>>
vars == <<memory, files, flush, hydration, clearing, bounds, observers>>

NoFlush     == [stage |-> "idle", text |-> <<>>, alone |-> TRUE]
NoHydration == [stage |-> "idle", persisted |-> <<>>]
NoClear     == [stage |-> "idle", pending |-> {}, upTo |-> 0, alone |-> TRUE]

Starting == [NoHydration EXCEPT !.stage = "config"]

Init ==
  /\ memory = <<>> /\ file = None /\ temp = None
  /\ flush = NoFlush /\ hydration = Starting /\ clearing = NoClear
  /\ decided = 0 /\ restarts = 0 /\ clears = 0
  /\ durable = {} /\ cleared = 0 /\ erased = 0

Entries(seq) == {seq[i] : i \in DOMAIN seq}

(* Fault: the other end of the history is kept.                            *)
Oldest(seq) ==
  IF Len(seq) > MaxDiagnostics THEN SubSeq(seq, 1, MaxDiagnostics) ELSE seq

Newest(seq) ==
  IF Len(seq) > MaxDiagnostics
  THEN SubSeq(seq, Len(seq) - MaxDiagnostics + 1, Len(seq)) ELSE seq

-----------------------------------------------------------------------------
(* A decision and its flush. The handler that decides is one at a time,    *)
(* and the host waits for session_start before it compacts.                *)

Decide ==
  /\ flush.stage = "idle" /\ hydration.stage = "idle"
  /\ decided < MaxDecisions
  /\ decided' = decided + 1
  /\ memory' = Newest(Append(memory, decided'))
  /\ flush' = [NoFlush EXCEPT !.stage = "config",
                              !.alone = clearing.stage = "idle"]
  /\ UNCHANGED <<files, hydration, clearing, restarts, clears, observers>>

FlushSerializes ==
  /\ flush.stage = "config"
  /\ flush' = [flush EXCEPT !.stage = "mkdir", !.text = Newest(memory)]
  /\ UNCHANGED <<memory, files, hydration, clearing, bounds, observers>>

(* Fault: the file itself is opened for writing.                           *)
FlushOpensFile ==
  /\ flush.stage = "mkdir"
  /\ flush' = [flush EXCEPT !.stage = "open"]
  /\ file' = Torn /\ temp' = Torn
  /\ UNCHANGED <<memory, hydration, clearing, bounds, observers>>

(* writeFile creates or empties the temporary file, then fills it.         *)
FlushOpens ==
  /\ flush.stage = "mkdir"
  /\ flush' = [flush EXCEPT !.stage = "open"]
  /\ temp' = Torn
  /\ UNCHANGED <<memory, file, hydration, clearing, bounds, observers>>

(* What is written to a file that was deleted meanwhile is lost.           *)
FlushWrites ==
  /\ flush.stage = "open"
  /\ flush' = [flush EXCEPT !.stage = "written"]
  /\ temp' = IF temp = None THEN None ELSE flush.text
  /\ UNCHANGED <<memory, file, hydration, clearing, bounds, observers>>

FlushRenames ==
  /\ flush.stage = "written" /\ temp # None
  /\ file' = temp /\ temp' = None
  /\ flush' = NoFlush
  /\ durable' = IF flush.alone THEN durable \cup {decided} ELSE durable
  /\ UNCHANGED <<memory, hydration, clearing, bounds, cleared, erased>>

(* The catch block deletes the temporary file, as well as it can.          *)
FlushFails ==
  /\ \/ flush.stage \in {"mkdir", "open", "written"} /\ "write" \in Faults
     \/ flush.stage = "written" /\ temp = None
  /\ flush' = [flush EXCEPT !.stage = "cleanup"]
  /\ UNCHANGED <<memory, files, hydration, clearing, bounds, observers>>

FlushCleansUp ==
  /\ flush.stage = "cleanup"
  /\ \/ temp' = None
     \/ "unlink" \in Faults /\ temp' = temp
  /\ flush' = NoFlush
  /\ UNCHANGED <<memory, file, hydration, clearing, bounds, observers>>

-----------------------------------------------------------------------------
(* Hydration at session_start: the configuration is read, the file is      *)
(* looked at and read, and replaces what is in memory.                     *)

SessionStart ==
  /\ hydration.stage = "idle" /\ restarts < MaxRestarts
  /\ restarts' = restarts + 1
  /\ hydration' = Starting
  /\ flush' = [flush EXCEPT !.alone = flush.stage = "idle"]
  /\ clearing' = [clearing EXCEPT !.alone = clearing.stage = "idle"]
  /\ UNCHANGED <<memory, files, decided, clears, observers>>

(* A missing file, one that is not valid JSON and one that cannot be read  *)
(* are empty.                                                              *)
Parsed(content) == IF content \in {None, Torn} THEN <<>> ELSE content

HydrationReads ==
  /\ hydration.stage = "config"
  /\ \/ /\ hydration' = [stage |-> "read", persisted |-> Parsed(file)]
        /\ UNCHANGED durable
     \/ /\ "read" \in Faults
        /\ hydration' = [stage |-> "read", persisted |-> <<>>]
        /\ durable' = {}
  /\ UNCHANGED <<memory, files, flush, clearing, bounds, cleared, erased>>

(* Fault: what was persisted is put before what is in memory.              *)
HydrationAppends ==
  /\ hydration.stage = "read"
  /\ memory' = hydration.persisted \o memory
  /\ hydration' = NoHydration
  /\ UNCHANGED <<files, flush, clearing, bounds, observers>>

HydrationReplaces ==
  /\ hydration.stage = "read"
  /\ memory' = hydration.persisted
  /\ hydration' = NoHydration
  /\ UNCHANGED <<files, flush, clearing, bounds, observers>>

-----------------------------------------------------------------------------
(* /autocompact-status clear *)

Undisturbed == flush.stage = "idle" /\ hydration.stage = "idle"

(* Fault: only the temporary file is deleted.                              *)
ClearTempOnly ==
  /\ clearing.stage = "idle" /\ clears < MaxClears
  /\ clears' = clears + 1
  /\ memory' = <<>>
  /\ clearing' = [stage |-> "unlink", pending |-> {"temp"},
                  upTo |-> decided, alone |-> Undisturbed]
  /\ flush' = [flush EXCEPT !.alone = flush.stage = "idle"]
  /\ durable' = {}
  /\ UNCHANGED <<files, hydration, decided, restarts, cleared, erased>>

Clear ==
  /\ clearing.stage = "idle" /\ clears < MaxClears
  /\ clears' = clears + 1
  /\ memory' = <<>>
  /\ clearing' = [stage |-> "unlink", pending |-> {"file", "temp"},
                  upTo |-> decided, alone |-> Undisturbed]
  /\ flush' = [flush EXCEPT !.alone = flush.stage = "idle"]
  /\ durable' = {}
  /\ UNCHANGED <<files, hydration, decided, restarts, cleared, erased>>

(* A file that cannot be deleted stays, and the clear has not erased what  *)
(* it holds.                                                               *)
ClearUnlinks(which) ==
  /\ which \in clearing.pending
  /\ \/ /\ file' = IF which = "file" THEN None ELSE file
        /\ temp' = IF which = "temp" THEN None ELSE temp
        /\ clearing' = [clearing EXCEPT !.pending = @ \ {which}]
     \/ /\ "unlink" \in Faults
        /\ clearing' = [clearing EXCEPT !.pending = @ \ {which},
                                      !.alone = FALSE]
        /\ UNCHANGED files
  /\ UNCHANGED <<memory, flush, hydration, bounds, observers>>

ClearEnds ==
  /\ clearing.stage = "unlink" /\ clearing.pending = {}
  /\ cleared' = clearing.upTo
  /\ erased' = IF clearing.alone THEN clearing.upTo ELSE erased
  /\ clearing' = NoClear
  /\ UNCHANGED <<memory, files, flush, hydration, bounds, durable>>

-----------------------------------------------------------------------------
(* The process ends, at whatever point it is, and another one is started.  *)
Restart ==
  /\ restarts < MaxRestarts
  /\ restarts' = restarts + 1
  /\ memory' = <<>>
  /\ flush' = NoFlush /\ hydration' = Starting /\ clearing' = NoClear
  /\ UNCHANGED <<files, decided, clears, observers>>

Next ==
  \/ Decide \/ FlushSerializes \/ FlushOpens \/ FlushWrites \/ FlushRenames
  \/ FlushFails \/ FlushCleansUp
  \/ SessionStart \/ HydrationReads \/ HydrationReplaces
  \/ Clear \/ ClearEnds
  \/ \E which \in {"file", "temp"} : ClearUnlinks(which)
  \/ Restart

Spec == Init /\ [][Next]_vars

-----------------------------------------------------------------------------
(* Properties *)

Content == Seq(Decisions) \cup {None, Torn}

(* Types, with the bound of the history (ADR 0001: loading and writing     *)
(* both enforce it).                                                       *)
TypeOK ==
  /\ memory \in Seq(Decisions) /\ Len(memory) <= MaxDiagnostics
  /\ file \in Content /\ temp \in Content
  /\ flush \in [stage : {"idle", "config", "mkdir", "open", "written",
                         "cleanup"},
                text : Seq(Decisions), alone : BOOLEAN]
  /\ hydration \in [stage : {"idle", "config", "read"},
                    persisted : Seq(Decisions)]
  /\ clearing \in [stage : {"idle", "unlink"},
                   pending : SUBSET {"file", "temp"},
                   upTo : 0..MaxDecisions, alone : BOOLEAN]
  /\ decided \in 0..MaxDecisions
  /\ restarts \in 0..MaxRestarts /\ clears \in 0..MaxClears
  /\ durable \subseteq Decisions
  /\ cleared \in 0..MaxDecisions /\ erased \in 0..MaxDecisions

(* The file is never half written, whatever fails, whenever the process    *)
(* ends and whatever the clear command deletes under the flush (README:    *)
(* replaced atomically).                                                   *)
FileWhole == file # Torn

Increasing(seq) == \A i, j \in DOMAIN seq : i < j => seq[i] < seq[j]

(* No decision is recorded twice or out of order, in memory or in the      *)
(* file, however often the session starts (ADR 0001: repeated starts       *)
(* cannot duplicate records).                                              *)
RecordedOnce ==
  /\ Increasing(memory)
  /\ file \notin {None, Torn} => Increasing(file)

PushedOut(entry, seq) ==
  Len(seq) = MaxDiagnostics /\ \A i \in DOMAIN seq : seq[i] > entry

(* What was flushed survives restarts, later flushes and failed ones, in   *)
(* the file and in the memory of the process that has read it, unless      *)
(* newer entries push it out, a clear removes it or a read fails (README:  *)
(* the newest 20 records survive restarts).                                *)
DurableSurvives ==
  \A entry \in durable :
    /\ file \notin {None, Torn}
    /\ entry \in Entries(file) \/ PushedOut(entry, file)
    /\ hydration.stage = "idle" =>
         entry \in Entries(memory) \/ PushedOut(entry, memory)

Recorded == Entries(memory) \cup Entries(Parsed(file))

(* What a clear has removed while neither a flush nor a hydration was      *)
(* under way never comes back, not even with a restart.                    *)
ErasedStaysGone == \A entry \in Recorded : entry > erased

(* What a clear has removed never comes back (README: removes memory, the  *)
(* durable file). It does not hold of a clear that meets a flush: see      *)
(* Diagnostics_clear.cfg.                                                  *)
ClearedStaysGone == \A entry \in Recorded : entry > cleared
=============================================================================
