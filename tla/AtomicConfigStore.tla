-------------------------- MODULE AtomicConfigStore --------------------------
(***************************************************************************)
(* The two-slot store of config/AtomicConfigStore.cpp, on which the        *)
(* configuration, the enrollment, the OTA recovery record and the four     *)
(* data-reset journals are kept.  NVS holds three blobs: slots "a" and "b" *)
(* (a generation and a payload under a CRC) and an active marker (a slot   *)
(* name and a generation under a CRC).  A blob that is absent, torn or     *)
(* fails its CRC is a blob of generation 0: decodeRecord and decodeMarker  *)
(* reject generation 0 exactly as they reject a bad CRC.                   *)
(*                                                                         *)
(* Every NVS write is a step of its own, so power can be lost between any  *)
(* two of them, and every write can be lost, torn or left unconfirmed.     *)
(***************************************************************************)
EXTENDS Naturals

CONSTANTS
  Payloads,      \* the byte strings callers commit
  NoPayload,     \* stands for "no valid blob"
  MaxGeneration  \* the largest generation a slot can carry (uint64 maximum)

ASSUME NoPayloadAssumption == NoPayload \notin Payloads
ASSUME MaxGenerationAssumption == MaxGeneration \in Nat \ {0}

VARIABLES
  slots,     \* NVS: slot name -> [gen, payload]
  active,    \* NVS: the marker blob [slot, gen]
  pc,        \* the next NVS write of the operation in progress
  op,        \* the operation's locals: payload, target, gen, current
  allowed,   \* ghost: the payloads a reader may be given now
  onceActive \* ghost: every payload loadActive has ever selected

vars == <<slots, active, pc, op, allowed, onceActive>>

SlotNames == {"a", "b"}
Other(s) == IF s = "a" THEN "b" ELSE "a"
NoSlot == "none"

BadSlot == [gen |-> 0, payload |-> NoPayload]
BadMarker == [slot |-> "a", gen |-> 0]

SlotBlob == [gen : 1..MaxGeneration, payload : Payloads] \cup {BadSlot}
MarkerBlob == [slot : SlotNames, gen : 0..MaxGeneration]

-----------------------------------------------------------------------------
(* Reading the store                                                        *)

newestValid(sl) ==
  IF sl["a"].gen = 0
  THEN IF sl["b"].gen # 0 THEN "b" ELSE NoSlot
  ELSE IF sl["b"].gen = 0 \/ sl["a"].gen >= sl["b"].gen THEN "a" ELSE "b"

\* The slot loadActive selects: the marked one when the marker and the slot
\* agree on a generation, otherwise the newest valid one.
loadActive(sl, mk) ==
  IF mk.gen # 0 /\ sl[mk.slot].gen = mk.gen THEN mk.slot ELSE newestValid(sl)

PayloadOf(sl, s) == IF s = NoSlot THEN NoPayload ELSE sl[s].payload

\* What a caller of loadActive is given.
Loaded == PayloadOf(slots, loadActive(slots, active))

largestGeneration == IF slots["a"].gen >= slots["b"].gen
                     THEN slots["a"].gen ELSE slots["b"].gen

\* Mutant of loadPrevious: any valid inactive slot is offered.
loadPreviousUnordered ==
  LET cur == loadActive(slots, active) IN
  IF cur # NoSlot /\ slots[Other(cur)].gen # 0 THEN Other(cur) ELSE NoSlot

\* The slot loadPrevious offers for a rollback, or NoSlot.
loadPrevious ==
  LET cur == loadActive(slots, active) IN
  IF /\ cur # NoSlot
     /\ slots[Other(cur)].gen # 0
     /\ slots[Other(cur)].gen < slots[cur].gen
  THEN Other(cur) ELSE NoSlot

-----------------------------------------------------------------------------
(* NVS (external): what one verified write can leave behind                 *)

\* "ok": stored and read back equal.  "lost": failed, the old blob is intact.
\* "torn": failed, the blob is undecodable.  "unconfirmed": stored, but the
\* write or its read-back reported failure.
WriteOutcomes == {"ok", "lost", "torn", "unconfirmed"}

Stored(outcome, old, new, bad) ==
  CASE outcome \in {"ok", "unconfirmed"} -> new
    [] outcome = "lost" -> old
    [] outcome = "torn" -> bad

-----------------------------------------------------------------------------
NoOp == [payload |-> NoPayload, target |-> "a", gen |-> 0, current |-> NoSlot]

Init ==
  /\ slots = [s \in SlotNames |-> BadSlot]
  /\ active = BadMarker
  /\ pc = "idle"
  /\ op = NoOp
  /\ allowed = {NoPayload}
  /\ onceActive = {NoPayload}

\* The ghost variables follow what is on flash after the step.
Observe(newAllowed) ==
  /\ allowed' = newAllowed
  /\ onceActive' = onceActive \cup {PayloadOf(slots', loadActive(slots', active'))}

\* Mutant of CommitBegin: the active slot itself is overwritten.
CommitBeginInPlace(p) ==
  LET cur == loadActive(slots, active) IN
  /\ pc = "idle"
  /\ largestGeneration < MaxGeneration
  /\ op' = [payload |-> p, current |-> cur, gen |-> largestGeneration + 1,
            target |-> IF cur = NoSlot THEN "a" ELSE cur]
  /\ pc' = "write_slot"
  /\ UNCHANGED <<slots, active>>
  /\ Observe({Loaded, p})

\* commit() reads the store, picks the slot that is not active and the
\* generation after the largest.  It returns false when that would wrap.
CommitBegin(p) ==
  LET cur == loadActive(slots, active) IN
  /\ pc = "idle"
  /\ largestGeneration < MaxGeneration
  /\ op' = [payload |-> p, current |-> cur, gen |-> largestGeneration + 1,
            target |-> IF cur = NoSlot THEN "a" ELSE Other(cur)]
  /\ pc' = "write_slot"
  /\ UNCHANGED <<slots, active>>
  /\ Observe({Loaded, p})

CommitWriteSlot ==
  /\ pc = "write_slot"
  /\ \E outcome \in WriteOutcomes :
       /\ slots' = [slots EXCEPT ![op.target] =
                      Stored(outcome, @, [gen |-> op.gen, payload |-> op.payload],
                             BadSlot)]
       /\ pc' = IF outcome = "ok" THEN "write_marker" ELSE "erase_slot"
  /\ UNCHANGED <<active, op>>
  /\ Observe(allowed)

CommitWriteMarker ==
  /\ pc = "write_marker"
  /\ \E outcome \in WriteOutcomes :
       /\ active' = Stored(outcome, active, [slot |-> op.target, gen |-> op.gen],
                           BadMarker)
       /\ pc' = IF outcome = "ok" THEN "verify" ELSE "erase_slot"
  /\ UNCHANGED <<slots, op>>
  /\ Observe(allowed)

\* The failure path of both writes: store.erase(target) and return false.
\* The erase itself can fail, and commit() does not look at its result.
CommitEraseSlot ==
  /\ pc = "erase_slot"
  /\ UNCHANGED active
  /\ \/ /\ slots' = [slots EXCEPT ![op.target] = BadSlot]
        /\ Observe({PayloadOf(slots, op.current)})
     \/ /\ UNCHANGED slots
        /\ Observe(allowed)
  /\ pc' = "idle"
  /\ op' = NoOp

\* The final loadActive of commit(): it agrees with what was written, and
\* commit() returns true, or the read fails and the commit is undone.
CommitVerify ==
  /\ pc = "verify"
  /\ UNCHANGED <<slots, active>>
  /\ \/ /\ loadActive(slots, active) = op.target
        /\ slots[op.target].gen = op.gen
        /\ slots[op.target].payload = op.payload
        /\ pc' = "idle"
        /\ op' = NoOp
        /\ Observe({op.payload})
     \/ /\ pc' = "undo_slot"
        /\ UNCHANGED op
        /\ Observe(allowed)

CommitUndoSlot ==
  /\ pc = "undo_slot"
  /\ UNCHANGED <<active, op>>
  /\ \/ /\ slots' = [slots EXCEPT ![op.target] = BadSlot]
        /\ Observe({PayloadOf(slots, op.current)})
     \/ /\ UNCHANGED slots
        /\ Observe(allowed)
  /\ pc' = "undo_marker"

\* Restores the previous marker, or erases the marker when there was none.
CommitUndoMarker ==
  /\ pc = "undo_marker"
  /\ \E outcome \in WriteOutcomes :
       active' = Stored(outcome, active,
                        IF op.current = NoSlot THEN BadMarker
                        ELSE [slot |-> op.current, gen |-> slots[op.current].gen],
                        BadMarker)
  /\ UNCHANGED slots
  /\ pc' = "idle"
  /\ op' = NoOp
  /\ Observe(allowed)

\* rollbackToPrevious() with the generation its caller has just loaded.
RollbackBegin ==
  /\ pc = "idle"
  /\ loadPrevious # NoSlot
  /\ op' = [payload |-> slots[loadPrevious].payload, target |-> loadPrevious,
            gen |-> slots[loadPrevious].gen,
            current |-> loadActive(slots, active)]
  /\ pc' = "rollback_marker"
  /\ UNCHANGED <<slots, active>>
  /\ Observe({Loaded, slots[loadPrevious].payload})

RollbackWriteMarker ==
  /\ pc = "rollback_marker"
  /\ UNCHANGED slots
  /\ \E outcome \in WriteOutcomes :
       /\ active' = Stored(outcome, active, [slot |-> op.target, gen |-> op.gen],
                           BadMarker)
       /\ Observe(IF outcome = "ok" THEN {op.payload} ELSE allowed)
  /\ pc' = "idle"
  /\ op' = NoOp

\* Power is lost: the operation in progress disappears, NVS stays as it is.
PowerLoss ==
  /\ pc # "idle"
  /\ pc' = "idle"
  /\ op' = NoOp
  /\ UNCHANGED <<slots, active>>
  /\ Observe(allowed)

Next ==
  \/ \E p \in Payloads : CommitBegin(p)
  \/ CommitWriteSlot \/ CommitWriteMarker \/ CommitEraseSlot
  \/ CommitVerify \/ CommitUndoSlot \/ CommitUndoMarker
  \/ RollbackBegin \/ RollbackWriteMarker
  \/ PowerLoss

Spec == Init /\ [][Next]_vars

-----------------------------------------------------------------------------
(* Properties                                                               *)

PcStates == {"idle", "write_slot", "write_marker", "erase_slot", "verify",
             "undo_slot", "undo_marker", "rollback_marker"}

\* Type invariant: blobs, program counter and operation record keep the
\* shapes AtomicConfigStore.cpp gives them.
TypeOK ==
  /\ slots \in [SlotNames -> SlotBlob]
  /\ active \in MarkerBlob
  /\ pc \in PcStates
  /\ op \in [payload : Payloads \cup {NoPayload}, target : SlotNames,
             gen : 0..MaxGeneration, current : SlotNames \cup {NoSlot}]
  /\ allowed \subseteq Payloads \cup {NoPayload}
  /\ onceActive \subseteq Payloads \cup {NoPayload}

\* After any sequence of commits, rollbacks, failed, torn or unconfirmed
\* writes, failed erases and power losses, loadActive returns the payload of
\* the last operation that returned true, or one an interrupted operation was
\* installing; a commit that failed and erased its slot leaves exactly what
\* was there before it began.
ActiveIsAllowed == Loaded \in allowed

\* rollbackToPrevious never promotes a payload that was never in force: the
\* slot loadPrevious accepts once was the active one (the comment in
\* loadPrevious about a newer inactive slot left by a power loss).
PreviousOnceActive ==
  loadPrevious # NoSlot => slots[loadPrevious].payload \in onceActive

-----------------------------------------------------------------------------
(* What the store promises its callers: one crash-atomic cell.              *)

Cell == INSTANCE CrashAtomicCell
          WITH Values <- Payloads, Empty <- NoPayload,
               value <- Loaded, allowed <- allowed

\* The two slots and the marker behave as one cell that is never torn:
\* readers see the old or the new payload of an operation in progress and
\* nothing else (AtomicConfigStore.cpp commit, rollbackToPrevious).
ImplementsCell == Cell!Spec

=============================================================================
