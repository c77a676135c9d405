---------------------------- MODULE ConfigProofs ----------------------------
(***************************************************************************)
(* Proofs about the persistent configuration.                              *)
(*                                                                         *)
(* AtomicConfigStore, for every set of payloads and every largest          *)
(* generation: its type invariant, ActiveIsAllowed, PreviousOnceActive,    *)
(* and that it implements CrashAtomicCell.                                 *)
(*                                                                         *)
(* RuntimeConfig, for every sequence of updates, every number of           *)
(* generations, setups and power losses, and until a second NVS call       *)
(* fails: SetupAtomic and AnsweredUpdatesKept.                             *)
(***************************************************************************)
EXTENDS AtomicConfigStore, RuntimeConfig, TLAPS

-----------------------------------------------------------------------------
(* AtomicConfigStore: the inductive invariant                               *)

Committing == {"write_slot", "write_marker", "erase_slot", "verify",
               "undo_slot", "undo_marker"}

\* The slot commit() writes to holds the new record.
NewSlotStored == slots[op.target] = [gen |-> op.gen, payload |-> op.payload]

\* commit() never writes to the slot that was active when it began; that
\* slot is older than the new record, and its payload may be read.
CommitShape ==
  /\ op.target = IF op.current = NoSlot THEN "a" ELSE Other(op.current)
  /\ op.payload \in Payloads
  /\ op.gen \in 1..MaxGeneration
  /\ op.current # NoSlot => slots[op.current].gen \in 1..(op.gen - 1)
  /\ op.current = NoSlot => slots["b"].gen = 0
  /\ PayloadOf(slots, op.current) \in allowed

\* Until the slot is erased the new payload may be read as well.
CommitInv ==
  /\ pc \in Committing => CommitShape
  /\ pc \in Committing \ {"undo_marker"} => op.payload \in allowed
  /\ pc = "write_slot" => /\ op.current = loadActive(slots, active)
                          /\ slots[op.target].gen < op.gen
  /\ pc \in {"write_marker", "verify", "undo_slot"} => NewSlotStored
  /\ pc = "undo_marker" => \/ slots[op.target] = BadSlot
                           \/ NewSlotStored /\ op.payload \in allowed

\* rollbackToPrevious() moves the marker between two valid slots.
RollbackInv ==
  pc = "rollback_marker" =>
    /\ op.current \in SlotNames
    /\ op.target = Other(op.current)
    /\ slots[op.current].gen # 0
    /\ op.gen # 0
    /\ op.payload \in Payloads
    /\ NewSlotStored
    /\ {op.payload, slots[op.current].payload} \subseteq allowed

\* A valid slot older than the active one once was active.
PreviousInv ==
  LET cur == loadActive(slots, active) IN
  cur # NoSlot /\ slots[Other(cur)].gen # 0
    /\ slots[Other(cur)].gen < slots[cur].gen
    => slots[Other(cur)].payload \in onceActive

IInv ==
  /\ TypeOK
  /\ ActiveIsAllowed
  /\ Loaded \in onceActive
  /\ PreviousInv
  /\ CommitInv
  /\ RollbackInv

-----------------------------------------------------------------------------
(* Lemmas about reading the store                                           *)

\* A blob is valid, with a committed payload, or it is the undecodable one.
LEMMA SlotBlobCases ==
  ASSUME NEW b \in SlotBlob
  PROVE  /\ b.gen \in 0..MaxGeneration
         /\ b.payload \in Payloads \cup {NoPayload}
         /\ b.gen # 0 => b.payload \in Payloads
         /\ b.gen = 0 => b = BadSlot
  BY MaxGenerationAssumption DEF SlotBlob, BadSlot

\* loadActive selects a valid slot whenever there is one.
LEMMA LoadActiveSelectsValid ==
  ASSUME NEW sl \in [SlotNames -> SlotBlob], NEW mk \in MarkerBlob
  PROVE  /\ loadActive(sl, mk) \in SlotNames \cup {NoSlot}
         /\ loadActive(sl, mk) = NoSlot => sl["a"].gen = 0 /\ sl["b"].gen = 0
         /\ loadActive(sl, mk) # NoSlot => sl[loadActive(sl, mk)].gen # 0
<1>1. mk.slot \in SlotNames /\ mk.gen \in 0..MaxGeneration
  BY DEF MarkerBlob
<1>2. sl["a"].gen \in Nat /\ sl["b"].gen \in Nat
  BY SlotBlobCases, MaxGenerationAssumption DEF SlotNames
<1>. QED
  BY <1>1, <1>2 DEF loadActive, newestValid, SlotNames, NoSlot

\* With one valid slot, or none, the marker does not matter.
LEMMA LoadActiveOnlyValid ==
  ASSUME NEW sl \in [SlotNames -> SlotBlob], NEW mk \in MarkerBlob,
         NEW s \in SlotNames, sl[Other(s)].gen = 0
  PROVE  loadActive(sl, mk) = IF sl[s].gen # 0 THEN s ELSE NoSlot
<1>1. mk.slot \in SlotNames /\ mk.gen \in 0..MaxGeneration
  BY DEF MarkerBlob
<1>2. sl["a"].gen \in Nat /\ sl["b"].gen \in Nat
  BY SlotBlobCases, MaxGenerationAssumption DEF SlotNames
<1>. QED
  BY <1>1, <1>2 DEF loadActive, newestValid, SlotNames, NoSlot, Other

\* What a reader is given comes from one of the two slots.
LEMMA LoadedFromSlot ==
  ASSUME NEW sl \in [SlotNames -> SlotBlob], NEW mk \in MarkerBlob
  PROVE  PayloadOf(sl, loadActive(sl, mk)) \in Payloads \cup {NoPayload}
  BY LoadActiveSelectsValid, SlotBlobCases DEF PayloadOf, NoSlot, SlotNames

\* What one NVS write leaves behind.
LEMMA StoredCases ==
  ASSUME NEW outcome \in WriteOutcomes, NEW old, NEW new, NEW bad
  PROVE  /\ Stored(outcome, old, new, bad) \in {old, new, bad}
         /\ outcome = "ok" => Stored(outcome, old, new, bad) = new
  BY DEF Stored, WriteOutcomes

-----------------------------------------------------------------------------
(* The type invariant                                                       *)

OpRecord == [payload : Payloads \cup {NoPayload}, target : SlotNames,
             gen : 0..MaxGeneration, current : SlotNames \cup {NoSlot}]

\* Two empty slots and no marker have the right type.
LEMMA TypeInit == Init => TypeOK
  BY MaxGenerationAssumption
  DEF Init, TypeOK, SlotNames, SlotBlob, BadSlot, MarkerBlob, BadMarker,
      PcStates, NoOp, NoSlot

\* TypeOK is not inductive by itself: that a commit stores a payload and a
\* generation above 0 is part of CommitInv.
LEMMA TypeStep == IInv /\ [Next]_vars => TypeOK'
<1>. SUFFICES ASSUME IInv, [Next]_vars PROVE TypeOK'
  OBVIOUS
<1>a. TypeOK /\ CommitInv /\ RollbackInv
  BY DEF IInv
<1>b. BadSlot \in SlotBlob /\ BadMarker \in MarkerBlob
  BY MaxGenerationAssumption DEF SlotBlob, BadMarker, MarkerBlob, SlotNames
<1>c. NoOp \in OpRecord
  BY MaxGenerationAssumption DEF NoOp, SlotNames, OpRecord
<1>d. loadActive(slots, active) \in SlotNames \cup {NoSlot}
  BY <1>a, LoadActiveSelectsValid DEF TypeOK
<1>e. Loaded \in Payloads \cup {NoPayload}
  BY <1>a, LoadedFromSlot DEF Loaded, TypeOK
<1>f. \A s \in SlotNames : Other(s) \in SlotNames
  BY DEF SlotNames, Other
<1>g. PayloadOf(slots, op.current) \in Payloads \cup {NoPayload}
  BY <1>a, SlotBlobCases DEF PayloadOf, TypeOK
<1>h. loadPrevious # NoSlot => /\ loadPrevious \in SlotNames
                              /\ slots[loadPrevious].gen # 0
  BY <1>d, <1>f DEF loadPrevious
<1>i. op \in OpRecord /\ slots \in [SlotNames -> SlotBlob]
      /\ active \in MarkerBlob
      /\ allowed \in SUBSET (Payloads \cup {NoPayload})
      /\ onceActive \subseteq Payloads \cup {NoPayload}
  BY <1>a DEF TypeOK, OpRecord
\* The ghosts follow the store, whatever the step.
<1>j. ASSUME slots' \in [SlotNames -> SlotBlob], active' \in MarkerBlob,
             pc' \in PcStates, op' \in OpRecord,
             NEW A \in SUBSET (Payloads \cup {NoPayload}), Observe(A)
      PROVE  TypeOK'
  BY <1>i, <1>j, LoadedFromSlot DEF Observe, TypeOK, OpRecord
\* A marker write leaves a marker.
<1>k. ASSUME NEW outcome \in WriteOutcomes, NEW mk \in MarkerBlob
      PROVE  Stored(outcome, active, mk, BadMarker) \in MarkerBlob
  BY <1>b, <1>i, StoredCases
<1>l. [slots EXCEPT ![op.target] = BadSlot] \in [SlotNames -> SlotBlob]
  BY <1>b, <1>i
<1>m. [slot |-> op.target, gen |-> op.gen] \in MarkerBlob
  BY <1>i DEF OpRecord, MarkerBlob
<1>1. ASSUME NEW p \in Payloads, CommitBegin(p) PROVE TypeOK'
  <2>1. largestGeneration + 1 \in 1..MaxGeneration
    BY <1>1, <1>i, SlotBlobCases, MaxGenerationAssumption
    DEF CommitBegin, largestGeneration, SlotNames
  <2>2. op' \in OpRecord
    BY <1>1, <1>d, <1>f, <2>1, MaxGenerationAssumption
    DEF CommitBegin, SlotNames, NoSlot, OpRecord
  <2>3. {Loaded, p} \in SUBSET (Payloads \cup {NoPayload})
    BY <1>e
  <2>. QED
    BY <1>1, <1>i, <1>j, <2>2, <2>3 DEF CommitBegin, PcStates
<1>2. ASSUME CommitWriteSlot PROVE TypeOK'
  <2>1. [gen |-> op.gen, payload |-> op.payload] \in SlotBlob
    BY <1>2, <1>a DEF CommitWriteSlot, CommitInv, Committing, CommitShape,
                      SlotBlob
  <2>2. slots' \in [SlotNames -> SlotBlob]
    <3>1. PICK outcome \in WriteOutcomes :
            slots' = [slots EXCEPT ![op.target] =
                        Stored(outcome, slots[op.target],
                               [gen |-> op.gen, payload |-> op.payload], BadSlot)]
      BY <1>2 DEF CommitWriteSlot
    <3>2. Stored(outcome, slots[op.target],
                 [gen |-> op.gen, payload |-> op.payload], BadSlot) \in SlotBlob
      BY <1>b, <1>i, <2>1, StoredCases DEF OpRecord
    <3>. QED
      BY <1>i, <3>1, <3>2
  <2>. QED
    BY <1>2, <1>i, <1>j, <2>2 DEF CommitWriteSlot, PcStates
<1>3. ASSUME CommitWriteMarker PROVE TypeOK'
  BY <1>3, <1>i, <1>j, <1>k, <1>m DEF CommitWriteMarker, PcStates
<1>4. ASSUME CommitEraseSlot PROVE TypeOK'
  BY <1>4, <1>c, <1>g, <1>i, <1>j, <1>l DEF CommitEraseSlot, PcStates
<1>5. ASSUME CommitVerify PROVE TypeOK'
  BY <1>5, <1>c, <1>i, <1>j DEF CommitVerify, PcStates, OpRecord
<1>6. ASSUME CommitUndoSlot PROVE TypeOK'
  BY <1>6, <1>g, <1>i, <1>j, <1>l DEF CommitUndoSlot, PcStates
<1>7. ASSUME CommitUndoMarker PROVE TypeOK'
  <2>1. (IF op.current = NoSlot THEN BadMarker
         ELSE [slot |-> op.current, gen |-> slots[op.current].gen]) \in MarkerBlob
    BY <1>b, <1>i, SlotBlobCases DEF OpRecord, MarkerBlob
  <2>. QED
    BY <1>7, <1>c, <1>i, <1>j, <1>k, <2>1 DEF CommitUndoMarker, PcStates
<1>8. ASSUME RollbackBegin PROVE TypeOK'
  <2>1. slots[loadPrevious].payload \in Payloads
        /\ slots[loadPrevious].gen \in 0..MaxGeneration
    BY <1>8, <1>h, <1>i, SlotBlobCases DEF RollbackBegin
  <2>2. op' \in OpRecord
    BY <1>8, <1>d, <1>h, <2>1 DEF RollbackBegin, OpRecord
  <2>. QED
    BY <1>8, <1>e, <1>i, <1>j, <2>1, <2>2 DEF RollbackBegin, PcStates
<1>9. ASSUME RollbackWriteMarker PROVE TypeOK'
  BY <1>9, <1>c, <1>i, <1>j, <1>k, <1>m
  DEF RollbackWriteMarker, PcStates, OpRecord
<1>10. ASSUME PowerLoss PROVE TypeOK'
  BY <1>10, <1>c, <1>i, <1>j DEF PowerLoss, PcStates
<1>11. ASSUME UNCHANGED vars PROVE TypeOK'
  BY <1>11, <1>a DEF vars, TypeOK
<1>. QED
  BY <1>1, <1>2, <1>3, <1>4, <1>5, <1>6, <1>7, <1>8, <1>9, <1>10, <1>11
  DEF Next

-----------------------------------------------------------------------------
(* The rest of the invariant                                                *)

\* With a valid slot a reader is given the payload of that slot or the other.
LEMMA LoadedChoices ==
  ASSUME NEW sl \in [SlotNames -> SlotBlob], NEW mk \in MarkerBlob,
         NEW s \in SlotNames, sl[s].gen # 0
  PROVE  PayloadOf(sl, loadActive(sl, mk)) \in {sl[s].payload,
                                               sl[Other(s)].payload}
<1>1. loadActive(sl, mk) \in SlotNames
  BY LoadActiveSelectsValid DEF SlotNames
<1>. QED
  BY <1>1 DEF PayloadOf, SlotNames, Other, NoSlot

\* While the new record is stored a reader is given its payload or that of
\* the slot that was active when the commit began.
LEMMA LoadedAfterWrite ==
  ASSUME NEW sl \in [SlotNames -> SlotBlob], NEW mk \in MarkerBlob,
         NEW t \in SlotNames, NEW c \in SlotNames \cup {NoSlot},
         sl[t].gen # 0,
         c = NoSlot => sl[Other(t)].gen = 0,
         c # NoSlot => c = Other(t)
  PROVE  PayloadOf(sl, loadActive(sl, mk)) \in {sl[t].payload, PayloadOf(sl, c)}
<1>1. CASE c = NoSlot
  <2>1. loadActive(sl, mk) = t
    BY <1>1, LoadActiveOnlyValid
  <2>. QED
    BY <2>1 DEF PayloadOf, SlotNames, NoSlot
<1>2. CASE c # NoSlot
  BY <1>2, LoadedChoices DEF PayloadOf
<1>. QED
  BY <1>1, <1>2

\* A step that leaves both slots alone keeps PreviousInv: if it moves the
\* selection, the slot left behind was the active one.
LEMMA PreviousStable ==
  ASSUME TypeOK, TypeOK', Loaded \in onceActive, PreviousInv,
         slots' = slots, onceActive \subseteq onceActive'
  PROVE  PreviousInv'
<1>. DEFINE cur == loadActive(slots, active)
            nxt == loadActive(slots', active')
<1>1. cur \in SlotNames \cup {NoSlot} /\ nxt \in SlotNames \cup {NoSlot}
  BY LoadActiveSelectsValid DEF TypeOK
<1>2. nxt # NoSlot => cur # NoSlot
  BY LoadActiveSelectsValid DEF TypeOK, SlotNames
<1>3. cur # NoSlot => slots[cur].payload \in onceActive
  BY DEF Loaded, PayloadOf
<1>4. nxt # NoSlot => cur = nxt \/ cur = Other(nxt)
  BY <1>1, <1>2 DEF SlotNames, Other
<1>5. CASE nxt = cur
  BY <1>5 DEF PreviousInv
<1>6. CASE nxt # NoSlot /\ cur = Other(nxt)
  BY <1>2, <1>3, <1>6 DEF PreviousInv
<1>7. CASE nxt = NoSlot
  BY <1>7 DEF PreviousInv
<1>. QED
  BY <1>4, <1>5, <1>6, <1>7

\* An empty store satisfies the inductive invariant.
LEMMA InvInit == Init => IInv
<1>. SUFFICES ASSUME Init PROVE IInv
  OBVIOUS
<1>1. loadActive(slots, active) = NoSlot
  BY DEF Init, loadActive, newestValid, BadSlot, BadMarker, SlotNames
<1>2. Loaded = NoPayload
  BY <1>1 DEF Loaded, PayloadOf
<1>. QED
  BY <1>1, <1>2, TypeInit
  DEF Init, IInv, ActiveIsAllowed, PreviousInv, CommitInv, Committing,
      RollbackInv

\* Each action keeps ActiveIsAllowed, PreviousInv, CommitInv and RollbackInv.
LEMMA InvStep == IInv /\ [Next]_vars => IInv'
<1>. SUFFICES ASSUME IInv, [Next]_vars PROVE IInv'
  OBVIOUS
<1>a. TypeOK /\ ActiveIsAllowed /\ Loaded \in onceActive /\ PreviousInv
      /\ CommitInv /\ RollbackInv
  BY DEF IInv
<1>b. TypeOK'
  BY TypeStep
<1>c. /\ slots \in [SlotNames -> SlotBlob] /\ active \in MarkerBlob
      /\ slots' \in [SlotNames -> SlotBlob] /\ active' \in MarkerBlob
      /\ op.target \in SlotNames /\ op.current \in SlotNames \cup {NoSlot}
  BY <1>a, <1>b DEF TypeOK
<1>d. \A s \in SlotNames : /\ Other(s) \in SlotNames /\ Other(s) # s
                          /\ Other(Other(s)) = s /\ s # NoSlot
  BY DEF SlotNames, Other, NoSlot
<1>e. ASSUME NEW A, Observe(A)
      PROVE  /\ Loaded' \in onceActive'
             /\ onceActive \subseteq onceActive'
             /\ allowed' = A
  BY <1>e DEF Observe, Loaded
\* A step that leaves both slots alone.
<1>f. ASSUME slots' = slots, NEW A, Observe(A) PROVE PreviousInv'
  BY <1>a, <1>b, <1>e, <1>f, PreviousStable
\* A step that leaves NVS alone.
<1>g. ASSUME slots' = slots, active' = active
      PROVE  Loaded' = Loaded
  BY <1>g DEF Loaded
\* Erasing the target leaves the slot that was active before the commit.
<1>h. ASSUME pc \in Committing,
             slots' = [slots EXCEPT ![op.target] = BadSlot]
      PROVE  /\ loadActive(slots', active') = op.current
             /\ Loaded' = PayloadOf(slots, op.current)
             /\ PreviousInv'
             /\ PayloadOf(slots', op.current) = PayloadOf(slots, op.current)
  <2>1. CommitShape
    BY <1>a, <1>h DEF CommitInv
  <2>2. slots'[op.target] = BadSlot /\ slots'[op.target].gen = 0
    BY <1>c, <1>h DEF BadSlot
  <2>3. slots'[Other(op.target)] = slots[Other(op.target)]
    BY <1>c, <1>d, <1>h
  <2>4. CASE op.current = NoSlot
    <3>1. slots'["a"].gen = 0 /\ slots'["b"].gen = 0
      BY <2>1, <2>2, <2>3, <2>4 DEF CommitShape, Other
    <3>2. loadActive(slots', active') = NoSlot
      BY <3>1, <1>c, LoadActiveOnlyValid DEF SlotNames, Other
    <3>. QED
      BY <2>4, <3>2 DEF Loaded, PayloadOf, PreviousInv
  <2>5. CASE op.current # NoSlot
    <3>1. op.current \in SlotNames /\ op.target = Other(op.current)
      BY <1>c, <2>1, <2>5 DEF CommitShape
    <3>2. slots'[op.current] = slots[op.current] /\ slots'[op.current].gen # 0
      BY <1>d, <2>1, <2>3, <2>5, <3>1 DEF CommitShape
    <3>3. loadActive(slots', active') = op.current
      BY <1>c, <2>2, <3>1, <3>2, LoadActiveOnlyValid
    <3>. QED
      BY <2>2, <3>1, <3>2, <3>3 DEF Loaded, PayloadOf, PreviousInv
  <2>. QED
    BY <2>4, <2>5
\* CommitShape depends on the slot the commit does not write to.
<1>i. ASSUME pc \in Committing, op' = op,
             slots'[Other(op.target)] = slots[Other(op.target)],
             PayloadOf(slots, op.current) \in allowed'
      PROVE  CommitShape'
  <2>1. CommitShape
    BY <1>a, <1>i DEF CommitInv
  <2>2. CASE op.current = NoSlot
    <3>1. slots'["b"] = slots["b"]
      BY <1>i, <2>1, <2>2 DEF CommitShape, Other
    <3>. QED
      BY <1>i, <2>1, <2>2, <3>1 DEF CommitShape, PayloadOf
  <2>3. CASE op.current # NoSlot
    <3>1. slots'[op.current] = slots[op.current]
      BY <1>c, <1>d, <1>i, <2>1, <2>3 DEF CommitShape
    <3>. QED
      BY <1>i, <2>1, <2>3, <3>1 DEF CommitShape, PayloadOf
  <2>. QED
    BY <2>2, <2>3
\* Any marker is safe while the new record is stored.
<1>j. ASSUME pc \in Committing, op.payload \in allowed,
             slots'[Other(op.target)] = slots[Other(op.target)],
             slots'[op.target] = [gen |-> op.gen, payload |-> op.payload]
      PROVE  Loaded' \in allowed
  <2>1. CommitShape
    BY <1>a, <1>j DEF CommitInv
  <2>2. slots'[op.target].gen # 0 /\ slots'[op.target].payload = op.payload
    BY <1>j, <2>1 DEF CommitShape
  <2>3. op.current # NoSlot => op.current = Other(op.target)
    BY <1>c, <1>d, <2>1 DEF CommitShape
  <2>4. op.current = NoSlot => slots'[Other(op.target)].gen = 0
    BY <1>j, <2>1 DEF CommitShape, Other
  <2>5. PayloadOf(slots', loadActive(slots', active'))
          \in {op.payload, PayloadOf(slots', op.current)}
    BY <1>c, <2>2, <2>3, <2>4, LoadedAfterWrite
  <2>6. PayloadOf(slots', op.current) = PayloadOf(slots, op.current)
    BY <1>j, <2>3 DEF PayloadOf
  <2>. QED
    BY <1>j, <2>1, <2>5, <2>6 DEF Loaded, CommitShape
<1>1. ASSUME NEW p \in Payloads, CommitBegin(p) PROVE IInv'
  <2>. DEFINE cur == loadActive(slots, active)
  <2>1. /\ slots' = slots /\ active' = active /\ pc' = "write_slot"
        /\ op' = [payload |-> p, current |-> cur, gen |-> largestGeneration + 1,
                  target |-> IF cur = NoSlot THEN "a" ELSE Other(cur)]
        /\ Observe({Loaded, p})
        /\ largestGeneration < MaxGeneration
    BY <1>1 DEF CommitBegin
  <2>2. /\ slots["a"].gen \in 0..largestGeneration
        /\ slots["b"].gen \in 0..largestGeneration
        /\ largestGeneration \in Nat
        /\ largestGeneration + 1 \in 1..MaxGeneration
    BY <1>c, <2>1, SlotBlobCases, MaxGenerationAssumption
    DEF largestGeneration, SlotNames
  <2>3. /\ cur \in SlotNames \cup {NoSlot}
        /\ cur = NoSlot => slots["b"].gen = 0
        /\ cur # NoSlot => slots[cur].gen # 0
    BY <1>c, LoadActiveSelectsValid
  <2>4. allowed' = {Loaded, p} /\ Loaded = PayloadOf(slots, cur)
    BY <1>e, <2>1 DEF Loaded
  <2>5. /\ op'.payload = p /\ op'.current = cur /\ op'.gen = largestGeneration + 1
        /\ op'.target = IF cur = NoSlot THEN "a" ELSE Other(cur)
    BY <2>1
  <2>6. cur # NoSlot => slots[cur].gen \in 1..largestGeneration
    BY <2>2, <2>3 DEF SlotNames
  <2>7. CommitShape'
    BY <2>1, <2>2, <2>3, <2>4, <2>5, <2>6 DEF CommitShape
  <2>8. slots'[op'.target].gen < op'.gen
    BY <1>d, <2>1, <2>2, <2>3, <2>5 DEF SlotNames
  <2>9. CommitInv' /\ RollbackInv'
    BY <2>1, <2>4, <2>5, <2>7, <2>8 DEF CommitInv, RollbackInv, Committing
  <2>. QED
    BY <1>b, <1>e, <1>f, <1>g, <2>1, <2>4, <2>9 DEF IInv, ActiveIsAllowed
<1>2. ASSUME CommitWriteSlot PROVE IInv'
  <2>. DEFINE new == [gen |-> op.gen, payload |-> op.payload]
  <2>1. /\ pc = "write_slot" /\ op' = op /\ active' = active
        /\ Observe(allowed) /\ pc \in Committing
    BY <1>2 DEF CommitWriteSlot, Committing
  <2>2. PICK outcome \in WriteOutcomes :
          /\ slots' = [slots EXCEPT ![op.target] =
                         Stored(outcome, slots[op.target], new, BadSlot)]
          /\ pc' = IF outcome = "ok" THEN "write_marker" ELSE "erase_slot"
    BY <1>2 DEF CommitWriteSlot
  <2>3. /\ slots'[op.target] \in {slots[op.target], new, BadSlot}
        /\ outcome = "ok" => slots'[op.target] = new
        /\ slots'[Other(op.target)] = slots[Other(op.target)]
    <3>1. slots'[op.target] = Stored(outcome, slots[op.target], new, BadSlot)
      BY <1>c, <2>2
    <3>. QED
      BY <1>c, <1>d, <2>2, <3>1, StoredCases
  <2>4. CommitShape /\ op.payload \in allowed /\ allowed' = allowed
        /\ op.current = loadActive(slots, active)
    BY <1>a, <1>e, <2>1 DEF CommitInv
  <2>5. CommitShape'
    BY <1>i, <2>1, <2>3, <2>4 DEF CommitShape
  <2>6. CommitInv' /\ RollbackInv'
    BY <2>1, <2>2, <2>3, <2>4, <2>5
    DEF CommitInv, RollbackInv, Committing, NewSlotStored
  <2>7. CASE slots'[op.target] = slots[op.target]
    <3>1. slots' = slots
      BY <1>c, <2>2, <2>7
    <3>. QED
      BY <1>a, <1>b, <1>e, <1>f, <1>g, <2>1, <2>4, <2>6, <3>1
      DEF IInv, ActiveIsAllowed
  <2>8. CASE slots'[op.target] = BadSlot
    <3>1. slots' = [slots EXCEPT ![op.target] = BadSlot]
      BY <1>c, <2>2, <2>8
    <3>. QED
      BY <1>b, <1>e, <1>h, <2>1, <2>4, <2>6, <3>1
      DEF IInv, ActiveIsAllowed, CommitShape
  <2>9. CASE slots'[op.target] = new
    <3>1. Loaded' \in allowed'
      BY <1>j, <2>1, <2>3, <2>4, <2>9
    <3>. DEFINE nxt == loadActive(slots', active')
    <3>2. PreviousInv'
      <4>1. CASE nxt = NoSlot
        BY <4>1 DEF PreviousInv
      <4>2. CASE nxt = op.target
        <5>1. CASE op.current = NoSlot
          <6>1. slots'[Other(nxt)].gen = 0
            BY <2>3, <2>4, <4>2, <5>1 DEF CommitShape, Other
          <6>. QED
            BY <6>1 DEF PreviousInv
        <5>2. CASE op.current # NoSlot
          <6>1. Other(nxt) = op.current
            BY <1>c, <1>d, <2>4, <4>2, <5>2 DEF CommitShape
          <6>2. slots[op.current].payload \in onceActive
            BY <1>a, <2>4, <5>2 DEF Loaded, PayloadOf
          <6>. QED
            BY <1>e, <2>1, <2>3, <4>2, <6>1, <6>2 DEF PreviousInv
        <5>. QED
          BY <5>1, <5>2
      <4>3. CASE nxt # NoSlot /\ nxt # op.target
        <5>1. nxt = Other(op.target) /\ slots'[nxt].gen # 0
          BY <1>c, <4>3, LoadActiveSelectsValid DEF SlotNames, Other
        <5>2. op.current # NoSlot /\ op.current = nxt
          BY <1>c, <1>d, <2>3, <2>4, <5>1 DEF CommitShape, Other
        <5>3. slots'[nxt].gen < slots'[op.target].gen /\ Other(nxt) = op.target
              /\ slots'[nxt].gen \in Nat /\ slots'[op.target].gen \in Nat
          BY <1>c, <1>d, <2>3, <2>4, <2>9, <5>1, <5>2 DEF CommitShape
        <5>. QED
          BY <5>3 DEF PreviousInv
      <4>. QED
        BY <4>1, <4>2, <4>3
    <3>. QED
      BY <1>b, <1>e, <2>1, <2>6, <3>1, <3>2
      DEF IInv, ActiveIsAllowed
  <2>. QED
    BY <2>3, <2>7, <2>8, <2>9
<1>3. ASSUME CommitWriteMarker PROVE IInv'
  <2>1. /\ pc = "write_marker" /\ op' = op /\ slots' = slots
        /\ Observe(allowed) /\ pc' \in {"verify", "erase_slot"}
        /\ pc \in Committing
    BY <1>3 DEF CommitWriteMarker, Committing
  <2>2. CommitShape /\ op.payload \in allowed /\ allowed' = allowed
        /\ NewSlotStored
    BY <1>a, <1>e, <2>1 DEF CommitInv
  <2>3. CommitShape'
    BY <1>i, <2>1, <2>2 DEF CommitShape
  <2>4. CommitInv' /\ RollbackInv'
    BY <2>1, <2>2, <2>3 DEF CommitInv, RollbackInv, Committing, NewSlotStored
  <2>5. Loaded' \in allowed
    BY <1>j, <2>1, <2>2 DEF NewSlotStored
  <2>. QED
    BY <1>b, <1>e, <1>f, <2>1, <2>2, <2>4, <2>5 DEF IInv, ActiveIsAllowed
<1>4. ASSUME CommitEraseSlot PROVE IInv'
  <2>1. pc' = "idle" /\ \E A : Observe(A)
    BY <1>4 DEF CommitEraseSlot
  <2>2. CommitInv' /\ RollbackInv'
    BY <2>1 DEF CommitInv, RollbackInv, Committing
  <2>3. Loaded' \in onceActive'
    BY <1>e, <2>1
  <2>4. CASE slots' = [slots EXCEPT ![op.target] = BadSlot]
             /\ Observe({PayloadOf(slots, op.current)})
    <3>1. pc \in Committing
      BY <1>4 DEF CommitEraseSlot, Committing
    <3>. QED
      BY <1>b, <1>e, <1>h, <2>2, <2>3, <2>4, <3>1 DEF IInv, ActiveIsAllowed
  <2>5. CASE slots' = slots /\ active' = active /\ Observe(allowed)
    BY <1>a, <1>b, <1>e, <1>f, <1>g, <2>2, <2>3, <2>5
    DEF IInv, ActiveIsAllowed
  <2>. QED
    BY <1>4, <2>4, <2>5 DEF CommitEraseSlot
<1>5. ASSUME CommitVerify PROVE IInv'
  <2>1. /\ pc = "verify" /\ slots' = slots /\ active' = active
        /\ pc \in Committing /\ \E A : Observe(A)
    BY <1>5 DEF CommitVerify, Committing
  <2>2. CommitShape /\ op.payload \in allowed /\ NewSlotStored
    BY <1>a, <2>1 DEF CommitInv
  <2>3. Loaded' = Loaded /\ PreviousInv' /\ Loaded' \in onceActive'
    BY <1>e, <1>f, <1>g, <2>1
  <2>4. CASE /\ loadActive(slots, active) = op.target
             /\ slots[op.target].payload = op.payload
             /\ pc' = "idle" /\ Observe({op.payload})
    <3>1. Loaded = op.payload
      BY <1>c, <1>d, <2>4 DEF Loaded, PayloadOf
    <3>2. CommitInv' /\ RollbackInv'
      BY <2>4 DEF CommitInv, RollbackInv, Committing
    <3>. QED
      BY <1>b, <1>e, <2>3, <2>4, <3>1, <3>2 DEF IInv, ActiveIsAllowed
  <2>5. CASE pc' = "undo_slot" /\ op' = op /\ Observe(allowed)
    <3>1. allowed' = allowed
      BY <1>e, <2>5
    <3>2. CommitShape'
      BY <1>i, <2>1, <2>2, <2>5, <3>1 DEF CommitShape
    <3>3. CommitInv' /\ RollbackInv'
      BY <2>1, <2>2, <2>5, <3>1, <3>2
      DEF CommitInv, RollbackInv, Committing, NewSlotStored
    <3>. QED
      BY <1>a, <1>b, <2>3, <3>1, <3>3 DEF IInv, ActiveIsAllowed
  <2>. QED
    BY <1>5, <2>4, <2>5 DEF CommitVerify
<1>6. ASSUME CommitUndoSlot PROVE IInv'
  <2>1. /\ pc = "undo_slot" /\ pc' = "undo_marker" /\ op' = op
        /\ active' = active /\ pc \in Committing /\ \E A : Observe(A)
    BY <1>6 DEF CommitUndoSlot, Committing
  <2>2. CommitShape /\ op.payload \in allowed /\ NewSlotStored
    BY <1>a, <2>1 DEF CommitInv
  <2>3. CASE slots' = [slots EXCEPT ![op.target] = BadSlot]
             /\ Observe({PayloadOf(slots, op.current)})
    <3>1. allowed' = {PayloadOf(slots, op.current)} /\ Loaded' \in onceActive'
      BY <1>e, <2>3
    <3>2. slots'[op.target] = BadSlot
          /\ slots'[Other(op.target)] = slots[Other(op.target)]
      BY <1>c, <1>d, <2>3
    <3>3. CommitShape'
      BY <1>i, <2>1, <3>1, <3>2
    <3>4. CommitInv' /\ RollbackInv'
      BY <2>1, <3>2, <3>3 DEF CommitInv, RollbackInv, Committing
    <3>. QED
      BY <1>b, <1>h, <2>1, <2>3, <3>1, <3>4 DEF IInv, ActiveIsAllowed
  <2>4. CASE slots' = slots /\ Observe(allowed)
    <3>1. allowed' = allowed /\ Loaded' \in onceActive'
      BY <1>e, <2>4
    <3>2. CommitShape'
      BY <1>i, <2>1, <2>2, <2>4, <3>1 DEF CommitShape
    <3>3. CommitInv' /\ RollbackInv'
      BY <2>1, <2>2, <2>4, <3>1, <3>2
      DEF CommitInv, RollbackInv, Committing, NewSlotStored
    <3>. QED
      BY <1>a, <1>b, <1>f, <1>g, <2>1, <2>4, <3>1, <3>3
      DEF IInv, ActiveIsAllowed
  <2>. QED
    BY <1>6, <2>3, <2>4 DEF CommitUndoSlot
<1>7. ASSUME CommitUndoMarker PROVE IInv'
  <2>1. /\ pc = "undo_marker" /\ pc' = "idle" /\ slots' = slots
        /\ Observe(allowed) /\ pc \in Committing
    BY <1>7 DEF CommitUndoMarker, Committing
  <2>2. allowed' = allowed /\ Loaded' \in onceActive' /\ CommitShape
    BY <1>a, <1>e, <2>1 DEF CommitInv
  <2>3. CommitInv' /\ RollbackInv'
    BY <2>1 DEF CommitInv, RollbackInv, Committing
  <2>4. CASE slots[op.target] = BadSlot
    <3>1. slots' = [slots EXCEPT ![op.target] = BadSlot]
      BY <1>c, <2>1, <2>4
    <3>2. Loaded' \in allowed'
      BY <1>h, <2>1, <2>2, <3>1 DEF CommitShape
    <3>. QED
      BY <1>b, <1>f, <2>1, <2>2, <2>3, <3>2 DEF IInv, ActiveIsAllowed
  <2>5. CASE NewSlotStored /\ op.payload \in allowed
    <3>1. Loaded' \in allowed'
      BY <1>j, <2>1, <2>2, <2>5 DEF NewSlotStored
    <3>. QED
      BY <1>b, <1>f, <2>1, <2>2, <2>3, <3>1 DEF IInv, ActiveIsAllowed
  <2>. QED
    BY <1>a, <2>1, <2>4, <2>5 DEF CommitInv
<1>8. ASSUME RollbackBegin PROVE IInv'
  <2>. DEFINE cur == loadActive(slots, active)
              prev == loadPrevious
  <2>1. /\ prev # NoSlot /\ slots' = slots /\ active' = active
        /\ pc' = "rollback_marker"
        /\ op' = [payload |-> slots[prev].payload, target |-> prev,
                  gen |-> slots[prev].gen, current |-> cur]
        /\ Observe({Loaded, slots[prev].payload})
    BY <1>8 DEF RollbackBegin
  <2>2. /\ cur \in SlotNames /\ prev = Other(cur) /\ prev \in SlotNames
        /\ slots[prev].gen # 0 /\ slots[cur].gen # 0
    BY <1>c, <1>d, <2>1, LoadActiveSelectsValid DEF loadPrevious
  <2>3. /\ slots[prev] = [gen |-> slots[prev].gen, payload |-> slots[prev].payload]
        /\ slots[prev].payload \in Payloads
    BY <1>c, <2>2, SlotBlobCases DEF SlotBlob, BadSlot
  <2>4. allowed' = {slots[cur].payload, slots[prev].payload}
        /\ Loaded' \in allowed' /\ Loaded' \in onceActive'
    BY <1>d, <1>e, <1>g, <2>1, <2>2 DEF Loaded, PayloadOf
  <2>5. CommitInv' /\ RollbackInv'
    BY <2>1, <2>2, <2>3, <2>4 DEF CommitInv, RollbackInv, Committing, NewSlotStored
  <2>. QED
    BY <1>b, <1>f, <2>1, <2>4, <2>5 DEF IInv, ActiveIsAllowed
<1>9. ASSUME RollbackWriteMarker PROVE IInv'
  <2>1. pc = "rollback_marker" /\ pc' = "idle" /\ slots' = slots
    BY <1>9 DEF RollbackWriteMarker
  <2>2. PICK outcome \in WriteOutcomes :
          /\ active' = Stored(outcome, active,
                              [slot |-> op.target, gen |-> op.gen], BadMarker)
          /\ Observe(IF outcome = "ok" THEN {op.payload} ELSE allowed)
    BY <1>9 DEF RollbackWriteMarker
  <2>3. /\ op.current = Other(op.target) /\ op.gen # 0
        /\ slots[op.target].gen = op.gen /\ slots[op.target].payload = op.payload
        /\ {op.payload, slots[op.current].payload} \subseteq allowed
    BY <1>a, <1>d, <2>1 DEF RollbackInv, NewSlotStored
  <2>4. Loaded' \in {op.payload, slots[op.current].payload}
    BY <1>c, <2>1, <2>3, LoadedChoices DEF Loaded
  <2>5. outcome = "ok" => Loaded' = op.payload
    <3>1. outcome = "ok" => active' = [slot |-> op.target, gen |-> op.gen]
      BY <2>2, StoredCases
    <3>2. outcome = "ok" => loadActive(slots', active') = op.target
      BY <2>1, <2>3, <3>1 DEF loadActive
    <3>. QED
      BY <1>c, <1>d, <2>1, <2>3, <3>2 DEF Loaded, PayloadOf
  <2>6. Loaded' \in allowed' /\ Loaded' \in onceActive' /\ PreviousInv'
    BY <1>e, <1>f, <2>1, <2>2, <2>3, <2>4, <2>5
  <2>7. CommitInv' /\ RollbackInv'
    BY <2>1 DEF CommitInv, RollbackInv, Committing
  <2>. QED
    BY <1>b, <2>6, <2>7 DEF IInv, ActiveIsAllowed
<1>10. ASSUME PowerLoss PROVE IInv'
  <2>1. slots' = slots /\ active' = active /\ pc' = "idle" /\ Observe(allowed)
    BY <1>10 DEF PowerLoss
  <2>2. CommitInv' /\ RollbackInv'
    BY <2>1 DEF CommitInv, RollbackInv, Committing
  <2>. QED
    BY <1>a, <1>b, <1>e, <1>f, <1>g, <2>1, <2>2 DEF IInv, ActiveIsAllowed
<1>11. ASSUME UNCHANGED vars PROVE IInv'
  BY <1>11, <1>a DEF vars, IInv, TypeOK, ActiveIsAllowed, PreviousInv, CommitInv,
     CommitShape, NewSlotStored, RollbackInv, Loaded
<1>. QED
  BY <1>1, <1>2, <1>3, <1>4, <1>5, <1>6, <1>7, <1>8, <1>9, <1>10, <1>11
  DEF Next

-----------------------------------------------------------------------------
(* Theorems                                                                 *)

\* The inductive invariant holds in every reachable state.
THEOREM Invariance == Spec => []IInv
  BY InvInit, InvStep, PTL DEF Spec

\* Type correctness; in particular commit() never stores a generation above
\* the largest one, nor generation 0.
THEOREM TypeCorrect == Spec => []TypeOK
  BY Invariance, PTL DEF IInv

\* A reader is never given anything but the last decided payload or one an
\* undecided commit or rollback was installing (loadActive, commit).
THEOREM ActiveIsAlwaysAllowed == Spec => []ActiveIsAllowed
  BY Invariance, PTL DEF IInv

\* loadPrevious offers only payloads that once were in force, so a rollback
\* never promotes a slot whose commit was cut short (rollbackToPrevious).
THEOREM RollbackTargetsOnceActive == Spec => []PreviousOnceActive
<1>1. IInv => PreviousOnceActive
  BY DEF IInv, PreviousInv, PreviousOnceActive, loadPrevious
<1>. QED
  BY <1>1, Invariance, PTL

\* Every step of the store is a step of the cell, or leaves it unchanged.
LEMMA CellStep == IInv /\ IInv' /\ [Next]_vars => [Cell!Next]_(Cell!vars)
<1>. SUFFICES ASSUME IInv, IInv', [Next]_vars
              PROVE  Cell!Next \/ UNCHANGED <<Loaded, allowed>>
  BY DEF Cell!vars
<1>. USE DEF Cell!Next
<1>a. Loaded \in allowed /\ Loaded' \in allowed'
  BY DEF IInv, ActiveIsAllowed
<1>b. ASSUME NEW A, Observe(A) PROVE allowed' = A
  BY <1>b DEF Observe
\* The store may change, the set of allowed payloads does not.
<1>c. ASSUME Observe(allowed) PROVE Cell!Flip
  BY <1>a, <1>b, <1>c DEF Cell!Flip
\* An operation is decided for a payload that was allowed.
<1>d. ASSUME NEW v \in allowed, Observe({v}) PROVE Cell!Decide
  <2>1. allowed' = {v}
    BY <1>b, <1>d
  <2>2. Loaded' = v
    BY <1>a, <2>1
  <2>. QED
    BY <2>1, <2>2 DEF Cell!Decide
\* An operation begins; NVS is left alone.
<1>e. ASSUME slots' = slots, active' = active, NEW v \in Payloads,
             Observe({Loaded, v})
      PROVE  \E w \in Payloads : Cell!Begin(w)
  <2>1. allowed' = {Loaded, v} /\ Loaded' = Loaded
    BY <1>b, <1>e DEF Loaded
  <2>. QED
    BY <2>1 DEF Cell!Begin
<1>f. pc \in Committing => PayloadOf(slots, op.current) \in allowed
  BY DEF IInv, CommitInv, CommitShape
<1>1. ASSUME NEW p \in Payloads, CommitBegin(p) PROVE Cell!Next
  BY <1>1, <1>e DEF CommitBegin
<1>2. ASSUME CommitWriteSlot PROVE Cell!Next
  BY <1>2, <1>c DEF CommitWriteSlot
<1>3. ASSUME CommitWriteMarker PROVE Cell!Next
  BY <1>3, <1>c DEF CommitWriteMarker
<1>4. ASSUME CommitEraseSlot PROVE Cell!Next
  BY <1>4, <1>c, <1>d, <1>f DEF CommitEraseSlot, Committing
<1>5. ASSUME CommitVerify PROVE Cell!Next
  <2>1. op.payload \in allowed
    BY <1>5 DEF CommitVerify, IInv, CommitInv, Committing
  <2>. QED
    BY <1>5, <1>c, <1>d, <2>1 DEF CommitVerify
<1>6. ASSUME CommitUndoSlot PROVE Cell!Next
  BY <1>6, <1>c, <1>d, <1>f DEF CommitUndoSlot, Committing
<1>7. ASSUME CommitUndoMarker PROVE Cell!Next
  BY <1>7, <1>c DEF CommitUndoMarker
<1>8. ASSUME RollbackBegin PROVE Cell!Next
  <2>1. loadPrevious \in SlotNames /\ slots[loadPrevious].gen # 0
    BY <1>8, LoadActiveSelectsValid
    DEF RollbackBegin, loadPrevious, IInv, TypeOK, SlotNames, Other, NoSlot
  <2>2. slots[loadPrevious].payload \in Payloads
    BY <2>1, SlotBlobCases DEF IInv, TypeOK
  <2>. QED
    BY <1>8, <1>e, <2>2 DEF RollbackBegin
<1>9. ASSUME RollbackWriteMarker PROVE Cell!Next
  <2>1. op.payload \in allowed
    BY <1>9 DEF RollbackWriteMarker, IInv, RollbackInv
  <2>. QED
    BY <1>9, <1>c, <1>d, <2>1 DEF RollbackWriteMarker
<1>10. ASSUME PowerLoss PROVE Cell!Next
  BY <1>10, <1>c DEF PowerLoss
<1>11. ASSUME UNCHANGED vars PROVE UNCHANGED <<Loaded, allowed>>
  BY <1>11 DEF vars, Loaded
<1>. QED
  BY <1>1, <1>2, <1>3, <1>4, <1>5, <1>6, <1>7, <1>8, <1>9, <1>10, <1>11
  DEF Next

\* The two slots and the marker implement one crash-atomic cell: whatever
\* writes are lost, torn or unconfirmed and wherever power fails, readers of
\* AtomicConfigStore see the old or the new payload and nothing else.
THEOREM StoreImplementsCell == Spec => ImplementsCell
<1>1. Init => Cell!Init
  <2>. SUFFICES ASSUME Init PROVE Loaded = NoPayload /\ allowed = {NoPayload}
    BY DEF Cell!Init
  <2>1. loadActive(slots, active) = NoSlot
    BY DEF Init, loadActive, newestValid, BadSlot, BadMarker, SlotNames
  <2>. QED
    BY <2>1 DEF Init, Loaded, PayloadOf
<1>. QED
  BY <1>1, CellStep, Invariance, PTL DEF Spec, ImplementsCell, Cell!Spec

-----------------------------------------------------------------------------
(* RuntimeConfig: values                                                    *)

\* The values of the slots, of the keys and of the journal.
Nets == {"none", "home", "other", "bad", "malformed"}
Confs == [setup : Nat, net : Nets, url : BOOLEAN, rev : Nat]
SlotValues == [gen : Nat, conf : Confs]
Creds == [tok : Nat, salt : Nat, hash : Nat]
Journals == [gen : Nat, cred : Creds]

\* The mutations that commit a configuration, and those that go back.
Commits == {"local", "network", "netreset", "remote"}
Backs == {"rollback", "expire"}
Operators == {"setup", "local", "network"}
Kinds == {"none", "boot", "setup"} \cup Commits \cup Backs

\* The steps of a setup, of a commit, and of the recovery of a setup.
KeySteps == {"tok", "salt", "hash"}
CommitSteps == {"slot", "marker", "verify"}
RestoreSteps == {"undoTok", "undoSalt", "undoHash", "undoClear"}
UndoSteps == {"probe", "undoConf", "publish"} \cup RestoreSteps
Steps == {"none", "journal", "dropJournal", "clear", "back", "restart", "select"}
           \cup KeySteps \cup CommitSteps \cup UndoSteps

Mutations == [kind : Kinds, pc : Steps, conf : Confs, gen : Nat]
Jobs == [kind : {"none"} \cup Operators, conf : Confs]
SyncStates == {"idle", "apply", "compare", "report", "undo", "validate"}
Syncs == [pc : SyncStates, ver : 0 .. Len(Updates), before : Confs, gen : Nat]
Pends == [ver : 0 .. Len(Updates), gen : Nat]

\* Shapes of the slots, the keys, the mutation and the tasks.
ShapeInv ==
  /\ act \in SlotValues /\ oth \in SlotValues /\ ram \in SlotValues
  /\ cred \in Creds /\ journal \in Journals /\ srvCfg \in [nvs : Nat, ram : Nat]
  /\ phase \in {"off", "boot", "up", "halted"} /\ mut \in Mutations
  /\ http \in Jobs /\ sync \in Syncs /\ pend \in Pends
  /\ offer \in 0 .. Len(Updates) /\ setups \in Nat /\ told \in Nat
  /\ overtaken \in BOOLEAN /\ applied \in Nat /\ faults \in Nat

\* Which mutation is at which step.
StepInv ==
  /\ mut.pc = "none" <=> mut = NoMutation
  /\ mut.kind = "none" => mut = NoMutation
  /\ mut.pc \in KeySteps \cup {"journal", "dropJournal", "clear"} => mut.kind = "setup"
  /\ mut.pc \in CommitSteps => mut.kind \in Commits \cup {"setup"}
  /\ mut.pc \in UndoSteps => mut.kind \in {"setup", "boot"}
  /\ mut.pc = "back" => mut.kind \in {"local", "remote"}
  /\ mut.pc = "restart" => mut.kind = "netreset"
  /\ mut.pc = "select" <=> mut.kind \in Backs
  /\ phase \in {"off", "halted"} => mut = NoMutation
  /\ phase = "boot" <=> mut.kind = "boot"

\* A remote update that was committed and may be undone.
Going(s) == s.pc \in {"compare", "report", "undo"}

\* What the tasks wait for while a mutation holds the mutex.
TaskInv ==
  /\ phase # "up" => http = NoHttp /\ sync = NoSync /\ pend = NoPend
  /\ mut.kind \in Operators => http.kind = mut.kind
  /\ http.kind = "none" => http = NoHttp
  /\ sync.pc = "idle" => sync = NoSync
  /\ sync.pc = "apply" => sync.ver # 0
  /\ sync.pc = "validate" => pend # NoPend
  /\ sync.pc \in {"apply", "compare", "report", "undo"} => pend = NoPend
  /\ mut.kind = "remote" => sync.pc = "apply" /\ mut.conf.rev = sync.ver
  /\ mut.kind = "rollback" => sync.pc = "undo" /\ mut.gen = sync.gen
  /\ mut.kind = "expire" => /\ pend # NoPend /\ mut.gen = pend.gen
                            /\ sync.pc \in {"idle", "validate"}
  /\ mut.kind = "setup" /\ mut.pc \in UndoSteps \cup {"dropJournal"} =>
       faults # 0 /\ ~Going(sync) /\ pend = NoPend

\* The slot, the token, the salt and the hash come from the same setup.
Whole(s, c) == c.tok = c.salt /\ c.salt = c.hash /\ s.conf.setup = c.tok

\* The configuration has what was recorded as applied, a, and the update that
\* ServerSync is about to report; o says that an operator's copy overtook it.
Answered(c, o, a, s, p) ==
  \/ o
  \/ /\ c.rev >= a
     /\ s.pc \in {"compare", "report"} => c.rev >= s.ver
     /\ p # NoPend => c.rev >= p.ver

Keeps(c) == Answered(c, overtaken, applied, sync, pend)

\* A slot with everything that was answered.
Good(s) == s.gen # 0 /\ s.gen >= told /\ Keeps(s.conf)

\* A remote update is not ahead of the slot s.
Behind(s) == /\ Going(sync) => sync.gen # 0 /\ sync.gen <= s.gen
             /\ pend # NoPend => pend.gen # 0 /\ pend.gen <= s.gen

\* The remote update is the active configuration, and the other slot is older.
CanGoBack == /\ Older
             /\ \/ Going(sync) /\ act.gen = sync.gen
                \/ pend # NoPend /\ act.gen = pend.gen

\* Going back undoes nothing but that update.
BackInv ==
  mut.kind # "setup" /\ CanGoBack =>
    /\ Whole(oth, cred) /\ oth.gen >= told
    /\ overtaken \/ oth.conf.rev >= applied

\* The slot the journal goes back to.
Origin(a, o, j) == IF a.gen = j.gen THEN a ELSE o

\* What NVS holds: either everything is of one setup, or the journal and one
\* of the slots have the state before.
StoreInv ==
  /\ Good(act) /\ Behind(act)
  /\ journal = NoJournal => Whole(act, cred)
  /\ journal # NoJournal =>
       /\ act.gen >= journal.gen /\ Origin(act, oth, journal).gen = journal.gen
       /\ Whole(Origin(act, oth, journal), journal.cred)
       /\ Good(Origin(act, oth, journal))
  /\ phase = "up" /\ mut.kind # "setup" => journal = NoJournal

\* A failed call left RAM with an older or a newer configuration than NVS.
Stale == /\ faults # 0 /\ ram.conf.net # "none" /\ ram.conf.setup # 0
         /\ http.kind # "setup"

\* The published configuration.
RamInv ==
  /\ phase = "up" => Keeps(ram.conf)
  /\ phase = "up" /\ mut.kind # "setup" =>
       /\ Whole(ram, cred)
       /\ http.kind = "network" => http.conf.setup = cred.tok
       /\ mut.pc = "verify" \/ ram = act \/ Stale
  /\ mut.pc = "back" => Stale
  /\ mut.pc \in {"journal", "clear"} => ram = act

\* The commit has written the other slot; it has switched.
SwitchInv ==
  /\ mut.kind \in Commits /\ mut.pc \in CommitSteps => mut.conf.setup = cred.tok
  /\ mut.pc = "marker" => oth.conf = mut.conf /\ oth.gen > act.gen
  /\ mut.pc \in {"verify", "clear"} => act.conf = mut.conf
  /\ mut.kind \in Commits /\ mut.pc \in {"verify", "back"} =>
       Whole(oth, cred) /\ Good(oth) /\ Behind(oth) /\ oth.gen < act.gen
  /\ mut.pc = "select" => act.gen = mut.gen /\ ram.gen = mut.gen

\* What a setup has written, and what its recovery has restored.
SetupInv ==
  /\ mut.pc \in {"journal", "publish"} => journal = NoJournal
  /\ mut.pc = "dropJournal" => Whole(act, cred)
  /\ mut.kind = "setup" /\ mut.pc \in KeySteps \cup {"slot", "marker"} =>
       journal # NoJournal /\ act.gen = journal.gen
  /\ mut.kind = "setup" /\ mut.pc \in {"verify", "clear"} =>
       journal # NoJournal /\ act.gen > journal.gen /\ Behind(journal)
  /\ mut.kind = "setup" /\ mut.pc \in CommitSteps \cup {"salt", "hash", "clear"} =>
       cred.tok = mut.conf.setup
  /\ mut.kind = "setup" /\ mut.pc \in CommitSteps \cup {"hash", "clear"} =>
       cred.salt = mut.conf.setup
  /\ mut.kind = "setup" /\ mut.pc \in CommitSteps \cup {"clear"} =>
       cred.hash = mut.conf.setup
  /\ mut.pc = "undoConf" => journal # NoJournal /\ act.gen > journal.gen
  /\ mut.pc \in RestoreSteps => journal # NoJournal /\ act.gen = journal.gen
  /\ mut.pc \in RestoreSteps \ {"undoTok"} => cred.tok = journal.cred.tok
  /\ mut.pc \in {"undoHash", "undoClear"} => cred.salt = journal.cred.salt
  /\ mut.pc = "undoClear" => cred.hash = journal.cred.hash

\* The device was set up and has a network; it has none, or was set up.
Joined(c) == c.net # "none" /\ c.setup # 0
Sound(c) == c.net = "none" \/ c.setup # 0

\* Something other than a setup is going on.
Busy == \/ sync # NoSync \/ pend # NoPend \/ http.kind \in {"local", "network"}
        \/ mut.kind \in Commits \cup Backs

\* Before the first fault: RAM follows NVS, and nothing but a setup is going on
\* while the device has no network.
FirstInv ==
  faults = 0 =>
    /\ Sound(act.conf) /\ Sound(oth.conf) /\ Sound(mut.conf)
    /\ http.kind # "local" => Sound(http.conf)
    /\ http.kind = "network" => Joined(http.conf)
    /\ mut.kind \in {"local", "network", "remote"} => Joined(mut.conf)
    /\ phase = "up" =>
         /\ mut.pc # "verify" => ram = act
         /\ Busy /\ mut.pc # "restart" => Joined(ram.conf)
         /\ http.kind = "setup" /\ mut.pc # "clear" => ram.conf.net = "none"
         /\ mut.kind = "remote" /\ mut.pc = "verify" => Joined(oth.conf)
         /\ CanGoBack => Joined(oth.conf)
         /\ mut.kind = "setup" => ~Going(sync) /\ pend = NoPend

\* The inductive invariant, as long as at most one call has failed.
OneFaultInv ==
  /\ StepInv /\ TaskInv /\ StoreInv /\ RamInv /\ SwitchInv /\ SetupInv /\ BackInv
  /\ FirstInv

ConfigInv == ShapeInv /\ OneFaultInv

-----------------------------------------------------------------------------
(* The record values, and the effect of a return                            *)

\* The model values of an empty slot, job, update and mutation have their types.
LEMMA Empties ==
  /\ Factory \in Confs /\ EmptySlot \in SlotValues /\ NoCred \in Creds
  /\ NoJournal \in Journals
  /\ NoMutation \in Mutations /\ NoHttp \in Jobs
  /\ NoMutation.kind = "none" /\ NoMutation.pc = "none" /\ NoHttp.kind = "none"
<1>1. Factory \in Confs
  BY DEF Factory, Confs, Nets
<1>. QED
  BY <1>1 DEF EmptySlot, NoCred, NoJournal, NoMutation, NoHttp, SlotValues, Creds, Journals,
     Mutations,
     Jobs, Kinds, Steps

\* Updates is a sequence, so nothing is going on is a state of ServerSync.
LEMMA EmptySyncs ==
  /\ NoSync \in Syncs /\ NoPend \in Pends /\ NoSync.pc = "idle"
  /\ Len(Updates) \in Nat
<1>1. Len(Updates) \in Nat
  BY UpdatesAssumption
<1>2. Factory \in Confs
  BY Empties
<1>. QED  BY <1>1, <1>2 DEF NoSync, NoPend, Syncs, Pends, SyncStates

\* So it is in every state of the invariant.
LEMMA EmptySyncsIn ==
  ASSUME ShapeInv
  PROVE  /\ NoSync \in Syncs /\ NoPend \in Pends /\ NoSync.pc = "idle"
         /\ Len(Updates) \in Nat
  BY EmptySyncs DEF ShapeInv

\* A mutation that goes on to another step stays the same mutation.
LEMMA GotoIs ==
  ASSUME NEW p \in Steps, mut \in Mutations, Goto(p)
  PROVE  /\ mut' \in Mutations /\ mut'.pc = p /\ mut'.kind = mut.kind
         /\ mut'.conf = mut.conf /\ mut'.gen = mut.gen
  BY DEF Goto, Mutations

\* Fewer updates under way, or an update overtaken, leave what a configuration has.
LEMMA AnsweredStays ==
  ASSUME NEW o, NEW a, NEW s, NEW p, NEW o2, NEW s2, NEW p2, o => o2,
         s2 = s \/ s2.pc \notin {"compare", "report"}, p2 = p \/ p2 = NoPend
  PROVE  \A c : Answered(c, o, a, s, p) => Answered(c, o2, a, s2, p2)
  BY DEF Answered

\* A mutation that returns an error leaves the mutex; ServerSync gives up the
\* update it was committing or going back from.
LEMMA ErrorIs ==
  ASSUME ShapeInv, Return(FALSE)
  PROVE  /\ mut' = NoMutation /\ told' = told
         /\ http' = IF mut.kind \in Operators THEN NoHttp ELSE http
         /\ sync' = IF mut.kind \in {"remote"} \cup Backs THEN NoSync ELSE sync
         /\ pend' = IF mut.kind = "expire" THEN NoPend ELSE pend
<1>1. mut' = NoMutation /\ told' = told
  BY DEF Return, Returns
<1>2. http' = IF mut.kind \in Operators THEN NoHttp ELSE http
  BY DEF Return, Returns, FromOperator, Operators
<1>3. sync' = IF mut.kind \in {"remote"} \cup Backs THEN NoSync ELSE sync
  BY DEF Return, Returns, Backs
<1>4. pend' = IF mut.kind = "expire" THEN NoPend ELSE pend
  BY DEF Return, Returns
<1>. QED  BY <1>1, <1>2, <1>3, <1>4

\* A commit that succeeds: the operator is told, or ServerSync goes on.
LEMMA SuccessIs ==
  ASSUME ShapeInv, mut.kind \notin Backs, NEW g \in Nat, Returns(TRUE, g)
  PROVE  /\ mut' = NoMutation /\ pend' = pend
         /\ told' = IF mut.kind \in Operators THEN g ELSE told
         /\ http' = IF mut.kind \in Operators THEN NoHttp ELSE http
         /\ sync' = IF mut.kind = "remote" THEN [sync EXCEPT !.pc = "compare", !.gen = g]
                                          ELSE sync
<1>1. mut' = NoMutation /\ pend' = pend
  BY DEF Returns, Backs
<1>2. told' = IF mut.kind \in Operators THEN g ELSE told
  BY DEF Returns, FromOperator, Operators
<1>3. http' = IF mut.kind \in Operators THEN NoHttp ELSE http
  BY DEF Returns, FromOperator, Operators
<1>4. sync' = IF mut.kind = "remote" THEN [sync EXCEPT !.pc = "compare", !.gen = g] ELSE sync
  BY DEF Returns, Backs
<1>. QED  BY <1>1, <1>2, <1>3, <1>4

\* A call fails at most once.
LEMMA FailsOnce ==
  ASSUME faults \in Nat, faults' <= 1, Fails
  PROVE  faults = 0 /\ faults' = 1
  BY DEF Fails

-----------------------------------------------------------------------------
(* A mutation that fails                                                    *)

\* Whatever a commit or a rollback had done when a call failed: with whole slots
\* everything holds again, RAM has a configuration with a network, and there is
\* no second fault.
LEMMA FailedMutation ==
  ASSUME ConfigInv, mut.kind \in Commits \cup Backs, mut.pc # "restart", Return(FALSE),
         Stale \/ faults = 0, faults' = 1,
         UNCHANGED <<phase, ram, cred, journal, srvCfg, overtaken, applied, offer, setups>>,
         act' \in SlotValues, oth' \in SlotValues, act'.gen # 0, act'.gen >= told,
         Whole(act', cred), Keeps(act.conf)', Behind(act)', BackInv'
  PROVE  ConfigInv'
<1>. USE DEF ConfigInv, OneFaultInv
<1>u. phase = "up" /\ mut.kind # "setup" /\ mut.kind # "boot"
  BY DEF StepInv, ShapeInv, Commits, Backs, NoMutation
<1>e. /\ mut' = NoMutation /\ told' = told
      /\ http' = IF mut.kind \in Operators THEN NoHttp ELSE http
      /\ sync' = IF mut.kind \in {"remote"} \cup Backs THEN NoSync ELSE sync
      /\ pend' = IF mut.kind = "expire" THEN NoPend ELSE pend
  BY ErrorIs
<1>k. \A c : Keeps(c) => Answered(c, overtaken', applied', sync', pend')
  BY <1>e, EmptySyncsIn, AnsweredStays DEF Keeps
<1>1. ShapeInv'
  BY <1>e, Empties, EmptySyncsIn DEF ShapeInv
<1>2. StepInv'
  BY <1>e, <1>u, Empties DEF StepInv, Commits, Backs, Operators, KeySteps, CommitSteps,
     UndoSteps, RestoreSteps
<1>3. TaskInv'
  BY <1>e, <1>u, Empties, EmptySyncsIn DEF TaskInv, Commits, Backs, Operators, Going
<1>j. journal = NoJournal
  BY <1>u DEF StoreInv
<1>4. StoreInv'
  BY <1>e, <1>j, <1>k DEF StoreInv, Good, Keeps
<1>s. Stale'
  <2>1. CASE Stale
    BY <2>1, <1>e, Empties DEF Stale
  <2>2. CASE faults = 0
    <3>1. Joined(ram.conf)
      BY <2>2, <1>u DEF FirstInv, Busy
    <3>2. http.kind # "setup"
      BY <2>2, <3>1, <1>u DEF FirstInv, Joined, StepInv
    <3>. QED  BY <3>1, <3>2, <1>e, Empties DEF Stale, Joined
  <2>. QED  BY <2>1, <2>2
<1>5. RamInv'
  BY <1>e, <1>u, <1>k, <1>s, Empties DEF RamInv, Keeps, Operators
<1>6. SwitchInv' /\ SetupInv'
  BY <1>e, Empties DEF SwitchInv, SetupInv, Commits, CommitSteps, KeySteps, RestoreSteps
<1>7. FirstInv'
  BY DEF FirstInv
<1>. QED  BY <1>1, <1>2, <1>3, <1>4, <1>5, <1>6, <1>7

\* A setup that fails goes to its recovery; nobody else has anything under way.
LEMMA FailedSetup ==
  ASSUME ConfigInv, mut.kind = "setup", mut.pc \notin UndoSteps, faults = 0, faults' = 1,
         NEW p \in {"probe", "dropJournal"}, Goto(p),
         UNCHANGED <<tasks, phase, offer, setups, told, overtaken, applied, srvCfg>>,
         act' \in SlotValues, oth' \in SlotValues, ram' = ram, cred' \in Creds,
         journal' \in Journals, StoreInv', p = "dropJournal" => Whole(act, cred)'
  PROVE  ConfigInv'
<1>. USE DEF ConfigInv, OneFaultInv
<1>e. /\ mut' \in Mutations /\ mut'.pc = p /\ mut'.kind = "setup"
  BY GotoIs DEF ShapeInv, Steps, UndoSteps
<1>t. http' = http /\ sync' = sync /\ pend' = pend
  BY DEF tasks
<1>u. phase = "up"
  BY DEF StepInv, ShapeInv, NoMutation
<1>1. ShapeInv'
  BY <1>e, <1>t DEF ShapeInv
<1>2. StepInv'
  BY <1>e, <1>u, Empties DEF StepInv, Commits, Backs, KeySteps, CommitSteps, UndoSteps
<1>3. TaskInv'
  BY <1>e, <1>t, <1>u DEF TaskInv, FirstInv, Operators
<1>4. RamInv'
  BY <1>e, <1>t, <1>u DEF RamInv, Keeps
<1>5. SwitchInv'
  BY <1>e DEF SwitchInv, Commits, CommitSteps
<1>6. SetupInv'
  BY <1>e DEF SetupInv, CommitSteps, KeySteps, RestoreSteps
<1>7. BackInv' /\ FirstInv'
  BY <1>e DEF BackInv, FirstInv
<1>. QED  BY <1>1, <1>2, <1>3, <1>4, <1>5, <1>6, <1>7

-----------------------------------------------------------------------------
(* commitPersistentConfig                                                   *)

\* A generation that is given to a slot is above those of both.
LEMMA LargestIs ==
  ASSUME ShapeInv
  PROVE  Largest \in Nat /\ Largest >= act.gen /\ Largest >= oth.gen
<1>1. act.gen \in Nat /\ oth.gen \in Nat
  BY DEF ShapeInv, SlotValues
<1>2. PICK x \in {act.gen, oth.gen} : \A y \in {act.gen, oth.gen} : x >= y
  BY <1>1
<1>3. Largest \in {act.gen, oth.gen} /\ \A y \in {act.gen, oth.gen} : Largest >= y
  BY <1>2 DEF Largest, Max
<1>. QED  BY <1>1, <1>3

\* The active slot stays, and the other one stays or is erased: what may be
\* undone is what could be undone before.
LEMMA BackStays ==
  ASSUME ConfigInv, mut.kind # "setup", mut'.kind # "setup", act' = act, oth' \in {oth, EmptySlot},
         cred' = cred, told' = told, overtaken' = overtaken, applied' = applied,
         sync' = sync \/ sync' = NoSync, pend' = pend \/ pend' = NoPend
  PROVE  BackInv' /\ Behind(act)'
<1>1. ~Going(NoSync)
  BY EmptySyncsIn DEF Going, ConfigInv
<1>2. CanGoBack' => CanGoBack /\ oth' = oth
  BY <1>1 DEF CanGoBack, Older, EmptySlot
<1>3. Behind(act)'
  BY <1>1 DEF Behind, ConfigInv, OneFaultInv, StoreInv
<1>. QED  BY <1>2, <1>3 DEF BackInv, ConfigInv, OneFaultInv

\* A commit that fails before the marker, with its slot as it was or erased.
LEMMA FailedWrite ==
  ASSUME ConfigInv, mut.pc \in {"slot", "marker"}, faults' <= 1, Fails, CommitFailed,
         act' = act, oth' \in {oth, EmptySlot},
         UNCHANGED <<cred, journal, srvCfg, phase, ram, offer, setups, overtaken, applied>>
  PROVE  ConfigInv'
<1>. USE DEF ConfigInv, OneFaultInv
<1>f. faults = 0 /\ faults' = 1
  BY FailsOnce DEF ShapeInv
<1>o. oth' \in SlotValues
  BY Empties DEF ShapeInv
<1>k. mut.kind \in Commits \cup {"setup"}
  BY DEF StepInv, CommitSteps
<1>1. CASE mut.kind = "setup"
  <2>1. Goto("probe") /\ UNCHANGED tasks /\ UNCHANGED told
    BY <1>1 DEF CommitFailed
  <2>2. act.gen = journal.gen /\ mut'.kind = "setup" /\ sync' = sync /\ pend' = pend
    BY <1>1, <2>1, GotoIs DEF SetupInv, KeySteps, tasks, ShapeInv, Steps, UndoSteps
  <2>3. StoreInv'
    BY <2>1, <2>2 DEF StoreInv, Good, Keeps, Behind, Origin
  <2>. QED  BY <1>1, <1>f, <1>o, <2>1, <2>3, FailedSetup DEF UndoSteps, RestoreSteps, ShapeInv
<1>2. CASE mut.kind \in Commits
  <2>1. Return(FALSE)
    BY <1>2 DEF CommitFailed, Commits
  <2>2. /\ mut'.kind = "none" /\ told' = told /\ (sync' = sync \/ sync' = NoSync)
        /\ (pend' = pend \/ pend' = NoPend)
    BY <2>1, ErrorIs, Empties
  <2>3. BackInv' /\ Behind(act)'
    BY <1>2, <2>2, BackStays DEF Commits
  <2>4. journal = NoJournal /\ Whole(act, cred) /\ Good(act)
    BY <1>2 DEF StoreInv, StepInv, Commits, NoMutation, ShapeInv
  <2>5. Keeps(act.conf)'
    BY <2>2, <2>4, EmptySyncsIn, AnsweredStays DEF Good, Keeps
  <2>. QED
    BY <1>2, <1>f, <1>o, <2>1, <2>3, <2>4, <2>5, FailedMutation DEF Good, ShapeInv
<1>. QED  BY <1>k, <1>1, <1>2

\* The slot is written, or the commit fails.
LEMMA WriteSlotStep ==
  ASSUME ConfigInv, faults' <= 1, WriteSlot
  PROVE  ConfigInv'
<1>. USE DEF ConfigInv, OneFaultInv
<1>. DEFINE new == [gen |-> Largest + 1, conf |-> mut.conf]
<1>a. mut.pc = "slot" /\ mut.kind \in Commits \cup {"setup"} /\ phase = "up"
  BY DEF WriteSlot, At, StepInv, CommitSteps, ShapeInv, Commits
<1>u. UNCHANGED <<act, cred, journal, srvCfg, phase, ram, offer, setups, overtaken, applied>>
  BY DEF WriteSlot
<1>1. CASE oth' \in {oth, EmptySlot} /\ Fails /\ CommitFailed
  BY <1>1, <1>a, <1>u, FailedWrite
<1>2. CASE Written(oth', oth, new) /\ Goto("marker") /\ UNCHANGED tasks /\ UNCHANGED told
  <2>1. /\ mut' \in Mutations /\ mut'.pc = "marker" /\ mut'.kind = mut.kind /\ mut'.conf = mut.conf
        /\ mut'.gen = mut.gen
    BY <1>2, GotoIs DEF ShapeInv, Steps, CommitSteps
  <2>2. /\ faults' = faults /\ oth' = new /\ http' = http /\ sync' = sync /\ pend' = pend
        /\ told' = told
    BY <1>2 DEF Written, Works, tasks
  <2>3. /\ Largest \in Nat /\ act.gen \in Nat /\ Largest >= act.gen /\ mut.conf \in Confs
        /\ oth'.gen = Largest + 1 /\ oth'.conf = mut.conf
    BY <2>2, LargestIs DEF ShapeInv, SlotValues, Mutations
  <2>4. oth'.gen > act'.gen /\ oth' \in SlotValues
    BY <1>u, <2>2, <2>3 DEF SlotValues
  <2>5. ~CanGoBack'
    BY <1>u, <2>3 DEF CanGoBack, Older
  <2>6. journal # NoJournal => mut.kind = "setup" /\ act.gen = journal.gen
    BY <1>a DEF SetupInv, StoreInv
  <2>7. ShapeInv'
    BY <1>u, <2>1, <2>2, <2>4 DEF ShapeInv
  <2>8. StepInv' /\ TaskInv'
    BY <1>a, <1>u, <2>1, <2>2, Empties DEF StepInv, TaskInv, KeySteps, CommitSteps, UndoSteps,
       RestoreSteps, Commits, Backs, Operators, NoMutation
  <2>9. StoreInv'
    BY <1>a, <1>u, <2>1, <2>2, <2>6 DEF StoreInv, Good, Keeps, Behind, Origin
  <2>10. RamInv'
    BY <1>a, <1>u, <2>1, <2>2 DEF RamInv, Keeps, Stale
  <2>11. SwitchInv'
    BY <1>a, <1>u, <2>1, <2>2, <2>3, <2>4 DEF SwitchInv, CommitSteps
  <2>12. SetupInv'
    BY <1>a, <1>u, <2>1, <2>2 DEF SetupInv, KeySteps, CommitSteps, RestoreSteps
  <2>13. BackInv'
    BY <2>5 DEF BackInv
  <2>14. FirstInv'
    BY <1>a, <1>u, <2>1, <2>2, <2>3, <2>5 DEF FirstInv, Busy
  <2>. QED
    BY <2>7, <2>8, <2>9, <2>10, <2>11, <2>12, <2>13, <2>14
<1>. QED  BY <1>1, <1>2 DEF WriteSlot

\* The marker is written: what was active is the other slot now.
LEMMA WriteMarkerStep ==
  ASSUME ConfigInv, faults' <= 1, WriteMarker
  PROVE  ConfigInv'
<1>. USE DEF ConfigInv, OneFaultInv
<1>a. mut.pc = "marker" /\ mut.kind \in Commits \cup {"setup"} /\ phase = "up"
  BY DEF WriteMarker, At, StepInv, CommitSteps, ShapeInv, Commits
<1>u. UNCHANGED <<cred, journal, srvCfg, phase, ram, offer, setups, applied>>
  BY DEF WriteMarker
<1>1. CASE UNCHANGED act /\ oth' \in {oth, EmptySlot} /\ Fails /\ CommitFailed
      /\ UNCHANGED overtaken
  BY <1>1, <1>a, <1>u, FailedWrite
<1>2. CASE /\ Swap /\ Works /\ Goto("verify") /\ UNCHANGED tasks /\ UNCHANGED told
           /\ overtaken' = (overtaken \/ oth.conf.rev < ram.conf.rev)
  <2>1. /\ mut' \in Mutations /\ mut'.pc = "verify" /\ mut'.kind = mut.kind /\ mut'.conf = mut.conf
        /\ mut'.gen = mut.gen
    BY <1>2, GotoIs DEF ShapeInv, Steps, CommitSteps
  <2>2. /\ faults' = faults /\ act' = oth /\ oth' = act /\ http' = http /\ sync' = sync
        /\ pend' = pend /\ told' = told /\ overtaken' \in BOOLEAN
        /\ overtaken' = (overtaken \/ oth.conf.rev < ram.conf.rev)
    BY <1>2 DEF Swap, Works, tasks
  <2>3. /\ act.gen \in Nat /\ oth.gen \in Nat /\ told \in Nat /\ sync.gen \in Nat
        /\ pend.gen \in Nat /\ journal.gen \in Nat
    BY DEF ShapeInv, SlotValues, Syncs, Pends, Journals
  <2>4. oth.gen > act.gen /\ oth.conf = mut.conf
    BY <1>a DEF SwitchInv
  <2>5. \A c : Keeps(c) => Answered(c, overtaken', applied', sync', pend')
    BY <1>u, <2>2, AnsweredStays DEF Keeps
  <2>6. Answered(oth.conf, overtaken', applied', sync', pend')
    <3>1. /\ oth.conf.rev \in Nat /\ ram.conf.rev \in Nat /\ applied \in Nat
          /\ sync.ver \in Nat /\ pend.ver \in Nat
      BY DEF ShapeInv, SlotValues, Confs, Syncs, Pends
    <3>2. Keeps(ram.conf)
      BY <1>a DEF RamInv
    <3>3. CASE overtaken'
      BY <3>3 DEF Answered
    <3>4. CASE ~overtaken'
      <4>1. ~overtaken /\ ~(oth.conf.rev < ram.conf.rev)
        BY <2>2, <3>4
      <4>2. oth.conf.rev >= ram.conf.rev
        BY <3>1, <4>1
      <4>. QED  BY <1>u, <2>2, <3>1, <3>2, <4>1, <4>2 DEF Keeps, Answered
    <3>. QED  BY <3>3, <3>4
  <2>7. Behind(act)' /\ Behind(oth)' /\ ~CanGoBack'
    BY <2>2, <2>3, <2>4 DEF StoreInv, Behind, CanGoBack
  <2>8. Good(act)' /\ Good(oth)'
    BY <2>2, <2>3, <2>4, <2>5, <2>6 DEF StoreInv, Good, Keeps
  <2>9. ShapeInv'
    BY <1>u, <2>1, <2>2 DEF ShapeInv
  <2>10. StepInv' /\ TaskInv'
    BY <1>a, <1>u, <2>1, <2>2, Empties DEF StepInv, TaskInv, KeySteps, CommitSteps, UndoSteps,
       RestoreSteps, Commits, Backs, Operators, NoMutation
  <2>11. mut.kind = "setup" => journal # NoJournal /\ act.gen = journal.gen
    BY <1>a DEF SetupInv
  <2>12. mut.kind # "setup" => journal = NoJournal /\ Whole(act, cred) /\ Whole(oth, cred)
    <3>1. mut.kind # "setup" => journal = NoJournal /\ Whole(act, cred)
      BY <1>a DEF StoreInv
    <3>2. mut.kind # "setup" => oth.conf.setup = cred.tok
      BY <1>a, <2>4 DEF SwitchInv, CommitSteps
    <3>. QED  BY <3>1, <3>2 DEF Whole
  <2>13. journal # NoJournal => /\ Origin(act, oth, journal)' = act /\ act.gen = journal.gen
                                /\ Origin(act, oth, journal) = act
    BY <1>u, <2>2, <2>3, <2>4, <2>11, <2>12 DEF Origin
  <2>14. StoreInv'
    BY <1>a, <1>u, <2>1, <2>2, <2>3, <2>4, <2>7, <2>8, <2>11, <2>12, <2>13
       DEF StoreInv, Good, Keeps
  <2>15. RamInv'
    BY <1>a, <1>u, <2>1, <2>2, <2>5 DEF RamInv, Keeps
  <2>16. SwitchInv'
    BY <1>a, <1>u, <2>1, <2>2, <2>4, <2>7, <2>8, <2>12 DEF SwitchInv, CommitSteps, Commits
  <2>17. SetupInv'
    BY <1>a, <1>u, <2>1, <2>2, <2>3, <2>4 DEF SetupInv, StoreInv, Behind, KeySteps, CommitSteps,
       RestoreSteps
  <2>18. BackInv'
    BY <2>7 DEF BackInv
  <2>19. FirstInv'
    BY <1>a, <1>u, <2>1, <2>2, <2>4, <2>7 DEF FirstInv, Busy, Commits
  <2>. QED
    BY <2>9, <2>10, <2>14, <2>15, <2>16, <2>17, <2>18, <2>19
<1>. QED  BY <1>1, <1>2 DEF WriteMarker

\* The check of the new slot fails: a setup is undone, the marker goes back, or
\* the operator is told that it failed.
LEMMA VerifyFails ==
  ASSUME ConfigInv, mut.pc = "verify", faults' <= 1, Fails,
         UNCHANGED <<durable, ram, phase, offer, setups, overtaken, applied, cuts>>,
         CASE mut.kind = "setup" -> Goto("probe") /\ UNCHANGED tasks /\ UNCHANGED told
           [] mut.kind \in {"local", "remote"} -> Goto("back") /\ UNCHANGED tasks
           /\ UNCHANGED told
           [] OTHER -> Return(FALSE)
  PROVE  ConfigInv'
<1>. USE DEF ConfigInv, OneFaultInv
<1>f. faults = 0 /\ faults' = 1
  BY FailsOnce DEF ShapeInv
<1>u. act' = act /\ oth' = oth /\ cred' = cred /\ journal' = journal /\ srvCfg' = srvCfg
  BY DEF durable
<1>k. mut.kind \in Commits \cup {"setup"} /\ phase = "up"
  BY DEF StepInv, CommitSteps, ShapeInv, Commits, NoMutation
<1>1. CASE mut.kind = "setup"
  <2>1. Goto("probe") /\ UNCHANGED tasks /\ UNCHANGED told
    BY <1>1
  <2>2. mut'.kind = "setup" /\ sync' = sync /\ pend' = pend
    BY <1>1, <2>1, GotoIs DEF tasks, ShapeInv, Steps, UndoSteps
  <2>3. StoreInv'
    BY <1>1, <1>u, <2>1, <2>2 DEF StoreInv, Good, Keeps, Behind
  <2>. QED
    BY <1>1, <1>f, <1>u, <2>1, <2>3, FailedSetup DEF UndoSteps, RestoreSteps, ShapeInv
<1>2. CASE mut.kind \in {"network", "netreset"}
  <2>1. Return(FALSE)
    BY <1>2
  <2>2. /\ mut'.kind = "none" /\ told' = told /\ (sync' = sync \/ sync' = NoSync)
        /\ (pend' = pend \/ pend' = NoPend)
    BY <2>1, ErrorIs, Empties
  <2>3. BackInv' /\ Behind(act)'
    BY <1>2, <1>u, <2>2, BackStays
  <2>4. journal = NoJournal /\ Whole(act, cred) /\ Good(act)
    BY <1>2, <1>k DEF StoreInv
  <2>5. Keeps(act.conf)'
    BY <1>u, <2>2, <2>4, EmptySyncsIn, AnsweredStays DEF Good, Keeps
  <2>. QED
    BY <1>2, <1>f, <1>u, <2>1, <2>3, <2>4, <2>5, FailedMutation DEF Good, ShapeInv, Commits
<1>3. CASE mut.kind \in {"local", "remote"}
  <2>1. Goto("back") /\ UNCHANGED tasks /\ UNCHANGED told
    BY <1>3
  <2>2. /\ mut' \in Mutations /\ mut'.pc = "back" /\ mut'.kind = mut.kind /\ mut'.conf = mut.conf
        /\ mut'.gen = mut.gen /\ http' = http /\ sync' = sync /\ pend' = pend /\ told' = told
    BY <2>1, GotoIs DEF tasks, ShapeInv, Steps
  <2>3. Joined(ram.conf)
    BY <1>3, <1>f, <1>k DEF FirstInv, Busy, Commits
  <2>4. Stale'
    BY <1>f, <1>k, <2>2, <2>3 DEF FirstInv, Stale, Joined
  <2>5. ShapeInv'
    BY <1>u, <1>f, <2>2 DEF ShapeInv
  <2>6. StepInv' /\ TaskInv'
    BY <1>3, <1>k, <2>2, Empties DEF StepInv, TaskInv, KeySteps, CommitSteps, UndoSteps,
       RestoreSteps, Commits, Backs, Operators, NoMutation
  <2>7. StoreInv' /\ BackInv'
    BY <1>3, <1>u, <2>2 DEF StoreInv, BackInv, Good, Keeps, Behind, CanGoBack, Older
  <2>8. RamInv'
    BY <1>3, <1>k, <1>u, <2>2, <2>4 DEF RamInv, Keeps
  <2>9. SwitchInv' /\ SetupInv'
    BY <1>3, <1>u, <2>2 DEF SwitchInv, SetupInv, Good, Keeps, Behind, CommitSteps, KeySteps,
       RestoreSteps, Commits
  <2>10. FirstInv'
    BY <1>f DEF FirstInv
  <2>. QED  BY <2>5, <2>6, <2>7, <2>8, <2>9, <2>10
<1>. QED  BY <1>k, <1>1, <1>2, <1>3 DEF Commits

\* The new configuration is published, and the mutation has more to do.
LEMMA PublishGoesOn ==
  ASSUME ConfigInv, mut.pc = "verify", NEW p \in {"clear", "restart"}, Goto(p),
         p = "clear" => mut.kind = "setup", p = "restart" => mut.kind = "netreset",
         ram' = act, faults' = faults,
         UNCHANGED <<durable, phase, offer, setups, told, overtaken, applied, cuts>>,
         UNCHANGED tasks
  PROVE  ConfigInv'
<1>. USE DEF ConfigInv, OneFaultInv
<1>u. act' = act /\ oth' = oth /\ cred' = cred /\ journal' = journal /\ srvCfg' = srvCfg
  BY DEF durable
<1>k. mut.kind \in {"setup", "netreset"} /\ phase = "up"
  BY DEF StepInv, CommitSteps, ShapeInv, Commits, NoMutation
<1>e. /\ mut' \in Mutations /\ mut'.pc = p /\ mut'.kind = mut.kind /\ mut'.conf = mut.conf
      /\ mut'.gen = mut.gen /\ http' = http /\ sync' = sync /\ pend' = pend
  BY GotoIs DEF tasks, ShapeInv, Steps
<1>1. ShapeInv'
  BY <1>u, <1>e DEF ShapeInv
<1>2. StepInv' /\ TaskInv'
  BY <1>k, <1>e, Empties DEF StepInv, TaskInv, KeySteps, CommitSteps, UndoSteps,
     RestoreSteps, Commits, Backs, Operators, NoMutation
<1>3. StoreInv' /\ BackInv'
  BY <1>u, <1>e DEF StoreInv, BackInv, Good, Keeps, Behind, CanGoBack, Older
<1>4. RamInv'
  BY <1>k, <1>u, <1>e DEF RamInv, StoreInv, Good, Keeps, Stale
<1>5. SwitchInv' /\ SetupInv'
  BY <1>u, <1>e DEF SwitchInv, SetupInv, Behind, CommitSteps, KeySteps, RestoreSteps, Commits
<1>6. FirstInv'
  <2>. SUFFICES ASSUME faults = 0 PROVE FirstInv'
    BY DEF FirstInv
  <2>1. CASE mut.kind = "setup"
    <3>1. http.kind = "setup" /\ ~Busy
      BY <2>1, <1>k DEF TaskInv, Operators, FirstInv, Joined
    <3>2. ~Busy'
      BY <3>1, <1>e DEF Busy
    <3>. QED  BY <2>1, <1>k, <1>u, <1>e, <3>2 DEF FirstInv, CanGoBack, Older
  <2>2. CASE mut.kind = "netreset"
    <3>1. http.kind # "setup"
      BY <2>2, <1>k DEF FirstInv, Busy, Commits, Joined
    <3>. QED  BY <2>2, <1>k, <1>u, <1>e, <3>1 DEF FirstInv, CanGoBack, Older
  <2>. QED  BY <1>k, <2>1, <2>2
<1>. QED  BY <1>1, <1>2, <1>3, <1>4, <1>5, <1>6

\* The new configuration is published and answered: the operator is told its
\* generation, or ServerSync has an update that it may undo.
LEMMA PublishReturns ==
  ASSUME ConfigInv, mut.pc = "verify", mut.kind \in {"local", "network", "remote"},
         Returns(TRUE, act.gen), ram' = act, faults' = faults,
         UNCHANGED <<durable, phase, offer, setups, overtaken, applied, cuts>>
  PROVE  ConfigInv'
<1>. USE DEF ConfigInv, OneFaultInv
<1>u. act' = act /\ oth' = oth /\ cred' = cred /\ journal' = journal /\ srvCfg' = srvCfg
  BY DEF durable
<1>p. phase = "up"
  BY DEF StepInv, ShapeInv, NoMutation
<1>n. /\ act.gen \in Nat /\ oth.gen \in Nat /\ told \in Nat /\ sync.gen \in Nat
      /\ pend.gen \in Nat /\ act.conf.rev \in Nat /\ sync.ver \in Nat
  BY DEF ShapeInv, SlotValues, Confs, Syncs, Pends
<1>e. /\ mut' = NoMutation /\ pend' = pend
      /\ told' = IF mut.kind \in Operators THEN act.gen ELSE told
      /\ http' = IF mut.kind \in Operators THEN NoHttp ELSE http
      /\ sync' = IF mut.kind = "remote" THEN [sync EXCEPT !.pc = "compare", !.gen = act.gen]
                                       ELSE sync
  BY <1>n, SuccessIs DEF Backs
<1>v. /\ act.conf = mut.conf /\ Whole(oth, cred) /\ Good(oth) /\ Behind(oth) /\ oth.gen < act.gen
  BY DEF SwitchInv, Commits
<1>w. journal = NoJournal /\ Whole(act, cred) /\ Good(act) /\ Behind(act)
  BY <1>p DEF StoreInv
<1>s. /\ sync' \in Syncs
      /\ mut.kind = "remote" => /\ sync.pc = "apply" /\ sync'.pc = "compare"
                                /\ sync'.gen = act.gen /\ sync'.ver = sync.ver
                                /\ act.conf.rev = sync.ver /\ pend = NoPend
  BY <1>e, <1>n, <1>v DEF ShapeInv, Syncs, SyncStates, TaskInv
<1>k. Keeps(act.conf)'
  <2>1. Keeps(act.conf)
    BY <1>w DEF Good
  <2>. QED  BY <1>u, <1>e, <1>n, <1>s, <2>1 DEF Keeps, Answered
<1>g. Good(act)' /\ Behind(act)'
  BY <1>u, <1>e, <1>n, <1>s, <1>k, <1>w DEF Good, Behind, Going
<1>1. ShapeInv'
  BY <1>u, <1>e, <1>n, <1>s, Empties DEF ShapeInv
<1>2. StepInv'
  BY <1>p, <1>e, Empties DEF StepInv, KeySteps, CommitSteps, UndoSteps, RestoreSteps, Backs
<1>3. TaskInv'
  BY <1>p, <1>e, <1>s, Empties DEF TaskInv, Operators
<1>4. StoreInv'
  BY <1>u, <1>w, <1>g DEF StoreInv
<1>5. RamInv'
  BY <1>p, <1>u, <1>e, <1>k, <1>w, Empties DEF RamInv, Keeps
<1>6. SwitchInv' /\ SetupInv'
  BY <1>e, Empties DEF SwitchInv, SetupInv, CommitSteps, KeySteps, RestoreSteps, Commits
<1>7. BackInv'
  <2>1. CASE mut.kind = "remote"
    <3>1. told' = told /\ (overtaken \/ oth.conf.rev >= applied)
      BY <1>e, <1>v, <2>1 DEF Good, Keeps, Answered, Operators
    <3>. QED  BY <1>u, <1>v, <3>1 DEF BackInv, Good
  <2>2. CASE mut.kind # "remote"
    <3>1. ~CanGoBack'
      BY <1>u, <1>e, <1>n, <1>v, <2>2 DEF CanGoBack, Behind
    <3>. QED  BY <3>1 DEF BackInv
  <2>. QED  BY <2>1, <2>2
<1>8. FirstInv'
  <2>. SUFFICES ASSUME faults = 0 PROVE FirstInv'
    BY DEF FirstInv
  <2>1. Joined(act.conf) /\ http.kind # "setup"
    BY <1>p, <1>v DEF FirstInv, Busy, Commits, Joined
  <2>2. CanGoBack' => Joined(oth.conf)
    <3>1. CASE mut.kind = "remote"
      BY <1>p, <3>1 DEF FirstInv
    <3>2. CASE mut.kind # "remote"
      BY <1>u, <1>e, <1>n, <1>v, <3>2 DEF CanGoBack, Behind
    <3>. QED  BY <3>1, <3>2
  <2>3. http'.kind # "setup" /\ (http'.kind = "network" => Joined(http'.conf))
          /\ (http'.kind # "local" => Sound(http'.conf))
    BY <1>e, <2>1, Empties DEF FirstInv, NoHttp, Sound, Factory
  <2>4. Sound(mut'.conf)
    BY <1>e DEF NoMutation, Sound, Factory
  <2>. QED
    BY <1>p, <1>u, <1>e, <2>1, <2>2, <2>3, <2>4, Empties DEF FirstInv
<1>. QED  BY <1>1, <1>2, <1>3, <1>4, <1>5, <1>6, <1>7, <1>8

\* The new slot is verified and published, or the check fails.
LEMMA VerifyAndPublishStep ==
  ASSUME ConfigInv, faults' <= 1, VerifyAndPublish
  PROVE  ConfigInv'
<1>. USE DEF ConfigInv, OneFaultInv
<1>a. mut.pc = "verify" /\ mut.kind \in Commits \cup {"setup"}
  BY DEF VerifyAndPublish, At, StepInv, CommitSteps
<1>u. UNCHANGED <<durable, phase, offer, setups, overtaken, applied, cuts>>
  BY DEF VerifyAndPublish
<1>1. CASE /\ Fails /\ UNCHANGED ram
           /\ CASE mut.kind = "setup" -> Goto("probe") /\ UNCHANGED tasks /\ UNCHANGED told
                [] mut.kind \in {"local", "remote"} ->
                     Goto("back") /\ UNCHANGED tasks /\ UNCHANGED told
                [] OTHER -> Return(FALSE)
  BY <1>1, <1>a, <1>u, VerifyFails
<1>2. CASE /\ ram' = act /\ Works
           /\ IF mut.kind = "setup" THEN Goto("clear") /\ UNCHANGED tasks /\ UNCHANGED told
              ELSE IF mut.kind = "netreset"
                   THEN Goto("restart") /\ UNCHANGED tasks /\ UNCHANGED told
              ELSE Returns(TRUE, act.gen)
  <2>f. faults' = faults
    BY <1>2 DEF Works
  <2>1. CASE mut.kind = "setup"
    <3>1. Goto("clear") /\ UNCHANGED tasks /\ told' = told
      BY <1>2, <2>1
    <3>. QED  BY <1>2, <1>a, <1>u, <2>1, <2>f, <3>1, PublishGoesOn
  <2>2. CASE mut.kind = "netreset"
    <3>1. Goto("restart") /\ UNCHANGED tasks /\ told' = told
      BY <1>2, <2>2
    <3>. QED  BY <1>2, <1>a, <1>u, <2>2, <2>f, <3>1, PublishGoesOn
  <2>3. CASE mut.kind \in {"local", "network", "remote"}
    BY <1>2, <1>a, <1>u, <2>3, <2>f, PublishReturns
  <2>. QED  BY <1>a, <2>1, <2>2, <2>3 DEF Commits
<1>. QED  BY <1>1, <1>2 DEF VerifyAndPublish

\* The marker goes back to the slot that was active before the commit.
LEMMA CandidateRollbackStep ==
  ASSUME ConfigInv, faults' <= 1, CandidateRollback
  PROVE  ConfigInv'
<1>. USE DEF ConfigInv, OneFaultInv
<1>a. mut.pc = "back" /\ mut.kind \in {"local", "remote"} /\ Stale
  BY DEF CandidateRollback, At, StepInv, RamInv
<1>v. Whole(oth, cred) /\ Good(oth) /\ Behind(oth) /\ oth.gen < act.gen
  BY <1>a DEF SwitchInv, Commits
<1>f. ~Fails /\ faults \in Nat /\ faults # 0
  BY <1>a, FailsOnce DEF ShapeInv, Stale
<1>1. Older
  BY <1>v DEF Older, Good
<1>2. act' = oth /\ oth' = act /\ faults' = faults
  BY <1>1, <1>f DEF CandidateRollback, SelectOlder, NotSelected, Swap, Works
<1>3. faults' = 1
  BY <1>2, <1>f
<1>u. UNCHANGED <<cred, journal, srvCfg, phase, ram, offer, setups, overtaken, applied, cuts>>
  BY DEF CandidateRollback
<1>r. Return(FALSE)
  BY DEF CandidateRollback
<1>4. /\ told' = told /\ (sync' = sync \/ sync' = NoSync) /\ (pend' = pend \/ pend' = NoPend)
  BY <1>r, ErrorIs
<1>5. Keeps(act.conf)'
  BY <1>u, <1>2, <1>4, <1>v, EmptySyncsIn, AnsweredStays DEF Good, Keeps
<1>6. Behind(act)'
  BY <1>2, <1>4, <1>v, EmptySyncsIn DEF Behind, Going
<1>7. BackInv'
  BY <1>2, <1>v DEF BackInv, CanGoBack, Older, ShapeInv, SlotValues
<1>. QED
  BY <1>a, <1>2, <1>3, <1>u, <1>r, <1>v, <1>5, <1>6, <1>7, FailedMutation
     DEF Good, ShapeInv, Commits

-----------------------------------------------------------------------------
(* ConfigService::rollbackToPrevious                                        *)

\* The update is undone, the other slot is not older, or the call fails.
LEMMA RollbackStep ==
  ASSUME ConfigInv, faults' <= 1, rollbackToPrevious
  PROVE  ConfigInv'
<1>. USE DEF ConfigInv, OneFaultInv
<1>a. mut.pc = "select" /\ mut.kind \in Backs /\ phase = "up"
  BY DEF rollbackToPrevious, At, StepInv, Backs
<1>u. UNCHANGED <<cred, journal, srvCfg, phase, offer, setups, overtaken, applied, cuts>>
  BY DEF rollbackToPrevious
<1>j. journal = NoJournal /\ Whole(act, cred) /\ Good(act) /\ mut.kind # "setup"
  BY <1>a DEF StoreInv, Backs
<1>b. Older => CanGoBack
  BY <1>a DEF CanGoBack, SwitchInv, TaskInv, Going, Backs
<1>c. Older => /\ Whole(oth, cred) /\ oth.gen >= told /\ oth.gen # 0
               /\ overtaken \/ oth.conf.rev >= applied
  BY <1>b, <1>j DEF BackInv, Older
<1>d. mut.kind = "rollback" => pend = NoPend
  BY DEF TaskInv
<1>n. sync' = NoSync /\ pend' = NoPend =>
        /\ Behind(act)' /\ ~CanGoBack'
        /\ \A c : Keeps(c) => Answered(c, overtaken', applied', sync', pend')
        /\ \A c : overtaken \/ c.rev >= applied => Answered(c, overtaken', applied', sync', pend')
  BY <1>u, EmptySyncsIn, AnsweredStays DEF Behind, CanGoBack, Going, Keeps, Answered
<1>r. ASSUME NEW ok \in BOOLEAN, Return(ok)
      PROVE  /\ mut' = NoMutation /\ told' = told /\ http' = http /\ sync' = NoSync
             /\ pend' = NoPend
  BY <1>a, <1>d, <1>r DEF Return, Returns, FromOperator, Backs
<1>1. CASE NotSelected /\ Older /\ UNCHANGED ram /\ Return(FALSE)
  <2>1. Fails /\ (Swap \/ UNCHANGED <<act, oth>>)
    BY <1>1 DEF NotSelected
  <2>2. faults = 0 /\ faults' = 1
    BY <2>1, FailsOnce DEF ShapeInv
  <2>3. /\ act' \in SlotValues /\ oth' \in SlotValues /\ act'.gen # 0 /\ act'.gen >= told
        /\ Whole(act', cred)
    BY <2>1, <1>1, <1>c, <1>j DEF Swap, Good, ShapeInv
  <2>4. Keeps(act.conf)'
    <3>1. CASE act' = act
      BY <3>1, <1>1, <1>r, <1>n, <1>j DEF Good, Keeps
    <3>2. CASE act' = oth
      BY <3>2, <1>1, <1>r, <1>n, <1>c DEF Keeps
    <3>. QED  BY <2>1, <3>1, <3>2 DEF Swap
  <2>5. Behind(act)' /\ BackInv'
    BY <1>1, <1>r, <1>n DEF BackInv
  <2>. QED
    BY <1>a, <1>1, <1>u, <2>2, <2>3, <2>4, <2>5, FailedMutation
<1>2. CASE NotSelected /\ ~Older /\ UNCHANGED ram /\ Return(FALSE)
  <2>1. act' = act /\ oth' = oth /\ faults' = faults /\ ram' = ram
    BY <1>2 DEF NotSelected, Works
  <2>2. mut' = NoMutation /\ told' = told /\ http' = http /\ sync' = NoSync /\ pend' = NoPend
    BY <1>2, <1>r
  <2>3. ShapeInv'
    BY <1>u, <2>1, <2>2, Empties, EmptySyncsIn DEF ShapeInv
  <2>4. StepInv' /\ TaskInv'
    BY <1>a, <1>u, <2>2, Empties, EmptySyncsIn DEF StepInv, TaskInv, KeySteps, CommitSteps,
       UndoSteps, RestoreSteps, Backs, Operators, Going
  <2>5. StoreInv' /\ BackInv'
    BY <1>u, <1>j, <1>n, <2>1, <2>2 DEF StoreInv, BackInv, Good, Keeps
  <2>6. RamInv'
    BY <1>a, <1>j, <1>u, <1>n, <2>1, <2>2, Empties DEF RamInv, Keeps, Stale
  <2>7. SwitchInv' /\ SetupInv'
    BY <2>2, Empties DEF SwitchInv, SetupInv, CommitSteps, KeySteps, RestoreSteps, Commits
  <2>8. FirstInv'
    <3>1. Sound(mut'.conf) /\ mut'.kind = "none" /\ mut'.pc = "none"
      BY <2>2 DEF NoMutation, Factory, Sound
    <3>2. faults = 0 => Joined(ram.conf) /\ http.kind # "setup"
      BY <1>a DEF FirstInv, Busy, Joined, Backs
    <3>. QED  BY <1>a, <1>u, <1>n, <2>1, <2>2, <3>1, <3>2 DEF FirstInv
  <2>. QED  BY <2>3, <2>4, <2>5, <2>6, <2>7, <2>8
<1>3. CASE SelectOlder /\ ram' = oth /\ Return(TRUE)
  <2>1. Older /\ act' = oth /\ oth' = act /\ faults' = faults /\ ram' = oth
    BY <1>3 DEF SelectOlder, Swap, Works
  <2>2. mut' = NoMutation /\ told' = told /\ http' = http /\ sync' = NoSync /\ pend' = NoPend
    BY <1>3, <1>r
  <2>3. ShapeInv'
    BY <1>u, <2>1, <2>2, Empties, EmptySyncsIn DEF ShapeInv
  <2>4. StepInv' /\ TaskInv'
    BY <1>a, <1>u, <2>2, Empties, EmptySyncsIn DEF StepInv, TaskInv, KeySteps, CommitSteps,
       UndoSteps, RestoreSteps, Backs, Operators, Going
  <2>k. Answered(oth.conf, overtaken', applied', sync', pend')
    BY <1>n, <1>c, <2>1, <2>2
  <2>5. StoreInv' /\ BackInv'
    BY <1>u, <1>j, <1>n, <1>c, <2>1, <2>2, <2>k DEF StoreInv, BackInv, Good, Keeps
  <2>6. RamInv'
    BY <1>a, <1>j, <1>u, <1>c, <2>1, <2>2, <2>k, Empties DEF RamInv, Keeps
  <2>7. SwitchInv' /\ SetupInv'
    BY <2>2, Empties DEF SwitchInv, SetupInv, CommitSteps, KeySteps, RestoreSteps, Commits
  <2>8. FirstInv'
    <3>1. Sound(mut'.conf) /\ mut'.kind = "none" /\ mut'.pc = "none"
      BY <2>2 DEF NoMutation, Factory, Sound
    <3>2. faults = 0 => Joined(ram.conf) /\ http.kind # "setup" /\ Joined(oth.conf)
      BY <1>a, <1>b, <2>1 DEF FirstInv, Busy, Joined, Backs
    <3>. QED  BY <1>a, <1>u, <1>n, <2>1, <2>2, <3>1, <3>2 DEF FirstInv
  <2>. QED  BY <2>3, <2>4, <2>5, <2>6, <2>7, <2>8
<1>. QED  BY <1>1, <1>2, <1>3 DEF rollbackToPrevious

-----------------------------------------------------------------------------
(* A mutation begins                                                        *)

\* What every mutation needs when it takes the mutex.
LEMMA Started ==
  ASSUME ConfigInv, Free, NEW k \in Commits \cup Backs \cup {"setup"},
         NEW p \in {"slot", "journal", "select"}, NEW c \in Confs, NEW g \in Nat,
         Start(k, p, c, g), UNCHANGED <<durable, phase, ram, tasks, counts>>,
         p = "journal" <=> k = "setup", p = "select" <=> k \in Backs,
         k \in Operators => http.kind = k,
         k = "remote" => sync.pc = "apply" /\ c.rev = sync.ver,
         k = "rollback" => sync.pc = "undo" /\ g = sync.gen,
         k = "expire" => pend # NoPend /\ g = pend.gen /\ sync.pc \in {"idle", "validate"},
         k \in Commits => c.setup = cred.tok,
         k \in Backs => act.gen = g /\ ram.gen = g,
         faults = 0 =>
           /\ Sound(c) /\ (k \in {"local", "network", "remote"} => Joined(c))
           /\ k # "setup" => Joined(ram.conf)
  PROVE  ConfigInv'
<1>. USE DEF ConfigInv, OneFaultInv
<1>u. /\ act' = act /\ oth' = oth /\ cred' = cred /\ journal' = journal /\ srvCfg' = srvCfg
      /\ phase' = phase
      /\ ram' = ram /\ http' = http /\ sync' = sync /\ pend' = pend /\ offer' = offer
      /\ setups' = setups /\ told' = told /\ overtaken' = overtaken /\ applied' = applied
      /\ faults' = faults
  BY DEF durable, tasks, counts
<1>a. phase = "up" /\ mut = NoMutation /\ mut.kind = "none" /\ mut.pc = "none"
  BY Empties DEF Free
<1>e. mut'.kind = k /\ mut'.pc = p /\ mut'.conf = c /\ mut'.gen = g /\ mut' \in Mutations
  BY DEF Start, Mutations, Kinds, Steps, CommitSteps
<1>s. k = "setup" => ram = act /\ (faults = 0 => sync = NoSync /\ pend = NoPend)
  BY <1>a DEF RamInv, Stale, Operators, FirstInv, Joined, Busy
<1>1. ShapeInv'
  BY <1>u, <1>e DEF ShapeInv
<1>2. StepInv'
  BY <1>a, <1>u, <1>e, Empties DEF StepInv, KeySteps, CommitSteps, UndoSteps, RestoreSteps,
     Commits, Backs
<1>3. TaskInv'
  BY <1>a, <1>u, <1>e DEF TaskInv, UndoSteps, RestoreSteps, Operators
<1>4. StoreInv'
  BY <1>a, <1>u, <1>e DEF StoreInv, Good, Keeps, Behind
<1>5. RamInv'
  BY <1>a, <1>u, <1>e, <1>s DEF RamInv, Keeps, Stale
<1>6. SwitchInv' /\ SetupInv'
  BY <1>a, <1>u, <1>e DEF SwitchInv, SetupInv, StoreInv, CommitSteps, KeySteps, RestoreSteps,
     Commits, Backs
<1>7. BackInv'
  BY <1>a, <1>u, <1>e DEF BackInv, CanGoBack, Older
<1>8. FirstInv'
  <2>1. faults = 0 /\ k = "setup" => ~Going(sync)
    BY <1>s, EmptySyncsIn DEF Going
  <2>2. Busy' => Busy \/ k # "setup"
    BY <1>u, <1>e DEF Busy, Commits, Backs
  <2>. QED
    BY <1>a, <1>u, <1>e, <1>s, <2>1, <2>2 DEF FirstInv, CanGoBack, Older
<1>. QED  BY <1>1, <1>2, <1>3, <1>4, <1>5, <1>6, <1>7, <1>8

\* The operator's mutations: setup, device settings, network settings, and the
\* network reset.
LEMMA OperatorStarts ==
  ASSUME ConfigInv,
         commitProvisioning \/ updateFromJson \/ updateNetworkSettings \/ networkReset
  PROVE  ConfigInv'
<1>. USE DEF ConfigInv, OneFaultInv
<1>f. Free /\ UNCHANGED <<durable, phase, ram, tasks, counts>>
  BY DEF commitProvisioning, updateFromJson, updateNetworkSettings, networkReset
<1>a. phase = "up" /\ mut.kind = "none" /\ mut.pc = "none"
  BY <1>f, Empties DEF Free
<1>w. Whole(ram, cred) /\ ram.conf \in Confs /\ http.conf \in Confs
  BY <1>a DEF RamInv, ShapeInv, SlotValues, Jobs
<1>1. CASE commitProvisioning
  <2>1. http.kind = "setup" /\ Start("setup", "journal", http.conf, 0)
    BY <1>1 DEF commitProvisioning
  <2>2. faults = 0 => Sound(http.conf)
    BY <2>1 DEF FirstInv
  <2>. QED  BY <1>f, <1>w, <2>1, <2>2, Started DEF Commits, Backs, Operators
<1>2. CASE updateFromJson
  <2>1. http.kind = "local" /\ Start("local", "slot", ram.conf, 0)
    BY <1>2 DEF updateFromJson
  <2>2. faults = 0 => Joined(ram.conf) /\ Sound(ram.conf)
    BY <1>a, <2>1 DEF FirstInv, Busy, Joined, Sound
  <2>. QED  BY <1>f, <1>w, <2>1, <2>2, Started DEF Commits, Backs, Operators, Whole
<1>3. CASE updateNetworkSettings
  <2>1. http.kind = "network" /\ Start("network", "slot", http.conf, 0)
    BY <1>3 DEF updateNetworkSettings
  <2>2. faults = 0 => Joined(ram.conf) /\ Joined(http.conf) /\ Sound(http.conf)
    BY <1>a, <2>1 DEF FirstInv, Busy
  <2>3. http.conf.setup = cred.tok
    BY <1>a, <2>1 DEF RamInv
  <2>. QED  BY <1>f, <1>w, <2>1, <2>2, <2>3, Started DEF Commits, Backs, Operators
<1>4. CASE networkReset
  <2>. DEFINE c == [ram.conf EXCEPT !.net = "none"]
  <2>1. ~SetupOpen /\ Start("netreset", "slot", c, 0)
    BY <1>4 DEF networkReset
  <2>2. c \in Confs /\ c.setup = ram.conf.setup /\ c.net = "none"
    BY <1>w DEF Confs, Nets
  <2>3. Joined(ram.conf) /\ Sound(c) /\ c.setup = cred.tok
    BY <1>w, <2>1, <2>2 DEF SetupOpen, Joined, Sound, Whole
  <2>. HIDE DEF c
  <2>. QED  BY <1>f, <2>1, <2>2, <2>3, Started DEF Commits, Backs, Operators
<1>. QED  BY <1>1, <1>2, <1>3, <1>4

-----------------------------------------------------------------------------
(* ServerSync                                                               *)

\* ServerSync goes on with its update or gives it up; no new one may be undone,
\* and what is recorded is in force.
LEMMA SyncChanges ==
  ASSUME ConfigInv, UNCHANGED <<act, oth, cred, journal, phase, ram, mut, http, setups, told,
                                overtaken>>,
         phase = "up", faults' \in Nat, faults' >= faults, applied' \in Nat,
         srvCfg' \in [nvs : Nat, ram : Nat],
         offer' \in 0 .. Len(Updates), sync' \in Syncs, pend' \in Pends, TaskInv',
         \A c : Keeps(c) => Answered(c, overtaken', applied', sync', pend'),
         Going(sync') => Going(sync) /\ sync'.gen = sync.gen,
         pend' = NoPend \/ pend' = pend \/ (Going(sync) /\ pend'.gen = sync.gen),
         Going(sync') \/ pend' # NoPend => applied' = applied,
         faults = 0 /\ Busy' /\ mut.pc # "restart" => Joined(ram.conf)
  PROVE  ConfigInv'
<1>. USE DEF ConfigInv, OneFaultInv
<1>n. faults \in Nat /\ (faults' = 0 => faults = 0)
  BY DEF ShapeInv
<1>1. ShapeInv'
  BY DEF ShapeInv
<1>2. StepInv'
  BY DEF StepInv
<1>b. \A s : Behind(s) /\ s.gen \in Nat => Behind(s)'
  BY DEF Behind
<1>3. StoreInv'
  BY <1>b DEF StoreInv, Good, Keeps, ShapeInv, SlotValues, Behind
<1>4. RamInv'
  BY <1>n DEF RamInv, Keeps, Stale
<1>5. SwitchInv' /\ SetupInv'
  BY DEF SwitchInv, SetupInv, Good, Keeps, Behind
<1>6. CanGoBack' => CanGoBack
  BY DEF CanGoBack, Older
<1>7. BackInv'
  BY <1>6 DEF BackInv, CanGoBack
<1>8. FirstInv'
  BY <1>n, <1>6 DEF FirstInv
<1>. QED  BY <1>1, <1>2, <1>3, <1>4, <1>5, <1>7, <1>8

\* A state of RAM that ServerSync works on, before the first fault: it has a network.
LEMMA OnlineJoined ==
  ASSUME ConfigInv, faults = 0, phase = "up", Connected(ram.conf)
  PROVE  mut.pc # "restart" => Joined(ram.conf)
<1>. USE DEF ConfigInv, OneFaultInv
<1>c. ram.conf.net # "none"
  BY DEF Connected
<1>1. CASE mut.pc # "verify"
  BY <1>1, <1>c DEF FirstInv, Sound, Joined
<1>2. CASE mut.pc = "verify" /\ mut.kind \in Commits
  BY <1>2 DEF FirstInv, Busy
<1>3. CASE mut.pc = "verify" /\ mut.kind = "setup"
  BY <1>3, <1>c DEF FirstInv, TaskInv, Operators
<1>. QED  BY <1>1, <1>2, <1>3 DEF StepInv, CommitSteps

\* The server has a new version; the device asks for it.
LEMMA FetchStep ==
  ASSUME ConfigInv, ServerPublishes \/ fetchConfiguration
  PROVE  ConfigInv'
<1>. USE DEF ConfigInv, OneFaultInv
<1>1. CASE ServerPublishes
  <2>1. offer' \in 0 .. Len(Updates)
    BY <1>1, EmptySyncsIn DEF ServerPublishes, ShapeInv
  <2>u. /\ act' = act /\ oth' = oth /\ cred' = cred /\ journal' = journal /\ srvCfg' = srvCfg
        /\ phase' = phase
        /\ ram' = ram /\ http' = http /\ sync' = sync /\ pend' = pend /\ mut' = mut
        /\ setups' = setups /\ told' = told /\ overtaken' = overtaken /\ applied' = applied
        /\ faults' = faults
    BY <1>1 DEF ServerPublishes, durable, tasks
  <2>2. ShapeInv'
    BY <2>1, <2>u DEF ShapeInv
  <2>3. StepInv' /\ TaskInv' /\ SwitchInv' /\ SetupInv'
    BY <2>u DEF StepInv, TaskInv, SwitchInv, SetupInv, Good, Keeps, Behind
  <2>4. StoreInv' /\ RamInv' /\ BackInv' /\ FirstInv'
    BY <2>u DEF StoreInv, RamInv, BackInv, FirstInv, Good, Keeps, Behind, Stale, CanGoBack, Older,
       Busy
  <2>. QED  BY <2>2, <2>3, <2>4
<1>2. CASE fetchConfiguration
  <2>u. UNCHANGED <<act, oth, cred, journal, phase, ram, mut, http, setups, told, overtaken>>
          /\ faults' = faults /\ applied' = applied /\ offer' = offer /\ pend' = pend
          /\ srvCfg' = srvCfg
    BY <1>2 DEF fetchConfiguration, durable, counts
  <2>1. /\ phase = "up" /\ sync = NoSync /\ pend = NoPend /\ offer # 0 /\ Connected(ram.conf)
        /\ offer \in Nat /\ ram.conf \in Confs /\ faults \in Nat /\ applied \in Nat
    BY <1>2, EmptySyncsIn DEF fetchConfiguration, SyncIdle, Reachable, ShapeInv, SlotValues
  <2>2. sync' = [NoSync EXCEPT !.pc = "apply", !.ver = offer, !.before = ram.conf]
    BY <1>2 DEF fetchConfiguration
  <2>3. sync' \in Syncs /\ sync'.pc = "apply" /\ sync'.ver = offer
    BY <2>1, <2>2, EmptySyncsIn DEF Syncs, SyncStates, ShapeInv
  <2>4. ~Going(sync')
    BY <2>3 DEF Going
  <2>5. TaskInv'
    BY <2>1, <2>u, <2>3, <2>4, EmptySyncsIn DEF TaskInv
  <2>6. \A c : Keeps(c) => Answered(c, overtaken', applied', sync', pend')
    BY <2>u, <2>3, AnsweredStays DEF Keeps
  <2>7. faults = 0 /\ mut.pc # "restart" => Joined(ram.conf)
    BY <2>1, OnlineJoined
  <2>. QED
    BY <2>u, <2>1, <2>3, <2>4, <2>5, <2>6, <2>7, SyncChanges DEF ShapeInv
<1>. QED  BY <1>1, <1>2
\* An update of the server is a configuration, of the same setup and of that version.
LEMMA ParsedIs ==
  ASSUME ShapeInv, NEW c \in Confs, NEW v \in 1 .. Len(Updates)
  PROVE  LET d == parseConfig(c, v) IN
           /\ d \in Confs /\ d.rev = v /\ d.setup = c.setup
           /\ d.net = c.net \/ d.net # "none"
<1>1. Updates[v] \in {"plain", "move", "bad", "unreachable", "invalid"}
  BY UpdatesAssumption DEF ShapeInv
<1>2. v \in Nat
  BY EmptySyncsIn
<1>. QED  BY <1>1, <1>2 DEF parseConfig, Confs, Nets

\* An update is applied to the configuration, or refused.
LEMMA ApplyRemoteStep ==
  ASSUME ConfigInv, ApplyRemote
  PROVE  ConfigInv'
<1>. USE DEF ConfigInv, OneFaultInv
<1>. DEFINE c == parseConfig(ram.conf, sync.ver)
<1>f. /\ sync.pc = "apply" /\ phase = "up" /\ ~FromSync
      /\ UNCHANGED <<durable, phase, ram, http, pend, rb, counts>>
  BY DEF ApplyRemote, Free, GivesUp
<1>a. /\ phase = "up" /\ mut.kind \notin {"remote", "rollback", "expire"}
      /\ pend = NoPend
  BY <1>f DEF FromSync, TaskInv
<1>1. CASE Free /\ Start("remote", "slot", c, 0) /\ UNCHANGED sync
  <2>m. mut.kind = "none" /\ mut.pc = "none"
    BY <1>1, Empties DEF Free
  <2>w. Whole(ram, cred) /\ ram.conf \in Confs /\ sync.ver \in 1 .. Len(Updates)
    BY <1>a, <1>f, <2>m, EmptySyncsIn DEF RamInv, ShapeInv, SlotValues, Syncs, TaskInv
  <2>1. /\ c \in Confs /\ c.rev = sync.ver /\ c.setup = ram.conf.setup
        /\ c.net = ram.conf.net \/ c.net # "none"
    BY <2>w, ParsedIs
  <2>2. faults = 0 => Joined(ram.conf)
    <3>1. Busy
      BY <1>f, EmptySyncsIn DEF Busy
    <3>. QED  BY <1>1, <1>a, <3>1, Empties DEF FirstInv, Free
  <2>3. c.setup = cred.tok /\ (faults = 0 => Joined(c) /\ Sound(c))
    BY <2>w, <2>1, <2>2 DEF Whole, Joined, Sound
  <2>4. UNCHANGED <<durable, phase, ram, tasks, counts>>
    BY <1>f, <1>1 DEF tasks
  <2>. HIDE DEF c
  <2>. QED
    BY <1>1, <1>f, <2>1, <2>2, <2>3, <2>4, Started DEF Commits, Backs, Operators
<1>2. CASE sync' = NoSync /\ UNCHANGED mut
  <2>u. /\ UNCHANGED <<act, oth, cred, journal, phase, ram, mut, http, setups, told, overtaken>>
        /\ faults' = faults /\ applied' = applied /\ offer' = offer /\ pend' = pend
        /\ srvCfg' = srvCfg
    BY <1>f, <1>2 DEF durable, counts
  <2>1. ~Going(sync') /\ sync' \in Syncs /\ sync'.pc = "idle"
    BY <1>2, EmptySyncsIn DEF Going
  <2>2. TaskInv'
    BY <1>2, <1>a, <2>u, <2>1 DEF TaskInv
  <2>3. \A d : Keeps(d) => Answered(d, overtaken', applied', sync', pend')
    BY <2>u, <2>1, AnsweredStays DEF Keeps
  <2>4. Busy' => Busy
    BY <2>u, <1>2 DEF Busy
  <2>. QED
    BY <1>a, <2>u, <2>1, <2>2, <2>3, <2>4, SyncChanges DEF ShapeInv, FirstInv
<1>. QED  BY <1>1, <1>2 DEF ApplyRemote, GivesUp

\* An update that changes the station waits for its validation; another one is
\* reported.
LEMMA CompareAppliedStep ==
  ASSUME ConfigInv, CompareApplied
  PROVE  ConfigInv'
<1>. USE DEF ConfigInv, OneFaultInv
<1>f. /\ phase = "up" /\ sync.pc = "compare" /\ pend = NoPend /\ sync \in Syncs
      /\ mut.kind \notin {"remote", "rollback", "expire"}
  BY DEF CompareApplied, TaskInv, ShapeInv
<1>u. /\ UNCHANGED <<act, oth, cred, journal, phase, ram, mut, http, setups, told, overtaken>>
      /\ faults' = faults /\ applied' = applied /\ offer' = offer /\ srvCfg' = srvCfg
  BY DEF CompareApplied, durable, counts
<1>g. Going(sync) /\ Busy
  BY <1>f, EmptySyncsIn DEF Going, Busy
<1>j. faults = 0 /\ mut.pc # "restart" => Joined(ram.conf)
  BY <1>f, <1>g DEF FirstInv
<1>1. CASE sync' = [sync EXCEPT !.pc = "report"] /\ pend' = pend
  <2>1. /\ sync' \in Syncs /\ sync'.pc = "report" /\ sync'.gen = sync.gen
        /\ sync'.ver = sync.ver /\ Going(sync')
    BY <1>1, <1>f DEF Syncs, SyncStates, Going
  <2>2. TaskInv'
    BY <1>1, <1>u, <1>f, <1>g, <2>1 DEF TaskInv
  <2>3. \A d : Keeps(d) => Answered(d, overtaken', applied', sync', pend')
    BY <1>u, <1>1, <1>f, <2>1 DEF Keeps, Answered
  <2>. QED
    BY <1>1, <1>u, <1>f, <1>g, <1>j, <2>1, <2>2, <2>3, SyncChanges DEF ShapeInv
<1>2. CASE sync' = NoSync /\ pend' = [ver |-> sync.ver, gen |-> sync.gen]
  <2>1. ~Going(sync') /\ sync' \in Syncs /\ sync'.pc = "idle"
    BY <1>2, EmptySyncsIn DEF Going
  <2>2. pend' \in Pends /\ pend'.ver = sync.ver /\ pend'.gen = sync.gen
    BY <1>2, <1>f DEF Pends, Syncs
  <2>3. TaskInv'
    BY <1>2, <1>f, <1>g, <1>u, <2>1 DEF TaskInv
  <2>4. \A d : Keeps(d) => Answered(d, overtaken', applied', sync', pend')
    BY <1>u, <1>f, <2>1, <2>2 DEF Keeps, Answered
  <2>. QED
    BY <1>u, <1>f, <1>g, <1>j, <2>1, <2>2, <2>3, <2>4, SyncChanges DEF ShapeInv
<1>. QED  BY <1>1, <1>2 DEF CompareApplied
\* A report is recorded, lost, or recorded by the server only.
LEMMA ReportedIs ==
  ASSUME ConfigInv, NEW v \in Nat, Recorded(v) \/ NotRecorded(v)
  PROVE  /\ srvCfg' \in [nvs : Nat, ram : Nat] /\ faults' \in Nat /\ faults' >= faults
         /\ faults \in Nat
<1>1. srvCfg \in [nvs : Nat, ram : Nat] /\ faults \in Nat
  BY DEF ConfigInv, ShapeInv
<1>2. CASE Recorded(v)
  BY <1>1, <1>2 DEF Recorded, Works
<1>3. CASE NotRecorded(v)
  BY <1>1, <1>3 DEF NotRecorded, Works, Unconfirmed, Fails
<1>. QED  BY <1>1, <1>2, <1>3

\* An update is reported as applied, or ServerSync decides to undo it.
LEMMA ReportAppliedStep ==
  ASSUME ConfigInv, ReportApplied
  PROVE  ConfigInv'
<1>. USE DEF ConfigInv, OneFaultInv
<1>f. /\ phase = "up" /\ sync.pc = "report" /\ pend = NoPend /\ sync \in Syncs
      /\ mut.kind \notin {"remote", "rollback", "expire"} /\ sync.ver \in Nat
  BY EmptySyncsIn DEF ReportApplied, TaskInv, ShapeInv, Syncs
<1>u. /\ UNCHANGED <<act, oth, cred, journal, phase, ram, mut, http, setups, told, overtaken>>
      /\ pend' = pend /\ offer' = offer
  BY DEF ReportApplied
<1>r. /\ srvCfg' \in [nvs : Nat, ram : Nat] /\ faults' \in Nat /\ faults' >= faults
      /\ faults \in Nat
  BY <1>f, ReportedIs DEF ReportApplied
<1>g. Going(sync) /\ Busy
  BY <1>f, EmptySyncsIn DEF Going, Busy
<1>j. faults = 0 /\ mut.pc # "restart" => Joined(ram.conf)
  BY <1>f, <1>g DEF FirstInv
<1>1. CASE Recorded(sync.ver) /\ sync' = NoSync
  <2>1. ~Going(sync') /\ sync' \in Syncs /\ sync'.pc = "idle" /\ applied' = sync.ver
    BY <1>1, EmptySyncsIn DEF Going, Recorded
  <2>2. TaskInv'
    BY <1>1, <1>u, <1>f, <1>g, <2>1 DEF TaskInv
  <2>3. \A d : Keeps(d) => Answered(d, overtaken', applied', sync', pend')
    BY <1>u, <1>f, <2>1 DEF Keeps, Answered
  <2>. QED
    BY <1>u, <1>f, <1>r, <1>j, <2>1, <2>2, <2>3, SyncChanges DEF ShapeInv
<1>2. CASE NotRecorded(sync.ver) /\ sync' = [sync EXCEPT !.pc = "undo"]
  <2>1. /\ sync' \in Syncs /\ sync'.pc = "undo" /\ sync'.gen = sync.gen
        /\ Going(sync') /\ applied' = applied
    BY <1>2, <1>f DEF Syncs, SyncStates, Going, NotRecorded
  <2>2. TaskInv'
    BY <1>u, <1>f, <1>g, <2>1 DEF TaskInv
  <2>3. \A d : Keeps(d) => Answered(d, overtaken', applied', sync', pend')
    BY <1>u, <2>1, AnsweredStays DEF Keeps
  <2>. QED
    BY <1>u, <1>f, <1>r, <1>g, <1>j, <2>1, <2>2, <2>3, SyncChanges DEF ShapeInv
<1>3. CASE NotRecorded(sync.ver) /\ sync' = NoSync
  <2>1. ~Going(sync') /\ sync' \in Syncs /\ sync'.pc = "idle" /\ applied' = applied
    BY <1>3, EmptySyncsIn DEF Going, NotRecorded
  <2>2. TaskInv'
    BY <1>3, <1>u, <1>f, <1>g, <2>1 DEF TaskInv
  <2>3. \A d : Keeps(d) => Answered(d, overtaken', applied', sync', pend')
    BY <1>u, <2>1, AnsweredStays DEF Keeps
  <2>. QED
    BY <1>u, <1>f, <1>r, <1>j, <2>1, <2>2, <2>3, SyncChanges DEF ShapeInv
<1>. QED  BY <1>1, <1>2, <1>3 DEF ReportApplied

\* An update that cuts the device off is undone, or is not active any more.
LEMMA UndoRemoteStep ==
  ASSUME ConfigInv, UndoRemote
  PROVE  ConfigInv'
<1>. USE DEF ConfigInv, OneFaultInv
<1>f. /\ sync.pc = "undo" /\ phase = "up" /\ ~FromSync
      /\ UNCHANGED <<durable, phase, ram, http, pend, rb, counts>>
  BY DEF UndoRemote, Free, GivesUp
<1>a. /\ phase = "up" /\ mut.kind \notin {"remote", "rollback", "expire"}
      /\ pend = NoPend
  BY <1>f DEF FromSync, TaskInv
<1>j. Busy /\ (faults = 0 /\ mut.pc # "restart" => Joined(ram.conf))
  BY <1>a, <1>f, EmptySyncsIn DEF FirstInv, Busy
<1>1. CASE /\ Free /\ RollbackAllowed(sync.gen) /\ Start("rollback", "select", Factory, sync.gen)
           /\ UNCHANGED sync
  <2>1. Factory \in Confs /\ Sound(Factory) /\ sync.gen \in Nat
    BY Empties DEF Factory, Sound, ShapeInv, Syncs
  <2>2. UNCHANGED <<durable, phase, ram, tasks, counts>>
    BY <1>f, <1>1 DEF tasks
  <2>. QED
    BY <1>1, <1>f, <1>j, <2>1, <2>2, Empties, Started
       DEF RollbackAllowed, Commits, Backs, Operators, Free
<1>2. CASE sync' = NoSync /\ UNCHANGED mut
  <2>u. /\ UNCHANGED <<act, oth, cred, journal, phase, ram, mut, http, setups, told, overtaken>>
        /\ faults' = faults /\ applied' = applied /\ offer' = offer /\ pend' = pend
        /\ srvCfg' = srvCfg
    BY <1>f, <1>2 DEF durable, counts
  <2>1. ~Going(sync') /\ sync' \in Syncs /\ sync'.pc = "idle"
    BY <1>2, EmptySyncsIn DEF Going
  <2>2. TaskInv'
    BY <1>2, <1>a, <2>u, <2>1 DEF TaskInv
  <2>3. \A d : Keeps(d) => Answered(d, overtaken', applied', sync', pend')
    BY <2>u, <2>1, AnsweredStays DEF Keeps
  <2>. QED
    BY <1>a, <1>j, <2>u, <2>1, <2>2, <2>3, SyncChanges DEF ShapeInv
<1>. QED  BY <1>1, <1>2 DEF UndoRemote, GivesUp

\* A staged update was replaced, its report begins, or its rollback is reported.
LEMMA StagedStep ==
  ASSUME ConfigInv, Superseded \/ ValidateBegin \/ ReportRolledBack
  PROVE  ConfigInv'
<1>. USE DEF ConfigInv, OneFaultInv
<1>f. phase = "up" /\ sync = NoSync /\ sync.pc = "idle"
  BY EmptySyncsIn DEF Superseded, ValidateBegin, ReportRolledBack, Validating, SyncIdle
<1>u. /\ UNCHANGED <<act, oth, cred, journal, phase, ram, mut, http, setups, told, overtaken>>
      /\ faults' = faults /\ applied' = applied /\ offer' = offer /\ srvCfg' = srvCfg
  BY DEF Superseded, ValidateBegin, ReportRolledBack, durable, counts
<1>1. CASE Superseded
  <2>1. pend' = NoPend /\ sync' = sync /\ ram.gen # pend.gen
    BY <1>1 DEF Superseded
  <2>2. mut.kind # "expire"
    BY <2>1 DEF TaskInv, SwitchInv, StepInv, Backs
  <2>3. TaskInv'
    BY <1>f, <1>u, <2>1, <2>2 DEF TaskInv
  <2>4. \A d : Keeps(d) => Answered(d, overtaken', applied', sync', pend')
    BY <1>u, <2>1, AnsweredStays DEF Keeps
  <2>5. Busy' => Busy
    BY <1>u, <2>1 DEF Busy
  <2>. QED
    BY <1>f, <1>u, <2>1, <2>3, <2>4, <2>5, EmptySyncsIn, SyncChanges DEF ShapeInv, FirstInv
<1>2. CASE ValidateBegin
  <2>1. pend' = pend /\ pend # NoPend /\ sync' = [NoSync EXCEPT !.pc = "validate"]
    BY <1>2 DEF ValidateBegin, Validating
  <2>2. sync' \in Syncs /\ sync'.pc = "validate" /\ ~Going(sync')
    BY <2>1, EmptySyncsIn DEF Syncs, SyncStates, Going
  <2>3. TaskInv'
    BY <1>f, <1>u, <2>1, <2>2 DEF TaskInv
  <2>4. \A d : Keeps(d) => Answered(d, overtaken', applied', sync', pend')
    <3>1. pend' = pend /\ sync'.pc \notin {"compare", "report"} /\ applied' = applied
      BY <1>u, <2>1, <2>2
    <3>. QED  BY <1>u, <3>1, AnsweredStays DEF Keeps
  <2>5. faults = 0 /\ mut.pc # "restart" => Joined(ram.conf)
    BY <1>f, <2>1 DEF Busy, FirstInv
  <2>. QED
    BY <1>f, <1>u, <2>1, <2>2, <2>3, <2>4, <2>5, EmptySyncsIn, SyncChanges DEF ShapeInv
<1>3. CASE ReportRolledBack
  <2>1. pend' = pend /\ sync' = sync
    BY <1>3 DEF ReportRolledBack
  <2>3. TaskInv'
    BY <1>f, <1>u, <2>1 DEF TaskInv, Going
  <2>4. \A d : Keeps(d) => Answered(d, overtaken', applied', sync', pend')
    BY <1>u, <2>1, AnsweredStays DEF Keeps
  <2>5. Busy' => Busy
    BY <1>u, <2>1 DEF Busy
  <2>. QED
    BY <1>f, <1>u, <2>1, <2>3, <2>4, <2>5, EmptySyncsIn, SyncChanges DEF ShapeInv, FirstInv
<1>. QED  BY <1>1, <1>2, <1>3

\* The report of a staged update ends.
LEMMA ValidateEndStep ==
  ASSUME ConfigInv, ValidateEnd
  PROVE  ConfigInv'
<1>. USE DEF ConfigInv, OneFaultInv
<1>f. /\ phase = "up" /\ sync.pc = "validate" /\ pend # NoPend /\ pend.ver \in Nat
      /\ mut.kind \notin {"remote", "rollback"}
  BY EmptySyncsIn DEF ValidateEnd, TaskInv, ShapeInv, Pends
<1>u. /\ UNCHANGED <<act, oth, cred, journal, phase, ram, mut, http, setups, told, overtaken>>
      /\ offer' = offer /\ sync' = NoSync
  BY DEF ValidateEnd
<1>r. /\ srvCfg' \in [nvs : Nat, ram : Nat] /\ faults' \in Nat /\ faults' >= faults
      /\ faults \in Nat
  BY <1>f, ReportedIs DEF ValidateEnd
<1>s. ~Going(sync') /\ sync' \in Syncs /\ sync'.pc = "idle"
  BY <1>u, EmptySyncsIn DEF Going
<1>j. faults = 0 /\ mut.pc # "restart" => Joined(ram.conf)
  BY <1>f DEF FirstInv, Busy
<1>1. CASE Recorded(pend.ver) /\ pend' = NoPend
  <2>1. mut = NoMutation /\ mut.kind = "none" /\ applied' = pend.ver
    BY <1>1, Empties DEF Recorded
  <2>2. TaskInv'
    BY <1>1, <1>u, <1>f, <1>s, <2>1 DEF TaskInv
  <2>3. \A d : Keeps(d) => Answered(d, overtaken', applied', sync', pend')
    BY <1>1, <1>u, <1>f, <1>s, <2>1 DEF Keeps, Answered
  <2>. QED
    BY <1>1, <1>u, <1>f, <1>r, <1>s, <1>j, <2>1, <2>2, <2>3, EmptySyncsIn, SyncChanges DEF ShapeInv
<1>2. CASE NotRecorded(pend.ver) /\ UNCHANGED pend
  <2>1. applied' = applied
    BY <1>2 DEF NotRecorded
  <2>2. TaskInv'
    BY <1>2, <1>u, <1>f, <1>r, <1>s DEF TaskInv
  <2>3. \A d : Keeps(d) => Answered(d, overtaken', applied', sync', pend')
    BY <1>2, <1>u, <1>s, <2>1, AnsweredStays DEF Keeps
  <2>. QED
    BY <1>2, <1>u, <1>f, <1>r, <1>s, <1>j, <2>1, <2>2, <2>3, SyncChanges DEF ShapeInv
<1>. QED  BY <1>1, <1>2 DEF ValidateEnd

\* The validation window ends.
LEMMA ExpireStep ==
  ASSUME ConfigInv, Expire
  PROVE  ConfigInv'
<1>. USE DEF ConfigInv, OneFaultInv
<1>f. /\ sync = NoSync /\ sync.pc = "idle" /\ pend # NoPend /\ pend.gen \in Nat
      /\ phase = "up" /\ ~FromSync
      /\ UNCHANGED <<durable, phase, ram, http, sync, counts>>
  BY EmptySyncsIn DEF Expire, Validating, SyncIdle, ShapeInv, Pends
<1>a. phase = "up" /\ mut.kind \notin {"remote", "rollback", "expire"}
  BY <1>f DEF FromSync
<1>j. Busy /\ (faults = 0 /\ mut.pc # "restart" => Joined(ram.conf))
  BY <1>a, <1>f DEF FirstInv, Busy
<1>1. CASE /\ Free /\ RollbackAllowed(pend.gen) /\ Start("expire", "select", Factory, pend.gen)
           /\ UNCHANGED <<pend, rb>>
  <2>1. Factory \in Confs /\ Sound(Factory)
    BY Empties DEF Factory, Sound
  <2>2. UNCHANGED <<durable, phase, ram, tasks, counts>>
    BY <1>f, <1>1 DEF tasks
  <2>. QED
    BY <1>1, <1>f, <1>j, <2>1, <2>2, Empties, Started
       DEF RollbackAllowed, Commits, Backs, Operators, Free
<1>2. CASE pend' = NoPend /\ UNCHANGED mut
  <2>u. /\ UNCHANGED <<act, oth, cred, journal, phase, ram, mut, http, setups, told, overtaken>>
        /\ faults' = faults /\ applied' = applied /\ offer' = offer /\ sync' = sync
        /\ srvCfg' = srvCfg
    BY <1>f, <1>2 DEF durable, counts
  <2>2. TaskInv'
    BY <1>2, <1>a, <1>f, <2>u DEF TaskInv
  <2>3. \A d : Keeps(d) => Answered(d, overtaken', applied', sync', pend')
    BY <2>u, <1>2, AnsweredStays DEF Keeps
  <2>. QED
    BY <1>2, <1>a, <1>j, <2>u, <2>2, <2>3, EmptySyncsIn, SyncChanges DEF ShapeInv
<1>. QED  BY <1>1, <1>2 DEF Expire, GivesUp
-----------------------------------------------------------------------------
(* The jobs of the HTTP worker                                              *)

\* A job is taken or refused: a setup only while the device has no network, and
\* network settings are edited on a copy of the same setup.
LEMMA JobChanges ==
  ASSUME ConfigInv, UNCHANGED <<act, oth, cred, journal, srvCfg, phase, ram, mut, sync, pend,
                                offer, told, overtaken, applied, faults>>,
         phase = "up", mut.kind \notin Operators, http' \in Jobs, setups' \in Nat,
         http'.kind = "none" => http' = NoHttp,
         http'.kind = "network" => http'.conf.setup = cred.tok /\ Joined(http'.conf),
         http'.kind = "setup" => ~Stale /\ Sound(http'.conf)
                                   /\ (faults = 0 => ram.conf.net = "none"),
         http'.kind \in {"local", "network"} => Joined(ram.conf)
  PROVE  ConfigInv'
<1>. USE DEF ConfigInv, OneFaultInv
<1>1. ShapeInv'
  BY DEF ShapeInv
<1>2. StepInv' /\ SwitchInv' /\ SetupInv'
  BY DEF StepInv, SwitchInv, SetupInv, Good, Keeps, Behind
<1>3. TaskInv'
  BY DEF TaskInv
<1>4. StoreInv' /\ BackInv'
  BY DEF StoreInv, BackInv, Good, Keeps, Behind, CanGoBack, Older
<1>s. Stale => Stale'
  BY DEF Stale
<1>5. RamInv'
  BY <1>s DEF RamInv, Keeps
<1>6. FirstInv'
  <2>1. http'.kind # "local" => Sound(http'.conf)
    BY DEF Jobs, Operators, NoHttp, Factory, Sound, Joined
  <2>2. Busy' => Busy \/ Joined(ram.conf)
    BY DEF Busy
  <2>. QED  BY <2>1, <2>2 DEF FirstInv, CanGoBack, Older
<1>. QED  BY <1>1, <1>2, <1>3, <1>4, <1>5, <1>6

\* A candidate that is not valid, or not taken in time, is answered.
LEMMA RefuseOperatorStep ==
  ASSUME ConfigInv, RefuseOperator
  PROVE  ConfigInv'
<1>1. /\ UNCHANGED <<act, oth, cred, journal, srvCfg, phase, ram, mut, sync, pend, offer, told,
                     overtaken, applied, faults>>
      /\ http' = NoHttp /\ setups' = setups
  BY DEF RefuseOperator, GivesUp, durable, counts
<1>2. phase = "up" /\ mut.kind \notin Operators
  BY DEF RefuseOperator, GivesUp, FromOperator, Operators
<1>. QED
  BY <1>1, <1>2, Empties, JobChanges DEF Operators, ConfigInv, ShapeInv

\* No mutation of the operator runs while the worker has no job.
LEMMA WorkerFree ==
  ASSUME ConfigInv, phase = "up", http = NoHttp
  PROVE  mut.kind \notin Operators /\ Whole(ram, cred) /\ (SetupOpen <=> ~Joined(ram.conf))
                                   /\ cred \in Creds /\ ram.conf \in Confs
<1>. USE DEF ConfigInv, OneFaultInv
<1>1. mut.kind \notin Operators
  BY Empties DEF TaskInv, Operators
<1>2. Whole(ram, cred) /\ cred \in Creds /\ ram.conf \in Confs
  BY <1>1 DEF RamInv, Operators, ShapeInv, SlotValues
<1>. QED  BY <1>1, <1>2 DEF SetupOpen, Whole, Joined

\* A setup is asked for.
LEMMA RequestSetupStep ==
  ASSUME ConfigInv, RequestSetup
  PROVE  ConfigInv'
<1>. USE DEF ConfigInv, OneFaultInv
<1>1. /\ UNCHANGED <<act, oth, cred, journal, srvCfg, phase, ram, mut, sync, pend, offer, told,
                     overtaken, applied, faults>>
      /\ phase = "up" /\ http = NoHttp /\ SetupOpen /\ setups' = setups + 1
      /\ http' = [kind |-> "setup", conf |-> [ram.conf EXCEPT !.setup = setups + 1,
                                                              !.net = "home", !.url = TRUE]]
  BY DEF RequestSetup, durable
<1>2. mut.kind \notin Operators /\ ~Joined(ram.conf) /\ ram.conf \in Confs /\ setups \in Nat
  BY <1>1, WorkerFree DEF ShapeInv
<1>3. http' \in Jobs /\ http'.kind = "setup" /\ Sound(http'.conf) /\ setups' \in Nat
  <2>. DEFINE c == [ram.conf EXCEPT !.setup = setups + 1, !.net = "home", !.url = TRUE]
  <2>1. c.setup = setups + 1 /\ setups + 1 \in Nat /\ setups + 1 # 0
    BY <1>2 DEF Confs
  <2>3. c \in Confs
    BY <1>2, <2>1 DEF Confs, Nets
  <2>2. http' = [kind |-> "setup", conf |-> c]
    BY <1>1
  <2>. HIDE DEF c
  <2>4. http' \in Jobs /\ http'.kind = "setup" /\ http'.conf = c
    BY <2>2, <2>3 DEF Jobs, Operators
  <2>. QED  BY <1>1, <2>1, <2>4 DEF Sound
<1>4. ~Stale
  BY <1>2 DEF Stale, Joined
<1>5. faults = 0 => ram.conf.net = "none"
  <2>1. CASE mut.pc # "verify"
    BY <2>1, <1>1, <1>2 DEF FirstInv, Sound, Joined
  <2>2. CASE mut.pc = "verify"
    <3>1. mut.kind \in Commits
      BY <2>2, <1>2 DEF StepInv, CommitSteps, Operators
    <3>. QED  BY <2>2, <3>1, <1>1, <1>2 DEF FirstInv, Busy
  <2>. QED  BY <2>1, <2>2
<1>. QED  BY <1>1, <1>2, <1>3, <1>4, <1>5, JobChanges

\* New settings are asked for.
LEMMA RequestUpdateStep ==
  ASSUME ConfigInv, RequestUpdate
  PROVE  ConfigInv'
<1>. USE DEF ConfigInv, OneFaultInv
<1>1. /\ UNCHANGED <<act, oth, cred, journal, srvCfg, phase, ram, mut, sync, pend, offer, told,
                     overtaken, applied, faults>>
      /\ phase = "up" /\ http = NoHttp /\ ~SetupOpen /\ setups' = setups
  BY DEF RequestUpdate, durable, counts
<1>2. /\ mut.kind \notin Operators /\ Joined(ram.conf) /\ ram.conf \in Confs /\ setups \in Nat
      /\ Whole(ram, cred)
  BY <1>1, WorkerFree DEF ShapeInv
<1>3. PICK k \in {"local", "network"}, n \in {"home", "malformed"} :
        http' = [kind |-> k, conf |-> IF k = "local" THEN [Factory EXCEPT !.net = n]
                                      ELSE [ram.conf EXCEPT !.net = n, !.url = TRUE]]
  BY DEF RequestUpdate
<1>4. http' \in Jobs /\ http'.kind = k
  <2>1. /\ [Factory EXCEPT !.net = n] \in Confs
        /\ [ram.conf EXCEPT !.net = n, !.url = TRUE] \in Confs
    BY <1>2, Empties DEF Confs, Nets
  <2>. QED  BY <1>3, <2>1 DEF Jobs, Operators
<1>5. k = "network" => http'.conf.setup = ram.conf.setup /\ http'.conf.net = n
  BY <1>2, <1>3 DEF Confs
<1>6. k = "network" => http'.conf.setup = cred.tok /\ Joined(http'.conf)
  BY <1>2, <1>5 DEF Joined, Whole
<1>. QED  BY <1>1, <1>2, <1>4, <1>6, JobChanges
-----------------------------------------------------------------------------
(* commitProvisioning                                                       *)

\* The setup writes the journal or a credential key, or erases the journal, and
\* goes on.
LEMMA SetupGoesOn ==
  ASSUME ConfigInv, mut.kind = "setup", NEW p \in KeySteps \cup {"slot", "probe"}, Goto(p),
         UNCHANGED <<act, oth, srvCfg, ram>>, Quiet, faults' = faults, cred' \in Creds,
         journal' \in Journals, StoreInv', SetupInv',
         p = "probe" => mut.pc = "dropJournal", mut.pc \in {"clear", "verify"} => FALSE
  PROVE  ConfigInv'
<1>. USE DEF ConfigInv, OneFaultInv
<1>u. /\ http' = http /\ sync' = sync /\ pend' = pend /\ phase' = phase /\ offer' = offer
      /\ setups' = setups /\ told' = told /\ overtaken' = overtaken /\ applied' = applied
  BY DEF Quiet, tasks
<1>p. phase = "up"
  BY DEF StepInv, ShapeInv, NoMutation
<1>e. /\ mut' \in Mutations /\ mut'.pc = p /\ mut'.kind = "setup" /\ mut'.conf = mut.conf
      /\ mut'.gen = mut.gen
  BY GotoIs DEF ShapeInv, Steps, CommitSteps, UndoSteps
<1>1. ShapeInv'
  BY <1>u, <1>e DEF ShapeInv
<1>2. StepInv'
  BY <1>p, <1>u, <1>e, Empties DEF StepInv, KeySteps, CommitSteps, UndoSteps, RestoreSteps,
     Commits, Backs
<1>3. TaskInv'
  BY <1>p, <1>u, <1>e DEF TaskInv, KeySteps, UndoSteps, RestoreSteps, Operators
<1>4. RamInv'
  BY <1>p, <1>u, <1>e DEF RamInv, Keeps, KeySteps
<1>5. SwitchInv'
  BY <1>e DEF SwitchInv, KeySteps, Commits
<1>6. BackInv'
  BY <1>e DEF BackInv
<1>7. FirstInv'
  <2>1. mut'.pc \notin {"verify", "clear", "restart"}
        /\ mut.pc \notin {"verify", "clear", "restart"}
    BY <1>e DEF KeySteps, StepInv
  <2>2. Busy' => Busy
    BY <1>u, <1>e DEF Busy
  <2>. QED  BY <1>p, <1>u, <1>e, <2>1, <2>2 DEF FirstInv, CanGoBack, Older
<1>. QED  BY <1>1, <1>2, <1>3, <1>4, <1>5, <1>6, <1>7

\* The state before the setup is in the journal, or the journal is to be erased.
LEMMA WriteJournalStep ==
  ASSUME ConfigInv, faults' <= 1, WriteJournal
  PROVE  ConfigInv'
<1>. USE DEF ConfigInv, OneFaultInv
<1>. DEFINE new == [gen |-> ram.gen, cred |-> cred]
<1>a. mut.pc = "journal" /\ mut.kind = "setup"
  BY DEF WriteJournal, At, StepInv
<1>b. journal = NoJournal /\ ram = act /\ Whole(act, cred) /\ Good(act) /\ Behind(act)
  BY <1>a DEF RamInv, SetupInv, StoreInv
<1>c. /\ new \in Journals /\ new.gen = act.gen /\ new.cred = cred /\ act.gen # 0
      /\ new # NoJournal /\ NoJournal \in Journals
  BY <1>b, Empties DEF ShapeInv, SlotValues, Journals, Good, NoJournal
<1>u. UNCHANGED <<act, oth, cred, srvCfg, ram>> /\ Quiet
  BY DEF WriteJournal
<1>v. /\ sync' = sync /\ pend' = pend /\ told' = told /\ overtaken' = overtaken
      /\ applied' = applied /\ phase' = phase
  BY <1>u DEF Quiet, tasks
<1>s. mut'.kind = "setup" /\ journal' \in {NoJournal, new} => StoreInv'
  <2>. HIDE DEF new
  <2>1. Good(act)' /\ Behind(act)' /\ Whole(act, cred)'
    BY <1>b, <1>u, <1>v DEF Good, Keeps, Behind
  <2>2. SUFFICES ASSUME mut'.kind = "setup", journal' \in {NoJournal, new}
                 PROVE  StoreInv'
    OBVIOUS
  <2>3. CASE journal' = NoJournal
    BY <2>1, <2>2, <2>3 DEF StoreInv
  <2>4. CASE journal' = new
    <3>1. journal'.gen = act'.gen /\ Origin(act, oth, journal)' = act' /\ journal'.cred = cred'
      BY <1>c, <1>u, <2>4 DEF Origin
    <3>2. act'.gen >= journal'.gen
      BY <3>1, <1>u DEF ShapeInv, SlotValues
    <3>. QED  BY <1>c, <2>1, <2>2, <2>4, <3>1, <3>2 DEF StoreInv
  <2>. QED  BY <2>2, <2>3, <2>4
<1>1. CASE Written(journal', journal, new) /\ Goto("tok")
  <2>1. journal' = new /\ faults' = faults
    BY <1>1 DEF Written, Works
  <2>2. mut'.pc = "tok" /\ mut'.kind = "setup"
    BY <1>1, <1>a, GotoIs DEF ShapeInv, Steps, KeySteps
  <2>3. SetupInv'
    BY <1>c, <1>u, <2>1, <2>2 DEF SetupInv, CommitSteps, KeySteps, RestoreSteps
  <2>. HIDE DEF new
  <2>. QED
    BY <1>1, <1>a, <1>c, <1>u, <1>s, <2>1, <2>2, <2>3, SetupGoesOn DEF KeySteps, ShapeInv
<1>2. CASE Unconfirmed(journal', journal, new) /\ Goto("dropJournal")
  <2>1. journal' \in {NoJournal, new} /\ Fails
    BY <1>2, <1>b DEF Unconfirmed
  <2>2. mut'.kind = "setup"
    BY <1>2, <1>a, GotoIs DEF ShapeInv, Steps
  <2>3. faults = 0 /\ faults' = 1
    BY <2>1, FailsOnce DEF ShapeInv
  <2>4. UNCHANGED <<tasks, phase, offer, setups, told, overtaken, applied, srvCfg>> /\ ram' = ram
    BY <1>u DEF Quiet
  <2>5. Whole(act, cred)' /\ StoreInv' /\ journal' \in Journals
    BY <1>b, <1>c, <1>u, <1>s, <2>1, <2>2
  <2>6. mut.pc \notin UndoSteps
    BY <1>a DEF UndoSteps, RestoreSteps
  <2>. HIDE DEF new
  <2>. QED
    BY <1>2, <1>a, <1>u, <2>3, <2>4, <2>5, <2>6, FailedSetup DEF ShapeInv
<1>. QED  BY <1>1, <1>2 DEF WriteJournal

\* The journal that was not confirmed is erased; there is no second fault.
LEMMA DropJournalStep ==
  ASSUME ConfigInv, faults' <= 1, DropJournal
  PROVE  ConfigInv'
<1>. USE DEF ConfigInv, OneFaultInv
<1>a. mut.pc = "dropJournal" /\ mut.kind = "setup" /\ Whole(act, cred) /\ faults # 0
  BY DEF DropJournal, At, StepInv, SetupInv, TaskInv
<1>1. journal' = NoJournal /\ faults' = faults
  BY <1>a, FailsOnce DEF DropJournal, Written, Unconfirmed, Works, ShapeInv
<1>u. UNCHANGED <<act, oth, cred, srvCfg, ram>> /\ Quiet /\ Goto("probe")
  BY DEF DropJournal
<1>v. /\ sync' = sync /\ pend' = pend /\ told' = told /\ overtaken' = overtaken
      /\ applied' = applied /\ phase' = phase
  BY <1>u DEF Quiet, tasks
<1>2. mut'.pc = "probe" /\ mut'.kind = "setup"
  BY <1>u, <1>a, GotoIs DEF ShapeInv, Steps, UndoSteps
<1>3. StoreInv'
  BY <1>a, <1>1, <1>u, <1>v, <1>2 DEF StoreInv, Good, Keeps, Behind
<1>4. SetupInv'
  BY <1>2 DEF SetupInv, CommitSteps, KeySteps, RestoreSteps
<1>. QED
  BY <1>a, <1>1, <1>u, <1>3, <1>4, Empties, SetupGoesOn DEF ShapeInv

\* A credential key is written, while the journal has the one before.
LEMMA WriteKeyStep ==
  ASSUME ConfigInv, faults' <= 1, WriteToken \/ WriteSalt \/ WriteHash
  PROVE  ConfigInv'
<1>. USE DEF ConfigInv, OneFaultInv
<1>a. /\ mut.pc \in KeySteps /\ mut.kind = "setup" /\ cred \in Creds /\ mut.conf.setup \in Nat
      /\ journal # NoJournal /\ act.gen = journal.gen
  <2>1. mut.pc \in KeySteps
    BY DEF WriteToken, WriteSalt, WriteHash, WriteKey, At, KeySteps
  <2>. QED  BY <2>1 DEF StepInv, SetupInv, ShapeInv, Mutations, Confs
<1>u. UNCHANGED <<act, oth, journal, srvCfg, ram>> /\ Quiet
  BY DEF WriteToken, WriteSalt, WriteHash, WriteKey
<1>v. /\ sync' = sync /\ pend' = pend /\ told' = told /\ overtaken' = overtaken
      /\ applied' = applied /\ phase' = phase
  BY <1>u DEF Quiet, tasks
<1>c. mut'.kind = "setup" => StoreInv'
  BY <1>a, <1>u, <1>v DEF StoreInv, Good, Keeps, Behind
<1>1. CASE Fails /\ Goto("probe") /\ cred' \in Creds
  <2>1. mut'.kind = "setup"
    BY <1>1, <1>a, GotoIs DEF ShapeInv, Steps, UndoSteps
  <2>2. faults = 0 /\ faults' = 1
    BY <1>1, FailsOnce DEF ShapeInv
  <2>3. UNCHANGED <<tasks, phase, offer, setups, told, overtaken, applied, srvCfg>> /\ ram' = ram
    BY <1>u DEF Quiet
  <2>4. mut.pc \notin UndoSteps
    BY <1>a DEF KeySteps, UndoSteps, RestoreSteps
  <2>. QED
    BY <1>1, <1>a, <1>c, <1>u, <2>1, <2>2, <2>3, <2>4, FailedSetup DEF ShapeInv
<1>2. ASSUME NEW p \in {"salt", "hash", "slot"}, Goto(p), faults' = faults, cred' \in Creds,
             p # "salt" => mut.pc # "tok", p = "slot" => mut.pc = "hash",
             cred'.tok = mut.conf.setup,
             p \in {"hash", "slot"} => cred'.salt = mut.conf.setup,
             p = "slot" => cred'.hash = mut.conf.setup
      PROVE  ConfigInv'
  <2>1. mut'.pc = p /\ mut'.kind = "setup" /\ mut'.conf = mut.conf
    BY <1>2, <1>a, GotoIs DEF ShapeInv, Steps, KeySteps, CommitSteps
  <2>2. SetupInv'
    BY <1>a, <1>2, <1>u, <2>1 DEF SetupInv, KeySteps, CommitSteps, RestoreSteps
  <2>. QED
    BY <1>2, <1>a, <1>c, <1>u, <2>1, <2>2, SetupGoesOn DEF ShapeInv, KeySteps
<1>3. CASE WriteToken
  <2>. DEFINE new == [cred EXCEPT !["tok"] = mut.conf.setup]
  <2>1. new \in Creds /\ new.tok = mut.conf.setup
    BY <1>a DEF Creds
  <2>2. \/ cred' = new /\ Works /\ Goto("salt")
        \/ cred' \in {cred, new} /\ Fails /\ Goto("probe")
    BY <1>3 DEF WriteToken, WriteKey, Written, Unconfirmed
  <2>. HIDE DEF new
  <2>. QED  BY <1>1, <1>2, <1>a, <2>1, <2>2 DEF Works
<1>4. CASE WriteSalt
  <2>. DEFINE new == [cred EXCEPT !["salt"] = mut.conf.setup]
  <2>1. new \in Creds /\ new.salt = mut.conf.setup /\ new.tok = cred.tok
    BY <1>a DEF Creds
  <2>2. \/ cred' = new /\ Works /\ Goto("hash")
        \/ cred' \in {cred, new} /\ Fails /\ Goto("probe")
    BY <1>4 DEF WriteSalt, WriteKey, Written, Unconfirmed
  <2>3. mut.pc = "salt" /\ cred.tok = mut.conf.setup
    BY <1>4, <1>a DEF WriteSalt, WriteKey, At, SetupInv
  <2>. HIDE DEF new
  <2>. QED  BY <1>1, <1>2, <1>a, <2>1, <2>2, <2>3 DEF Works
<1>5. CASE WriteHash
  <2>. DEFINE new == [cred EXCEPT !["hash"] = mut.conf.setup]
  <2>1. /\ new \in Creds /\ new.hash = mut.conf.setup /\ new.tok = cred.tok
        /\ new.salt = cred.salt
    BY <1>a DEF Creds
  <2>2. \/ cred' = new /\ Works /\ Goto("slot")
        \/ cred' \in {cred, new} /\ Fails /\ Goto("probe")
    BY <1>5 DEF WriteHash, WriteKey, Written, Unconfirmed
  <2>3. mut.pc = "hash" /\ cred.tok = mut.conf.setup /\ cred.salt = mut.conf.setup
    BY <1>5, <1>a DEF WriteHash, WriteKey, At, SetupInv
  <2>. HIDE DEF new
  <2>. QED  BY <1>1, <1>2, <1>a, <2>1, <2>2, <2>3 DEF Works
<1>. QED  BY <1>3, <1>4, <1>5
\* The journal is cleared: the setup is complete, and its operator is told.
LEMMA ClearJournalStep ==
  ASSUME ConfigInv, faults' <= 1, ClearJournal
  PROVE  ConfigInv'
<1>. USE DEF ConfigInv, OneFaultInv
<1>a. /\ mut.pc = "clear" /\ mut.kind = "setup" /\ phase = "up" /\ journal # NoJournal
      /\ act.gen > journal.gen /\ Behind(journal) /\ ram = act /\ http.kind = "setup"
  BY DEF ClearJournal, At, StepInv, SetupInv, RamInv, TaskInv, Operators
<1>w. Whole(act, cred)
  BY <1>a DEF SetupInv, SwitchInv, Whole, CommitSteps
<1>u. UNCHANGED <<act, oth, cred, srvCfg, phase, ram, offer, setups, overtaken, applied>>
  BY DEF ClearJournal
<1>n. /\ act.gen \in Nat /\ told \in Nat /\ journal.gen \in Nat /\ sync.gen \in Nat
      /\ pend.gen \in Nat /\ NoJournal \in Journals
  BY Empties DEF ShapeInv, SlotValues, Journals, Syncs, Pends
<1>1. CASE Written(journal', journal, NoJournal) /\ Return(TRUE)
  <2>1. journal' = NoJournal /\ faults' = faults
    BY <1>1 DEF Written, Works
  <2>2. mut' = NoMutation /\ pend' = pend /\ told' = act.gen /\ http' = NoHttp /\ sync' = sync
    <3>1. Returns(TRUE, act.gen)
      BY <1>1, <1>a DEF Return
    <3>. QED  BY <1>a, <1>n, <3>1, SuccessIs DEF Backs, Operators
  <2>3. mut'.kind = "none" /\ mut'.pc = "none" /\ http'.kind = "none"
    BY <2>2, Empties
  <2>4. ~CanGoBack'
    BY <1>a, <1>n, <1>u, <2>2 DEF Behind, CanGoBack
  <2>5. ShapeInv'
    BY <1>n, <1>u, <2>1, <2>2, Empties DEF ShapeInv
  <2>6. StepInv' /\ TaskInv'
    BY <1>a, <1>u, <2>2, <2>3 DEF StepInv, TaskInv, KeySteps, CommitSteps, UndoSteps,
       RestoreSteps, Backs, Operators
  <2>7. StoreInv'
    BY <1>a, <1>n, <1>u, <1>w, <2>1, <2>2 DEF StoreInv, Good, Keeps, Behind
  <2>8. RamInv'
    BY <1>a, <1>u, <1>w, <2>2, <2>3 DEF RamInv, Keeps
  <2>9. SwitchInv' /\ SetupInv'
    BY <2>3 DEF SwitchInv, SetupInv, CommitSteps, KeySteps, RestoreSteps, Commits
  <2>10. BackInv'
    BY <2>4 DEF BackInv
  <2>11. FirstInv'
    <3>1. Busy' => Busy
      BY <2>2, <2>3 DEF Busy, Commits, Backs
    <3>2. Sound(mut'.conf) /\ Sound(http'.conf)
      BY <2>2 DEF NoMutation, NoHttp, Factory, Sound
    <3>. QED  BY <1>a, <1>u, <2>1, <2>2, <2>3, <2>4, <3>1, <3>2 DEF FirstInv
  <2>. QED  BY <2>5, <2>6, <2>7, <2>8, <2>9, <2>10, <2>11
<1>2. CASE Unconfirmed(journal', journal, NoJournal) /\ Goto("probe")
             /\ UNCHANGED tasks /\ UNCHANGED told
  <2>1. journal' \in {journal, NoJournal} /\ faults = 0 /\ faults' = 1
    BY <1>2, FailsOnce DEF Unconfirmed, ShapeInv
  <2>2. mut'.kind = "setup" /\ sync' = sync /\ pend' = pend
    BY <1>2, <1>a, GotoIs DEF ShapeInv, Steps, UndoSteps, tasks
  <2>3. StoreInv'
    BY <1>2, <1>a, <1>u, <1>w, <2>1, <2>2 DEF StoreInv, Good, Keeps, Behind
  <2>4. mut.pc \notin UndoSteps
    BY <1>a DEF UndoSteps, RestoreSteps
  <2>. QED
    BY <1>2, <1>a, <1>n, <1>u, <2>1, <2>3, <2>4, FailedSetup DEF ShapeInv
<1>. QED  BY <1>1, <1>2 DEF ClearJournal

-----------------------------------------------------------------------------
(* recoverIncompleteProvisioning                                            *)

\* The recovery of a setup has no update under way to care for.
LEMMA Recovering ==
  ASSUME ConfigInv, mut.pc \in UndoSteps
  PROVE  /\ mut.kind \in {"setup", "boot"} /\ (phase = "boot" <=> mut.kind = "boot")
         /\ phase \in {"up", "boot"} /\ (phase = "up" => faults # 0 /\ http.kind = "setup")
         /\ phase = "boot" => http = NoHttp /\ sync = NoSync
         /\ ~Going(sync) /\ pend = NoPend /\ faults \in Nat
<1>. USE DEF ConfigInv, OneFaultInv
<1>1. mut.kind \in {"setup", "boot"} /\ (phase = "boot" <=> mut.kind = "boot")
  BY DEF StepInv
<1>2. phase \in {"up", "boot"}
  BY <1>1 DEF StepInv, ShapeInv, NoMutation
<1>3. ~Going(NoSync)
  BY EmptySyncsIn DEF Going
<1>. QED  BY <1>1, <1>2, <1>3 DEF TaskInv, Operators, ShapeInv

\* A boot whose recovery fails stays in setup() until the power is cycled.
LEMMA RecoveryHalts ==
  ASSUME ConfigInv, mut.pc \in UndoSteps, faults' <= 1, Fails, RecoveryFails,
         UNCHANGED <<ram, srvCfg, offer, setups, overtaken, applied>>,
         act' \in SlotValues, oth' \in SlotValues, cred' \in Creds, journal' \in Journals,
         phase' = "halted" /\ mut' = NoMutation /\ told' = told /\ sync' = sync /\ pend' = pend
           => StoreInv'
  PROVE  ConfigInv'
<1>. USE DEF ConfigInv, OneFaultInv
<1>f. faults = 0 /\ faults' = 1
  BY FailsOnce DEF ShapeInv
<1>b. phase = "boot" /\ http = NoHttp /\ sync = NoSync /\ pend = NoPend
  BY <1>f, Recovering
<1>e. /\ phase' = "halted" /\ mut' = NoMutation /\ http' = http /\ sync' = sync /\ pend' = pend
      /\ told' = told
  BY <1>b DEF RecoveryFails, tasks
<1>k. mut'.kind = "none" /\ mut'.pc = "none" /\ http'.kind = "none" /\ sync'.pc = "idle"
  BY <1>b, <1>e, Empties, EmptySyncsIn
<1>1. ShapeInv'
  BY <1>e, <1>f, Empties DEF ShapeInv
<1>2. StepInv' /\ TaskInv'
  BY <1>b, <1>e, <1>k DEF StepInv, TaskInv, KeySteps, CommitSteps, UndoSteps, RestoreSteps,
     Backs, Operators, Going
<1>3. RamInv'
  BY <1>e, <1>k DEF RamInv
<1>4. SwitchInv' /\ SetupInv'
  BY <1>k DEF SwitchInv, SetupInv, CommitSteps, KeySteps, RestoreSteps, Commits
<1>5. BackInv'
  BY <1>b, <1>e, <1>k DEF BackInv, CanGoBack, Going
<1>6. FirstInv'
  BY <1>f DEF FirstInv
<1>. QED  BY <1>e, <1>1, <1>2, <1>3, <1>4, <1>5, <1>6

\* The recovery goes on.
LEMMA RecoveryGoesOn ==
  ASSUME ConfigInv, mut.pc \in UndoSteps, NEW p \in UndoSteps, Goto(p), faults' = faults,
         UNCHANGED <<phase, tasks, told, ram, srvCfg, offer, setups, overtaken, applied>>,
         {act', oth'} \subseteq {act, oth}, cred' \in Creds, journal' \in Journals,
         sync' = sync /\ pend' = pend /\ mut'.kind = mut.kind => StoreInv',
         mut'.pc = p => SetupInv'
  PROVE  ConfigInv'
<1>. USE DEF ConfigInv, OneFaultInv
<1>b. /\ mut.kind \in {"setup", "boot"} /\ phase \in {"up", "boot"}
      /\ phase = "up" => faults # 0 /\ http.kind = "setup"
      /\ ~Going(sync) /\ pend = NoPend
  BY Recovering
<1>u. http' = http /\ sync' = sync /\ pend' = pend
  BY DEF tasks
<1>e. /\ mut' \in Mutations /\ mut'.pc = p /\ mut'.kind = mut.kind /\ mut'.conf = mut.conf
      /\ mut'.gen = mut.gen
  BY GotoIs DEF ShapeInv, Steps
<1>k. p \notin KeySteps \cup CommitSteps
              \cup {"none", "journal", "dropJournal", "clear", "back", "restart", "select"}
  BY DEF UndoSteps, RestoreSteps, KeySteps, CommitSteps
<1>1. ShapeInv'
  BY <1>u, <1>e DEF ShapeInv
<1>2. StepInv'
  BY <1>b, <1>e, <1>k, Empties DEF StepInv, Backs
<1>3. TaskInv'
  BY <1>b, <1>u, <1>e DEF TaskInv, Operators
<1>4. RamInv'
  BY <1>b, <1>u, <1>e, <1>k DEF RamInv, Keeps, StepInv
<1>5. SwitchInv'
  BY <1>b, <1>e, <1>k DEF SwitchInv, Commits, CommitSteps
<1>6. BackInv'
  BY <1>b, <1>u DEF BackInv, CanGoBack
<1>7. FirstInv'
  BY <1>b, <1>u, <1>e DEF FirstInv
<1>. QED  BY <1>u, <1>e, <1>1, <1>2, <1>3, <1>4, <1>5, <1>6, <1>7
\* The journal says what there is to undo.
LEMMA ProbeJournalStep ==
  ASSUME ConfigInv, faults' <= 1, ProbeJournal
  PROVE  ConfigInv'
<1>. USE DEF ConfigInv, OneFaultInv
<1>a. mut.pc = "probe" /\ mut.pc \in UndoSteps
  BY DEF ProbeJournal, At, UndoSteps
<1>u. /\ UNCHANGED <<act, oth, cred, journal, srvCfg, ram, offer, setups, overtaken, applied>>
  BY DEF ProbeJournal, durable
<1>n. act.gen \in Nat /\ journal.gen \in Nat /\ (journal # NoJournal => act.gen >= journal.gen)
  BY DEF ShapeInv, SlotValues, Journals, StoreInv
<1>b. ~Going(sync) /\ pend = NoPend
  BY <1>a, Recovering
<1>1. ASSUME NEW p \in {"publish", "undoTok", "undoConf"}, Goto(p), Works, UNCHANGED phase,
             UNCHANGED tasks, UNCHANGED told,
             p = "publish" => journal = NoJournal,
             p = "undoTok" => journal # NoJournal /\ act.gen = journal.gen,
             p = "undoConf" => journal # NoJournal /\ act.gen > journal.gen
      PROVE  ConfigInv'
  <2>1. sync' = sync /\ pend' = pend /\ mut'.kind = mut.kind => StoreInv'
    BY <1>1, <1>u, <1>a DEF StoreInv, Good, Keeps, Behind
  <2>2. mut'.pc = p => SetupInv'
    BY <1>1, <1>u DEF SetupInv, CommitSteps, KeySteps, RestoreSteps
  <2>3. p \in UndoSteps /\ faults' = faults
    BY <1>1 DEF UndoSteps, RestoreSteps, Works
  <2>. QED
    BY <1>1, <1>a, <1>u, <2>1, <2>2, <2>3, RecoveryGoesOn DEF ShapeInv
<1>2. CASE Fails /\ RecoveryFails
  <2>1. phase' = "halted" /\ mut' = NoMutation /\ told' = told /\ sync' = sync /\ pend' = pend
          => StoreInv'
    BY <1>u, <1>b, Empties DEF StoreInv, Good, Keeps, Behind
  <2>. QED
    BY <1>2, <1>a, <1>u, <2>1, RecoveryHalts DEF ShapeInv
<1>3. journal # NoJournal => recoveryAction(journal.gen, act.gen) # "Conflict"
  BY <1>n DEF recoveryAction
<1>4. CASE /\ Works /\ UNCHANGED phase /\ UNCHANGED tasks /\ UNCHANGED told
           /\ \/ journal = NoJournal /\ Goto("publish")
              \/ journal # NoJournal
                 /\ recoveryAction(journal.gen, act.gen) = "RestoreCredentials"
                 /\ Goto("undoTok")
              \/ journal # NoJournal /\ recoveryAction(journal.gen, act.gen) = "Rollback"
                 /\ Goto("undoConf")
  <2>1. \/ journal = NoJournal /\ Goto("publish")
        \/ journal # NoJournal /\ act.gen = journal.gen /\ Goto("undoTok")
        \/ journal # NoJournal /\ act.gen > journal.gen /\ Goto("undoConf")
    BY <1>4, <1>n DEF recoveryAction
  <2>. QED  BY <1>1, <1>4, <2>1
<1>. QED  BY <1>2, <1>3, <1>4 DEF ProbeJournal

\* The marker goes back to the slot the journal names.
LEMMA UndoConfigStep ==
  ASSUME ConfigInv, faults' <= 1, UndoConfig
  PROVE  ConfigInv'
<1>. USE DEF ConfigInv, OneFaultInv
<1>a. mut.pc = "undoConf" /\ mut.pc \in UndoSteps /\ journal # NoJournal /\ act.gen > journal.gen
  BY DEF UndoConfig, At, UndoSteps, SetupInv
<1>u. UNCHANGED <<cred, journal, srvCfg, ram, offer, setups, overtaken, applied>>
  BY DEF UndoConfig
<1>n. act.gen \in Nat /\ journal.gen \in Nat /\ oth.gen \in Nat
  BY DEF ShapeInv, SlotValues, Journals
<1>b. ~Going(sync) /\ pend = NoPend
  BY <1>a, Recovering
<1>o. /\ Origin(act, oth, journal) = oth /\ oth.gen = journal.gen /\ Good(oth)
      /\ Whole(oth, journal.cred) /\ Older
  BY <1>a, <1>n DEF Origin, StoreInv, Good, Older
<1>s. ASSUME \/ act' = oth /\ oth' = act
             \/ act' = act /\ oth' = oth,
             sync' = sync, pend' = pend, told' = told,
             phase' = "halted" \/ (mut'.kind = mut.kind /\ phase' = phase)
      PROVE  StoreInv'
  <2>1. Origin(act, oth, journal)' = oth
    BY <1>s, <1>u, <1>o, <1>a, <1>n DEF Origin
  <2>2. Good(act)' /\ Behind(act)' /\ act'.gen >= journal'.gen
    BY <1>s, <1>u, <1>o, <1>a, <1>b, <1>n DEF StoreInv, Good, Keeps, Behind
  <2>3. Good(Origin(act, oth, journal))'
    BY <1>s, <1>u, <1>o, <2>1 DEF Good, Keeps
  <2>. QED  BY <1>s, <1>u, <1>o, <1>a, <2>1, <2>2, <2>3 DEF StoreInv
<1>1. CASE /\ SelectOlder /\ oth.gen = journal.gen /\ Goto("undoTok") /\ UNCHANGED phase
           /\ UNCHANGED tasks /\ UNCHANGED told
  <2>1. act' = oth /\ oth' = act /\ faults' = faults
    BY <1>1 DEF SelectOlder, Swap, Works
  <2>2. sync' = sync /\ pend' = pend /\ mut'.kind = mut.kind => StoreInv'
    BY <1>s, <1>1, <2>1
  <2>3. mut'.pc = "undoTok" => SetupInv'
    BY <1>a, <1>o, <1>u, <2>1 DEF SetupInv, CommitSteps, KeySteps, RestoreSteps
  <2>4. {act', oth'} \subseteq {act, oth} /\ "undoTok" \in UndoSteps
    BY <2>1 DEF UndoSteps, RestoreSteps
  <2>. QED
    BY <1>1, <1>a, <1>u, <2>1, <2>2, <2>3, <2>4, RecoveryGoesOn DEF ShapeInv
<1>2. CASE /\ NotSelected \/ (SelectOlder /\ oth.gen # journal.gen)
           /\ RecoveryFails
  <2>1. Fails /\ (Swap \/ UNCHANGED <<act, oth>>)
    BY <1>2, <1>o DEF NotSelected
  <2>2. /\ \/ act' = oth /\ oth' = act
           \/ act' = act /\ oth' = oth
        /\ act' \in SlotValues /\ oth' \in SlotValues
    BY <2>1 DEF Swap, ShapeInv
  <2>3. phase' = "halted" /\ mut' = NoMutation /\ told' = told /\ sync' = sync /\ pend' = pend
          => StoreInv'
    BY <1>s, <2>2
  <2>. QED
    BY <1>2, <1>a, <1>u, <2>1, <2>2, <2>3, RecoveryHalts DEF ShapeInv
<1>. QED  BY <1>1, <1>2 DEF UndoConfig

\* A credential key gets its value from the journal.
LEMMA RestoreKeyStep ==
  ASSUME ConfigInv, faults' <= 1, RestoreToken \/ RestoreSalt \/ RestoreHash
  PROVE  ConfigInv'
<1>. USE DEF ConfigInv, OneFaultInv
<1>a. /\ mut.pc \in RestoreSteps \ {"undoClear"} /\ mut.pc \in UndoSteps /\ cred \in Creds
      /\ journal.cred \in Creds /\ journal # NoJournal /\ act.gen = journal.gen
  <2>1. mut.pc \in RestoreSteps \ {"undoClear"}
    BY DEF RestoreToken, RestoreSalt, RestoreHash, RestoreKey, At, RestoreSteps
  <2>. QED  BY <2>1 DEF SetupInv, ShapeInv, Journals, UndoSteps
<1>u. UNCHANGED <<act, oth, journal, srvCfg, ram, offer, setups, overtaken, applied>>
  BY DEF RestoreToken, RestoreSalt, RestoreHash, RestoreKey
<1>s. ASSUME sync' = sync, pend' = pend, told' = told,
             phase' = "halted" \/ (mut'.kind = mut.kind /\ phase' = phase)
      PROVE  StoreInv'
  BY <1>s, <1>a, <1>u DEF StoreInv, Good, Keeps, Behind
<1>1. CASE Fails /\ RecoveryFails /\ cred' \in Creds
  <2>1. phase' = "halted" /\ mut' = NoMutation /\ told' = told /\ sync' = sync /\ pend' = pend
          => StoreInv'
    BY <1>s
  <2>. QED
    BY <1>1, <1>a, <1>u, <2>1, RecoveryHalts DEF ShapeInv
<1>2. ASSUME NEW p \in {"undoSalt", "undoHash", "undoClear"}, Goto(p), faults' = faults,
             cred' \in Creds, UNCHANGED phase, UNCHANGED tasks, UNCHANGED told,
             cred'.tok = journal.cred.tok,
             p \in {"undoHash", "undoClear"} => cred'.salt = journal.cred.salt,
             p = "undoClear" => cred'.hash = journal.cred.hash
      PROVE  ConfigInv'
  <2>1. mut'.pc = p => SetupInv'
    BY <1>a, <1>2, <1>u DEF SetupInv, KeySteps, CommitSteps, RestoreSteps
  <2>2. sync' = sync /\ pend' = pend /\ mut'.kind = mut.kind => StoreInv'
    BY <1>s, <1>2
  <2>3. {act', oth'} \subseteq {act, oth} /\ p \in UndoSteps
    BY <1>u DEF UndoSteps, RestoreSteps
  <2>. QED
    BY <1>2, <1>a, <1>u, <2>1, <2>2, <2>3, RecoveryGoesOn DEF ShapeInv
<1>3. CASE RestoreToken
  <2>. DEFINE new == [cred EXCEPT !["tok"] = journal.cred["tok"]]
  <2>1. new \in Creds /\ new.tok = journal.cred.tok
    BY <1>a DEF Creds
  <2>2. \/ /\ cred' = new /\ Works /\ Goto("undoSalt") /\ UNCHANGED phase
           /\ UNCHANGED tasks /\ UNCHANGED told
        \/ cred' \in {cred, new} /\ Fails /\ RecoveryFails
    BY <1>3 DEF RestoreToken, RestoreKey, Written, Unconfirmed
  <2>. HIDE DEF new
  <2>. QED  BY <1>1, <1>2, <1>a, <2>1, <2>2 DEF Works
<1>4. CASE RestoreSalt
  <2>. DEFINE new == [cred EXCEPT !["salt"] = journal.cred["salt"]]
  <2>1. new \in Creds /\ new.salt = journal.cred.salt /\ new.tok = cred.tok
    BY <1>a DEF Creds
  <2>2. \/ /\ cred' = new /\ Works /\ Goto("undoHash") /\ UNCHANGED phase
           /\ UNCHANGED tasks /\ UNCHANGED told
        \/ cred' \in {cred, new} /\ Fails /\ RecoveryFails
    BY <1>4 DEF RestoreSalt, RestoreKey, Written, Unconfirmed
  <2>3. cred.tok = journal.cred.tok
    BY <1>4 DEF RestoreSalt, RestoreKey, At, SetupInv, RestoreSteps
  <2>. HIDE DEF new
  <2>. QED  BY <1>1, <1>2, <1>a, <2>1, <2>2, <2>3 DEF Works
<1>5. CASE RestoreHash
  <2>. DEFINE new == [cred EXCEPT !["hash"] = journal.cred["hash"]]
  <2>1. /\ new \in Creds /\ new.hash = journal.cred.hash /\ new.tok = cred.tok
        /\ new.salt = cred.salt
    BY <1>a DEF Creds
  <2>2. \/ /\ cred' = new /\ Works /\ Goto("undoClear") /\ UNCHANGED phase
           /\ UNCHANGED tasks /\ UNCHANGED told
        \/ cred' \in {cred, new} /\ Fails /\ RecoveryFails
    BY <1>5 DEF RestoreHash, RestoreKey, Written, Unconfirmed
  <2>3. cred.tok = journal.cred.tok /\ cred.salt = journal.cred.salt
    BY <1>5 DEF RestoreHash, RestoreKey, At, SetupInv, RestoreSteps
  <2>. HIDE DEF new
  <2>. QED  BY <1>1, <1>2, <1>a, <2>1, <2>2, <2>3 DEF Works
<1>. QED  BY <1>3, <1>4, <1>5
\* The journal of a setup that is undone is cleared.
LEMMA ClearUndoneStep ==
  ASSUME ConfigInv, faults' <= 1, ClearUndone
  PROVE  ConfigInv'
<1>. USE DEF ConfigInv, OneFaultInv
<1>a. /\ mut.pc = "undoClear" /\ mut.pc \in UndoSteps /\ journal # NoJournal
      /\ act.gen = journal.gen /\ cred.tok = journal.cred.tok
      /\ cred.salt = journal.cred.salt /\ cred.hash = journal.cred.hash
  BY DEF ClearUndone, At, UndoSteps, RestoreSteps, SetupInv
<1>u. UNCHANGED <<act, oth, cred, srvCfg, ram, offer, setups, overtaken, applied>>
  BY DEF ClearUndone
<1>w. Whole(act, cred)
  BY <1>a DEF StoreInv, Origin, Whole
<1>s. ASSUME journal' \in {journal, NoJournal}, sync' = sync, pend' = pend, told' = told,
             phase' = "halted" \/ (mut'.kind = mut.kind /\ phase' = phase)
      PROVE  StoreInv'
  BY <1>s, <1>u, <1>w DEF StoreInv, Good, Keeps, Behind
<1>j. journal \in Journals /\ NoJournal \in Journals
  BY Empties DEF ShapeInv
<1>1. CASE /\ Written(journal', journal, NoJournal) /\ Goto("publish") /\ UNCHANGED phase
           /\ UNCHANGED tasks /\ UNCHANGED told
  <2>1. journal' = NoJournal /\ faults' = faults
    BY <1>1 DEF Written, Works
  <2>2. sync' = sync /\ pend' = pend /\ mut'.kind = mut.kind => StoreInv'
    BY <1>s, <1>1, <2>1
  <2>3. mut'.pc = "publish" => SetupInv'
    BY <2>1 DEF SetupInv, KeySteps, CommitSteps, RestoreSteps
  <2>4. {act', oth'} \subseteq {act, oth} /\ "publish" \in UndoSteps
    BY <1>u DEF UndoSteps
  <2>. QED
    BY <1>1, <1>a, <1>u, <1>j, <2>1, <2>2, <2>3, <2>4, RecoveryGoesOn DEF ShapeInv
<1>2. CASE Unconfirmed(journal', journal, NoJournal) /\ RecoveryFails
  <2>1. Fails /\ journal' \in {journal, NoJournal}
    BY <1>2 DEF Unconfirmed
  <2>2. phase' = "halted" /\ mut' = NoMutation /\ told' = told /\ sync' = sync /\ pend' = pend
          => StoreInv'
    BY <1>s, <2>1
  <2>. QED
    BY <1>2, <1>a, <1>u, <1>j, <2>1, <2>2, RecoveryHalts DEF ShapeInv
<1>. QED  BY <1>1, <1>2 DEF ClearUndone

\* The active slot is published: the device is up, or the setup has failed.
LEMMA PublishLoadedStep ==
  ASSUME ConfigInv, faults' <= 1, PublishLoaded
  PROVE  ConfigInv'
<1>. USE DEF ConfigInv, OneFaultInv
<1>a. mut.pc = "publish" /\ mut.pc \in UndoSteps /\ journal = NoJournal
  BY DEF PublishLoaded, At, UndoSteps, SetupInv
<1>u. UNCHANGED <<act, oth, cred, journal, srvCfg, offer, setups, overtaken, applied>>
  BY DEF PublishLoaded, durable
<1>b. /\ mut.kind \in {"setup", "boot"} /\ (phase = "boot" <=> mut.kind = "boot")
      /\ phase \in {"up", "boot"} /\ (phase = "up" => faults # 0)
      /\ phase = "boot" => http = NoHttp /\ sync = NoSync
      /\ ~Going(sync) /\ pend = NoPend
  BY <1>a, Recovering
<1>w. Whole(act, cred) /\ Good(act)
  BY <1>a DEF StoreInv
<1>1. CASE Fails /\ UNCHANGED ram /\ RecoveryFails
  <2>1. phase' = "halted" /\ mut' = NoMutation /\ told' = told /\ sync' = sync /\ pend' = pend
          => StoreInv'
    BY <1>a, <1>u DEF StoreInv, Good, Keeps, Behind
  <2>. QED
    BY <1>1, <1>a, <1>u, <2>1, RecoveryHalts DEF ShapeInv
<1>2. CASE /\ ram' = act /\ Works
           /\ IF phase = "boot"
              THEN phase' = "up" /\ mut' = NoMutation /\ UNCHANGED tasks /\ UNCHANGED told
              ELSE UNCHANGED phase /\ Return(FALSE)
  <2>1. /\ ram' = act /\ faults' = faults /\ phase' = "up" /\ mut' = NoMutation /\ told' = told
        /\ sync' = sync /\ pend' = pend /\ http' = NoHttp
    <3>1. CASE phase = "boot"
      BY <1>2, <1>b, <3>1 DEF Works, tasks
    <3>2. CASE phase = "up"
      <4>1. Return(FALSE) /\ mut.kind = "setup" /\ phase' = phase
        BY <1>2, <1>b, <3>2
      <4>. QED  BY <1>2, <3>2, <4>1, ErrorIs DEF Works, Operators, Backs
    <3>. QED  BY <1>b, <3>1, <3>2
  <2>2. mut'.kind = "none" /\ mut'.pc = "none" /\ http'.kind = "none"
    BY <2>1, Empties
  <2>3. ShapeInv'
    BY <1>u, <2>1, Empties DEF ShapeInv
  <2>4. StepInv'
    BY <2>1, <2>2 DEF StepInv, KeySteps, CommitSteps, UndoSteps, RestoreSteps, Backs
  <2>5. TaskInv'
    BY <1>b, <2>1, <2>2 DEF TaskInv, Operators
  <2>6. StoreInv'
    BY <1>a, <1>u, <2>1 DEF StoreInv, Good, Keeps, Behind
  <2>7. RamInv'
    BY <1>u, <1>w, <2>1, <2>2 DEF RamInv, Good, Keeps
  <2>8. SwitchInv' /\ SetupInv'
    BY <2>2 DEF SwitchInv, SetupInv, CommitSteps, KeySteps, RestoreSteps, Commits
  <2>9. BackInv' /\ ~CanGoBack'
    BY <1>b, <2>1 DEF BackInv, CanGoBack
  <2>10. FirstInv'
    <3>1. faults = 0 => ~Busy'
      BY <1>b, <2>1, <2>2 DEF Busy, Commits, Backs
    <3>2. Sound(mut'.conf) /\ Sound(http'.conf)
      BY <2>1 DEF NoMutation, NoHttp, Factory, Sound
    <3>. QED  BY <1>u, <2>1, <2>2, <2>9, <3>1, <3>2 DEF FirstInv
  <2>. QED  BY <2>3, <2>4, <2>5, <2>6, <2>7, <2>8, <2>9, <2>10
<1>. QED  BY <1>1, <1>2 DEF PublishLoaded

-----------------------------------------------------------------------------
(* Power                                                                    *)

\* Whatever the tasks were doing: what NVS holds is whole, or can be recovered.
LEMMA PowerStep ==
  ASSUME ConfigInv, Restart \/ PowerCut \/ PowerCycle
  PROVE  ConfigInv'
<1>. USE DEF ConfigInv, OneFaultInv
<1>1. /\ act' = act /\ oth' = oth /\ cred' = cred /\ journal' = journal /\ srvCfg' = srvCfg
      /\ offer' = offer /\ setups' = setups /\ told' = told /\ overtaken' = overtaken
      /\ applied' = applied /\ faults' = faults
  BY DEF Restart, PowerCut, PowerCycle, durable, counts
<1>2. /\ ram' = EmptySlot /\ mut' = NoMutation /\ http' = NoHttp /\ sync' = NoSync
      /\ pend' = NoPend
      /\ phase' = "off"
  BY DEF Restart, PowerCut, PowerCycle, Forget
<1>3. mut'.kind = "none" /\ mut'.pc = "none" /\ http'.kind = "none" /\ sync'.pc = "idle"
  BY <1>2, Empties, EmptySyncsIn
<1>k. \A c : Keeps(c) => Answered(c, overtaken', applied', sync', pend')
  BY <1>1, <1>2, <1>3, AnsweredStays DEF Keeps
<1>4. ShapeInv'
  BY <1>1, <1>2, Empties, EmptySyncsIn DEF ShapeInv
<1>5. StepInv' /\ TaskInv'
  BY <1>2, <1>3 DEF StepInv, TaskInv, KeySteps, CommitSteps, UndoSteps, RestoreSteps, Backs,
     Operators, Going
<1>6. StoreInv'
  BY <1>1, <1>2, <1>3, <1>k DEF StoreInv, Good, Keeps, Behind, Going
<1>7. RamInv' /\ SwitchInv' /\ SetupInv'
  BY <1>2, <1>3 DEF RamInv, SwitchInv, SetupInv, CommitSteps, KeySteps, RestoreSteps, Commits
<1>8. BackInv'
  BY <1>2, <1>3 DEF BackInv, CanGoBack, Going
<1>9. FirstInv'
  BY <1>1, <1>2, <1>3 DEF FirstInv, NoMutation, NoHttp, Factory, Sound
<1>. QED  BY <1>4, <1>5, <1>6, <1>7, <1>8, <1>9

\* A boot begins with the recovery.
LEMMA BootStep ==
  ASSUME ConfigInv, Boot
  PROVE  ConfigInv'
<1>. USE DEF ConfigInv, OneFaultInv
<1>1. /\ act' = act /\ oth' = oth /\ cred' = cred /\ journal' = journal /\ ram' = ram
      /\ offer' = offer /\ setups' = setups /\ told' = told /\ overtaken' = overtaken
      /\ applied' = applied /\ faults' = faults /\ http' = http /\ sync' = sync
      /\ pend' = pend /\ phase = "off" /\ phase' = "boot"
      /\ srvCfg' = [srvCfg EXCEPT !.ram = srvCfg.nvs]
  BY DEF Boot, tasks, counts
<1>2. mut'.kind = "boot" /\ mut'.pc = "probe" /\ mut'.conf = Factory /\ mut' \in Mutations
  BY Empties DEF Boot, Start, Mutations, Kinds, Steps, UndoSteps
<1>3. /\ http = NoHttp /\ sync = NoSync /\ pend = NoPend /\ http.kind = "none"
      /\ sync.pc = "idle"
  BY <1>1, Empties, EmptySyncsIn DEF TaskInv
<1>4. ShapeInv'
  BY <1>1, <1>2 DEF ShapeInv
<1>5. StepInv' /\ TaskInv'
  BY <1>1, <1>2, <1>3, Empties DEF StepInv, TaskInv, KeySteps, CommitSteps, UndoSteps,
     RestoreSteps, Backs, Operators, NoMutation
<1>6. StoreInv'
  BY <1>1 DEF StoreInv, Good, Keeps, Behind
<1>7. RamInv' /\ SwitchInv' /\ SetupInv'
  BY <1>1, <1>2 DEF RamInv, SwitchInv, SetupInv, CommitSteps, KeySteps, RestoreSteps, Commits
<1>8. BackInv'
  BY <1>1, <1>3 DEF BackInv, CanGoBack, Going
<1>9. FirstInv'
  BY <1>1, <1>2, <1>3 DEF FirstInv, NoHttp, Factory, Sound
<1>. QED  BY <1>4, <1>5, <1>6, <1>7, <1>8, <1>9
-----------------------------------------------------------------------------
(* Every step, and the theorems                                             *)

\* A device that comes from the factory.
LEMMA ConfigInvInit ==
  ASSUME ConfigInit
  PROVE  ConfigInv
<1>1. /\ act.gen = 1 /\ act.conf = Factory /\ oth = EmptySlot /\ cred = NoCred
      /\ journal = NoJournal /\ phase = "up" /\ ram = act /\ mut = NoMutation /\ http = NoHttp
      /\ sync = NoSync /\ pend = NoPend /\ offer = 0 /\ setups = 0 /\ told = 0
      /\ overtaken = FALSE /\ applied = 0 /\ faults = 0
  BY DEF ConfigInit
<1>2. /\ mut.kind = "none" /\ mut.pc = "none" /\ http.kind = "none" /\ sync.pc = "idle"
      /\ Factory \in Confs /\ act \in SlotValues /\ srvCfg \in [nvs : Nat, ram : Nat]
  BY <1>1, Empties, EmptySyncs DEF ConfigInit, SlotValues
<1>3. ShapeInv
  <2>1. EmptySlot \in SlotValues /\ NoCred \in Creds /\ NoJournal \in Journals
        /\ NoMutation \in Mutations
    BY Empties
  <2>2. NoHttp \in Jobs /\ NoSync \in Syncs /\ NoPend \in Pends /\ 0 \in 0 .. Len(Updates)
    BY Empties, EmptySyncs
  <2>3. offer \in 0 .. Len(Updates) /\ overtaken \in BOOLEAN
    BY <1>1, <2>2
  <2>. QED  BY <1>1, <1>2, <2>1, <2>2, <2>3 DEF ShapeInv
<1>4. StepInv /\ TaskInv
  BY <1>1, <1>2 DEF StepInv, TaskInv, KeySteps, CommitSteps, UndoSteps, RestoreSteps, Backs,
     Operators, Going
<1>5. Whole(act, cred) /\ Keeps(act.conf) /\ ~Going(sync)
  BY <1>1, <1>2 DEF Whole, Keeps, Answered, Going, NoCred, Factory
<1>6. StoreInv /\ BackInv /\ ~CanGoBack
  BY <1>1, <1>5 DEF StoreInv, Good, Behind, BackInv, CanGoBack
<1>7. RamInv /\ SwitchInv /\ SetupInv
  BY <1>1, <1>2, <1>5 DEF RamInv, SwitchInv, SetupInv, CommitSteps, KeySteps, RestoreSteps,
     Commits
<1>8. FirstInv
  <2>1. Sound(Factory) /\ NoMutation.conf = Factory /\ NoHttp.conf = Factory
        /\ EmptySlot.conf = Factory
    BY DEF Sound, Factory, NoMutation, NoHttp, EmptySlot
  <2>2. ~Busy
    BY <1>1, <1>2 DEF Busy, Commits, Backs
  <2>. QED  BY <1>1, <1>2, <1>6, <2>1, <2>2 DEF FirstInv
<1>. QED  BY <1>3, <1>4, <1>6, <1>7, <1>8 DEF ConfigInv, OneFaultInv

\* A step that changes nothing keeps everything.
LEMMA ConfigStutter ==
  ASSUME ConfigInv, UNCHANGED configVars
  PROVE  ConfigInv'
<1>. USE DEF ConfigInv, OneFaultInv
<1>1. /\ act' = act /\ oth' = oth /\ cred' = cred /\ journal' = journal /\ srvCfg' = srvCfg
      /\ phase' = phase /\ ram' = ram /\ mut' = mut /\ http' = http /\ sync' = sync
      /\ pend' = pend /\ offer' = offer /\ setups' = setups /\ told' = told
      /\ overtaken' = overtaken /\ applied' = applied /\ faults' = faults
  BY DEF configVars, durable, tasks, counts
<1>2. ShapeInv' /\ StepInv' /\ TaskInv' /\ SetupInv'
  BY <1>1 DEF ShapeInv, StepInv, TaskInv, SetupInv, Behind
<1>3. StoreInv' /\ SwitchInv' /\ BackInv'
  BY <1>1 DEF StoreInv, SwitchInv, BackInv, Good, Keeps, Behind, CanGoBack, Older
<1>4. RamInv' /\ FirstInv'
  BY <1>1 DEF RamInv, FirstInv, Keeps, Stale, CanGoBack, Older, Busy
<1>. QED  BY <1>2, <1>3, <1>4

\* Every step keeps the invariant, as long as at most one call has failed.
LEMMA ConfigStep ==
  ASSUME ConfigInv, faults' <= 1, [ConfigNext]_(configVars)
  PROVE  ConfigInv'
<1>1. CASE Commit
  BY <1>1, WriteSlotStep, WriteMarkerStep, VerifyAndPublishStep, CandidateRollbackStep DEF Commit
<1>2. CASE Setup
  BY <1>2, OperatorStarts, WriteJournalStep, DropJournalStep, WriteKeyStep, ClearJournalStep
     DEF Setup
<1>3. CASE Recovery
  BY <1>3, ProbeJournalStep, UndoConfigStep, RestoreKeyStep, ClearUndoneStep, PublishLoadedStep
     DEF Recovery
<1>4. CASE Operator
  BY <1>4, RefuseOperatorStep, RequestSetupStep, RequestUpdateStep, OperatorStarts, PowerStep
     DEF Operator
<1>5. CASE Remote
  BY <1>5, FetchStep, ApplyRemoteStep, CompareAppliedStep, ReportAppliedStep, UndoRemoteStep,
     RollbackStep, StagedStep, ValidateEndStep, ExpireStep DEF Remote
<1>6. CASE ServerPublishes \/ PowerCut \/ PowerCycle \/ Boot
  BY <1>6, FetchStep, PowerStep, BootStep
<1>7. CASE UNCHANGED configVars
  BY <1>7, ConfigStutter
<1>. QED  BY <1>1, <1>2, <1>3, <1>4, <1>5, <1>6, <1>7 DEF ConfigNext

\* A step counts the call that failed, or no call failed.
LEMMA FaultsCounted ==
  ASSUME [ConfigNext]_(configVars)
  PROVE  faults' = faults \/ Fails
<1>. USE DEF Works
<1>1. CASE Commit
  BY <1>1 DEF Commit, WriteSlot, WriteMarker, VerifyAndPublish, CandidateRollback,
     Written,
     SelectOlder, NotSelected
<1>2. CASE Setup
  BY <1>2 DEF Setup, commitProvisioning, WriteJournal, DropJournal, WriteToken,
     WriteSalt,
     WriteHash, WriteKey, ClearJournal, Written, Unconfirmed, counts
<1>3. CASE Recovery
  BY <1>3 DEF Recovery, ProbeJournal, UndoConfig, RestoreToken, RestoreSalt,
     RestoreHash,
     RestoreKey, ClearUndone, PublishLoaded, Written, Unconfirmed, SelectOlder,
     NotSelected
<1>4. CASE Operator
  BY <1>4 DEF Operator, RefuseOperator, RequestSetup, RequestUpdate, updateFromJson,
     updateNetworkSettings, networkReset, Restart, counts
<1>5. CASE Remote
  BY <1>5 DEF Remote, fetchConfiguration, ApplyRemote, CompareApplied, ReportApplied,
     UndoRemote,
     rollbackToPrevious, Superseded, ValidateBegin, ValidateEnd, Expire,
     ReportRolledBack,
     Recorded, NotRecorded, Unconfirmed, SelectOlder, NotSelected, counts
<1>6. CASE ServerPublishes \/ PowerCut \/ PowerCycle \/ Boot
  BY <1>6 DEF ServerPublishes, PowerCut, PowerCycle, Boot, counts
<1>7. CASE UNCHANGED configVars
  BY <1>7 DEF configVars, counts
<1>. QED  BY <1>1, <1>2, <1>3, <1>4, <1>5, <1>6, <1>7 DEF ConfigNext

\* The invariant of every execution: it holds until a second call has failed.
UntilSecondFault == faults \in Nat /\ (faults <= 1 => ConfigInv)

\* What the invariant says when no mutation is running: the setup is atomic, and
\* what was answered is kept.
LEMMA ConfigInvImplies ==
  ASSUME ConfigInv
  PROVE  SetupAtomic /\ AnsweredUpdatesKept
<1>. USE DEF ConfigInv, OneFaultInv
<1>1. SetupAtomic
  BY DEF SetupAtomic, StoreInv, Whole
<1>2. OperatorUpdateKept
  BY DEF OperatorUpdateKept, StoreInv, Good, ShapeInv, SlotValues
<1>3. AppliedStays
  <2>1. act.conf.rev \in Nat /\ applied \in Nat
    BY DEF ShapeInv, SlotValues, Confs
  <2>2. overtaken \/ act.conf.rev >= applied
    BY DEF StoreInv, Good, Keeps, Answered
  <2>3. CASE overtaken
    BY <2>3 DEF AppliedStays
  <2>4. CASE act.conf.rev >= applied
    <3>1. ~(act.conf.rev < applied)
      BY <2>1, <2>4
    <3>. QED  BY <3>1 DEF AppliedStays
  <2>. QED  BY <2>2, <2>3, <2>4
<1>. QED  BY <1>1, <1>2, <1>3 DEF AnsweredUpdatesKept

\* ConfigService with any number of generations, setups, versions and power
\* losses, and any number of failing NVS calls: the invariant holds until the
\* second call that fails.
THEOREM ConfigInvariance ==
  ConfigSpec => []UntilSecondFault
<1>1. ConfigInit => UntilSecondFault
  <2>. SUFFICES ASSUME ConfigInit PROVE UntilSecondFault
    OBVIOUS
  <2>1. ConfigInv
    BY ConfigInvInit
  <2>. QED  BY <2>1 DEF UntilSecondFault, ConfigInit
<1>2. UntilSecondFault /\ [ConfigNext]_(configVars) => UntilSecondFault'
  <2>. SUFFICES ASSUME UntilSecondFault, [ConfigNext]_(configVars) PROVE UntilSecondFault'
    OBVIOUS
  <2>1. faults' = faults \/ Fails
    BY FaultsCounted
  <2>2. faults' \in Nat /\ (faults' <= 1 => faults <= 1)
    BY <2>1 DEF Fails, UntilSecondFault
  <2>. QED  BY <2>2, ConfigStep DEF UntilSecondFault
<1>. QED  BY <1>1, <1>2, PTL DEF ConfigSpec

\* commitProvisioning is atomic and answered updates are kept as long as at most
\* one NVS call has failed, however many may fail later.
THEOREM OneFault ==
  ConfigSpec => [](faults <= 1 => SetupAtomic /\ AnsweredUpdatesKept)
<1>1. UntilSecondFault => (faults <= 1 => SetupAtomic /\ AnsweredUpdatesKept)
  BY ConfigInvImplies DEF UntilSecondFault
<1>. QED  BY <1>1, ConfigInvariance, PTL

\* The calls that fail are counted up to the bound.
LEMMA FaultsBounded ==
  ASSUME MaxFault \in {0, 1}
  PROVE  ConfigSpec => [](faults <= 1)
<1>1. ConfigInit => faults \in Nat /\ faults <= MaxFault
  BY DEF ConfigInit
<1>2. faults \in Nat /\ faults <= MaxFault /\ [ConfigNext]_(configVars) => (faults \in Nat
      /\ faults <= MaxFault)'
  BY FaultsCounted DEF Fails, CanFail
<1>3. faults \in Nat /\ faults <= MaxFault => faults <= 1
  OBVIOUS
<1>. QED  BY <1>1, <1>2, <1>3, PTL DEF ConfigSpec

\* With at most one NVS call that fails, the token, the salt, the hash and the
\* active configuration come from one setup whenever no setup is running or left
\* to be recovered.
THEOREM SetupSafety ==
  ASSUME MaxFault \in {0, 1}
  PROVE  ConfigSpec => []SetupAtomic
<1>1. (faults <= 1 => SetupAtomic /\ AnsweredUpdatesKept) /\ faults <= 1 => SetupAtomic
  OBVIOUS
<1>. QED  BY <1>1, OneFault, FaultsBounded, PTL

\* With at most one NVS call that fails, neither the recovery of a setup nor the
\* rollback of a remote update undoes what an operator was told is saved or what
\* the server was told is applied.
THEOREM AnswerSafety ==
  ASSUME MaxFault \in {0, 1}
  PROVE  ConfigSpec => []AnsweredUpdatesKept
<1>1. (faults <= 1 => SetupAtomic /\ AnsweredUpdatesKept) /\ faults <= 1
        => AnsweredUpdatesKept
  OBVIOUS
<1>. QED  BY <1>1, OneFault, FaultsBounded, PTL

=============================================================================
