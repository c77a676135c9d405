-------------------------- MODULE SdSequenceProofs ---------------------------
(***************************************************************************)
(* Proofs about SdSequence, for every number of sequences, every gap that  *)
(* is reserved and every sequence of power losses: its type invariant,     *)
(* JournalKeepsPromise, DurableRecordsSurvive, NextIsFresh and             *)
(* RecordAboveServerFloor.  Each theorem names the failures it does not    *)
(* cover; for each of those TLC finds a violation.                         *)
(*                                                                         *)
(* The argument is layered.  Shape says what a step of persistSequence()   *)
(* implies about the journal files, and Held(q) where a value of at least  *)
(* q survives it (PromiseInv).  RepairInv says when a torn tail or a lone  *)
(* .repair copy can exist, so that no record is lost (StoredInv).  On top  *)
(* of both, FreshInv: the card, or the floor given to begin(), tells every *)
(* sequence in use, and a card that accepts records goes on above it.      *)
(***************************************************************************)
EXTENDS SdSequence, TLAPS, WellFoundedInduction

\* The sequences that are ever used: UINT64_MAX is not one of them.  Only
\* next_sequence_ may reach it.
Used == 0..(MaxSequence - 1)
UsedFile == Seq(Used) \cup {NoFile}

\* The types of the card, of NVS, of the health and of the locals of a call.
DiskRecord == [file : UsedFile, torn : BOOLEAN, repair : UsedFile,
               target : Used, tmp : Used, bak : Used]
NvsRecord == [server : Used, prepared : Used]
RamRecord == [mounted : BOOLEAN, writable : BOOLEAN, removal : BOOLEAN,
              ready : BOOLEAN, next : Sequence_ \ {0}, newest : Used]
RequestRecord == [floor : Used, reconcile : BOOLEAN, removal : BOOLEAN]
CallRecord == [op : {"none", "append", "bound_append", "reserve", "advance",
                     "recover"},
               value : Used, mounting : BOOLEAN, scan : Used,
               had : BOOLEAN, ok : BOOLEAN]

RecoverSteps == {"recover_repair", "scan", "repair_copy", "repair_unlink",
                 "repair_rename", "journal", "next"}

\* Which call a step belongs to.
StepInv ==
  /\ pc \in {"off", "idle"} => call = NoCall
  /\ pc \in RecoverSteps => call.op = "recover"
  /\ pc = "advance" => call.op = "advance"

\* The type invariant, with the largest sequence never used.
Typed ==
  /\ disk \in DiskRecord /\ nvs \in NvsRecord /\ ram \in RamRecord
  /\ request \in RequestRecord /\ call \in CallRecord
  /\ serverMax \in Used /\ bootFloor \in Used /\ pc \in PcStates
  /\ cut \in 0..(Tolerated + 1) /\ highest \in Used
  /\ reserved \in Used /\ kept \subseteq Used /\ promised \in Used

TypeInv == Typed /\ StepInv

-----------------------------------------------------------------------------
(* Numbers and files                                                        *)

\* A set of numbers has a least one.
LEMMA LeastNatural ==
  ASSUME NEW S \in SUBSET Nat, S # {}
  PROVE  \E m \in S : \A s \in S : m <= s
<1>. DEFINE R == OpToRel(<, Nat)
<1>1. IsWellFoundedOn(R, Nat)
  BY NatLessThanWellFounded
<1>2. PICK x \in S : \A y \in S : ~(<<y, x>> \in R)
  BY <1>1, WFMin
<1>3. \A y \in Nat : y < x => <<y, x>> \in R
  BY DEF OpToRel
<1>. HIDE DEF R
<1>4. \A y \in S : ~(y < x)
  BY <1>2, <1>3
<1>. QED  BY <1>4

\* LargestIn returns the largest member of a bounded set of numbers.
LEMMA LargestInIsLargest ==
  ASSUME NEW S \in SUBSET Used
  PROVE  /\ LargestIn(S) \in Used
         /\ S # {} => LargestIn(S) \in S
         /\ \A s \in S : s <= LargestIn(S)
<1>0. S \in SUBSET Nat /\ MaxSequence \in Nat /\ \A s \in S : s <= MaxSequence
  BY SequenceBounds DEF Used
<1>1. CASE S = {}
  BY <1>0, <1>1, SequenceBounds DEF LargestIn, Used
<1>2. CASE S # {}
  <2>. DEFINE T == {n \in Nat : \E s \in S : n + s = MaxSequence}
  <2>1. T # {}
    <3>1. PICK s \in S : TRUE
      BY <1>2
    <3>2. MaxSequence - s \in T
      BY <1>0, <3>1
    <3>. QED  BY <3>2
  <2>2. PICK n \in T : \A x \in T : n <= x
    BY <2>1, LeastNatural
  <2>3. PICK m \in S : n + m = MaxSequence
    BY <2>2
  <2>4. ASSUME NEW s \in S PROVE s <= m
    <3>1. MaxSequence - s \in T
      BY <1>0
    <3>2. n <= MaxSequence - s /\ n \in Nat /\ m \in Nat /\ s \in Nat
      BY <1>0, <2>2, <2>3, <3>1
    <3>. QED  BY <1>0, <2>3, <3>2
  <2>5. LargestIn(S) \in S /\ \A s \in S : s <= LargestIn(S)
    BY <1>2, <2>4 DEF LargestIn
  <2>. QED  BY <2>5
<1>. QED  BY <1>1, <1>2

\* The lines of a file, and what a scan of it finds.
LEMMA LinesType ==
  ASSUME NEW f \in UsedFile
  PROVE  /\ Lines(f) \in Seq(Used)
         /\ Len(Lines(f)) \in Nat
         /\ Readable(f) \subseteq Used /\ ScannedLines(f) \subseteq Used
<1>1. Lines(f) \in Seq(Used)
  BY DEF Lines, UsedFile
<1>2. \A i \in 1..Len(Lines(f)) : Lines(f)[i] \in Used
  BY <1>1
<1>. QED  BY <1>1, <1>2 DEF Readable, ScannedLines

(* The maximum a scan of a record file reports is a sequence number. *)
LEMMA ScanType ==
  ASSUME NEW f \in UsedFile
  PROVE  ScanMaximum(f) \in Used
  BY LinesType, LargestInIsLargest DEF ScanMaximum

\* The values the records start from are of their types.
LEMMA ConstantTypes ==
  /\ BlankCard \in DiskRecord
  /\ ColdRam \in RamRecord
  /\ NoRequest \in RequestRecord
  /\ NoCall \in CallRecord
  BY SequenceBounds DEF BlankCard, DiskRecord, ColdRam, RamRecord, NoRequest,
     RequestRecord, NoCall, CallRecord, UsedFile, Used, Sequence_

(* Larger stays in the range of its arguments and bounds both of them. *)
LEMMA LargerType ==
  ASSUME NEW a \in Used, NEW b \in Used
  PROVE  Larger(a, b) \in Used /\ Larger(a, b) >= a /\ Larger(a, b) >= b
  BY SequenceBounds DEF Larger, Used

-----------------------------------------------------------------------------
(* The type invariant                                                       *)

LEMMA TypeInit == Init => TypeInv
  BY ConstantTypes, FaultAssumption, SequenceBounds DEF Init, TypeInv, Typed,
     StepInv,
     DiskRecord, RamRecord, NvsRecord, RequestRecord, CallRecord, Used, PcStates,
     JournalUpdates, RecoverSteps

(* The record types used here imply the type invariant the run checks. *)
LEMMA TypedIsTypeOK == Typed => TypeOK
<1>1. Used \subseteq Sequence_ /\ UsedFile \subseteq File
  <2>1. Used \subseteq Sequence_
    BY SequenceBounds DEF Used, Sequence_
  <2>2. Seq(Used) \subseteq Seq(Sequence_)
    BY <2>1
  <2>. QED  BY <2>1, <2>2 DEF UsedFile, File
<1>. HIDE DEF Used, Sequence_
<1>. QED
  BY <1>1 DEF Typed, TypeOK, DiskRecord, NvsRecord, RamRecord, RequestRecord,
     CallRecord

(* Every step of the storage task and of its callers preserves the types. *)
LEMMA TypeStep == TypeInv /\ [Next]_vars => TypeInv'
<1>. SUFFICES ASSUME TypeInv, [Next]_vars PROVE Typed' /\ StepInv'
  BY DEF TypeInv
<1>. USE SequenceBounds, FaultAssumption, ConstantTypes
<1>0. Typed /\ StepInv
  BY DEF TypeInv
<1>a. /\ disk.target \in Used /\ disk.tmp \in Used /\ disk.bak \in Used
      /\ ram.next \in Sequence_ \ {0} /\ ram.newest \in Used
      /\ call.value \in Used /\ call.scan \in Used
      /\ disk.file \in UsedFile /\ disk.repair \in UsedFile
      /\ nvs.server \in Used /\ nvs.prepared \in Used
  BY <1>0 DEF Typed, DiskRecord, RamRecord, CallRecord, NvsRecord
<1>b. JournalMaximum(disk) \in Used /\ NvsFloor \in Used
  BY <1>a, LargerType DEF JournalMaximum, NvsFloor
<1>c. SequenceFloor \in Used /\ SequenceFloor < ram.next
  BY <1>a DEF SequenceFloor, Used, Sequence_
<1>d. NoCall.op = "none" /\ NoCall.value = 0 /\ NoCall \in CallRecord
  BY DEF NoCall
<1>1. CASE PowerLoss
  <2>1. disk' \in DiskRecord
    BY <1>0, <1>1 DEF PowerLoss, Typed, DiskRecord, TornTmp, Used, CallRecord
  <2>. QED
    BY <1>0, <1>1, <2>1 DEF PowerLoss, ghosts, Interrupted, Typed, StepInv,
       PcStates, RecoverSteps
<1>2. CASE Boot
  BY <1>0, <1>2
  DEF Boot, ghosts, StartMount, NvsFloor, Larger, NvsRecord, Used, Typed,
      StepInv, PcStates, RecoverSteps, RamRecord, CallRecord
<1>3. CASE Remount
  BY <1>0, <1>3 DEF Remount, ghosts, world, StartMount, device, Typed, StepInv,
     PcStates, RecoverSteps, RamRecord, CallRecord, Used
<1>4. CASE MountFails
  BY <1>0, <1>4 DEF MountFails, ghosts, world, device, Typed, StepInv,
     PcStates, RecoverSteps, RamRecord, CallRecord, Used
<1>5. CASE RecoverRepairCopy
  <2>1. disk' \in DiskRecord
    BY <1>0, <1>5 DEF RecoverRepairCopy, Typed, DiskRecord, UsedFile
  <2>. QED
    BY <1>0, <1>5, <2>1 DEF RecoverRepairCopy, ghosts, world, device, Typed,
       StepInv, PcStates, RecoverSteps
<1>6. CASE RetentionRescan
  BY <1>0, <1>6 DEF RetentionRescan, ghosts, world, device, Typed, StepInv,
     PcStates, RecoverSteps, CallRecord, Used
<1>7. CASE Scan
  <2>2. call' \in CallRecord
    BY <1>0, <1>7, ScanType DEF Scan, Typed, CallRecord, DiskRecord
  <2>. QED
    BY <1>0, <1>7, <2>2 DEF Scan, ghosts, world, device, Typed, StepInv,
       PcStates, RecoverSteps
<1>8. CASE RepairCopy
  <2>1. disk' \in DiskRecord
    BY <1>0, <1>8, LinesType DEF RepairCopy, Typed, DiskRecord, UsedFile
  <2>. QED
    BY <1>0, <1>8, <2>1 DEF RepairCopy, ghosts, world, device, Typed, StepInv,
       PcStates, RecoverSteps
<1>9. CASE RepairUnlink
  <2>1. disk' \in DiskRecord
    BY <1>0, <1>9, LinesType DEF RepairUnlink, Typed, DiskRecord, UsedFile
  <2>. QED
    BY <1>0, <1>9, <2>1 DEF RepairUnlink, ghosts, world, device, Typed,
       StepInv, PcStates, RecoverSteps
<1>10. CASE RepairRename
  <2>1. disk' \in DiskRecord
    BY <1>0, <1>10, LinesType DEF RepairRename, Typed, DiskRecord, UsedFile
  <2>. QED
    BY <1>0, <1>10, <2>1 DEF RepairRename, ghosts, world, device, Typed,
       StepInv, PcStates, RecoverSteps
<1>11. CASE RecoverJournal
  <2>1. call' \in CallRecord
    BY <1>0, <1>11, <1>b DEF RecoverJournal, StartPersist, Typed, CallRecord
  <2>2. call'.op = "recover" /\ pc' \in {"remove_tmp", "next"}
    BY <1>0, <1>11 DEF RecoverJournal, StartPersist, Typed, StepInv,
       RecoverSteps, CallRecord
  <2>. QED
    BY <1>0, <1>11, <2>1, <2>2 DEF RecoverJournal, Typed, StepInv, PcStates,
       RecoverSteps, world, device, ghosts
<1>12. CASE RecoverNext
  <2>. DEFINE committed == Larger(call.scan, JournalMaximum(disk))
  <2>1. committed \in Used
    BY <1>a, <1>b, LargerType
  <2>2. ram' \in RamRecord
    <3>1. CASE committed = MaxSequence
      BY <1>0, <1>12, <3>1 DEF RecoverNext, RecoverFailed, Typed, RamRecord
    <3>2. CASE committed # MaxSequence
      <4>1. committed + 1 \in Sequence_ \ {0} /\ (bootFloor <= committed) \in BOOLEAN
        <5>. HIDE DEF committed
        <5>. QED  BY <1>0, <2>1, <3>2 DEF Used, Sequence_, Typed
      <4>. HIDE DEF committed
      <4>2. PICK ready \in BOOLEAN : ram' = [ram EXCEPT !.next = committed + 1, !.newest = call.scan,
                                !.writable = TRUE, !.ready = ready]
        <5>1. ram.ready \in BOOLEAN
          BY <1>0 DEF Typed, RamRecord
        <5>2. ram' = [ram EXCEPT !.next = committed + 1, !.newest = call.scan, !.writable = TRUE,
                                 !.ready = IF call.mounting THEN bootFloor <= committed ELSE @]
          BY <1>12, <3>2, Zenon DEF RecoverNext, committed
        <5>. QED  BY <4>1, <5>1, <5>2
      <4>. QED  BY <1>0, <1>a, <4>1, <4>2 DEF Typed, RamRecord
    <3>. QED  BY <3>1, <3>2
  <2>3. call' \in CallRecord
    BY <1>0, <1>12 DEF RecoverNext, RecoverFailed, Typed, CallRecord
  <2>4. (pc' = "idle" /\ call' = NoCall) \/ (pc' = "advance" /\ call'.op = "advance")
    <3>1. \/ pc' = "idle" /\ call' = NoCall
          \/ pc' = "advance" /\ call' = [NoCall EXCEPT !.op = "advance", !.value = bootFloor]
      BY <1>12, Zenon DEF RecoverNext, RecoverFailed
    <3>2. [NoCall EXCEPT !.op = "advance", !.value = bootFloor].op = "advance"
      BY DEF NoCall
    <3>. QED  BY <3>1, <3>2
  <2>. QED
    BY <1>0, <1>12, <2>2, <2>3, <2>4 DEF RecoverNext, Typed, StepInv, PcStates,
       RecoverSteps, world, device, ghosts
<1>13. CASE RecoverReturn
  <2>2. call' \in CallRecord
    BY <1>0, <1>13 DEF RecoverReturn, Typed, CallRecord, RecoverFailed
  <2>3. ram' \in RamRecord
    BY <1>0, <1>13 DEF RecoverReturn, Typed, RamRecord, RecoverFailed
  <2>. QED
    BY <1>0, <1>13, <2>2, <2>3 DEF RecoverReturn, ghosts, world, RecoverFailed,
       device, Typed, StepInv, PcStates, RecoverSteps
<1>14. CASE RemoveTmp
  BY <1>0, <1>14
  DEF RemoveTmp, ghosts, device, JournalStep, JournalFails, Interrupted, Typed,
      StepInv, PcStates, RecoverSteps, DiskRecord, Used
<1>15. CASE WriteTmp
  <2>1. disk' \in DiskRecord
    BY <1>0, <1>15 DEF WriteTmp, Typed, DiskRecord, JournalStep, JournalFails,
       TornTmp, Used, CallRecord
  <2>. QED
    BY <1>0, <1>15, <2>1 DEF WriteTmp, ghosts, device, JournalStep,
       Interrupted, Typed, StepInv, PcStates, RecoverSteps
<1>16. CASE DropTmp
  BY <1>0, <1>16
  DEF DropTmp, ghosts, device, JournalStep, JournalFails, Interrupted, Typed,
      StepInv, PcStates, RecoverSteps, DiskRecord, Used
<1>17. CASE RemoveBak
  BY <1>0, <1>17
  DEF RemoveBak, ghosts, device, JournalStep, JournalFails, Interrupted, Typed,
      StepInv, PcStates, RecoverSteps, DiskRecord, Used
<1>18. CASE BackupTarget
  <2>0. disk' \in {disk, [disk EXCEPT !.bak = disk.target, !.target = 0]}
    BY <1>18 DEF BackupTarget, JournalStep, JournalFails
  <2>z. 0 \in Used
    BY DEF Used
  <2>1. disk' \in DiskRecord
    BY <1>0, <1>a, <2>0, <2>z DEF Typed, DiskRecord
  <2>2. call' \in CallRecord /\ call'.op = call.op /\ call'.value = call.value
    BY <1>0, <1>a, <1>18 DEF BackupTarget, Typed, CallRecord
  <2>3. cut' \in 0..(Tolerated + 1) /\ pc' \in JournalUpdates
    BY <1>0, <1>18 DEF BackupTarget, Typed, JournalStep, JournalFails,
       Interrupted, JournalUpdates
  <2>. QED
    BY <1>0, <1>18, <2>1, <2>2, <2>3 DEF BackupTarget, JournalUpdates, Typed,
       StepInv, PcStates, RecoverSteps, ghosts, device
<1>19. CASE InstallTmp
  <2>0. disk' \in {disk, [disk EXCEPT !.target = disk.tmp, !.tmp = 0]}
    BY <1>19 DEF InstallTmp, JournalStep, JournalFails
  <2>z. 0 \in Used
    BY DEF Used
  <2>1. disk' \in DiskRecord
    BY <1>0, <1>a, <2>0, <2>z DEF Typed, DiskRecord
  <2>2. call' \in CallRecord /\ call'.op = call.op /\ call'.value = call.value
    BY <1>0, <1>a, <1>19 DEF InstallTmp, Typed, CallRecord
  <2>3. cut' \in 0..(Tolerated + 1) /\ pc' \in JournalUpdates
    BY <1>0, <1>19 DEF InstallTmp, Typed, JournalStep, JournalFails,
       Interrupted, JournalUpdates
  <2>. QED
    BY <1>0, <1>19, <2>1, <2>2, <2>3 DEF InstallTmp, JournalUpdates, Typed,
       StepInv, PcStates, RecoverSteps, ghosts, device
<1>20. CASE VerifyTarget
  <2>1. disk' \in DiskRecord
    BY <1>0, <1>20 DEF VerifyTarget, Typed, DiskRecord, JournalStep,
       JournalFails
  <2>2. call' \in CallRecord
    BY <1>0, <1>20 DEF VerifyTarget, Typed, CallRecord
  <2>. QED
    BY <1>0, <1>20, <2>1, <2>2
    DEF VerifyTarget, ghosts, device, JournalStep, JournalFails, Interrupted,
        Typed, StepInv, PcStates, RecoverSteps, CallRecord
<1>21. CASE DropTarget
  BY <1>0, <1>21
  DEF DropTarget, ghosts, device, JournalStep, JournalFails, Interrupted,
      Typed, StepInv, PcStates, RecoverSteps, DiskRecord, Used
<1>22. CASE RestoreBackup
  <2>1. disk' \in DiskRecord
    BY <1>0, <1>22 DEF RestoreBackup, Typed, DiskRecord, JournalStep,
       JournalFails, Used
  <2>. QED
    BY <1>0, <1>22, <2>1 DEF RestoreBackup, ghosts, device, JournalStep,
       JournalFails, Interrupted, Typed, StepInv, PcStates, RecoverSteps
<1>23. CASE RemoveOld
  BY <1>0, <1>23
  DEF RemoveOld, device, ghosts, Confirmed, Larger, JournalUpdates, CallRecord,
      Sequence_, Typed, StepInv, PcStates, RecoverSteps, DiskRecord, Used
<1>24. CASE Append_
  <2>1. Lines(disk.file) \in Seq(Used) /\ ram.next \in Used
    <3>1. ram.next # MaxSequence
      BY <1>24 DEF Append_, AppendIf
    <3>. QED  BY <1>a, <3>1, LinesType DEF Used, Sequence_
  <2>2. Append(Lines(disk.file), IF disk.torn THEN Corrupt ELSE ram.next) \in Seq(Used)
    BY <2>1 DEF Corrupt, Used
  <2>3. disk' \in DiskRecord
    BY <1>0, <1>24, <2>1, <2>2 DEF Append_, AppendIf, WriteRecord, Typed,
       DiskRecord, UsedFile
  <2>4. call' \in CallRecord
    BY <1>0, <1>24, <2>1 DEF Append_, AppendIf, Typed, CallRecord
  <2>5. ram' \in RamRecord
    BY <1>0, <1>24 DEF Append_, AppendIf, Typed, RamRecord
  <2>6. StepInv'
    BY <1>0, <1>24 DEF Append_, AppendIf, StepInv, RecoverSteps
  <2>. QED
    BY <1>0, <1>24, <2>1, <2>3, <2>4, <2>5, <2>6, LargerType DEF Append_,
       AppendIf, Typed, PcStates, world, device
<1>25. CASE AppendReturn
  <2>0. Larger(ram.newest, call.value) \in Used
    BY <1>a, LargerType
  <2>1. call.value + 1 \in Sequence_ \ {0}
    BY <1>0, <1>a, <1>25 DEF AppendReturn, Used, Sequence_
  <2>2. ram' \in {ram, [ram EXCEPT !.next = call.value + 1, !.newest = call.value]}
    BY <1>25 DEF AppendReturn
  <2>3. ram' \in RamRecord
    BY <1>0, <1>a, <2>1, <2>2 DEF Typed, RamRecord
  <2>. QED
    BY <1>0, <1>a, <1>25, <2>3 DEF AppendReturn, Typed, StepInv, PcStates,
       RecoverSteps, NoCall, ghosts, device, world
<1>26. ASSUME NEW count \in 1..MaxReserve, Reserve(count) PROVE Typed' /\ StepInv'
  <2>1. SequenceFloor + count \in Used 
    BY <1>a, <1>26 DEF Reserve, SequenceFloor, Used, Sequence_
  <2>2. call' \in CallRecord /\ call'.op = "reserve" /\ call'.value = SequenceFloor + count
    BY <1>26, <2>1 DEF Reserve, CallRecord, NoCall
  <2>. QED
    BY <1>0, <1>26, <2>1, <2>2 DEF Reserve, Typed, StepInv, PcStates,
       RecoverSteps, world, device, ghosts
<1>27. CASE ReserveReturn
  <2>0. Larger(ram.newest, call.value) \in Used
    BY <1>a, LargerType
  <2>1. call.value + 1 \in Sequence_ \ {0}
    BY <1>0, <1>a, <1>27 DEF ReserveReturn, Used, Sequence_
  <2>2. ram' \in {ram, [ram EXCEPT !.next = call.value + 1, !.newest = Larger(@, call.value)]}
    BY <1>27 DEF ReserveReturn
  <2>3. ram' \in RamRecord
    BY <1>0, <1>a, <2>1, <2>2, <2>0 DEF Typed, RamRecord
  <2>. QED
    BY <1>0, <1>a, <1>27, <2>3, LargerType DEF ReserveReturn, Typed, StepInv,
       PcStates, RecoverSteps, NoCall, ghosts, device, world
<1>28. CASE Reconcile
  BY <1>0, <1>28 DEF Reconcile, ghosts, Typed, StepInv, PcStates, RecoverSteps,
     RequestRecord, CallRecord, Used
<1>29. CASE AdvanceSequenceFloor
  <2>1. CASE call' = NoCall /\ pc' = "idle"
    <3>1. ram' \in RamRecord
      BY <1>0, <1>29 DEF AdvanceSequenceFloor, Typed, RamRecord
    <3>. QED
      BY <1>0, <1>29, <2>1, <3>1 DEF AdvanceSequenceFloor, Typed, StepInv,
         PcStates, RecoverSteps, world, device, ghosts
  <2>2. CASE StartPersist(call.value) /\ call.value # MaxSequence /\ UNCHANGED ram
    <3>1. call' \in CallRecord /\ call'.value = call.value /\ call'.op = call.op
      BY <1>0, <1>a, <2>2 DEF StartPersist, Typed, CallRecord
    <3>. QED
      BY <1>0, <1>29, <2>2, <3>1 DEF AdvanceSequenceFloor, StartPersist, Typed,
         StepInv, PcStates, RecoverSteps, world, device, ghosts
  <2>. QED  BY <1>29, <2>1, <2>2 DEF AdvanceSequenceFloor
<1>30. CASE AdvanceReturn
  <2>1. call.value + 1 \in Sequence_ \ {0} /\ call.ok \in BOOLEAN
    BY <1>0, <1>a, <1>30 DEF AdvanceReturn, Used, Sequence_, Typed, CallRecord
  <2>2. PICK ok \in BOOLEAN, n \in Sequence_ \ {0} : ram' = [ram EXCEPT !.ready = ok, !.next = n]
    BY <1>a, <1>30, <2>1 DEF AdvanceReturn
  <2>3. ram' \in RamRecord
    BY <1>0, <1>a, <2>1, <2>2 DEF Typed, RamRecord
  <2>. QED
    BY <1>0, <1>a, <1>30, <2>3 DEF AdvanceReturn, Typed, StepInv, PcStates,
       RecoverSteps, NoCall, ghosts, device, world
<1>31. CASE Upload
  <2>1. Readable(disk.file) \subseteq Used
    BY <1>0, LinesType DEF Typed, DiskRecord
  <2>. QED  BY <1>0, <1>31, <2>1 DEF Upload, Typed, StepInv, ghosts
<1>32. CASE Heartbeat
  <2>. DEFINE required == Larger(Larger(ram.newest, SequenceFloor),
                                 Larger(nvs.server, serverMax))
  <2>1. required \in Used
    BY <1>0, <1>a, <1>c, LargerType DEF Typed
  <2>2. Larger(request.floor, required) \in Used
    BY <1>0, <2>1, LargerType DEF Typed, RequestRecord
  <2>3. request' = request
        \/ \E queued \in BOOLEAN : request' = [request EXCEPT !.floor = Larger(@, required), !.reconcile = queued]
    <3>1. request.reconcile \in BOOLEAN
      BY <1>0 DEF Typed, RequestRecord
    <3>. QED  BY <1>32, <3>1 DEF Heartbeat, QueueReconciliation
  <2>. HIDE DEF required
  <2>4. request' \in RequestRecord
    BY <1>0, <2>2, <2>3 DEF Typed, RequestRecord
  <2>5. nvs' \in NvsRecord
    BY <1>0, <1>32 DEF Heartbeat, Typed, NvsRecord
  <2>. QED
    BY <1>0, <1>32, <2>4, <2>5 DEF Heartbeat, Typed, StepInv, ghosts
<1>33. CASE CheckpointRemoval
  BY <1>0, <1>33 DEF CheckpointRemoval, ghosts, RamRecord, Typed, StepInv,
     PcStates, RecoverSteps, NvsRecord, RequestRecord, Used
<1>34. CASE PrepareRemoval
  BY <1>0, <1>34 DEF PrepareRemoval, ghosts, Typed, StepInv, PcStates,
     RecoverSteps, RamRecord, RequestRecord, Used
<1>35. CASE ReplaceCard
  BY <1>0, <1>35 DEF ReplaceCard, NvsFloor, Larger, NvsRecord, Used, Typed,
     StepInv, PcStates, RecoverSteps, DiskRecord
<1>36. CASE UNCHANGED vars
  BY <1>0, <1>36 DEF vars, Typed, StepInv
<1>. QED
  BY <1>1, <1>2, <1>3, <1>4, <1>5, <1>6, <1>7, <1>8, <1>9, <1>10, <1>11, <1>12,
     <1>13, <1>14, <1>15, <1>16, <1>17, <1>18, <1>19, <1>20, <1>21, <1>22,
     <1>23, <1>24, <1>25, <1>26, <1>27, <1>28, <1>29, <1>30, <1>31, <1>32,
     <1>33, <1>34, <1>35, <1>36
  DEF Next, PersistSequence

\* The fields have the types of their records.
LEMMA Fields ==
  ASSUME TypeInv
  PROVE  /\ disk.target \in Nat /\ disk.tmp \in Nat /\ disk.bak \in Nat
         /\ ram.next \in Nat /\ ram.next > 0 /\ ram.newest \in Nat
         /\ call.value \in Nat /\ call.scan \in Nat
         /\ disk.file \in UsedFile /\ disk.repair \in UsedFile
         /\ nvs.server \in Nat /\ nvs.prepared \in Nat
         /\ serverMax \in Nat /\ bootFloor \in Nat /\ request.floor \in Nat
         /\ highest \in Nat /\ reserved \in Nat /\ promised \in Nat /\ cut \in Nat
         /\ call.ok \in BOOLEAN /\ ram.writable \in BOOLEAN /\ ram.ready \in BOOLEAN
         /\ ram.mounted \in BOOLEAN /\ call.mounting \in BOOLEAN /\ disk.torn \in BOOLEAN
         /\ call.op \in {"none", "append", "bound_append", "reserve", "advance", "recover"}
         /\ Tolerated \in Nat /\ MaxSequence \in Nat
         /\ SequenceFloor \in Nat /\ SequenceFloor + 1 = ram.next
<1>1. disk \in DiskRecord /\ ram \in RamRecord /\ call \in CallRecord
      /\ nvs \in NvsRecord /\ request \in RequestRecord
  BY DEF TypeInv, Typed
<1>2. Used \subseteq Nat /\ Sequence_ \subseteq Nat /\ Tolerated \in Nat /\ MaxSequence \in Nat
  BY SequenceBounds, FaultAssumption DEF Used, Sequence_
<1>3. disk.target \in Nat /\ disk.tmp \in Nat /\ disk.bak \in Nat /\ disk.torn \in BOOLEAN
      /\ disk.file \in UsedFile /\ disk.repair \in UsedFile
  BY <1>1, <1>2 DEF DiskRecord
<1>4. ram.next \in Nat /\ ram.next > 0 /\ ram.newest \in Nat /\ ram.writable \in BOOLEAN
      /\ ram.ready \in BOOLEAN /\ ram.mounted \in BOOLEAN
  <2>1. ram.next \in Sequence_ \ {0} /\ ram.newest \in Used /\ ram.writable \in BOOLEAN
        /\ ram.ready \in BOOLEAN /\ ram.mounted \in BOOLEAN
    BY <1>1 DEF RamRecord
  <2>2. ram.next \in Nat /\ ram.next # 0
    BY <1>2, <2>1
  <2>3. ram.next > 0
    BY <2>2
  <2>4. ram.newest \in Nat
    BY <1>2, <2>1
  <2>. QED  BY <2>1, <2>2, <2>3, <2>4
<1>5. call.value \in Nat /\ call.scan \in Nat /\ call.ok \in BOOLEAN /\ call.mounting \in BOOLEAN
      /\ call.op \in {"none", "append", "bound_append", "reserve", "advance", "recover"}
  BY <1>1, <1>2 DEF CallRecord
<1>6. nvs.server \in Nat /\ nvs.prepared \in Nat /\ request.floor \in Nat
  BY <1>1, <1>2 DEF NvsRecord, RequestRecord
<1>7. serverMax \in Nat /\ bootFloor \in Nat /\ highest \in Nat /\ reserved \in Nat /\ promised \in Nat
      /\ cut \in Nat
  BY <1>2 DEF TypeInv, Typed
<1>8. SequenceFloor \in Nat /\ SequenceFloor + 1 = ram.next
  BY <1>4 DEF SequenceFloor
<1>. QED  BY <1>2, <1>3, <1>4, <1>5, <1>6, <1>7, <1>8

-----------------------------------------------------------------------------
(* What the actions leave alone                                             *)

\* The actions that change no journal file, grouped by what else they do:
\* the mount and the scan, the end of a recovery, the calls of
\* persistSequence, the returns from it, and the steps of the other tasks.
MountStep == Boot \/ Remount \/ MountFails \/ RetentionRescan
RepairStep == RecoverRepairCopy \/ Scan \/ RepairCopy \/ RepairUnlink \/ RepairRename
ReturnStep == AppendReturn \/ ReserveReturn \/ AdvanceReturn \/ RecoverReturn
OtherTask == Upload \/ Heartbeat \/ CheckpointRemoval \/ PrepareRemoval \/ Reconcile
StartStep ==
  \/ RecoverJournal \/ Append_ \/ AdvanceSequenceFloor
  \/ \E count \in 1..MaxReserve : Reserve(count)
CardStep ==
  MountStep \/ RepairStep \/ RecoverNext \/ ReturnStep \/ OtherTask \/ StartStep

SameJournals ==
  /\ disk'.target = disk.target /\ disk'.tmp = disk.tmp /\ disk'.bak = disk.bak
SameRecords ==
  /\ disk'.file = disk.file /\ disk'.torn = disk.torn /\ disk'.repair = disk.repair

(* Every step is one of the groups above, a journal step, a power loss, a card
   swap or a stutter. *)
LEMMA NextCases ==
  [Next]_vars => \/ CardStep \/ PersistSequence \/ PowerLoss \/ ReplaceCard
                 \/ UNCHANGED vars
  BY DEF Next, CardStep, MountStep, RepairStep, ReturnStep, OtherTask,
     StartStep

\* A step that changes no journal file leaves the journals, what was confirmed
\* and the count of interruptions as they were.
LEMMA CardStepFrame ==
  ASSUME TypeInv, CardStep
  PROVE  SameJournals /\ cut' = cut /\ promised' = promised
<1>. disk \in DiskRecord
  BY DEF TypeInv, Typed
<1>1. CASE MountStep
  BY <1>1 DEF MountStep, Boot, Remount, MountFails, RetentionRescan,
     SameJournals, world, device, ghosts
<1>2. CASE RepairStep
  BY <1>2 DEF RepairStep, RecoverRepairCopy, Scan, RepairCopy, RepairUnlink,
     RepairRename, SameJournals, DiskRecord, world, ghosts
<1>3. CASE RecoverNext
  BY <1>3 DEF RecoverNext, SameJournals, world, ghosts
<1>4. CASE ReturnStep
  BY <1>4 DEF ReturnStep, AppendReturn, ReserveReturn, AdvanceReturn,
     RecoverReturn, SameJournals, world, ghosts
<1>5. CASE OtherTask
  BY <1>5 DEF OtherTask, Upload, Heartbeat, CheckpointRemoval, PrepareRemoval,
     Reconcile, SameJournals, ghosts
<1>6. CASE StartStep
  BY <1>6 DEF StartStep, RecoverJournal, Append_, AppendIf, WriteRecord,
     AdvanceSequenceFloor, Reserve, SameJournals, DiskRecord, world, ghosts
<1>. QED  BY <1>1, <1>2, <1>3, <1>4, <1>5, <1>6 DEF CardStep

\* persistSequence() and a power loss change no record.
LEMMA PersistFrame ==
  ASSUME TypeInv, PersistSequence \/ PowerLoss
  PROVE  SameRecords
<1>. disk \in DiskRecord
  BY DEF TypeInv, Typed
<1>1. CASE PowerLoss
  BY <1>1 DEF PowerLoss, TornTmp, SameRecords, DiskRecord
<1>2. CASE PersistSequence
  BY <1>2 DEF PersistSequence, RemoveTmp, WriteTmp, DropTmp, RemoveBak,
     BackupTarget, InstallTmp, VerifyTarget, DropTarget, RestoreBackup,
     RemoveOld, JournalStep, JournalFails, TornTmp, SameRecords, DiskRecord
<1>. QED  BY <1>1, <1>2

(* What persistSequence() leaves alone, whichever of its card operations runs. *)
LEMMA PersistCallFrame ==
  ASSUME TypeInv, PersistSequence
  PROVE  /\ UNCHANGED <<ram, nvs, serverMax, bootFloor, request, highest,
                        reserved, kept>>
         /\ call'.op = call.op /\ call'.value = call.value /\ call'.scan = call.scan
         /\ call'.mounting = call.mounting
         /\ pc \in JournalUpdates \ {"persisted"} /\ pc' \in JournalUpdates
         /\ cut' \in {0, cut, cut + 1}
<1>. call \in CallRecord
  BY DEF TypeInv, Typed
<1>. QED
  BY DEF PersistSequence, RemoveTmp, WriteTmp, DropTmp, RemoveBak,
     BackupTarget, InstallTmp, VerifyTarget, DropTarget, RestoreBackup,
     RemoveOld, JournalStep, JournalFails, Interrupted, Confirmed,
     JournalUpdates, device, ghosts, CallRecord

-----------------------------------------------------------------------------
(* The shape of a journal update                                            *)

\* What the step of persistSequence() says about the journal files: the .tmp
\* file holds the new value until it is installed, the target holds it after
\* that, a clean-up step follows an interruption, and a confirmed update has
\* cleared the count of interruptions.  An append persists next_sequence_.
Shape ==
  /\ pc \in {"drop_tmp", "drop_target", "restore"} => cut >= 1
  /\ pc \in {"remove_bak", "backup", "install"} => disk.tmp = call.value
  /\ pc \in {"verify", "drop_target", "remove_old"} => disk.target = call.value
  /\ pc = "remove_old" => call.ok
  /\ call.ok => /\ pc \in {"remove_old", "persisted", "next"}
                /\ disk.target = call.value
                /\ pc # "remove_old" /\ JournalSound => cut = 0
  /\ pc \in JournalUpdates /\ call.op \in {"append", "bound_append"} =>
       call.value = ram.next

(* Nothing is being written at power-on, so the shape holds. *)
LEMMA ShapeInit == Init => Shape
  BY DEF Init, Shape, NoCall, JournalUpdates

\* A call starts without a confirmed update.
LEMMA CallStarts ==
  /\ ~NoCall.ok /\ NoCall.op = "none" /\ NoCall \in CallRecord
  /\ \A o : ~[NoCall EXCEPT !.op = o].ok
  /\ \A o : ~[NoCall EXCEPT !.op = o, !.mounting = TRUE].ok
  /\ \A o, v : ~[NoCall EXCEPT !.op = o, !.value = v].ok
  /\ \A o, v : [NoCall EXCEPT !.op = o, !.value = v].op = o
  /\ \A o, v : [NoCall EXCEPT !.op = o, !.value = v].value = v
  /\ \A o, v : [NoCall EXCEPT !.op = o, !.value = v].scan = 0
  BY ConstantTypes DEF NoCall

(* Every step of the journal replacement keeps its three files in shape. *)
LEMMA ShapeStep == TypeInv /\ Shape /\ [Next]_vars => Shape'
<1>. SUFFICES ASSUME TypeInv, Shape, [Next]_vars PROVE Shape'
  OBVIOUS
<1>0. disk \in DiskRecord /\ ram \in RamRecord /\ call \in CallRecord /\ cut \in Nat /\ Tolerated \in Nat
      /\ StepInv
  BY Fields DEF TypeInv, Typed
<1>1. CASE MountStep
  <2>1. pc' \in {"recover_repair", "idle", "scan"} /\ ~call'.ok
    BY <1>1, CallStarts DEF MountStep, Boot, Remount, MountFails,
       RetentionRescan, StartMount
  <2>. QED  BY <2>1 DEF Shape, JournalUpdates
<1>2. CASE RepairStep
  <2>1. pc' \in RecoverSteps \ {"next"} /\ pc \in RecoverSteps \ {"next"} /\ call'.ok = call.ok
    BY <1>0, <1>2 DEF RepairStep, RecoverRepairCopy, Scan, RepairCopy,
       RepairUnlink,
     RepairRename, RecoverSteps, CallRecord
  <2>. QED  BY <2>1 DEF Shape, JournalUpdates, RecoverSteps
<1>3. CASE RecoverNext
  <2>1. pc' \in {"idle", "advance"} /\ ~call'.ok
    <3>1. \/ pc' = "idle" /\ call' = NoCall
          \/ pc' = "advance" /\ call' = [NoCall EXCEPT !.op = "advance", !.value = bootFloor]
      BY <1>3, Zenon DEF RecoverNext, RecoverFailed
    <3>. QED  BY <3>1, CallStarts
  <2>. QED  BY <2>1 DEF Shape, JournalUpdates
<1>4. CASE ReturnStep
  <2>1. CASE RecoverReturn /\ call.ok
    <3>1. pc' = "next" /\ pc = "persisted" /\ UNCHANGED <<call, disk, cut>>
      BY <2>1 DEF RecoverReturn, world
    <3>. QED  BY <2>1, <3>1 DEF Shape, JournalUpdates, JournalSound
  <2>2. CASE ~(RecoverReturn /\ call.ok)
    <3>1. pc' = "idle" /\ call' = NoCall
      BY <1>4, <2>2 DEF ReturnStep, AppendReturn, ReserveReturn, AdvanceReturn,
         RecoverReturn, RecoverFailed
    <3>. QED  BY <3>1 DEF Shape, JournalUpdates, NoCall
  <2>. QED  BY <2>1, <2>2
<1>5. CASE OtherTask
  <2>1. pc' \in {"idle", "advance"} /\ ~call'.ok
    <3>1. \/ pc' = "idle" /\ call' = NoCall
          \/ pc' = "advance" /\ call' = [NoCall EXCEPT !.op = "advance", !.value = request.floor]
      BY <1>0, <1>5 DEF OtherTask, Upload, Heartbeat, CheckpointRemoval,
         PrepareRemoval,
         Reconcile, StepInv
    <3>. QED  BY <3>1, CallStarts
  <2>. QED  BY <2>1 DEF Shape, JournalUpdates
<1>6. CASE StartStep
  <2>1. CASE Append_
    <3>1. CASE pc' = "remove_tmp"
      <4>1. call'.value = ram.next /\ ~call'.ok /\ ram' = ram
        BY <2>1, <3>1 DEF Append_, AppendIf, NoCall
      <4>. QED  BY <3>1, <4>1 DEF Shape
    <3>2. CASE pc' # "remove_tmp"
      <4>1. pc' = "idle" /\ call' = NoCall
        BY <1>0, <2>1, <3>2 DEF Append_, AppendIf, StepInv
      <4>. QED  BY <4>1 DEF Shape, JournalUpdates, NoCall
    <3>. QED  BY <3>1, <3>2
  <2>2. CASE ~Append_
    <3>1. pc' \in {"remove_tmp", "next", "idle"} /\ ~call'.ok
          /\ (pc' = "remove_tmp" => call'.op \in {"recover", "advance", "reserve"})
      <4>1. CASE RecoverJournal
        BY <1>0, <4>1 DEF RecoverJournal, StartPersist, StepInv, RecoverSteps,
           CallRecord, Shape
      <4>2. CASE AdvanceSequenceFloor
        <5>1. \/ pc' = "idle" /\ call' = NoCall
              \/ /\ pc' = "remove_tmp" /\ call' = [call EXCEPT !.value = call.value, !.ok = FALSE]
                 /\ call.op = "advance"
          BY <1>0, <4>2 DEF AdvanceSequenceFloor, StartPersist, StepInv
        <5>. QED  BY <1>0, <5>1, CallStarts DEF CallRecord
      <4>3. ASSUME NEW count \in 1..MaxReserve, Reserve(count)
            PROVE  pc' = "remove_tmp" /\ call'.op = "reserve" /\ ~call'.ok
        BY <4>3 DEF Reserve, NoCall
      <4>. QED  BY <1>6, <2>2, <4>1, <4>2, <4>3 DEF StartStep
    <3>. QED  BY <3>1 DEF Shape, JournalUpdates
  <2>. QED  BY <2>1, <2>2
<1>7. CASE PersistSequence
  <2>0. call'.op = call.op /\ call'.value = call.value /\ ram' = ram /\ pc \in JournalUpdates
    BY <1>7, PersistCallFrame
  <2>. USE DEF Shape, JournalStep, JournalFails, Interrupted
  <2>1. CASE RemoveTmp
    BY <1>0, <2>0, <2>1 DEF RemoveTmp
  <2>2. CASE WriteTmp
    BY <1>0, <2>0, <2>2 DEF WriteTmp, DiskRecord
  <2>3. CASE DropTmp
    BY <1>0, <2>0, <2>3 DEF DropTmp
  <2>4. CASE RemoveBak
    BY <1>0, <2>0, <2>4 DEF RemoveBak, DiskRecord
  <2>5. CASE BackupTarget
    <3>1. call'.ok = call.ok
      BY <1>0, <2>5 DEF BackupTarget, CallRecord
    <3>2. disk'.tmp = disk.tmp
      BY <1>0, <2>5 DEF BackupTarget, DiskRecord
    <3>. QED  BY <1>0, <2>0, <2>5, <3>1, <3>2 DEF BackupTarget
  <2>6. CASE InstallTmp
    <3>1. pc' = "verify" => disk'.target = disk.tmp
      BY <1>0, <2>6 DEF InstallTmp, DiskRecord
    <3>. QED  BY <1>0, <2>0, <2>6, <3>1 DEF InstallTmp
  <2>7. CASE VerifyTarget
    BY <1>0, <2>0, <2>7 DEF VerifyTarget, CallRecord
  <2>8. CASE DropTarget
    BY <1>0, <2>0, <2>8 DEF DropTarget
  <2>9. CASE RestoreBackup
    BY <1>0, <2>0, <2>9 DEF RestoreBackup
  <2>10. CASE RemoveOld
    BY <1>0, <2>0, <2>10 DEF RemoveOld, Confirmed, JournalSound, DiskRecord
  <2>. QED
    BY <1>7, <2>1, <2>2, <2>3, <2>4, <2>5, <2>6, <2>7, <2>8, <2>9, <2>10
       DEF PersistSequence
<1>8. CASE PowerLoss \/ ReplaceCard
  <2>1. pc' \in {"off", "idle"} /\ call' = NoCall
    BY <1>0, <1>8 DEF PowerLoss, ReplaceCard, StepInv
  <2>. QED  BY <2>1 DEF Shape, JournalUpdates, NoCall
<1>9. CASE UNCHANGED vars
  BY <1>9 DEF vars, Shape, JournalSound
<1>. QED
  BY <1>1, <1>2, <1>3, <1>4, <1>5, <1>6, <1>7, <1>8, <1>9, NextCases
  DEF CardStep

-----------------------------------------------------------------------------
(* The journal keeps what it confirmed                                      *)

Updating == {"remove_tmp", "write_tmp", "remove_bak", "backup", "install",
             "verify", "remove_old"}

\* Where a value of at least q is: without an interruption in the target, or
\* in the backup while the target is being replaced; after one interruption in
\* the backup while the update is undone, nowhere for certain between the
\* renames of the next update (its own value is at least q), and otherwise in
\* one of the two.
Held(q) ==
  /\ cut = 0 => IF pc \in {"install", "verify"} THEN disk.bak >= q
                ELSE disk.target >= q
  /\ cut = 1 => IF pc \in {"drop_target", "restore"} THEN disk.bak >= q
                ELSE pc \notin {"backup", "install", "verify", "remove_old"} =>
                       disk.target >= q \/ disk.bak >= q

\* An update never installs less than q.
ValueAbove(q) == pc \in Updating => call.value >= q

\* The steps outside persistSequence(), where Held(q) has its plain form.
LEMMA HeldOutside ==
  ASSUME TypeInv, Shape, Tolerated <= 1, NEW q \in Nat, JournalSound, Held(q),
         pc \notin Updating
  PROVE  /\ cut = 0 => disk.target >= q
         /\ disk.target >= q \/ disk.bak >= q
         /\ cut \in {0, 1}
<1>. cut \in {0, 1}
  BY Fields DEF JournalSound
<1>. QED  BY DEF Held, Updating

\* The journals hold q as long as every update installs at least q, whatever
\* is cut short, while the interruptions are tolerated.
LEMMA HeldStep ==
  ASSUME TypeInv, Shape, Tolerated <= 1, NEW q \in Nat, Held(q), ValueAbove(q),
         JournalSound', CardStep \/ PersistSequence \/ PowerLoss
  PROVE  Held(q)'
<1>0. /\ disk \in DiskRecord /\ call.value \in Nat /\ cut \in Nat /\ Tolerated \in Nat
      /\ disk.target \in Nat /\ disk.bak \in Nat /\ disk.tmp \in Nat
  BY Fields DEF TypeInv, Typed
<1>1. CASE CardStep
  <2>1. SameJournals /\ cut' = cut
    BY <1>1, CardStepFrame
  <2>2. pc \notin Updating \cup {"drop_tmp", "drop_target", "restore"}
    BY <1>1 DEF CardStep, MountStep, RepairStep, ReturnStep, OtherTask,
       StartStep,
       Boot, Remount, MountFails, RetentionRescan, RecoverRepairCopy, Scan,
       RepairCopy, RepairUnlink, RepairRename, RecoverNext, AppendReturn,
       ReserveReturn, AdvanceReturn, RecoverReturn, Upload, Heartbeat,
       CheckpointRemoval, PrepareRemoval, Reconcile, RecoverJournal, Append_,
       AppendIf, AdvanceSequenceFloor, Reserve, Updating
  <2>3. pc' \notin (Updating \ {"remove_tmp"}) \cup {"drop_tmp", "drop_target", "restore"}
    <3>1. CASE MountStep \/ RepairStep
      BY <3>1 DEF MountStep, RepairStep, Boot, Remount, MountFails,
         RetentionRescan,
         StartMount, RecoverRepairCopy, Scan, RepairCopy, RepairUnlink, RepairRename, Updating
    <3>2. CASE RecoverNext \/ ReturnStep
      BY <3>2 DEF RecoverNext, RecoverFailed, ReturnStep, AppendReturn,
         ReserveReturn,
         AdvanceReturn, RecoverReturn, Updating
    <3>3. CASE OtherTask
      BY <3>3 DEF OtherTask, Upload, Heartbeat, CheckpointRemoval,
         PrepareRemoval,
         Reconcile, Updating
    <3>4. CASE StartStep
      BY <3>4 DEF StartStep, RecoverJournal, Append_, AppendIf,
         AdvanceSequenceFloor,
         Reserve, StartPersist, Updating
    <3>. QED  BY <1>1, <3>1, <3>2, <3>3, <3>4 DEF CardStep
  <2>. QED  BY <2>1, <2>2, <2>3 DEF Held, SameJournals, Updating
<1>2. CASE PersistSequence
  <2>. USE DEF JournalStep, JournalFails, Interrupted, Held, ValueAbove, Updating,
       JournalSound, Shape
  <2>1. CASE RemoveTmp
    BY <1>0, <2>1 DEF RemoveTmp, DiskRecord
  <2>2. CASE WriteTmp
    <3>1. disk'.target = disk.target /\ disk'.bak = disk.bak
      BY <1>0, <2>2 DEF WriteTmp, TornTmp, DiskRecord
    <3>. QED  BY <1>0, <2>2, <3>1 DEF WriteTmp
  <2>3. CASE DropTmp
    BY <1>0, <2>3 DEF DropTmp, DiskRecord
  <2>4. CASE RemoveBak
    BY <1>0, <2>4 DEF RemoveBak, DiskRecord
  <2>5. CASE BackupTarget
    <3>1. pc' = "install" => disk'.bak = disk.target
      BY <1>0, <2>5 DEF BackupTarget, DiskRecord
    <3>2. pc' # "install" => disk' = disk /\ pc' = "drop_tmp" /\ cut' # cut
      BY <1>0, <2>5 DEF BackupTarget
    <3>. QED  BY <1>0, <2>5, <3>1, <3>2 DEF BackupTarget
  <2>6. CASE InstallTmp
    <3>1. disk'.bak = disk.bak
      BY <1>0, <2>6 DEF InstallTmp, DiskRecord
    <3>. QED  BY <1>0, <2>6, <3>1 DEF InstallTmp
  <2>7. CASE VerifyTarget
    BY <1>0, <2>7 DEF VerifyTarget
  <2>8. CASE DropTarget
    BY <1>0, <2>8 DEF DropTarget, DiskRecord
  <2>9. CASE RestoreBackup
    <3>1. disk'.target = disk.bak \/ disk'.bak = disk.bak
      BY <1>0, <2>9 DEF RestoreBackup, DiskRecord
    <3>. QED  BY <1>0, <2>9, <3>1 DEF RestoreBackup
  <2>10. CASE RemoveOld
    <3>1. disk'.target = disk.target
      BY <1>0, <2>10 DEF RemoveOld, DiskRecord
    <3>. QED  BY <1>0, <2>10, <3>1 DEF RemoveOld, Confirmed
  <2>. QED
    BY <1>2, <2>1, <2>2, <2>3, <2>4, <2>5, <2>6, <2>7, <2>8, <2>9, <2>10
       DEF PersistSequence
<1>3. CASE PowerLoss
  <2>1. disk'.target = disk.target /\ disk'.bak = disk.bak
    BY <1>0, <1>3 DEF PowerLoss, TornTmp, DiskRecord
  <2>2. pc' = "off"
    BY <1>3 DEF PowerLoss
  <2>3. CASE pc \in JournalUpdates
    <3>1. cut' = 1 /\ cut = 0
      BY <1>0, <1>3, <2>3 DEF PowerLoss, Interrupted, JournalSound
    <3>. QED  BY <2>1, <2>2, <3>1 DEF Held
  <2>4. CASE pc \notin JournalUpdates
    <3>1. cut' = cut
      BY <1>3, <2>4 DEF PowerLoss
    <3>. QED  BY <2>1, <2>2, <2>4, <3>1 DEF Held, JournalUpdates
  <2>. QED  BY <2>3, <2>4
<1>. QED  BY <1>1, <1>2, <1>3

\* Interruptions that are tolerated after a step were tolerated before it.
LEMMA SoundBefore ==
  ASSUME TypeInv, JournalSound', CardStep \/ PersistSequence \/ PowerLoss
  PROVE  JournalSound
<1>. cut \in Nat /\ Tolerated \in Nat
  BY Fields
<1>1. CASE CardStep
  BY <1>1, CardStepFrame DEF JournalSound
<1>2. CASE PersistSequence
  BY <1>2 DEF PersistSequence, RemoveTmp, WriteTmp, DropTmp, RemoveBak,
     BackupTarget, InstallTmp, VerifyTarget, DropTarget, RestoreBackup,
     RemoveOld, JournalStep, JournalFails, Interrupted, Confirmed, JournalSound
<1>3. CASE PowerLoss
  BY <1>3 DEF PowerLoss, Interrupted, JournalSound
<1>. QED  BY <1>1, <1>2, <1>3

\* A recovery finds a next sequence: no journal and no line holds the largest.
LEMMA RecoverFinds ==
  ASSUME TypeInv, RecoverNext
  PROVE  LET committed == Larger(call.scan, JournalMaximum(disk)) IN
         /\ committed \in Nat /\ committed >= call.scan
         /\ committed >= disk.target /\ committed >= disk.tmp /\ committed >= disk.bak
         /\ ram' = [ram EXCEPT !.next = committed + 1, !.newest = call.scan,
                               !.writable = TRUE,
                               !.ready = IF call.mounting
                                         THEN bootFloor <= committed ELSE @]
         /\ IF call.mounting /\ bootFloor > committed
            THEN pc' = "advance" /\ call' = [NoCall EXCEPT !.op = "advance",
                                                           !.value = bootFloor]
            ELSE pc' = "idle" /\ call' = NoCall
<1>. DEFINE committed == Larger(call.scan, JournalMaximum(disk))
<1>1. call.scan \in Used /\ disk.target \in Used /\ disk.tmp \in Used /\ disk.bak \in Used
  BY DEF TypeInv, Typed, DiskRecord, CallRecord
<1>2. JournalMaximum(disk) \in Used /\ JournalMaximum(disk) >= disk.target
      /\ JournalMaximum(disk) >= disk.tmp /\ JournalMaximum(disk) >= disk.bak
  <2>1. Larger(disk.tmp, disk.bak) \in Used /\ Larger(disk.tmp, disk.bak) >= disk.tmp
        /\ Larger(disk.tmp, disk.bak) >= disk.bak
    BY <1>1, LargerType
  <2>2. JournalMaximum(disk) \in Used /\ JournalMaximum(disk) >= disk.target
        /\ JournalMaximum(disk) >= Larger(disk.tmp, disk.bak)
    BY <1>1, <2>1, LargerType DEF JournalMaximum
  <2>. QED  BY <1>1, <2>1, <2>2, SequenceBounds DEF Used
<1>3. committed \in Used /\ committed >= call.scan /\ committed >= JournalMaximum(disk)
  BY <1>1, <1>2, LargerType
<1>. HIDE DEF committed
<1>4. /\ committed \in Nat /\ committed # MaxSequence /\ committed >= disk.target
      /\ committed >= disk.tmp /\ committed >= disk.bak
  BY <1>1, <1>2, <1>3, SequenceBounds DEF Used
<1>. QED  BY <1>3, <1>4, Zenon DEF RecoverNext, committed

PromiseInv ==
  JournalSound =>
    /\ Held(promised)
    /\ ValueAbove(promised)
    /\ ram.writable /\ ~call.ok => ram.next > promised

(* With at most one failed card operation per replacement every step keeps the
   confirmed value readable from some journal file. *)
LEMMA PromiseStep ==
  ASSUME Tolerated <= 1, TypeInv, TypeInv', Shape, PromiseInv, [Next]_vars
  PROVE  PromiseInv'
<1>. SUFFICES ASSUME JournalSound'
              PROVE  /\ Held(promised)'
                     /\ ValueAbove(promised)'
                     /\ ram'.writable /\ ~call'.ok => ram'.next > promised'
  BY DEF PromiseInv
<1>. /\ disk \in DiskRecord /\ ram \in RamRecord /\ call \in CallRecord /\ StepInv
  BY DEF TypeInv, Typed
<1>0. /\ call.value \in Nat /\ promised \in Nat /\ ram.next \in Nat /\ cut \in Nat
      /\ disk.target \in Nat /\ disk.bak \in Nat /\ disk.tmp \in Nat
      /\ ram'.next \in Nat /\ ram'.next > 0 /\ call'.value \in Nat
      /\ disk'.target \in Nat /\ disk'.bak \in Nat
  <2>1. ram' \in RamRecord /\ call' \in CallRecord /\ disk' \in DiskRecord
    BY DEF TypeInv, Typed
  <2>2. Used \subseteq Nat /\ Sequence_ \subseteq Nat
    BY SequenceBounds DEF Used, Sequence_
  <2>3. /\ ram'.next \in Sequence_ \ {0} /\ call'.value \in Used
        /\ disk'.target \in Used /\ disk'.bak \in Used
    BY <2>1 DEF RamRecord, CallRecord, DiskRecord
  <2>4. ram'.next \in Nat /\ ram'.next # 0
    BY <2>2, <2>3
  <2>5. ram'.next > 0
    BY <2>4
  <2>. QED  BY Fields, <2>2, <2>3, <2>4, <2>5
<1>1. CASE CardStep
  <2>1. SameJournals /\ cut' = cut /\ promised' = promised
    BY <1>1, CardStepFrame
  <2>2. PICK q \in Nat : q = promised
    BY <1>0
  <2>3. JournalSound /\ Held(q) /\ ValueAbove(q) /\ (ram.writable /\ ~call.ok => ram.next > q)
    BY <1>1, <2>2, SoundBefore DEF PromiseInv
  <2>4. Held(q)'
    BY <1>1, <2>3, HeldStep
  <2>. SUFFICES /\ ValueAbove(q)'
                /\ ram'.writable /\ ~call'.ok => ram'.next > q
    BY <2>1, <2>2, <2>4 DEF Held, ValueAbove
  <2>5. CASE MountStep \/ RepairStep
    <3>1. pc' \notin Updating
      BY <2>5 DEF MountStep, RepairStep, Boot, Remount, MountFails,
         RetentionRescan,
         StartMount, RecoverRepairCopy, Scan, RepairCopy, RepairUnlink, RepairRename,
         Updating
    <3>2. ram'.writable => ram.writable /\ ram'.next = ram.next
      BY <2>5 DEF MountStep, RepairStep, Boot, Remount, MountFails,
         RetentionRescan,
         StartMount, RecoverRepairCopy, Scan, RepairCopy, RepairUnlink, RepairRename,
         RamRecord
    <3>3. ~call.ok
      BY <2>5 DEF MountStep, RepairStep, Boot, Remount, MountFails,
         RetentionRescan,
         RecoverRepairCopy, Scan, RepairCopy, RepairUnlink, RepairRename, Shape
    <3>. QED  BY <2>3, <3>1, <3>2, <3>3 DEF ValueAbove
  <2>6. CASE RecoverNext
    <3>1. pc \notin Updating /\ pc' \notin Updating
      BY <2>6 DEF RecoverNext, RecoverFailed, Updating
    <3>2. disk.target >= q \/ disk.bak >= q
      BY <2>3, <3>1, HeldOutside
    <3>3. ram'.next > q
      <4>. DEFINE committed == Larger(call.scan, JournalMaximum(disk))
      <4>1. /\ committed \in Nat /\ committed >= disk.target /\ committed >= disk.bak
            /\ ram' = [ram EXCEPT !.next = committed + 1, !.newest = call.scan,
                               !.writable = TRUE,
                               !.ready = IF call.mounting
                                         THEN bootFloor <= committed ELSE @]
        BY <2>6, RecoverFinds
      <4>. HIDE DEF committed
      <4>2. ram'.next = committed + 1
        BY <4>1 DEF RamRecord
      <4>. QED  BY <1>0, <3>2, <4>1, <4>2
    <3>. QED  BY <3>1, <3>3 DEF ValueAbove
  <2>7. CASE ReturnStep
    <3>1. pc = "persisted" /\ pc' \notin Updating
      BY <2>7 DEF ReturnStep, AppendReturn, ReserveReturn, AdvanceReturn,
         RecoverReturn, RecoverFailed, Updating
    <3>2. call.ok => call.value >= q
      <4>1. call.ok => cut = 0 /\ disk.target = call.value
        BY <2>3, <3>1 DEF Shape
      <4>. QED  BY <2>3, <3>1, <4>1 DEF Held
    <3>3. CASE AppendReturn
      <4>1. call.value = ram.next
        BY <3>1, <3>3 DEF AppendReturn, Shape, JournalUpdates
      <4>2. \/ ram' = ram /\ ~call.ok
            \/ ram' = [ram EXCEPT !.next = call.value + 1, !.newest = call.value]
        BY <3>3 DEF AppendReturn
      <4>3. /\ ram'.writable => ram.writable
            /\ (ram' = ram /\ ~call.ok) \/ ram'.next = call.value + 1
        BY <4>2 DEF RamRecord
      <4>4. ASSUME ram'.writable PROVE ram'.next > q
        <5>1. CASE call.ok
          BY <1>0, <3>2, <4>2, <4>3, <4>4, <5>1
        <5>2. CASE ~call.ok
          <6>1. ram.next > q
            BY <2>3, <4>3, <4>4, <5>2
          <6>. QED  BY <1>0, <4>1, <4>3, <4>4, <6>1
        <5>. QED  BY <5>1, <5>2
      <4>. QED  BY <3>1, <4>4 DEF ValueAbove
    <3>4. CASE ReserveReturn
      <4>1. \/ ram' = ram /\ ~call.ok
            \/ ram' = [ram EXCEPT !.next = call.value + 1, !.newest = Larger(@, call.value)] /\ call.ok
        BY <3>4 DEF ReserveReturn
      <4>2. (ram' = ram /\ ~call.ok) \/ (ram'.next = call.value + 1 /\ call.ok)
        BY <4>1 DEF RamRecord
      <4>. QED  BY <1>0, <2>3, <3>1, <3>2, <4>2 DEF ValueAbove
    <3>5. CASE AdvanceReturn
      <4>1. ram'.writable = ram.writable /\ ram'.next = IF call.ok THEN call.value + 1 ELSE ram.next
        BY <3>5 DEF AdvanceReturn, RamRecord
      <4>. QED  BY <1>0, <2>3, <3>1, <3>2, <4>1 DEF ValueAbove
    <3>6. CASE RecoverReturn
      <4>1. CASE call.ok
        BY <3>1, <3>6, <4>1 DEF RecoverReturn, ValueAbove
      <4>2. CASE ~call.ok
        <5>1. ram'.writable => ram' = ram
          BY <3>6, <4>2 DEF RecoverReturn, RecoverFailed, RamRecord
        <5>. QED  BY <2>3, <3>1, <4>2, <5>1 DEF ValueAbove
      <4>. QED  BY <4>1, <4>2
    <3>. QED  BY <2>7, <3>3, <3>4, <3>5, <3>6 DEF ReturnStep
  <2>8. CASE OtherTask
    <3>1. pc' \notin Updating /\ ~call.ok
      BY <2>8 DEF OtherTask, Upload, Heartbeat, CheckpointRemoval,
         PrepareRemoval,
         Reconcile, Updating, Shape
    <3>2. ram'.writable => ram' = ram
      BY <2>8 DEF OtherTask, Upload, Heartbeat, CheckpointRemoval,
         PrepareRemoval,
         Reconcile, RamRecord
    <3>. QED  BY <2>3, <3>1, <3>2 DEF ValueAbove
  <2>9. CASE StartStep
    <3>1. pc \notin Updating /\ ~call.ok
      BY <2>9 DEF StartStep, RecoverJournal, Append_, AppendIf,
         AdvanceSequenceFloor,
         Reserve, Updating, Shape
    <3>2. ram'.writable => ram.writable /\ ram'.next = ram.next
      BY <2>9 DEF StartStep, RecoverJournal, Append_, AppendIf,
         AdvanceSequenceFloor,
         Reserve, RamRecord
    <3>3. ValueAbove(q)'
      <4>1. CASE RecoverJournal
        <5>1. pc' \in Updating => call'.value = JournalMaximum(disk)
          BY <4>1 DEF RecoverJournal, StartPersist, CallRecord, Updating
        <5>2. disk.target >= q \/ disk.bak >= q
          BY <2>3, <3>1, HeldOutside
        <5>3. JournalMaximum(disk) >= q
          BY <1>0, <5>2 DEF JournalMaximum, Larger
        <5>. QED  BY <5>1, <5>3 DEF ValueAbove
      <4>2. CASE Append_
        <5>1. pc' \in Updating => ram.writable /\ call'.value = ram.next
          BY <4>2 DEF Append_, AppendIf, CanWrite, NoCall, Updating
        <5>. QED  BY <1>0, <2>3, <3>1, <5>1 DEF ValueAbove
      <4>3. CASE AdvanceSequenceFloor
        <5>1. pc' \in Updating => /\ ram.writable /\ call.value > SequenceFloor
                                  /\ call'.value = call.value
          BY <4>3 DEF AdvanceSequenceFloor, StartPersist, CallRecord, Updating
        <5>. QED  BY <1>0, <2>3, <3>1, <5>1, Fields DEF ValueAbove
      <4>4. ASSUME NEW count \in 1..MaxReserve, Reserve(count) PROVE ValueAbove(q)'
        <5>1. ram.writable /\ call'.value = SequenceFloor + count
          BY <4>4 DEF Reserve, CanWrite, NoCall
        <5>2. count \in Nat /\ count >= 1
          BY SequenceBounds
        <5>. QED  BY <1>0, <2>3, <3>1, <5>1, <5>2, Fields DEF ValueAbove
      <4>. QED  BY <2>9, <4>1, <4>2, <4>3, <4>4 DEF StartStep
    <3>. QED  BY <2>3, <3>1, <3>2, <3>3
  <2>. QED  BY <1>1, <2>5, <2>6, <2>7, <2>8, <2>9 DEF CardStep
<1>2. CASE PersistSequence
  <2>1. JournalSound
    BY <1>2, SoundBefore
  <2>2. ram' = ram /\ call'.value = call.value
    BY <1>2, PersistCallFrame
  <2>3. CASE ~RemoveOld
    <3>1. promised' = promised /\ (pc' \in Updating => pc \in Updating) /\ (call.ok => call'.ok)
      BY <1>2, <2>3 DEF PersistSequence, RemoveTmp, WriteTmp, DropTmp,
         RemoveBak,
         BackupTarget, InstallTmp, VerifyTarget, DropTarget, RestoreBackup,
         JournalStep, JournalFails, Updating, CallRecord, ghosts
    <3>2. PICK q \in Nat : q = promised
      BY <1>0
    <3>3. Held(q)'
      BY <1>2, <2>1, <3>2, HeldStep DEF PromiseInv
    <3>4. Held(promised)'
      BY <3>1, <3>2, <3>3 DEF Held
    <3>. QED  BY <2>1, <2>2, <3>1, <3>4 DEF PromiseInv, ValueAbove
  <2>4. CASE RemoveOld
    <3>1. /\ pc = "remove_old" /\ pc' = "persisted" /\ cut' = 0
          /\ promised' = Larger(promised, call.value) /\ call' = call
      BY <1>0, <2>1, <2>4, Fields DEF RemoveOld, Confirmed, JournalSound
    <3>2. disk'.target = disk.target
      BY <2>4 DEF RemoveOld, DiskRecord
    <3>3. disk.target = call.value /\ call.value >= promised /\ call.ok
      BY <2>1, <3>1 DEF PromiseInv, ValueAbove, Updating, Shape
    <3>4. promised' = call.value
      BY <1>0, <3>1, <3>3 DEF Larger
    <3>. QED  BY <1>0, <3>1, <3>2, <3>3, <3>4 DEF Held, ValueAbove, Updating
  <2>. QED  BY <2>3, <2>4
<1>3. CASE PowerLoss
  <2>1. promised' = promised /\ pc' = "off" /\ ram' = ColdRam
    BY <1>3 DEF PowerLoss, ghosts
  <2>2. PICK q \in Nat : q = promised
    BY <1>0
  <2>3. Held(q)'
    BY <1>3, <2>2, HeldStep, SoundBefore DEF PromiseInv
  <2>4. Held(promised)'
    BY <2>1, <2>2, <2>3 DEF Held
  <2>. QED  BY <2>1, <2>4 DEF ValueAbove, Updating, ColdRam
<1>4. CASE ReplaceCard
  <2>1. promised' = 0
    BY <1>4 DEF ReplaceCard
  <2>. QED  BY <1>0, <2>1 DEF Held, ValueAbove
<1>5. CASE UNCHANGED vars
  BY <1>5 DEF vars, PromiseInv, JournalSound, Held, ValueAbove
<1>. QED  BY <1>1, <1>2, <1>3, <1>4, <1>5, NextCases

-----------------------------------------------------------------------------
(* Theorems: the type invariant and the promise of the journals             *)

\* What every step of a journal update rests on: the types and the shape.
UpdateInv == TypeInv /\ Shape

(* Types and shape hold in every reachable state, with no hypothesis. *)
LEMMA UpdateInvariant == Spec => []UpdateInv
<1>1. Init => UpdateInv
  BY TypeInit, ShapeInit DEF UpdateInv
<1>2. UpdateInv /\ [Next]_vars => UpdateInv'
  BY TypeStep, ShapeStep DEF UpdateInv
<1>. QED  BY <1>1, <1>2, PTL DEF Spec

\* Type correctness: no sequence, journal value or floor ever leaves uint64,
\* whatever fails and however often.
THEOREM TypeCorrect == Spec => []TypeOK
<1>1. UpdateInv => TypeOK
  BY TypedIsTypeOK DEF UpdateInv, TypeInv
<1>. QED  BY <1>1, UpdateInvariant, PTL

\* At every step one of the three journal files holds a confirmed value.
LEMMA HeldSomewhere ==
  ASSUME Tolerated <= 1, TypeInv, Shape, NEW q \in Nat, JournalSound, Held(q),
         ValueAbove(q)
  PROVE  q <= JournalMaximum(disk)
<1>0. /\ disk.target \in Nat /\ disk.bak \in Nat /\ disk.tmp \in Nat
      /\ call.value \in Nat /\ cut \in {0, 1}
  BY Fields DEF JournalSound
<1>1. disk.target >= q \/ disk.bak >= q \/ disk.tmp >= q
  <2>1. CASE pc \in {"backup", "install"}
    BY <1>0, <2>1 DEF Shape, ValueAbove, Updating
  <2>2. CASE pc \in {"verify", "remove_old"}
    BY <1>0, <2>2 DEF Shape, ValueAbove, Updating
  <2>3. CASE pc \notin {"backup", "install", "verify", "remove_old"}
    BY <1>0, <2>3 DEF Held
  <2>. QED  BY <2>1, <2>2, <2>3
<1>. QED  BY <1>0, <1>1 DEF JournalMaximum, Larger

\* A confirmed journal value is never lost: at every instant one of the three
\* journal files holds a value at least as large, for every set of failing FAT
\* operations, when an update may be cut short once between two confirmed
\* ones (JournalKeepsPromise).  One is the limit of persistSequence().
THEOREM ConfirmedValueKept ==
  ASSUME Tolerated <= 1
  PROVE  Spec => []JournalKeepsPromise
<1>1. Init => PromiseInv
  BY DEF Init, PromiseInv, Held, ValueAbove, Updating, BlankCard, ColdRam,
     NoCall
<1>2. UpdateInv /\ UpdateInv' /\ PromiseInv /\ [Next]_vars => PromiseInv'
  BY PromiseStep DEF UpdateInv
<1>3. UpdateInv /\ PromiseInv => JournalKeepsPromise
  <2>. SUFFICES ASSUME UpdateInv, PromiseInv, JournalSound
                PROVE  promised <= JournalMaximum(disk)
    BY DEF JournalKeepsPromise
  <2>. PICK q \in Nat : q = promised
    BY Fields DEF UpdateInv
  <2>. QED  BY HeldSomewhere DEF UpdateInv, PromiseInv
<1>. QED  BY <1>1, <1>2, <1>3, UpdateInvariant, PTL DEF Spec

-----------------------------------------------------------------------------
(* Records                                                                  *)

\* The lines a mount will find: those of the record file, or of the .repair
\* copy that takes its place.
Content == IF disk.file = NoFile THEN disk.repair ELSE disk.file
Stored == Readable(Content)

(* A sequence over a set is a sequence over any larger one. *)
LEMMA SeqMonotone ==
  ASSUME NEW A, NEW B, A \subseteq B
  PROVE  Seq(A) \subseteq Seq(B)
  OBVIOUS

\* A file is never the absence of one.
LEMMA FileExists == \A s \in Seq(Used) : s # NoFile
<1>1. Used \subseteq Nat
  BY SequenceBounds DEF Used
<1>2. Seq(Used) \subseteq Seq(Nat)
  BY <1>1, SeqMonotone
<1>. QED  BY <1>2, FileAssumption

(* A missing record file has no readable record and no corrupt line. *)
LEMMA NoFileIsEmpty == Readable(NoFile) = {} /\ ~HasCorruptLine(NoFile)
  BY DEF Readable, Lines, HasCorruptLine

\* A file opened for writing has the lines it had.
LEMMA LinesOfFile ==
  ASSUME NEW f \in UsedFile
  PROVE  /\ Lines(f) \in Seq(Used) /\ Lines(f) # NoFile
         /\ f # NoFile => Lines(f) = f
         /\ Readable(Lines(f)) = Readable(f)
         /\ HasCorruptLine(Lines(f)) <=> HasCorruptLine(f)
<1>1. Lines(f) \in Seq(Used) /\ Lines(f) # NoFile
  BY LinesType, FileExists
<1>2. Lines(Lines(f)) = Lines(f) /\ (f # NoFile => Lines(f) = f)
  BY <1>1 DEF Lines
<1>. QED  BY <1>1, <1>2 DEF Readable, HasCorruptLine

\* An appended record adds its sequence to the readable ones.
LEMMA AppendedLine ==
  ASSUME NEW f \in UsedFile, NEW s \in Used, s # Corrupt
  PROVE  /\ Append(Lines(f), s) # NoFile
         /\ Readable(Append(Lines(f), s)) = Readable(f) \cup {s}
         /\ ~HasCorruptLine(f) => ~HasCorruptLine(Append(Lines(f), s))
<1>. DEFINE l == Lines(f)
            a == Append(l, s)
<1>1. l \in Seq(Used)
  BY LinesOfFile
<1>. HIDE DEF l
<1>2. /\ a \in Seq(Used) /\ Len(a) = Len(l) + 1 /\ Len(l) \in Nat
      /\ \A i \in 1..Len(l) : a[i] = l[i]
      /\ a[Len(l) + 1] = s
  BY <1>1
<1>3. a # NoFile
  BY <1>2, FileExists
<1>. HIDE DEF a
<1>4. Lines(a) = a /\ Lines(f) = l
  BY <1>3 DEF Lines, l
<1>5. 1..Len(a) = 1..Len(l) \cup {Len(l) + 1}
  BY <1>2
<1>6. {a[i] : i \in 1..Len(a)} = {l[i] : i \in 1..Len(l)} \cup {s}
  BY <1>2, <1>5
<1>7. Readable(a) = {a[i] : i \in 1..Len(a)} \ {Corrupt}
      /\ Readable(f) = {l[i] : i \in 1..Len(l)} \ {Corrupt}
  BY <1>4 DEF Readable
<1>8. Readable(a) = Readable(f) \cup {s}
  BY <1>6, <1>7
<1>9. ~HasCorruptLine(f) => ~HasCorruptLine(a)
  BY <1>2, <1>4, <1>5 DEF HasCorruptLine
<1>. QED  BY <1>3, <1>8, <1>9 DEF a, l

\* Without failures of the repair itself: no line is ever undecodable, a torn
\* tail is met only before the repair that removes it, the .repair copy is the
\* only copy only while that repair or the next mount renames it back, and
\* what append() confirmed is stored.
RepairInv ==
  /\ ~HasCorruptLine(disk.file) /\ ~HasCorruptLine(disk.repair)
  /\ disk.torn =>
       /\ ~ram.writable /\ disk.file # NoFile
       /\ pc \in {"off", "idle", "recover_repair", "scan", "repair_copy",
                  "repair_unlink", "advance"}
  /\ disk.file = NoFile /\ disk.repair # NoFile =>
       /\ ~ram.writable
       /\ pc \in {"off", "idle", "advance", "recover_repair", "repair_rename"}
  /\ pc \in {"repair_copy", "repair_unlink"} => disk.torn
  /\ pc = "repair_unlink" => disk.repair = disk.file
  /\ pc = "repair_rename" => disk.file = NoFile /\ disk.repair # NoFile

StoredInv ==
  /\ kept \subseteq Stored
  /\ pc \in JournalUpdates /\ call.op \in {"append", "bound_append"} =>
       call.value \in Stored

\* How a step changes the records.
LEMMA RecordSteps ==
  ASSUME TypeInv, [Next]_vars
  PROVE  SameRecords \/ RepairStep \/ Append_ \/ ReplaceCard
<1>. disk \in DiskRecord
  BY DEF TypeInv, Typed
<1>. SUFFICES ASSUME CardStep \/ UNCHANGED vars, ~RepairStep, ~Append_
              PROVE  SameRecords
  BY NextCases, PersistFrame
<1>1. CASE MountStep \/ RecoverNext \/ ReturnStep
  BY <1>1 DEF MountStep, Boot, Remount, MountFails, RetentionRescan,
     RecoverNext,
     ReturnStep, AppendReturn, ReserveReturn, AdvanceReturn, RecoverReturn, SameRecords
<1>2. CASE OtherTask
  BY <1>2 DEF OtherTask, Upload, Heartbeat, CheckpointRemoval, PrepareRemoval,
     Reconcile, SameRecords
<1>3. CASE StartStep
  BY <1>3 DEF StartStep, RecoverJournal, AdvanceSequenceFloor, Reserve,
     SameRecords
<1>4. CASE UNCHANGED vars
  BY <1>4 DEF vars, SameRecords
<1>. QED  BY <1>1, <1>2, <1>3, <1>4 DEF CardStep

(* Every step keeps a repair copy complete for as long as it can be renamed. *)
LEMMA RepairInvStep ==
  ASSUME "repair_io" \notin Faults, TypeInv, RepairInv, [Next]_vars
  PROVE  RepairInv'
<1>0. /\ disk \in DiskRecord /\ ram \in RamRecord /\ StepInv
      /\ disk.file \in UsedFile /\ disk.repair \in UsedFile
  BY Fields DEF TypeInv, Typed
<1>1. CASE RecoverRepairCopy
  <2>1. pc = "recover_repair" /\ pc' = "scan" /\ ram' = ram
    BY <1>1 DEF RecoverRepairCopy
  <2>2. CASE disk.repair = NoFile
    <3>1. disk' = disk
      BY <1>1, <2>2 DEF RecoverRepairCopy
    <3>. QED  BY <2>1, <2>2, <3>1 DEF RepairInv
  <2>3. CASE disk.repair # NoFile /\ disk.file # NoFile
    <3>1. disk'.file = disk.file /\ disk'.repair = NoFile /\ disk'.torn = disk.torn
      BY <1>0, <1>1, <2>3 DEF RecoverRepairCopy, DiskRecord
    <3>. QED  BY <2>1, <2>3, <3>1, NoFileIsEmpty DEF RepairInv
  <2>4. CASE disk.repair # NoFile /\ disk.file = NoFile
    <3>1. disk'.file = disk.repair /\ disk'.repair = NoFile /\ disk'.torn = FALSE
      BY <1>0, <1>1, <2>4 DEF RecoverRepairCopy, DiskRecord
    <3>. QED  BY <2>1, <2>4, <3>1, NoFileIsEmpty DEF RepairInv
  <2>. QED  BY <2>2, <2>3, <2>4
<1>2. CASE Scan
  <2>1. /\ pc = "scan" /\ pc' = (IF disk.torn THEN "repair_copy" ELSE "journal")
        /\ disk' = disk /\ ram' = ram
    BY <1>2 DEF Scan, RepairInv
  <2>. QED  BY <2>1 DEF RepairInv
<1>3. CASE RepairCopy
  <2>1. pc = "repair_copy" /\ pc' = "repair_unlink" /\ ram' = ram
    BY <1>3 DEF RepairCopy, MayFail
  <2>2. disk'.file = disk.file /\ disk'.repair = Lines(disk.file) /\ disk'.torn = disk.torn
    BY <1>0, <1>3 DEF RepairCopy, MayFail, DiskRecord
  <2>3. Lines(disk.file) = disk.file
    BY <1>0, <2>1, LinesOfFile DEF RepairInv
  <2>. QED  BY <2>1, <2>2, <2>3 DEF RepairInv
<1>4. CASE RepairUnlink
  <2>1. pc = "repair_unlink" /\ pc' = "repair_rename" /\ ram' = ram
    BY <1>4 DEF RepairUnlink, MayFail
  <2>2. disk'.file = NoFile /\ disk'.repair = disk.repair /\ disk'.torn = FALSE
    BY <1>0, <1>4 DEF RepairUnlink, MayFail, DiskRecord
  <2>3. ~ram.writable
    BY <2>1 DEF RepairInv
  <2>. QED  BY <2>1, <2>2, <2>3, NoFileIsEmpty DEF RepairInv
<1>5. CASE RepairRename
  <2>1. pc = "repair_rename" /\ pc' = "journal"
    BY <1>5 DEF RepairRename
  <2>2. disk'.file = disk.repair /\ disk'.repair = NoFile /\ disk'.torn = disk.torn
    BY <1>0, <1>5 DEF RepairRename, MayFail, DiskRecord
  <2>. QED  BY <2>1, <2>2, NoFileIsEmpty DEF RepairInv
<1>6. CASE Append_
  <2>1. pc = "idle" /\ ram.writable /\ ~disk.torn /\ ~(disk.file = NoFile /\ disk.repair # NoFile)
    BY <1>6 DEF Append_, AppendIf, CanWrite, RepairInv
  <2>2. CASE disk' = WriteRecord(ram.next)
    <3>1. ram.next \in Used /\ ram.next # Corrupt
      <4>1. ram.next \in Sequence_ \ {0} /\ ram.next # MaxSequence
        BY <1>0, <1>6 DEF RamRecord, Append_, AppendIf
      <4>. QED  BY <4>1, SequenceBounds DEF Used, Sequence_, Corrupt
    <3>2. /\ disk'.file = Append(Lines(disk.file), ram.next)
          /\ disk'.repair = disk.repair /\ disk'.torn = FALSE
      BY <1>0, <2>1, <2>2 DEF WriteRecord, DiskRecord
    <3>3. disk'.file # NoFile /\ ~HasCorruptLine(disk'.file)
      BY <1>0, <3>1, <3>2, AppendedLine DEF RepairInv
    <3>4. pc' \in {"remove_tmp", "idle"}
      BY <1>6 DEF Append_, AppendIf
    <3>. QED  BY <3>2, <3>3, <3>4 DEF RepairInv
  <2>3. CASE /\ disk' = [disk EXCEPT !.torn = TRUE, !.file = Lines(@)]
             /\ ram' = [ram EXCEPT !.writable = FALSE] /\ pc' = pc
    <3>1. disk'.file = Lines(disk.file) /\ disk'.repair = disk.repair /\ ~ram'.writable
      BY <1>0, <2>3 DEF DiskRecord, RamRecord
    <3>2. disk'.file # NoFile /\ ~HasCorruptLine(disk'.file)
      BY <1>0, <3>1, LinesOfFile DEF RepairInv
    <3>. QED  BY <2>1, <2>3, <3>1, <3>2 DEF RepairInv
  <2>. QED  BY <1>6, <2>2, <2>3 DEF Append_, AppendIf
<1>7. CASE ReplaceCard
  <2>1. disk' = BlankCard /\ pc' \in {"off", "idle"}
    BY <1>7 DEF ReplaceCard
  <2>2. BlankCard.file = NoFile /\ BlankCard.repair = NoFile /\ BlankCard.torn = FALSE
    BY DEF BlankCard
  <2>. QED  BY <2>1, <2>2, NoFileIsEmpty DEF RepairInv
<1>8. CASE SameRecords /\ ~RepairStep /\ ~Append_ /\ ~ReplaceCard
  <2>1. CASE PersistSequence
    <3>1. pc \in JournalUpdates /\ pc' \in JournalUpdates
      BY <2>1, PersistCallFrame
    <3>. QED  BY <1>8, <3>1 DEF RepairInv, SameRecords, JournalUpdates
  <2>2. CASE PowerLoss
    <3>1. pc' = "off" /\ ~ram'.writable
      BY <2>2 DEF PowerLoss, ColdRam
    <3>. QED  BY <1>8, <3>1 DEF RepairInv, SameRecords
  <2>3. CASE MountStep
    <3>1. \/ pc' = "recover_repair" /\ ~ram'.writable
          \/ pc' = "idle" /\ ram'.writable = ram.writable
          \/ pc' = "scan" /\ ram.writable /\ ram' = ram
      BY <1>0, <2>3 DEF MountStep, Boot, Remount, MountFails, RetentionRescan,
         StartMount, CanWrite, RamRecord
    <3>. QED  BY <1>8, <3>1 DEF RepairInv, SameRecords
  <2>4. CASE RecoverNext \/ ReturnStep
    <3>1. pc \in {"next", "persisted"} /\ pc' \in {"idle", "advance", "next"}
      BY <2>4 DEF RecoverNext, RecoverFailed, ReturnStep, AppendReturn,
         ReserveReturn,
         AdvanceReturn, RecoverReturn
    <3>. QED  BY <1>8, <3>1 DEF RepairInv, SameRecords
  <2>5. CASE OtherTask
    <3>1. pc = "idle" /\ pc' \in {"idle", "advance"} /\ (ram'.writable => ram.writable)
      BY <1>0, <2>5 DEF OtherTask, Upload, Heartbeat, CheckpointRemoval,
         PrepareRemoval,
         Reconcile, RamRecord
    <3>. QED  BY <1>8, <3>1 DEF RepairInv, SameRecords
  <2>6. CASE StartStep
    <3>1. \/ pc = "journal" /\ pc' \in {"remove_tmp", "next"}
          \/ pc = "advance" /\ pc' = "idle" /\ ram'.writable = ram.writable
          \/ ram.writable /\ pc' = "remove_tmp" /\ ram' = ram
      BY <1>0, <1>8, <2>6 DEF StartStep, RecoverJournal, AdvanceSequenceFloor,
         Reserve, CanWrite, StartPersist, RamRecord
    <3>. QED  BY <1>8, <3>1 DEF RepairInv, SameRecords
  <2>7. CASE UNCHANGED vars
    BY <2>7 DEF vars, RepairInv
  <2>. QED
    BY <1>8, <2>1, <2>2, <2>3, <2>4, <2>5, <2>6, <2>7, NextCases DEF CardStep
<1>. QED
  BY <1>1, <1>2, <1>3, <1>4, <1>5, <1>6, <1>7, <1>8, RecordSteps DEF RepairStep

\* The steps keep the readable records; an append adds one.
LEMMA StoredStep ==
  ASSUME "repair_io" \notin Faults, TypeInv, RepairInv, [Next]_vars
  PROVE  \/ Stored' = Stored /\ ~(Append_ /\ pc' = "remove_tmp")
         \/ Append_ /\ pc' = "remove_tmp" /\ Stored' = Stored \cup {ram.next}
         \/ ReplaceCard /\ Stored' = {}
<1>0. /\ disk \in DiskRecord /\ ram \in RamRecord
      /\ disk.file \in UsedFile /\ disk.repair \in UsedFile
  BY Fields DEF TypeInv, Typed
<1>1. CASE SameRecords /\ ~Append_
  <2>1. Content' = Content
    BY <1>1 DEF SameRecords, Content
  <2>. QED  BY <1>1, <2>1 DEF Stored
<1>2. CASE RepairStep
  <2>1. pc' # "remove_tmp"
    BY <1>2 DEF RepairStep, RecoverRepairCopy, Scan, RepairCopy, RepairUnlink,
       RepairRename
  <2>2. Content' = Content
    <3>1. CASE RecoverRepairCopy
      <4>1. CASE disk.repair = NoFile
        BY <3>1, <4>1 DEF RecoverRepairCopy, Content
      <4>2. CASE disk.repair # NoFile /\ disk.file # NoFile
        <5>1. disk'.file = disk.file
          BY <1>0, <3>1, <4>2 DEF RecoverRepairCopy, DiskRecord
        <5>. QED  BY <4>2, <5>1 DEF Content
      <4>3. CASE disk.repair # NoFile /\ disk.file = NoFile
        <5>1. disk'.file = disk.repair
          BY <1>0, <3>1, <4>3 DEF RecoverRepairCopy, DiskRecord
        <5>. QED  BY <4>3, <5>1 DEF Content
      <4>. QED  BY <4>1, <4>2, <4>3
    <3>2. CASE Scan
      BY <3>2 DEF Scan, Content
    <3>3. CASE RepairCopy
      <4>1. disk'.file = disk.file /\ pc = "repair_copy"
        BY <1>0, <3>3 DEF RepairCopy, DiskRecord
      <4>. QED  BY <4>1 DEF Content, RepairInv
    <3>4. CASE RepairUnlink
      <4>1. disk'.file = NoFile /\ disk'.repair = disk.repair /\ pc = "repair_unlink"
        BY <1>0, <3>4 DEF RepairUnlink, MayFail, DiskRecord
      <4>. QED  BY <4>1 DEF Content, RepairInv
    <3>5. CASE RepairRename
      <4>1. disk'.file = disk.repair /\ pc = "repair_rename"
        BY <1>0, <3>5 DEF RepairRename, MayFail, DiskRecord
      <4>. QED  BY <4>1 DEF Content, RepairInv
    <3>. QED  BY <1>2, <3>1, <3>2, <3>3, <3>4, <3>5 DEF RepairStep
  <2>. QED  BY <2>1, <2>2 DEF Stored
<1>3. CASE Append_
  <2>1. /\ pc = "idle" /\ ~disk.torn /\ (disk.file = NoFile => disk.repair = NoFile)
        /\ ram.next # MaxSequence
    BY <1>3 DEF Append_, AppendIf, CanWrite, RepairInv
  <2>2. Stored = Readable(disk.file)
    BY <2>1 DEF Stored, Content
  <2>3. CASE disk' = WriteRecord(ram.next) /\ pc' = "remove_tmp"
    <3>1. ram.next \in Used /\ ram.next # Corrupt
      <4>1. ram.next \in Sequence_ \ {0}
        BY <1>0 DEF RamRecord
      <4>. QED  BY <2>1, <4>1, SequenceBounds DEF Used, Sequence_, Corrupt
    <3>2. disk'.file = Append(Lines(disk.file), ram.next)
      BY <1>0, <2>1, <2>3 DEF WriteRecord, DiskRecord
    <3>3. disk'.file # NoFile /\ Readable(disk'.file) = Readable(disk.file) \cup {ram.next}
      BY <1>0, <3>1, <3>2, AppendedLine
    <3>. QED  BY <1>3, <2>2, <2>3, <3>3 DEF Stored, Content
  <2>4. CASE disk' = [disk EXCEPT !.torn = TRUE, !.file = Lines(@)] /\ pc' = pc
    <3>1. disk'.file = Lines(disk.file)
      BY <1>0, <2>4 DEF DiskRecord
    <3>2. disk'.file # NoFile /\ Readable(disk'.file) = Readable(disk.file)
      BY <1>0, <3>1, LinesOfFile
    <3>. QED  BY <2>1, <2>2, <2>4, <3>2 DEF Stored, Content
  <2>. QED  BY <1>3, <2>3, <2>4 DEF Append_, AppendIf
<1>4. CASE ReplaceCard
  <2>1. disk'.file = NoFile /\ disk'.repair = NoFile
    BY <1>4 DEF ReplaceCard, BlankCard
  <2>. QED  BY <1>4, <2>1, NoFileIsEmpty DEF Stored, Content
<1>. QED  BY <1>1, <1>2, <1>3, <1>4, RecordSteps

(* Every step keeps the confirmed records readable in the file or its copy. *)
LEMMA KeptStep ==
  ASSUME "repair_io" \notin Faults, TypeInv, RepairInv, StoredInv, [Next]_vars
  PROVE  StoredInv'
<1>0. call \in CallRecord /\ StepInv
  BY DEF TypeInv, Typed
<1>1. CASE Append_ /\ pc' = "remove_tmp" /\ Stored' = Stored \cup {ram.next}
  <2>1. kept' = kept /\ call'.value = ram.next
    BY <1>1 DEF Append_, AppendIf, NoCall
  <2>. QED  BY <1>1, <2>1 DEF StoredInv
<1>2. CASE ReplaceCard
  <2>1. kept' = {} /\ pc' \in {"off", "idle"}
    BY <1>2 DEF ReplaceCard
  <2>. QED  BY <2>1 DEF StoredInv, JournalUpdates
<1>3. CASE Stored' = Stored /\ ~(Append_ /\ pc' = "remove_tmp") /\ ~ReplaceCard
  <2>. SUFFICES /\ kept' \subseteq Stored
                /\ pc' \in JournalUpdates /\ call'.op \in {"append", "bound_append"} =>
                     call'.value \in Stored
    BY <1>3 DEF StoredInv
  <2>1. CASE PersistSequence
    <3>1. /\ pc \in JournalUpdates /\ call'.op = call.op /\ call'.value = call.value
          /\ kept' = kept
      BY <2>1, PersistCallFrame
    <3>. QED  BY <3>1 DEF StoredInv
  <2>2. CASE PowerLoss
    <3>1. pc' = "off" /\ kept' = kept
      BY <2>2 DEF PowerLoss, ghosts
    <3>. QED  BY <3>1 DEF StoredInv, JournalUpdates
  <2>3. CASE MountStep \/ RepairStep
    <3>1. pc' \notin JournalUpdates /\ kept' = kept
      BY <2>3 DEF MountStep, RepairStep, Boot, Remount, MountFails,
         RetentionRescan,
         StartMount, RecoverRepairCopy, Scan, RepairCopy, RepairUnlink, RepairRename,
         JournalUpdates, ghosts
    <3>. QED  BY <3>1 DEF StoredInv
  <2>4. CASE RecoverNext \/ ReturnStep
    <3>1. pc' \notin JournalUpdates
      BY <2>4 DEF RecoverNext, RecoverFailed, ReturnStep, AppendReturn,
         ReserveReturn,
         AdvanceReturn, RecoverReturn, JournalUpdates
    <3>2. kept' = kept \/ (AppendReturn /\ kept' = kept \cup {call.value})
      BY <2>4 DEF RecoverNext, ReturnStep, AppendReturn, ReserveReturn,
         AdvanceReturn, RecoverReturn, ghosts
    <3>3. AppendReturn => call.value \in Stored
      BY DEF AppendReturn, StoredInv, JournalUpdates
    <3>. QED  BY <3>1, <3>2, <3>3 DEF StoredInv
  <2>5. CASE OtherTask
    <3>1. pc' \notin JournalUpdates /\ kept' = kept
      BY <2>5 DEF OtherTask, Upload, Heartbeat, CheckpointRemoval,
         PrepareRemoval,
         Reconcile, JournalUpdates, ghosts
    <3>. QED  BY <3>1 DEF StoredInv
  <2>6. CASE StartStep
    <3>1. kept' = kept
      BY <2>6 DEF StartStep, RecoverJournal, Append_, AppendIf,
         AdvanceSequenceFloor,
         Reserve, ghosts
    <3>2. pc' \in JournalUpdates => call'.op \in {"recover", "advance", "reserve"}
      <4>1. CASE RecoverJournal
        BY <1>0, <4>1 DEF RecoverJournal, StartPersist, StepInv, RecoverSteps,
           CallRecord,
           JournalUpdates
      <4>2. CASE AdvanceSequenceFloor
        BY <1>0, <4>2 DEF AdvanceSequenceFloor, StartPersist, StepInv,
           CallRecord,
           JournalUpdates
      <4>3. ASSUME NEW count \in 1..MaxReserve, Reserve(count) PROVE call'.op = "reserve"
        BY <4>3 DEF Reserve, NoCall
      <4>4. CASE Append_
        BY <1>3, <4>4 DEF Append_, AppendIf, JournalUpdates
      <4>. QED  BY <2>6, <4>1, <4>2, <4>3, <4>4 DEF StartStep
    <3>. QED  BY <3>1, <3>2 DEF StoredInv
  <2>7. CASE UNCHANGED vars
    BY <2>7 DEF vars, StoredInv
  <2>. QED
    BY <1>3, <2>1, <2>2, <2>3, <2>4, <2>5, <2>6, <2>7, NextCases DEF CardStep
<1>. QED  BY <1>1, <1>2, <1>3, StoredStep

\* A record whose append() returned true stays readable on its card, from the
\* record file or from the .repair copy, across power losses, short writes,
\* failed journal updates and failed mounts, while the repair of a torn tail
\* itself does not fail (DurableRecordsSurvive).
THEOREM ConfirmedRecordsKept ==
  ASSUME "repair_io" \notin Faults
  PROVE  Spec => []DurableRecordsSurvive
<1>1. Init => RepairInv /\ StoredInv
  BY NoFileIsEmpty DEF Init, RepairInv, StoredInv, BlankCard, ColdRam, NoCall,
     JournalUpdates
<1>2. TypeInv /\ RepairInv /\ StoredInv /\ [Next]_vars => RepairInv' /\ StoredInv'
  BY RepairInvStep, KeptStep
<1>3. StoredInv => DurableRecordsSurvive
  BY DEF StoredInv, DurableRecordsSurvive, Stored, Content
<1>4. Spec => []TypeInv
  BY UpdateInvariant, PTL DEF UpdateInv
<1>. QED  BY <1>1, <1>2, <1>3, <1>4, PTL DEF Spec

-----------------------------------------------------------------------------
(* Health flags and the values of an update                                 *)

\* A card that can be written is mounted; a remount is not writable until
\* recover() ends, and a rescan stays writable.  Without failures in
\* advanceSequenceFloor a writable card that is not ready is being advanced to
\* the floor of begin().
FlagInv ==
  /\ ram.writable => ram.mounted /\ ram.newest < ram.next
  /\ call.op = "recover" => ram.mounted /\ (ram.writable <=> ~call.mounting)
  /\ ram.writable /\ ~ram.ready =>
       /\ call.op = "advance" /\ call.value = bootFloor
       /\ pc \in JournalUpdates \cup {"advance"} /\ bootFloor > SequenceFloor
  /\ call.op = "advance" => /\ pc \notin {"drop_tmp", "drop_target", "restore"}
                            /\ pc = "persisted" => call.ok
  /\ pc \in JournalUpdates /\ call.op \in {"reserve", "advance"} =>
       call.value >= ram.next
  /\ call.op # "bound_append"
  /\ pc = "off" => ~ram.writable

\* The fields of the health that the calls rely on.
SameHealth ==
  /\ ram'.writable = ram.writable /\ ram'.ready = ram.ready
  /\ ram'.mounted = ram.mounted /\ ram'.next = ram.next /\ ram'.newest = ram.newest

\* The effects of the steps outside persistSequence() on the call and the
\* health.
LEMMA MountEffects ==
  ASSUME TypeInv, MountStep
  PROVE  \/ /\ pc \in {"off", "idle"} /\ pc' = "recover_repair"
            /\ ~ram'.writable /\ ram'.mounted /\ ~ram'.ready
            /\ ram'.next = ram.next /\ ram'.newest = ram.newest
            /\ call'.op = "recover" /\ call'.mounting /\ call'.scan = 0 /\ ~call'.ok
         \/ /\ pc = "recover_repair" /\ call.mounting /\ pc' = "idle" /\ call' = NoCall
            /\ ram'.writable = ram.writable /\ ram'.next = ram.next
            /\ ram'.newest = ram.newest /\ ram'.ready = ram.ready
         \/ /\ pc = "idle" /\ pc' = "scan" /\ ram' = ram /\ ram.writable /\ ram.mounted
            /\ call'.op = "recover" /\ ~call'.mounting /\ call'.scan = 0 /\ ~call'.ok
<1>. ram \in RamRecord
  BY DEF TypeInv, Typed
<1>1. CASE Boot \/ Remount
  <2>1. call' = [NoCall EXCEPT !.op = "recover", !.mounting = TRUE] /\ pc \in {"off", "idle"}
        /\ pc' = "recover_repair" /\ ram' = [ram EXCEPT !.mounted = TRUE, !.writable = FALSE,
                        !.removal = FALSE, !.ready = FALSE]
    BY <1>1 DEF Boot, Remount, StartMount
  <2>2. call'.op = "recover" /\ call'.mounting /\ call'.scan = 0 /\ ~call'.ok
    BY <2>1 DEF NoCall
  <2>. QED  BY <2>1, <2>2 DEF RamRecord
<1>2. CASE MountFails
  BY <1>2 DEF MountFails, RamRecord
<1>3. CASE RetentionRescan
  <2>1. call' = [NoCall EXCEPT !.op = "recover"]
    BY <1>3 DEF RetentionRescan
  <2>2. call'.op = "recover" /\ ~call'.mounting /\ call'.scan = 0 /\ ~call'.ok
    BY <2>1 DEF NoCall
  <2>. QED  BY <1>3, <2>2 DEF RetentionRescan, CanWrite
<1>. QED  BY <1>1, <1>2, <1>3 DEF MountStep

(* What a step of the scan and of the torn-tail repair leaves alone. *)
LEMMA RepairEffects ==
  ASSUME TypeInv, RepairStep
  PROVE  /\ pc \in RecoverSteps \ {"next", "journal"}
         /\ pc' \in RecoverSteps \ {"next", "recover_repair"}
         /\ ram' = ram /\ call'.op = call.op /\ call'.mounting = call.mounting
         /\ call'.value = call.value /\ call'.ok = call.ok
         /\ Scan \/ call' = call
<1>. call \in CallRecord
  BY DEF TypeInv, Typed
<1>. QED
  BY DEF RepairStep, RecoverRepairCopy, Scan, RepairCopy, RepairUnlink,
     RepairRename,
     RecoverSteps, CallRecord

(* What the steps of the upload, heartbeat and removal callers change. *)
LEMMA OtherEffects ==
  ASSUME TypeInv, OtherTask
  PROVE  /\ pc = "idle"
         /\ \/ pc' = "idle" /\ call' = NoCall
            \/ pc' = "advance" /\ call'.op = "advance" /\ call'.scan = 0 /\ ~call'.ok /\ ram' = ram
         /\ ram'.next = ram.next /\ ram'.newest = ram.newest /\ ram'.ready = ram.ready
         /\ \/ ram'.writable = ram.writable /\ ram'.mounted = ram.mounted
            \/ ~ram'.writable
<1>. ram \in RamRecord /\ StepInv
  BY DEF TypeInv, Typed
<1>1. CASE Upload \/ Heartbeat \/ CheckpointRemoval
  BY <1>1 DEF Upload, Heartbeat, CheckpointRemoval, StepInv
<1>2. CASE PrepareRemoval
  BY <1>2 DEF PrepareRemoval, StepInv, RamRecord
<1>3. CASE Reconcile
  <2>1. call' = [NoCall EXCEPT !.op = "advance", !.value = request.floor]
    BY <1>3 DEF Reconcile
  <2>2. call'.op = "advance" /\ call'.scan = 0 /\ ~call'.ok
    BY <2>1, CallStarts
  <2>. QED  BY <1>3, <2>2 DEF Reconcile
<1>. QED  BY <1>1, <1>2, <1>3 DEF OtherTask

\* The calls of persistSequence, and the calls that end without it.
LEMMA StartEffects ==
  ASSUME TypeInv, StartStep
  PROVE  \/ /\ RecoverJournal /\ pc = "journal" /\ pc' \in {"remove_tmp", "next"} /\ ram' = ram
            /\ call.op = "recover" /\ call'.op = "recover" /\ call'.mounting = call.mounting
            /\ call'.scan = call.scan
            /\ pc' = "remove_tmp" => call'.value = JournalMaximum(disk)
            /\ pc' = "next" => call' = call /\ disk.tmp = 0 /\ disk.bak = 0
         \/ /\ Append_ /\ pc = "idle" /\ ram.writable /\ ram.ready /\ ram' = ram
            /\ pc' = "remove_tmp" /\ call'.op \in {"append"} \cup ({"bound_append"} \cap Faults)
            /\ call'.value = ram.next /\ call'.scan = 0 /\ ~call'.ok
            /\ highest' = Larger(highest, ram.next)
         \/ /\ Append_ /\ pc = "idle" /\ pc' = "idle" /\ call' = NoCall /\ ~ram'.writable
            /\ ram'.next = ram.next /\ ram'.newest = ram.newest /\ highest' = highest
         \/ /\ pc = "idle" /\ ram.writable /\ ram' = ram /\ pc' = "remove_tmp"
            /\ call'.op = "reserve" /\ call'.value >= ram.next /\ call'.scan = 0 /\ ~call'.ok
         \/ /\ pc = "advance" /\ pc' = "idle" /\ call' = NoCall /\ ram.mounted /\ ram.writable
            /\ call.value <= SequenceFloor /\ ram'.ready /\ ram'.writable
            /\ ram'.mounted /\ ram'.next = ram.next /\ ram'.newest = ram.newest
         \/ /\ pc = "advance" /\ pc' = "idle" /\ call' = NoCall
            /\ \/ ~(ram.mounted /\ ram.writable)
               \/ call.value > SequenceFloor /\ call.value < ram.newest
            /\ ~ram'.ready /\ ram'.writable = ram.writable
            /\ ram'.mounted = ram.mounted /\ ram'.next = ram.next /\ ram'.newest = ram.newest
         \/ /\ pc = "advance" /\ pc' = "remove_tmp" /\ ram' = ram
            /\ ram.mounted /\ ram.writable /\ call.value > SequenceFloor
            /\ call.op = "advance" /\ call'.op = "advance" /\ call'.value = call.value
            /\ call'.scan = call.scan /\ ~call'.ok
<1>. ram \in RamRecord /\ call \in CallRecord /\ StepInv
  BY DEF TypeInv, Typed
<1>1. CASE RecoverJournal
  <2>1. call.op = "recover" /\ pc = "journal" /\ ram' = ram
    BY <1>1 DEF RecoverJournal, StepInv, RecoverSteps
  <2>2. CASE disk.tmp # 0 \/ disk.bak # 0
    <3>1. call' = [call EXCEPT !.value = JournalMaximum(disk), !.ok = FALSE] /\ pc' = "remove_tmp"
      BY <1>1, <2>2 DEF RecoverJournal, StartPersist
    <3>2. /\ call'.op = call.op /\ call'.mounting = call.mounting
          /\ call'.scan = call.scan /\ call'.value = JournalMaximum(disk)
      BY <3>1 DEF CallRecord
    <3>. QED  BY <1>1, <2>1, <3>1, <3>2
  <2>3. CASE ~(disk.tmp # 0 \/ disk.bak # 0)
    BY <1>1, <2>1, <2>3 DEF RecoverJournal
  <2>. QED  BY <2>2, <2>3
<1>2. CASE Append_
  <2>1. pc = "idle" /\ ram.writable /\ ram.ready
    BY <1>2 DEF Append_, AppendIf, CanWrite
  <2>2. PICK op \in {"append"} \cup ({"bound_append"} \cap Faults) :
          \/ /\ highest' = Larger(highest, ram.next) /\ pc' = "remove_tmp"
             /\ call' = [NoCall EXCEPT !.op = op, !.value = ram.next] /\ ram' = ram
          \/ /\ ram' = [ram EXCEPT !.writable = FALSE] /\ pc' = pc /\ call' = call
             /\ highest' = highest
    BY <1>2 DEF Append_, AppendIf
  <2>3. CASE /\ highest' = Larger(highest, ram.next) /\ pc' = "remove_tmp"
             /\ call' = [NoCall EXCEPT !.op = op, !.value = ram.next] /\ ram' = ram
    <3>1. call'.op = op /\ call'.value = ram.next /\ call'.scan = 0 /\ ~call'.ok
      BY <2>3, CallStarts
    <3>. QED  BY <1>2, <2>1, <2>3, <3>1
  <2>4. CASE /\ ram' = [ram EXCEPT !.writable = FALSE] /\ pc' = pc /\ call' = call
             /\ highest' = highest
    BY <1>2, <2>1, <2>4 DEF RamRecord, StepInv
  <2>. QED  BY <2>2, <2>3, <2>4
<1>3. ASSUME NEW count \in 1..MaxReserve, Reserve(count)
      PROVE  /\ pc = "idle" /\ ram.writable /\ ram' = ram /\ pc' = "remove_tmp"
             /\ call'.op = "reserve" /\ call'.value >= ram.next /\ call'.scan = 0 /\ ~call'.ok
  <2>1. /\ pc = "idle" /\ ram.writable /\ ram' = ram /\ pc' = "remove_tmp"
        /\ call' = [NoCall EXCEPT !.op = "reserve", !.value = SequenceFloor + count]
    BY <1>3 DEF Reserve, CanWrite
  <2>2. call'.op = "reserve" /\ call'.value = SequenceFloor + count /\ call'.scan = 0 /\ ~call'.ok
    BY <2>1, CallStarts
  <2>3. count \in Nat /\ count >= 1
    BY SequenceBounds
  <2>4. SequenceFloor + count >= ram.next
    BY <2>3, Fields
  <2>. QED  BY <2>1, <2>2, <2>4
<1>4. CASE AdvanceSequenceFloor
  <2>0. pc = "advance" /\ call.op = "advance" /\ call.value # MaxSequence
    <3>1. call.value \in Used
      BY DEF CallRecord
    <3>. QED
      BY <1>4, <3>1, SequenceBounds DEF AdvanceSequenceFloor, StepInv, Used
  <2>1. CASE /\ ram.mounted /\ ram.writable /\ call.value <= SequenceFloor
             /\ ram' = [ram EXCEPT !.ready = TRUE] /\ pc' = "idle" /\ call' = NoCall
    BY <2>0, <2>1 DEF RamRecord
  <2>2. CASE /\ \/ ~(ram.mounted /\ ram.writable)
                \/ call.value > SequenceFloor
                   /\ (call.value < ram.newest \/ call.value = MaxSequence)
             /\ ram' = [ram EXCEPT !.ready = FALSE] /\ pc' = "idle" /\ call' = NoCall
    BY <2>0, <2>2 DEF RamRecord
  <2>3. CASE /\ ram.mounted /\ ram.writable /\ call.value > SequenceFloor
             /\ StartPersist(call.value) /\ ram' = ram
    <3>1. call' = [call EXCEPT !.value = call.value, !.ok = FALSE] /\ pc' = "remove_tmp"
      BY <2>3 DEF StartPersist
    <3>2. call'.op = call.op /\ call'.value = call.value /\ call'.scan = call.scan /\ ~call'.ok
      BY <3>1 DEF CallRecord
    <3>. QED  BY <2>0, <2>3, <3>1, <3>2
  <2>. QED  BY <1>4, <2>1, <2>2, <2>3 DEF AdvanceSequenceFloor
<1>. QED  BY <1>1, <1>2, <1>3, <1>4 DEF StartStep

(* What the four callers of persistSequence() do with its answer. *)
LEMMA ReturnEffects ==
  ASSUME TypeInv, ReturnStep
  PROVE  /\ pc = "persisted"
         /\ \/ /\ call.op \in {"append", "bound_append"} /\ pc' = "idle" /\ call' = NoCall
               /\ call.ok \/ call.op = "append"
               /\ ram'.next = call.value + 1 /\ ram'.newest = call.value
               /\ ram'.writable = ram.writable /\ ram'.ready = ram.ready
               /\ ram'.mounted = ram.mounted /\ reserved' = reserved
            \/ /\ call.op = "bound_append" /\ ~call.ok
            \/ /\ call.op = "reserve" /\ pc' = "idle" /\ call' = NoCall /\ call.ok
               /\ ram'.next = call.value + 1 /\ ram'.newest = Larger(ram.newest, call.value)
               /\ ram'.writable = ram.writable /\ ram'.ready = ram.ready
               /\ ram'.mounted = ram.mounted /\ reserved' = Larger(reserved, call.value)
            \/ /\ call.op = "reserve" /\ pc' = "idle" /\ call' = NoCall /\ ~call.ok
               /\ ram' = ram /\ reserved' = reserved
            \/ /\ call.op = "advance" /\ pc' = "idle" /\ call' = NoCall
               /\ call.ok => ram'.next = call.value + 1 /\ ram'.ready
               /\ ram'.newest = ram.newest
               /\ ram'.writable = ram.writable /\ ram'.mounted = ram.mounted
               /\ reserved' = reserved
            \/ /\ call.op = "recover" /\ call.ok /\ pc' = "next" /\ call' = call /\ ram' = ram
               /\ reserved' = reserved
            \/ /\ call.op = "recover" /\ ~call.ok /\ pc' = "idle" /\ call' = NoCall
               /\ call.mounting => ~ram'.writable
               /\ ~call.mounting => ram' = ram
               /\ reserved' = reserved
<1>. ram \in RamRecord /\ call \in CallRecord
  BY DEF TypeInv, Typed
<1>1. CASE AppendReturn
  <2>1. CASE call.ok \/ call.op = "append"
    <3>1. ram' = [ram EXCEPT !.next = call.value + 1, !.newest = call.value]
      BY <1>1, <2>1 DEF AppendReturn
    <3>2. /\ ram'.next = call.value + 1 /\ ram'.newest = call.value
          /\ ram'.writable = ram.writable /\ ram'.ready = ram.ready
          /\ ram'.mounted = ram.mounted
      BY <3>1 DEF RamRecord
    <3>. QED  BY <1>1, <2>1, <3>2 DEF AppendReturn
  <2>2. CASE ~(call.ok \/ call.op = "append")
    BY <1>1, <2>2 DEF AppendReturn
  <2>. QED  BY <2>1, <2>2
<1>2. CASE ReserveReturn
  <2>1. CASE call.ok
    <3>1. ram' = [ram EXCEPT !.next = call.value + 1, !.newest = Larger(@, call.value)]
      BY <1>2, <2>1 DEF ReserveReturn
    <3>2. /\ ram'.next = call.value + 1 /\ ram'.newest = Larger(ram.newest, call.value)
          /\ ram'.writable = ram.writable /\ ram'.ready = ram.ready
          /\ ram'.mounted = ram.mounted
      BY <3>1 DEF RamRecord
    <3>. QED  BY <1>2, <2>1, <3>2 DEF ReserveReturn
  <2>2. CASE ~call.ok
    BY <1>2, <2>2 DEF ReserveReturn
  <2>. QED  BY <2>1, <2>2
<1>3. CASE AdvanceReturn
  <2>1. /\ call.ok => ram'.next = call.value + 1 /\ ram'.ready
        /\ ram'.newest = ram.newest
        /\ ram'.writable = ram.writable /\ ram'.mounted = ram.mounted
    BY <1>3 DEF AdvanceReturn, RamRecord
  <2>. QED  BY <1>3, <2>1 DEF AdvanceReturn, ghosts
<1>4. CASE RecoverReturn
  BY <1>4 DEF RecoverReturn, RecoverFailed, RamRecord, ghosts
<1>. QED  BY <1>1, <1>2, <1>3, <1>4 DEF ReturnStep

\* The end of a recovery.
LEMMA NextEffects ==
  ASSUME TypeInv, RecoverNext
  PROVE  /\ pc = "next" /\ call.op = "recover"
         /\ \E committed \in Nat :
              /\ committed = Larger(call.scan, JournalMaximum(disk))
              /\ committed >= call.scan /\ committed >= disk.target /\ committed >= disk.bak
              /\ ram'.next = committed + 1 /\ ram'.newest = call.scan /\ ram'.writable
              /\ ram'.mounted = ram.mounted
              /\ \/ /\ call.mounting /\ bootFloor > committed /\ ~ram'.ready
                    /\ pc' = "advance" /\ call'.op = "advance" /\ call'.value = bootFloor
                    /\ call'.scan = 0 /\ ~call'.ok
                 \/ /\ call.mounting => bootFloor <= committed /\ ram'.ready
                    /\ ~call.mounting => ram'.ready = ram.ready
                    /\ pc' = "idle" /\ call' = NoCall
<1>. ram \in RamRecord /\ StepInv /\ bootFloor \in Nat
  BY Fields DEF TypeInv, Typed
<1>. DEFINE committed == Larger(call.scan, JournalMaximum(disk))
<1>1. pc = "next" /\ call.op = "recover"
  BY DEF RecoverNext, StepInv, RecoverSteps
<1>2. /\ committed \in Nat
      /\ committed >= call.scan /\ committed >= disk.target /\ committed >= disk.bak
      /\ ram' = [ram EXCEPT !.next = committed + 1, !.newest = call.scan, !.writable = TRUE,
                            !.ready = IF call.mounting THEN bootFloor <= committed ELSE @]
      /\ IF call.mounting /\ bootFloor > committed
         THEN pc' = "advance" /\ call' = [NoCall EXCEPT !.op = "advance", !.value = bootFloor]
         ELSE pc' = "idle" /\ call' = NoCall
  BY RecoverFinds
<1>2a. committed = Larger(call.scan, JournalMaximum(disk))
  OBVIOUS
<1>. HIDE DEF committed
<1>3. /\ ram'.next = committed + 1 /\ ram'.newest = call.scan /\ ram'.writable
      /\ ram'.mounted = ram.mounted
      /\ ram'.ready = IF call.mounting THEN bootFloor <= committed ELSE ram.ready
  BY <1>2 DEF RamRecord
<1>4. CASE call.mounting /\ bootFloor > committed
  <2>1. call' = [NoCall EXCEPT !.op = "advance", !.value = bootFloor] /\ pc' = "advance"
    BY <1>2, <1>4
  <2>2. /\ call'.op = "advance" /\ call'.value = bootFloor
        /\ call'.scan = 0 /\ ~call'.ok
    BY <2>1, CallStarts
  <2>3. ~(bootFloor <= committed)
    BY <1>2, <1>4
  <2>4. ~ram'.ready
    BY <1>3, <1>4, <2>3, Zenon
  <2>. QED  BY <1>1, <1>2, <1>2a, <1>3, <1>4, <2>1, <2>2, <2>4
<1>5. CASE ~(call.mounting /\ bootFloor > committed)
  <2>1. call.mounting => bootFloor <= committed /\ ram'.ready
    <3>1. call.mounting => bootFloor <= committed
      BY <1>2, <1>5
    <3>. QED  BY <1>3, <3>1, Zenon
  <2>2. ~call.mounting => ram'.ready = ram.ready
    BY <1>3
  <2>3. pc' = "idle" /\ call' = NoCall
    BY <1>2, <1>5
  <2>. QED  BY <1>1, <1>2, <1>2a, <1>3, <2>1, <2>2, <2>3
<1>. QED  BY <1>4, <1>5

(* Every step keeps the flags consistent with the call in progress. *)
LEMMA FlagStep ==
  ASSUME Faults \cap {"floor_io", "bound_append"} = {}, TypeInv, TypeInv', Shape,
         FlagInv, [Next]_vars
  PROVE  FlagInv'
<1>0. /\ ram.next \in Nat /\ ram.newest \in Nat /\ call.value \in Nat /\ call.scan \in Nat
      /\ bootFloor \in Nat /\ SequenceFloor + 1 = ram.next /\ SequenceFloor \in Nat /\ StepInv
  BY Fields DEF TypeInv
<1>00. NoCall.op = "none"
  BY DEF NoCall
<1>000. SequenceFloor' = ram'.next - 1
  BY DEF SequenceFloor
<1>b. bootFloor' = bootFloor \/ (pc = "off" /\ MountStep)
  BY DEF Next, PersistSequence, RemoveTmp, WriteTmp, DropTmp, RemoveBak,
         BackupTarget, InstallTmp, VerifyTarget, DropTarget, RestoreBackup, RemoveOld,
         PowerLoss, Boot, Remount, MountFails, RecoverRepairCopy, RetentionRescan, Scan,
         RepairCopy, RepairUnlink, RepairRename, RecoverJournal, RecoverNext, RecoverReturn,
         Append_, AppendIf, AppendReturn, Reserve, ReserveReturn, Reconcile,
         AdvanceSequenceFloor, AdvanceReturn, Upload, Heartbeat, CheckpointRemoval,
         PrepareRemoval, ReplaceCard, vars, world, device, MountStep
<1>1. CASE MountStep
  BY <1>0, <1>00, <1>1, MountEffects DEF FlagInv, JournalUpdates, StepInv,
     RecoverSteps
<1>2. CASE RepairStep
  <2>1. /\ pc \in RecoverSteps /\ pc' \in RecoverSteps /\ ram' = ram /\ call'.op = "recover"
        /\ call'.mounting = call.mounting /\ call.op = "recover"
    BY <1>0, <1>2, RepairEffects DEF StepInv, RecoverSteps
  <2>. QED  BY <2>1 DEF FlagInv, RecoverSteps, JournalUpdates
<1>3. CASE RecoverNext
  <2>1. pc = "next" /\ call.op = "recover"
    BY <1>3, NextEffects
  <2>2. PICK committed \in Nat :
              /\ committed >= call.scan
              /\ ram'.next = committed + 1 /\ ram'.newest = call.scan /\ ram'.writable
              /\ ram'.mounted = ram.mounted
              /\ \/ /\ call.mounting /\ bootFloor > committed /\ ~ram'.ready
                    /\ pc' = "advance" /\ call'.op = "advance" /\ call'.value = bootFloor
                 \/ /\ call.mounting => ram'.ready
                    /\ ~call.mounting => ram'.ready = ram.ready
                    /\ pc' = "idle" /\ call' = NoCall
    BY <1>3, NextEffects
  <2>3. ~call.mounting => ram.writable /\ ram.ready
    BY <2>1 DEF FlagInv
  <2>4. bootFloor' = bootFloor
    BY <1>b, <2>1
  <2>. QED
    BY <1>0, <1>00, <1>000, <2>1, <2>2, <2>3, <2>4 DEF FlagInv, JournalUpdates
<1>4. CASE ReturnStep
  <2>1. pc = "persisted" /\ pc' \in {"idle", "next"}
    BY <1>4, ReturnEffects DEF FlagInv
  <2>2. call.op # "bound_append" /\ (call.op = "advance" => call.ok)
    BY <2>1 DEF FlagInv
  <2>3. CASE call.op = "append"
    BY <1>0, <1>00, <1>4, <2>2, <2>3, ReturnEffects DEF FlagInv, JournalUpdates
  <2>4. CASE call.op = "reserve"
    <3>1. call.value >= ram.next
      BY <2>1, <2>4 DEF FlagInv, JournalUpdates
    <3>2. Larger(ram.newest, call.value) < call.value + 1 \/ ~ram.writable
      BY <1>0, <3>1 DEF FlagInv, Larger
    <3>. QED
      BY <1>0, <1>00, <1>4, <2>2, <2>4, <3>2, ReturnEffects DEF FlagInv,
         JournalUpdates
  <2>5. CASE call.op = "advance"
    <3>1. call.value >= ram.next
      BY <2>1, <2>5 DEF FlagInv, JournalUpdates
    <3>. QED
      BY <1>0, <1>00, <1>4, <2>2, <2>5, <3>1, ReturnEffects DEF FlagInv,
         JournalUpdates
  <2>6. CASE call.op = "recover"
    BY <1>0, <1>00, <1>4, <2>6, ReturnEffects DEF FlagInv, JournalUpdates
  <2>. QED  BY <1>4, <2>2, <2>3, <2>4, <2>5, <2>6, ReturnEffects
<1>5. CASE OtherTask
  BY <1>0, <1>00, <1>5, OtherEffects DEF FlagInv, JournalUpdates, StepInv
<1>6. CASE StartStep
  <2>1. bootFloor' = bootFloor /\ (SequenceFloor' = SequenceFloor \/ ram'.next # ram.next)
    BY <1>b, <1>6, StartEffects DEF SequenceFloor
  <2>. QED
    BY <1>0, <1>00, <1>6, <2>1, StartEffects DEF FlagInv, JournalUpdates,
       StepInv
<1>7. CASE PersistSequence
  <2>1. /\ ram' = ram /\ bootFloor' = bootFloor /\ call'.op = call.op /\ call'.value = call.value
        /\ call'.mounting = call.mounting
        /\ pc \in JournalUpdates \ {"persisted"} /\ pc' \in JournalUpdates
    BY <1>7, PersistCallFrame
  <2>2. SequenceFloor' = SequenceFloor
    BY <2>1 DEF SequenceFloor
  <2>3. ASSUME call.op = "advance"
        PROVE  /\ pc' \notin {"drop_tmp", "drop_target", "restore"}
               /\ pc' = "persisted" => call'.ok
    <3>1. ~JournalMayFail
      BY <2>3 DEF JournalMayFail, MayFail
    <3>2. pc \notin {"drop_tmp", "drop_target", "restore"}
      BY <2>3 DEF FlagInv
    <3>3. pc = "remove_old" => call.ok
      BY DEF Shape
    <3>. QED
      BY <1>7, <3>1, <3>2, <3>3 DEF PersistSequence, RemoveTmp, WriteTmp,
         DropTmp, RemoveBak,
         BackupTarget, InstallTmp, VerifyTarget, DropTarget, RestoreBackup, RemoveOld,
         JournalStep, JournalFails
  <2>4. pc' # "off"
    BY <2>1 DEF JournalUpdates
  <2>. QED  BY <1>0, <2>1, <2>2, <2>3, <2>4 DEF FlagInv
<1>8. CASE PowerLoss
  <2>1. pc' = "off" /\ call' = NoCall /\ ~ram'.writable
    BY <1>8 DEF PowerLoss, ColdRam
  <2>. QED  BY <1>00, <2>1 DEF FlagInv, JournalUpdates
<1>9. CASE ReplaceCard \/ UNCHANGED vars
  <2>1. UNCHANGED <<pc, call, ram, bootFloor>>
    BY <1>9 DEF ReplaceCard, vars
  <2>. QED  BY <2>1 DEF FlagInv, SequenceFloor
<1>. QED
  BY <1>1, <1>2, <1>3, <1>4, <1>5, <1>6, <1>7, <1>8, <1>9, NextCases
  DEF CardStep

-----------------------------------------------------------------------------
(* What a recovery finds                                                    *)

\* A recovery that folds .tmp and .bak into the target persists the largest
\* of the three, and finds the target the largest when it is done.
TopInv ==
  /\ call.op = "recover" /\ pc \in JournalUpdates =>
       /\ disk.target <= call.value /\ disk.tmp <= call.value /\ disk.bak <= call.value
  /\ pc = "next" => disk.tmp <= disk.target /\ disk.bak <= disk.target

(* Every step keeps the newest value ahead of the confirmed records. *)
LEMMA TopStep ==
  ASSUME TypeInv, Shape, TopInv, [Next]_vars
  PROVE  TopInv'
<1>0. /\ disk \in DiskRecord /\ StepInv /\ call.value \in Nat
      /\ disk.target \in Nat /\ disk.bak \in Nat /\ disk.tmp \in Nat
  BY Fields DEF TypeInv, Typed
<1>00. NoCall.op = "none"
  BY DEF NoCall
<1>1. CASE MountStep \/ RepairStep \/ RecoverNext \/ OtherTask
  <2>1. pc' \notin JournalUpdates \cup {"next"}
    BY <1>1, MountEffects, RepairEffects, NextEffects, OtherEffects
       DEF JournalUpdates, RecoverSteps
  <2>. QED  BY <2>1 DEF TopInv
<1>2. CASE ReturnStep
  <2>1. pc' \notin JournalUpdates
    BY <1>2 DEF ReturnStep, AppendReturn, ReserveReturn, AdvanceReturn,
       RecoverReturn,
       RecoverFailed, JournalUpdates
  <2>2. CASE pc' = "next"
    <3>1. pc = "persisted" /\ call.op = "recover" /\ call.ok
      BY <1>2, <2>2 DEF ReturnStep, AppendReturn, ReserveReturn, AdvanceReturn,
         RecoverReturn,
         RecoverFailed
    <3>2. disk' = disk
      BY <1>2, <2>2 DEF ReturnStep, AppendReturn, ReserveReturn, AdvanceReturn,
         RecoverReturn
    <3>. QED  BY <2>1, <3>1, <3>2 DEF TopInv, Shape, JournalUpdates
  <2>. QED  BY <2>1, <2>2 DEF TopInv
<1>3. CASE StartStep
  <2>1. SameJournals
    BY <1>3, CardStepFrame DEF CardStep
  <2>2. CASE RecoverJournal
    <3>1. /\ disk.target <= JournalMaximum(disk) /\ disk.tmp <= JournalMaximum(disk)
          /\ disk.bak <= JournalMaximum(disk)
      BY <1>0 DEF JournalMaximum, Larger
    <3>2. \/ pc' = "remove_tmp" /\ call'.value = JournalMaximum(disk)
          \/ pc' = "next" /\ disk.tmp = 0 /\ disk.bak = 0
      <4>. call \in CallRecord
        BY DEF TypeInv, Typed
      <4>. QED  BY <2>2 DEF RecoverJournal, StartPersist, CallRecord
    <3>. QED
      BY <1>0, <2>1, <3>1, <3>2 DEF TopInv, SameJournals, JournalUpdates
  <2>3. CASE ~RecoverJournal
    <3>1. call'.op # "recover" /\ pc' # "next"
      BY <1>00, <1>3, <2>3, StartEffects DEF FaultKinds
    <3>. QED  BY <3>1 DEF TopInv
  <2>. QED  BY <2>2, <2>3
<1>4. CASE PersistSequence
  <2>1. /\ call'.op = call.op /\ call'.value = call.value
        /\ pc \in JournalUpdates /\ pc' \in JournalUpdates
    BY <1>4, PersistCallFrame
  <2>. SUFFICES ASSUME call.op = "recover"
                PROVE  disk'.target <= call.value /\ disk'.tmp <= call.value /\ disk'.bak <= call.value
    BY <2>1 DEF TopInv, JournalUpdates
  <2>2. disk.target <= call.value /\ disk.tmp <= call.value /\ disk.bak <= call.value
    BY <2>1 DEF TopInv
  <2>3. \/ disk' = disk
        \/ disk' = [disk EXCEPT !.tmp = 0]
        \/ disk' = [disk EXCEPT !.tmp = call.value]
        \/ \E prefix \in 0..call.value : disk' = [disk EXCEPT !.tmp = prefix]
        \/ disk' = [disk EXCEPT !.bak = 0]
        \/ disk' = [disk EXCEPT !.bak = disk.target, !.target = 0]
        \/ disk' = [disk EXCEPT !.target = disk.tmp, !.tmp = 0]
        \/ disk' = [disk EXCEPT !.target = 0]
        \/ disk' = [disk EXCEPT !.target = disk.bak, !.bak = 0]
    BY <1>4 DEF PersistSequence, RemoveTmp, WriteTmp, DropTmp, RemoveBak,
       BackupTarget, InstallTmp, VerifyTarget, DropTarget, RestoreBackup, RemoveOld,
       JournalStep, JournalFails, TornTmp
  <2>4. ASSUME NEW prefix \in 0..call.value, disk' = [disk EXCEPT !.tmp = prefix]
        PROVE  disk'.target = disk.target /\ disk'.tmp = prefix /\ disk'.bak = disk.bak
    BY <1>0, <2>4 DEF DiskRecord
  <2>5. CASE disk' = [disk EXCEPT !.bak = disk.target, !.target = 0]
    <3>1. disk'.target = 0 /\ disk'.tmp = disk.tmp /\ disk'.bak = disk.target
      BY <1>0, <2>5 DEF DiskRecord
    <3>. QED  BY <1>0, <2>2, <3>1
  <2>6. CASE disk' = [disk EXCEPT !.target = disk.tmp, !.tmp = 0]
    <3>1. disk'.target = disk.tmp /\ disk'.tmp = 0 /\ disk'.bak = disk.bak
      BY <1>0, <2>6 DEF DiskRecord
    <3>. QED  BY <1>0, <2>2, <3>1
  <2>7. CASE disk' = [disk EXCEPT !.target = disk.bak, !.bak = 0]
    <3>1. disk'.target = disk.bak /\ disk'.tmp = disk.tmp /\ disk'.bak = 0
      BY <1>0, <2>7 DEF DiskRecord
    <3>. QED  BY <1>0, <2>2, <3>1
  <2>8. CASE disk' = [disk EXCEPT !.bak = 0] \/ disk' = [disk EXCEPT !.target = 0]
    <3>1. disk'.target \in {0, disk.target} /\ disk'.tmp = disk.tmp /\ disk'.bak \in {0, disk.bak}
      BY <1>0, <2>8 DEF DiskRecord
    <3>. QED  BY <1>0, <2>2, <3>1
  <2>9. 0 \in 0..call.value /\ call.value \in 0..call.value
    BY <1>0
  <2>. QED  BY <1>0, <2>2, <2>3, <2>4, <2>5, <2>6, <2>7, <2>8, <2>9
<1>5. CASE PowerLoss \/ ReplaceCard
  <2>1. pc' \in {"off", "idle"}
    BY <1>5 DEF PowerLoss, ReplaceCard
  <2>. QED  BY <2>1 DEF TopInv, JournalUpdates
<1>6. CASE UNCHANGED vars
  BY <1>6 DEF vars, TopInv
<1>. QED  BY <1>1, <1>2, <1>3, <1>4, <1>5, <1>6, NextCases DEF CardStep

Scanned == JournalUpdates \cup (RecoverSteps \ {"recover_repair", "scan"})

\* The scan finds the largest stored sequence, and a writable card goes on
\* above it: at it only while the record is being journalled.
ScanInv ==
  /\ call.op = "recover" /\ pc \in Scanned =>
       /\ \A s \in Stored : s <= call.scan
       /\ call.scan \in Stored \cup {0}
  /\ ram.writable =>
       \A s \in Stored : \/ s < ram.next
                         \/ s = ram.next /\ pc \in JournalUpdates /\ call.op = "append"

\* What recoverFile() scans, in a file without an undecodable line.
LEMMA ScanFinds ==
  ASSUME NEW f \in UsedFile, ~HasCorruptLine(f)
  PROVE  /\ \A s \in Readable(f) : s <= ScanMaximum(f)
         /\ ScanMaximum(f) \in Readable(f) \cup {0}
<1>1. ScannedLines(f) = Readable(f)
  <2>1. \A i \in 1..Len(Lines(f)) : Lines(f)[i] # Corrupt
    BY DEF HasCorruptLine
  <2>2. Len(Lines(f)) \in Nat
    BY LinesType
  <2>3. \A j \in 1..Len(Lines(f)) : \A k \in 1..j : Lines(f)[k] # Corrupt
    BY <2>1, <2>2
  <2>. QED  BY <2>1, <2>3 DEF ScannedLines, Readable
<1>2. ScannedLines(f) \in SUBSET Used
  BY LinesType
<1>3. CASE ScannedLines(f) = {}
  BY <1>1, <1>3 DEF ScanMaximum, LargestIn
<1>4. CASE ScannedLines(f) # {}
  BY <1>1, <1>2, <1>4, LargestInIsLargest DEF ScanMaximum
<1>. QED  BY <1>3, <1>4

(* The readable records are numbers. *)
LEMMA StoredType == TypeInv => Stored \subseteq Nat
<1>. SUFFICES ASSUME TypeInv PROVE Stored \subseteq Nat
  OBVIOUS
<1>1. Content \in UsedFile
  BY Fields DEF Content
<1>. QED  BY <1>1, LinesType, SequenceBounds DEF Stored, Used

(* Every step keeps the scan result above the records on the card. *)
LEMMA ScanStep ==
  ASSUME Faults \cap {"floor_io", "repair_io", "bound_append"} = {}, TypeInv, TypeInv',
         Shape, RepairInv, FlagInv, ScanInv, [Next]_vars
  PROVE  ScanInv'
<1>. "repair_io" \notin Faults
  OBVIOUS
<1>0. /\ ram.next \in Nat /\ call.value \in Nat /\ call.scan \in Nat /\ StepInv
      /\ \A s \in Stored : s \in Nat
  BY Fields, StoredType DEF TypeInv
<1>00. NoCall.op = "none"
  BY DEF NoCall
<1>1. CASE MountStep
  <2>1. Stored' = Stored
    BY <1>1, StoredStep DEF MountStep, Boot, Remount, MountFails,
       RetentionRescan,
       StartMount, ReplaceCard, Append_, AppendIf
  <2>2. \/ pc' = "recover_repair" /\ ~ram'.writable
        \/ pc = "recover_repair" /\ pc' = "idle" /\ ram'.writable = ram.writable /\ ram'.next = ram.next
           /\ call' = NoCall
        \/ pc = "idle" /\ pc' = "scan" /\ ram' = ram
    BY <1>1, MountEffects
  <2>. QED
    BY <1>00, <2>1, <2>2 DEF ScanInv, JournalUpdates, Scanned, RecoverSteps
<1>2. CASE RepairStep
  <2>0. /\ pc \in RecoverSteps \ {"next", "journal"}
        /\ pc' \in RecoverSteps \ {"next", "recover_repair"}
        /\ ram' = ram /\ call'.op = call.op /\ call.op = "recover"
    BY <1>0, <1>2, RepairEffects DEF StepInv
  <2>1. Stored' = Stored
    BY <1>2, StoredStep, <2>0 DEF ReplaceCard, Append_, AppendIf, RecoverSteps
  <2>2. CASE Scan
    <3>1. pc = "scan" /\ call'.scan = ScanMaximum(disk.file) /\ disk.file \in UsedFile
      <4>. call \in CallRecord
        BY DEF TypeInv, Typed
      <4>. QED  BY <2>2, Fields DEF Scan, CallRecord
    <3>2. Stored = Readable(disk.file)
      BY <3>1 DEF RepairInv, Stored, Content
    <3>3. /\ \A s \in Stored : s <= call'.scan
          /\ call'.scan \in Stored \cup {0}
      BY <3>1, <3>2, ScanFinds DEF RepairInv
    <3>. QED  BY <2>0, <2>1, <3>3 DEF ScanInv, RecoverSteps, JournalUpdates
  <2>3. CASE call' = call /\ ~Scan
    <3>1. pc' \in Scanned => pc \in Scanned
      BY <1>2, <2>3 DEF RepairStep, RecoverRepairCopy, RepairCopy,
         RepairUnlink,
         RepairRename, Scanned, RecoverSteps, JournalUpdates
    <3>. QED
      BY <2>0, <2>1, <2>3, <3>1 DEF ScanInv, RecoverSteps, JournalUpdates
  <2>. QED  BY <1>2, <2>2, <2>3, RepairEffects
<1>3. CASE RecoverNext
  <2>1. pc = "next" /\ call.op = "recover"
    BY <1>3, NextEffects
  <2>2. Stored' = Stored
    BY <1>3, StoredStep, <2>1 DEF ReplaceCard, Append_, AppendIf
  <2>3. PICK committed \in Nat : /\ committed >= call.scan /\ ram'.next = committed + 1
                                 /\ pc' \in {"advance", "idle"}
    BY <1>3, NextEffects
  <2>4. \A s \in Stored : s <= call.scan
    BY <2>1 DEF ScanInv, Scanned, RecoverSteps
  <2>5. \A s \in Stored : s < ram'.next
    BY <1>0, <2>3, <2>4
  <2>. QED
    BY <2>2, <2>3, <2>5 DEF ScanInv, Scanned, JournalUpdates, RecoverSteps
<1>4. CASE ReturnStep
  <2>1. pc = "persisted" /\ call.op # "bound_append" /\ (call.op = "advance" => call.ok)
    BY <1>4, ReturnEffects DEF FlagInv
  <2>2. Stored' = Stored
    BY <1>4, StoredStep, <2>1 DEF ReplaceCard, Append_, AppendIf
  <2>3. CASE call.op = "append"
    <3>1. call.value = ram.next
      BY <2>1, <2>3 DEF Shape, JournalUpdates
    <3>2. ram'.next = ram.next + 1 /\ ram'.writable = ram.writable /\ call' = NoCall
      BY <1>4, <2>1, <2>3, <3>1, ReturnEffects
    <3>3. ram.writable => \A s \in Stored : s < ram'.next
      BY <1>0, <3>2 DEF ScanInv
    <3>. QED  BY <1>00, <2>2, <3>2, <3>3 DEF ScanInv
  <2>4. CASE call.op \in {"reserve", "advance"}
    <3>1. call.value >= ram.next
      BY <2>1, <2>4 DEF FlagInv, JournalUpdates
    <3>2. /\ ram'.next = call.value + 1 \/ ram' = ram
          /\ ram'.writable = ram.writable /\ call' = NoCall
      BY <1>4, <2>1, <2>4, ReturnEffects
    <3>3. ram.writable => \A s \in Stored : s < ram'.next
      BY <1>0, <2>4, <3>1, <3>2 DEF ScanInv
    <3>. QED  BY <1>00, <2>2, <3>2, <3>3 DEF ScanInv
  <2>5. CASE call.op = "recover"
    <3>1. \/ call' = call /\ pc' = "next" /\ ram' = ram
          \/ call' = NoCall /\ (~ram'.writable \/ ram' = ram)
      BY <1>4, <2>5, ReturnEffects
    <3>. QED
      BY <1>00, <2>1, <2>2, <2>5, <3>1 DEF ScanInv, Scanned, RecoverSteps,
         JournalUpdates
  <2>. QED  BY <1>4, <2>1, <2>3, <2>4, <2>5, ReturnEffects
<1>5. CASE OtherTask
  <2>1. pc = "idle" /\ pc' \in {"idle", "advance"} /\ ram'.next = ram.next
        /\ (ram'.writable => ram.writable)
    BY <1>5, OtherEffects
  <2>2. Stored' = Stored
    BY <1>5, StoredStep, RecordSteps DEF OtherTask, Upload, Heartbeat,
       CheckpointRemoval,
       PrepareRemoval, Reconcile, Stored, Content
  <2>. QED  BY <2>1, <2>2 DEF ScanInv, Scanned, RecoverSteps, JournalUpdates
<1>6. CASE StartStep
  <2>1. CASE Append_
    <3>1. CASE pc' = "remove_tmp"
      <4>1. Stored' = Stored \cup {ram.next} /\ call'.op = "append" /\ pc = "idle" /\ ram' = ram
            /\ ram.writable
        BY <1>6, <2>1, <3>1, StoredStep, StartEffects DEF ReplaceCard, Append_,
           AppendIf, NoCall
      <4>. QED  BY <3>1, <4>1 DEF ScanInv, JournalUpdates
    <3>2. CASE pc' # "remove_tmp"
      <4>1. ~ram'.writable /\ call' = NoCall
        BY <1>6, <2>1, <3>2, StartEffects DEF Append_, AppendIf, NoCall
      <4>. QED  BY <1>00, <4>1 DEF ScanInv
    <3>. QED  BY <3>1, <3>2
  <2>2. CASE ~Append_
    <3>1. Stored' = Stored
      BY <1>6, <2>2 DEF StartStep, RecoverJournal, AdvanceSequenceFloor,
         Reserve, Stored, Content
    <3>2. CASE RecoverJournal
      BY <1>6, <2>2, <3>1, <3>2, StartEffects DEF ScanInv, Scanned,
         JournalUpdates, RecoverSteps
    <3>3. CASE ~RecoverJournal
      BY <1>00, <1>6, <2>2, <3>1, <3>3, StartEffects DEF ScanInv,
         JournalUpdates
    <3>. QED  BY <3>2, <3>3
  <2>. QED  BY <2>1, <2>2
<1>7. CASE PersistSequence
  <2>1. /\ ram' = ram /\ call'.op = call.op /\ call'.scan = call.scan
        /\ pc \in JournalUpdates /\ pc' \in JournalUpdates
    BY <1>7, PersistCallFrame
  <2>2. Stored' = Stored
    BY <1>7, PersistFrame DEF SameRecords, Stored, Content
  <2>. QED  BY <2>1, <2>2 DEF ScanInv, Scanned
<1>8. CASE PowerLoss
  <2>1. pc' = "off" /\ ~ram'.writable
    BY <1>8 DEF PowerLoss, ColdRam
  <2>. QED  BY <2>1 DEF ScanInv, Scanned, JournalUpdates, RecoverSteps
<1>9. CASE ReplaceCard
  <2>1. pc' \in {"off", "idle"} /\ pc' = pc /\ ram' = ram
    BY <1>9 DEF ReplaceCard
  <2>2. Stored' = {}
    <3>1. disk'.file = NoFile /\ disk'.repair = NoFile
      BY <1>9 DEF ReplaceCard, BlankCard
    <3>. QED  BY <3>1, NoFileIsEmpty DEF Stored, Content
  <2>. QED  BY <2>1, <2>2 DEF ScanInv, Scanned, JournalUpdates, RecoverSteps
<1>10. CASE UNCHANGED vars
  BY <1>10 DEF vars, ScanInv, Stored, Content
<1>. QED
  BY <1>1, <1>2, <1>3, <1>4, <1>5, <1>6, <1>7, <1>8, <1>9, <1>10, NextCases
  DEF CardStep

-----------------------------------------------------------------------------
(* The floor of the sequences in use                                        *)

\* The largest sequence ever stored or reserved.
InUse == Larger(highest, reserved)

\* Nothing that is known outside the card is above it.
BoundInv ==
  /\ \A s \in Stored : s <= highest
  /\ serverMax <= InUse /\ nvs.server <= InUse /\ nvs.prepared <= InUse
  /\ ram.newest <= InUse /\ call.scan <= InUse
  /\ bootFloor <= NvsFloor

(* InUse is the larger of the two ghosts it joins. *)
LEMMA InUseType ==
  ASSUME TypeInv
  PROVE  /\ InUse \in Nat /\ highest <= InUse /\ reserved <= InUse
         /\ highest \in Nat /\ reserved \in Nat
  BY Fields DEF InUse, Larger

\* Only a stored record and a reservation raise it.
LEMMA InUseStep ==
  ASSUME TypeInv, TypeInv', Shape, [Next]_vars
  PROVE  /\ InUse' \in Nat /\ highest' \in Nat /\ reserved' \in Nat
         /\ InUse' >= InUse /\ highest' >= highest
         /\ \/ highest' = highest /\ reserved' = reserved /\ InUse' = InUse
            \/ /\ Append_ /\ pc' = "remove_tmp" /\ highest' = Larger(highest, ram.next)
               /\ reserved' = reserved
            \/ /\ ReserveReturn /\ call.ok /\ highest' = highest
               /\ reserved' = Larger(reserved, call.value)
<1>0. /\ highest \in Nat /\ reserved \in Nat /\ ram.next \in Nat /\ call.value \in Nat
  BY Fields
<1>1. \/ highest' = highest /\ reserved' = reserved
      \/ /\ Append_ /\ pc' = "remove_tmp" /\ highest' = Larger(highest, ram.next)
         /\ reserved' = reserved
      \/ /\ ReserveReturn /\ call.ok /\ highest' = highest
         /\ reserved' = Larger(reserved, call.value)
  <2>1. CASE MountStep \/ RepairStep \/ RecoverNext
    BY <2>1 DEF MountStep, Boot, Remount, MountFails, RetentionRescan,
       RepairStep,
       RecoverRepairCopy, Scan, RepairCopy, RepairUnlink, RepairRename, RecoverNext, ghosts
  <2>2. CASE ReturnStep
    BY <2>2 DEF ReturnStep, AppendReturn, ReserveReturn, AdvanceReturn,
       RecoverReturn, ghosts
  <2>3. CASE OtherTask \/ PowerLoss \/ ReplaceCard
    BY <2>3 DEF OtherTask, Upload, Heartbeat, CheckpointRemoval,
       PrepareRemoval, Reconcile,
       PowerLoss, ReplaceCard, ghosts
  <2>4. CASE StartStep
    BY <2>4 DEF StartStep, RecoverJournal, Append_, AppendIf,
       AdvanceSequenceFloor, Reserve,
       ghosts
  <2>5. CASE PersistSequence
    BY <2>5, PersistCallFrame
  <2>6. CASE UNCHANGED vars
    BY <2>6 DEF vars
  <2>. QED  BY <2>1, <2>2, <2>3, <2>4, <2>5, <2>6, NextCases DEF CardStep
<1>2. Larger(highest, ram.next) \in Nat /\ Larger(highest, ram.next) >= highest
      /\ Larger(reserved, call.value) \in Nat /\ Larger(reserved, call.value) >= reserved
  BY <1>0 DEF Larger
<1>3. highest' \in Nat /\ reserved' \in Nat /\ highest' >= highest /\ reserved' >= reserved
  BY <1>0, <1>1, <1>2
<1>4. InUse' \in Nat /\ InUse' >= InUse
  BY <1>0, <1>3 DEF InUse, Larger
<1>. QED  BY <1>1, <1>3, <1>4 DEF InUse

\* NVS, the server's maximum and the floor of begin() change in these steps.
LEMMA DeviceStep ==
  ASSUME TypeInv, [Next]_vars
  PROVE  \/ UNCHANGED <<nvs, serverMax, bootFloor>>
         \/ Upload /\ UNCHANGED <<nvs, bootFloor>>
         \/ /\ Heartbeat /\ UNCHANGED <<serverMax, bootFloor>>
            /\ nvs'.prepared = nvs.prepared /\ nvs'.server \in {nvs.server, serverMax}
            /\ serverMax >= nvs.server
         \/ /\ CheckpointRemoval /\ UNCHANGED <<serverMax, bootFloor>>
            /\ nvs'.server = nvs.server /\ nvs'.prepared = ram.newest
            /\ ram.newest >= nvs.prepared
         \/ Boot /\ UNCHANGED <<nvs, serverMax>> /\ bootFloor' = NvsFloor
<1>0. nvs \in NvsRecord
  BY DEF TypeInv, Typed
<1>1. CASE MountStep \/ RepairStep \/ RecoverNext
  BY <1>1 DEF MountStep, Boot, Remount, MountFails, RetentionRescan,
     RepairStep,
     RecoverRepairCopy, Scan, RepairCopy, RepairUnlink, RepairRename, RecoverNext, world, device
<1>2. CASE ReturnStep
  BY <1>2 DEF ReturnStep, AppendReturn, ReserveReturn, AdvanceReturn,
     RecoverReturn, world,
     device
<1>3. CASE OtherTask
  <2>1. CASE Heartbeat
    BY <1>0, <2>1 DEF Heartbeat, NvsRecord
  <2>2. CASE CheckpointRemoval
    BY <1>0, <2>2 DEF CheckpointRemoval, NvsRecord
  <2>3. CASE Upload \/ PrepareRemoval \/ Reconcile
    BY <2>3 DEF Upload, PrepareRemoval, Reconcile
  <2>. QED  BY <1>3, <2>1, <2>2, <2>3 DEF OtherTask
<1>4. CASE StartStep
  BY <1>4 DEF StartStep, RecoverJournal, Append_, AppendIf,
     AdvanceSequenceFloor, Reserve,
     world, device
<1>5. CASE PersistSequence
  BY <1>5, PersistCallFrame
<1>6. CASE PowerLoss \/ ReplaceCard \/ UNCHANGED vars
  BY <1>6 DEF PowerLoss, ReplaceCard, vars
<1>. QED  BY <1>1, <1>2, <1>3, <1>4, <1>5, <1>6, NextCases DEF CardStep

(* Every step keeps the sequence in RAM above what is stored and reserved. *)
LEMMA BoundStep ==
  ASSUME Faults \cap {"floor_io", "repair_io", "bound_append"} = {}, TypeInv, TypeInv',
         Shape, RepairInv, StoredInv, FlagInv, ScanInv, BoundInv, [Next]_vars
  PROVE  BoundInv'
<1>. "repair_io" \notin Faults
  OBVIOUS
<1>0. /\ ram.next \in Nat /\ call.value \in Nat /\ call.scan \in Nat /\ ram.newest \in Nat
      /\ nvs.server \in Nat /\ nvs.prepared \in Nat /\ serverMax \in Nat /\ bootFloor \in Nat
      /\ \A s \in Stored : s \in Nat
      /\ disk.file \in UsedFile
  BY Fields, StoredType
<1>00. NoCall.op = "none" /\ NoCall.scan = 0
  BY DEF NoCall
<1>u. /\ InUse \in Nat /\ highest \in Nat /\ highest <= InUse /\ reserved <= InUse
      /\ InUse' \in Nat /\ highest' \in Nat /\ InUse' >= InUse /\ highest' >= highest
      /\ reserved \in Nat /\ reserved' \in Nat
  BY InUseType, InUseStep
<1>1. \A s \in Stored' : s <= highest'
  <2>1. CASE Append_ /\ pc' = "remove_tmp" /\ Stored' = Stored \cup {ram.next}
    <3>1. highest' = Larger(highest, ram.next)
      BY <2>1 DEF Append_, AppendIf
    <3>2. highest' >= ram.next
      BY <1>0, <1>u, <3>1 DEF Larger
    <3>. QED  BY <1>0, <1>u, <2>1, <3>2 DEF BoundInv
  <2>2. CASE Stored' \subseteq Stored
    BY <1>0, <1>u, <2>2 DEF BoundInv
  <2>. QED  BY <2>1, <2>2, StoredStep
<1>2. serverMax' <= InUse' /\ nvs'.server <= InUse' /\ nvs'.prepared <= InUse'
  <2>0. serverMax <= InUse /\ nvs.server <= InUse /\ nvs.prepared <= InUse /\ ram.newest <= InUse
    BY DEF BoundInv
  <2>1. Upload => serverMax' <= InUse
    <3>. SUFFICES ASSUME Upload PROVE serverMax' <= InUse
      OBVIOUS
    <3>1. serverMax' \in Readable(disk.file)
      BY DEF Upload
    <3>2. serverMax' \in Stored
      BY <3>1, NoFileIsEmpty DEF Stored, Content
    <3>. QED  BY <1>0, <1>u, <3>2 DEF BoundInv
  <2>2. serverMax' \in Nat /\ nvs'.server \in Nat /\ nvs'.prepared \in Nat
    <3>1. serverMax' \in Used /\ nvs' \in NvsRecord
      BY DEF TypeInv, Typed
    <3>. QED  BY <3>1, SequenceBounds DEF NvsRecord, Used
  <2>. QED  BY <1>0, <1>u, <2>0, <2>1, <2>2, DeviceStep
<1>3. bootFloor' <= NvsFloor'
  <2>0. bootFloor <= NvsFloor
    BY DEF BoundInv
  <2>. QED  BY <1>0, <2>0, DeviceStep DEF NvsFloor, Larger
<1>4. call'.scan <= InUse' /\ ram'.newest <= InUse'
  <2>0. call.scan <= InUse /\ ram.newest <= InUse
    BY DEF BoundInv
  <2>1. CASE MountStep
    BY <1>0, <1>00, <1>u, <2>0, <2>1, MountEffects
  <2>2. CASE RepairStep
    <3>1. ram' = ram /\ (Scan \/ call' = call)
      BY <2>2, RepairEffects
    <3>2. CASE Scan
      <4>1. call'.scan = ScanMaximum(disk.file) /\ pc = "scan"
        <5>. call \in CallRecord
          BY DEF TypeInv, Typed
        <5>. QED  BY <3>2 DEF Scan, CallRecord
      <4>2. ScanMaximum(disk.file) \in Readable(disk.file) \cup {0}
        BY <1>0, ScanFinds DEF RepairInv
      <4>3. Readable(disk.file) \subseteq Stored
        BY NoFileIsEmpty DEF Stored, Content
      <4>4. call'.scan <= highest
        BY <1>0, <1>u, <4>1, <4>2, <4>3 DEF BoundInv
      <4>5. call'.scan \in Nat
        BY <1>0, <4>1, <4>2, <4>3
      <4>. QED  BY <1>0, <1>u, <2>0, <3>1, <4>4, <4>5
    <3>3. CASE call' = call
      BY <1>0, <1>u, <2>0, <3>1, <3>3
    <3>. QED  BY <3>1, <3>2, <3>3
  <2>3. CASE RecoverNext
    <3>1. ram'.newest = call.scan /\ call'.scan = 0
      BY <1>00, <2>3, NextEffects
    <3>. QED  BY <1>0, <1>u, <2>0, <3>1
  <2>4. CASE ReturnStep
    <3>1. pc = "persisted" /\ call.op # "bound_append"
      BY <2>4, ReturnEffects DEF FlagInv
    <3>2. CASE call.op = "append"
      <4>1. ram'.newest = call.value /\ call'.scan = 0
        BY <1>00, <2>4, <3>1, <3>2, ReturnEffects
      <4>2. call.value \in Stored
        BY <3>1, <3>2 DEF StoredInv, JournalUpdates
      <4>3. call.value <= highest
        BY <4>2 DEF BoundInv
      <4>. QED  BY <1>0, <1>u, <4>1, <4>3
    <3>3. CASE call.op = "reserve"
      <4>1. \/ ram' = ram /\ call'.scan = 0
            \/ /\ ram'.newest = Larger(ram.newest, call.value) /\ call'.scan = 0
               /\ reserved' = Larger(reserved, call.value)
        BY <1>00, <2>4, <3>3, ReturnEffects
      <4>2. CASE ram' = ram /\ call'.scan = 0
        BY <1>0, <1>u, <2>0, <4>2
      <4>3. CASE /\ ram'.newest = Larger(ram.newest, call.value) /\ call'.scan = 0
                 /\ reserved' = Larger(reserved, call.value)
        <5>1. call.value <= reserved'
          BY <1>0, <1>u, <4>3 DEF Larger
        <5>2. reserved' <= InUse'
          BY <1>u DEF InUse, Larger
        <5>3. ram'.newest \in {ram.newest, call.value}
          BY <4>3 DEF Larger
        <5>. QED  BY <1>0, <1>u, <2>0, <4>3, <5>1, <5>2, <5>3
      <4>. QED  BY <4>1, <4>2, <4>3
    <3>4. CASE call.op = "advance"
      <4>1. ram'.newest = ram.newest /\ call'.scan = 0
        BY <1>00, <2>4, <3>4, ReturnEffects
      <4>. QED  BY <1>0, <1>u, <2>0, <4>1
    <3>5. CASE call.op = "recover"
      <4>1. ram'.newest = ram.newest
        <5>. ram \in RamRecord
          BY DEF TypeInv, Typed
        <5>. QED
          BY <2>4, <3>5 DEF ReturnStep, AppendReturn, ReserveReturn,
             AdvanceReturn,
                     RecoverReturn, RecoverFailed, RamRecord
      <4>2. call'.scan \in {0, call.scan}
        BY <1>00, <2>4, <3>5, ReturnEffects
      <4>. QED  BY <1>0, <1>u, <2>0, <4>1, <4>2
    <3>. QED  BY <2>4, <3>1, <3>2, <3>3, <3>4, <3>5, ReturnEffects
  <2>5. CASE OtherTask
    <3>1. ram'.newest = ram.newest /\ call'.scan = 0
      BY <1>00, <2>5, OtherEffects
    <3>. QED  BY <1>0, <1>u, <2>0, <3>1
  <2>6. CASE StartStep
    <3>1. ram'.newest = ram.newest /\ call'.scan \in {0, call.scan}
      BY <1>00, <2>6, StartEffects
    <3>. QED  BY <1>0, <1>u, <2>0, <3>1
  <2>7. CASE PersistSequence
    <3>1. ram' = ram /\ call'.scan = call.scan
      BY <2>7, PersistCallFrame
    <3>. QED  BY <1>0, <1>u, <2>0, <3>1
  <2>8. CASE PowerLoss
    <3>1. ram'.newest = 0 /\ call'.scan = 0
      BY <1>00, <2>8 DEF PowerLoss, ColdRam
    <3>. QED  BY <1>u, <3>1
  <2>9. CASE ReplaceCard \/ UNCHANGED vars
    <3>1. ram' = ram /\ call' = call
      BY <2>9 DEF ReplaceCard, vars
    <3>. QED  BY <1>0, <1>u, <2>0, <3>1
  <2>. QED
    BY <2>1, <2>2, <2>3, <2>4, <2>5, <2>6, <2>7, <2>8, <2>9, NextCases
    DEF CardStep
<1>. QED  BY <1>1, <1>2, <1>3, <1>4 DEF BoundInv

-----------------------------------------------------------------------------
(* No sequence is used twice                                                *)

\* The card itself tells that every sequence up to q is used: by a record, or
\* by its journals.
Secured(q) == (\E s \in Stored : q <= s) \/ (Held(q) /\ ValueAbove(q))

\* While the interruptions are tolerated: the card, or else the floor given to
\* begin(), tells what is in use; a card that accepts records goes on above
\* it; and the floor is only ever advanced to a value above it.
FreshInv ==
  JournalSound =>
    /\ Secured(InUse) \/ InUse <= (IF pc = "off" THEN NvsFloor ELSE bootFloor)
    /\ ram.writable /\ ram.ready =>
         /\ Secured(InUse)
         /\ \/ InUse < ram.next
            \/ InUse = ram.next /\ pc \in JournalUpdates /\ call.op = "append"
    /\ ram.writable /\ ~ram.ready => InUse <= bootFloor
    /\ call.op = "advance" /\ pc \in JournalUpdates => call.value >= InUse

\* The card keeps telling it, if a call of persistSequence does not start with
\* less.
LEMMA SecuredStep ==
  ASSUME Tolerated <= 1, "repair_io" \notin Faults, TypeInv, TypeInv', Shape, RepairInv,
         NEW q \in Nat, Secured(q), JournalSound', [Next]_vars, ~ReplaceCard,
         StartStep /\ ~RecoverJournal => call'.value >= q
  PROVE  Secured(q)'
<1>0. \A s \in Stored : s \in Nat
  BY StoredType
<1>1. CASE \E s \in Stored : q <= s
  <2>1. Stored \subseteq Stored'
    BY StoredStep
  <2>. QED  BY <1>1, <2>1 DEF Secured
<1>2. CASE Held(q) /\ ValueAbove(q)
  <2>1. CASE UNCHANGED vars
    BY <1>2, <2>1 DEF vars, Held, ValueAbove, Secured
  <2>2. CASE CardStep \/ PersistSequence \/ PowerLoss
    <3>1. Held(q)'
      BY <1>2, <2>2, HeldStep
    <3>2. ValueAbove(q)'
      <4>1. CASE MountStep \/ RepairStep \/ RecoverNext \/ OtherTask \/ ReturnStep
        <5>1. pc' \notin Updating
          BY <4>1, MountEffects, RepairEffects, NextEffects, OtherEffects
             DEF Updating, RecoverSteps, ReturnStep, AppendReturn, ReserveReturn, AdvanceReturn,
             RecoverReturn, RecoverFailed
        <5>. QED  BY <5>1 DEF ValueAbove
      <4>2. CASE StartStep
        <5>1. CASE RecoverJournal
          <6>1. JournalSound /\ pc \notin Updating
            BY <2>2, <5>1, SoundBefore DEF RecoverJournal, Updating
          <6>2. disk.target >= q \/ disk.bak >= q
            BY <1>2, <6>1, HeldOutside
          <6>3. JournalMaximum(disk) >= q
            BY <6>2, Fields DEF JournalMaximum, Larger
          <6>4. pc' \in Updating => call'.value = JournalMaximum(disk)
            <7>. call \in CallRecord
              BY DEF TypeInv, Typed
            <7>. QED
              BY <5>1 DEF RecoverJournal, StartPersist, Updating, CallRecord
          <6>. QED  BY <6>3, <6>4 DEF ValueAbove
        <5>2. CASE ~RecoverJournal
          BY <4>2, <5>2 DEF ValueAbove
        <5>. QED  BY <5>1, <5>2
      <4>3. CASE PersistSequence
        <5>1. call'.value = call.value
          BY <4>3, PersistCallFrame
        <5>2. pc' \in Updating => pc \in Updating
          BY <4>3 DEF PersistSequence, RemoveTmp, WriteTmp, DropTmp, RemoveBak,
             BackupTarget, InstallTmp, VerifyTarget, DropTarget, RestoreBackup, RemoveOld,
             JournalStep, JournalFails, Updating
        <5>. QED  BY <1>2, <5>1, <5>2 DEF ValueAbove
      <4>4. CASE PowerLoss
        BY <4>4 DEF PowerLoss, ValueAbove, Updating
      <4>. QED  BY <2>2, <4>1, <4>2, <4>3, <4>4 DEF CardStep
    <3>. QED  BY <3>1, <3>2 DEF Secured
  <2>. QED  BY <2>1, <2>2, NextCases
<1>. QED  BY <1>1, <1>2 DEF Secured

\* At the end of a recovery the next sequence is above what the card tells.
LEMMA CommittedCovers ==
  ASSUME Tolerated <= 1, TypeInv, Shape, ScanInv, NEW q \in Nat, Secured(q), JournalSound,
         RecoverNext
  PROVE  q <= Larger(call.scan, JournalMaximum(disk))
<1>0. /\ call.scan \in Nat /\ disk.target \in Nat /\ disk.tmp \in Nat /\ disk.bak \in Nat
      /\ \A s \in Stored : s \in Nat
  BY Fields, StoredType
<1>1. pc = "next" /\ call.op = "recover"
  BY NextEffects
<1>2. q <= call.scan \/ q <= disk.target \/ q <= disk.bak
  <2>1. CASE \E s \in Stored : q <= s
    <3>1. \A s \in Stored : s <= call.scan
      BY <1>1 DEF ScanInv, Scanned, RecoverSteps
    <3>. QED  BY <1>0, <2>1, <3>1
  <2>2. CASE Held(q)
    <3>1. pc \notin Updating
      BY <1>1 DEF Updating
    <3>2. disk.target >= q \/ disk.bak >= q
      BY <2>2, <3>1, HeldOutside
    <3>. QED  BY <1>0, <3>2
  <2>. QED  BY <2>1, <2>2 DEF Secured
<1>. QED  BY <1>0, <1>2 DEF JournalMaximum, Larger

\* And the card itself tells everything below the next sequence.
LEMMA CommittedIsSecured ==
  ASSUME Tolerated <= 1, "repair_io" \notin Faults, TypeInv, TypeInv', Shape, RepairInv,
         ScanInv, TopInv, NEW q \in Nat, JournalSound', RecoverNext,
         q <= Larger(call.scan, JournalMaximum(disk))
  PROVE  Secured(q)'
<1>0. /\ call.scan \in Nat /\ disk.target \in Nat /\ disk.tmp \in Nat /\ disk.bak \in Nat
      /\ \A s \in Stored : s \in Nat
  BY Fields, StoredType
<1>1. pc = "next" /\ call.op = "recover" /\ pc' \in {"idle", "advance"}
  BY NextEffects
<1>2. Stored' = Stored /\ disk' = disk
  BY DEF RecoverNext, Stored, Content
<1>3. JournalMaximum(disk) = disk.target
  BY <1>0, <1>1 DEF TopInv, JournalMaximum, Larger
<1>4. call.scan \in Stored \cup {0}
  BY <1>1 DEF ScanInv, Scanned, RecoverSteps
<1>5. CASE q <= disk.target
  BY <1>1, <1>2, <1>5 DEF Secured, Held, ValueAbove, Updating
<1>6. CASE q <= call.scan /\ call.scan \in Stored
  BY <1>2, <1>6 DEF Secured
<1>7. CASE q <= 0
  BY <1>0, <1>5, <1>7
<1>. QED  BY <1>0, <1>3, <1>4, <1>5, <1>6, <1>7 DEF Larger

(* Every step keeps each value in use secured by the next mount. *)
LEMMA FreshStep ==
  ASSUME Tolerated <= 1, SwapRule = "documented",
         Faults \cap {"floor_io", "repair_io", "bound_append"} = {},
         TypeInv, TypeInv', Shape, RepairInv, FlagInv, TopInv, ScanInv, BoundInv,
         FreshInv, [Next]_vars
  PROVE  FreshInv'
<1>. "repair_io" \notin Faults
  OBVIOUS
<1>. SUFFICES ASSUME JournalSound'
              PROVE  /\ Secured(InUse)' \/ InUse' <= (IF pc' = "off" THEN NvsFloor' ELSE bootFloor')
                     /\ ram'.writable /\ ram'.ready =>
                          /\ Secured(InUse)'
                          /\ \/ InUse' < ram'.next
                             \/ InUse' = ram'.next /\ pc' \in JournalUpdates /\ call'.op = "append"
                     /\ ram'.writable /\ ~ram'.ready => InUse' <= bootFloor'
                     /\ call'.op = "advance" /\ pc' \in JournalUpdates => call'.value >= InUse'
  BY DEF FreshInv
<1>0. /\ ram.next \in Nat /\ call.value \in Nat /\ call.scan \in Nat /\ bootFloor \in Nat
      /\ SequenceFloor \in Nat /\ SequenceFloor + 1 = ram.next /\ StepInv
      /\ nvs.server \in Nat /\ nvs.prepared \in Nat /\ NvsFloor \in Nat
      /\ disk.target \in Nat /\ disk.bak \in Nat
  BY Fields DEF TypeInv, NvsFloor, Larger
<1>u. InUse \in Nat /\ InUse' \in Nat /\ InUse' >= InUse /\ highest \in Nat /\ reserved \in Nat
  BY InUseType, InUseStep
<1>00. NoCall.op = "none"
  BY DEF NoCall
<1>q. PICK q \in Nat : q = InUse
  BY <1>u
<1>s. InUse' = InUse => (Secured(q)' <=> Secured(InUse)')
  BY <1>q DEF Secured, Held, ValueAbove
<1>1. CASE ReplaceCard
  <2>1. /\ pc = "off" /\ NvsFloor >= Larger(highest, reserved) /\ pc' = pc
        /\ UNCHANGED <<nvs, ram, call, highest, reserved>>
    BY <1>1 DEF ReplaceCard
  <2>2. ~ram.writable /\ call.op = "none"
    BY <1>0, <1>00, <2>1 DEF FlagInv, StepInv
  <2>3. NvsFloor' = NvsFloor /\ InUse' = InUse /\ InUse <= NvsFloor
    BY <1>0, <1>u, <2>1 DEF NvsFloor, InUse
  <2>. QED  BY <2>1, <2>2, <2>3
<1>2. CASE UNCHANGED vars
  <2>1. FreshInv' <=> FreshInv
    BY <1>2 DEF vars, FreshInv, JournalSound, Secured, Stored, Content, Held,
       ValueAbove,
       InUse, NvsFloor
  <2>. QED  BY <2>1 DEF FreshInv
<1>3. CASE CardStep \/ PersistSequence \/ PowerLoss
  <2>0. /\ Secured(q) \/ q <= (IF pc = "off" THEN NvsFloor ELSE bootFloor)
        /\ ram.writable /\ ram.ready =>
             /\ Secured(q)
             /\ q < ram.next \/ (q = ram.next /\ pc \in JournalUpdates /\ call.op = "append")
        /\ ram.writable /\ ~ram.ready => q <= bootFloor
        /\ call.op = "advance" /\ pc \in JournalUpdates => call.value >= q
    <3>1. JournalSound
      BY <1>3, SoundBefore
    <3>. QED  BY <1>q, <3>1 DEF FreshInv
  <2>1. CASE PersistSequence
    <3>1. /\ ram' = ram /\ call'.op = call.op /\ call'.value = call.value /\ bootFloor' = bootFloor
          /\ highest' = highest /\ reserved' = reserved
          /\ pc \in JournalUpdates /\ pc' \in JournalUpdates
      BY <2>1, PersistCallFrame
    <3>2. pc # "off" /\ pc' # "off" /\ InUse' = InUse /\ ~ReplaceCard /\ ~StartStep
      BY <3>1 DEF JournalUpdates, InUse, ReplaceCard, StartStep,
         RecoverJournal, Append_,
         AppendIf, AdvanceSequenceFloor, Reserve
    <3>3. Secured(q) => Secured(q)'
      BY <3>2, SecuredStep
    <3>. QED  BY <1>q, <1>s, <2>0, <3>1, <3>2, <3>3
  <2>2. CASE PowerLoss
    <3>1. /\ pc # "off" /\ pc' = "off" /\ ~ram'.writable /\ call' = NoCall /\ UNCHANGED nvs
          /\ highest' = highest /\ reserved' = reserved
      BY <2>2 DEF PowerLoss, ColdRam, ghosts
    <3>2. InUse' = InUse /\ NvsFloor' = NvsFloor /\ bootFloor <= NvsFloor
      BY <3>1 DEF InUse, NvsFloor, BoundInv
    <3>3. ~ReplaceCard /\ ~StartStep
      BY <2>2, <3>1 DEF ReplaceCard, StartStep, RecoverJournal, Append_,
         AppendIf, AdvanceSequenceFloor, Reserve, StartPersist
    <3>4. Secured(q) => Secured(q)'
      BY <3>3, SecuredStep
    <3>5. Secured(q) \/ q <= NvsFloor
      BY <1>0, <2>0, <3>1, <3>2
    <3>. QED  BY <1>00, <1>q, <1>s, <3>1, <3>2, <3>4, <3>5
  <2>3. CASE MountStep
    <3>1. InUse' = InUse /\ ~ReplaceCard /\ ~StartStep
      <4>1. pc' \in {"recover_repair", "scan", "idle"} /\ (pc = "recover_repair" \/ pc' # "idle")
        BY <2>3, MountEffects
      <4>2. highest' = highest /\ reserved' = reserved
        BY <2>3 DEF MountStep, Boot, Remount, MountFails, RetentionRescan,
           ghosts
      <4>. QED
        BY <4>1, <4>2 DEF InUse, ReplaceCard, StartStep, RecoverJournal,
           Append_, AppendIf,
           AdvanceSequenceFloor, Reserve, StartPersist
    <3>2. Secured(q) => Secured(q)'
      BY <3>1, SecuredStep
    <3>3. \/ pc = "off" /\ bootFloor' = NvsFloor
          \/ pc # "off" /\ bootFloor' = bootFloor
      BY <2>3 DEF MountStep, Boot, Remount, MountFails, RetentionRescan, world,
         device
    <3>4. \/ pc' = "recover_repair" /\ ~ram'.writable /\ call'.op = "recover"
          \/ pc' = "idle" /\ ~ram'.writable /\ call' = NoCall
          \/ pc = "idle" /\ pc' = "scan" /\ ram' = ram /\ call'.op = "recover"
      BY <1>0, <2>3, MountEffects DEF FlagInv, StepInv, RecoverSteps
    <3>5. ram.writable => pc # "off"
      BY DEF FlagInv
    <3>. QED
      BY <1>00, <1>q, <1>s, <2>0, <3>1, <3>2, <3>3, <3>4, <3>5
      DEF JournalUpdates
  <2>4. CASE RepairStep
    <3>1. /\ pc \in RecoverSteps \ {"next", "journal"}
          /\ pc' \in RecoverSteps \ {"next", "recover_repair"}
          /\ ram' = ram /\ call'.op = "recover" /\ call.op = "recover"
      BY <1>0, <2>4, RepairEffects DEF StepInv
    <3>2. highest' = highest /\ reserved' = reserved /\ bootFloor' = bootFloor
      BY <2>4 DEF RepairStep, RecoverRepairCopy, Scan, RepairCopy,
         RepairUnlink, RepairRename,
         ghosts, world, device
    <3>3. InUse' = InUse /\ ~ReplaceCard /\ ~StartStep
      BY <3>1, <3>2 DEF InUse, RecoverSteps, ReplaceCard, StartStep,
         RecoverJournal, Append_,
         AppendIf, AdvanceSequenceFloor, Reserve
    <3>4. Secured(q) => Secured(q)'
      BY <3>3, SecuredStep
    <3>. QED  BY <1>q, <1>s, <2>0, <3>1, <3>2, <3>3, <3>4 DEF RecoverSteps
  <2>5. CASE RecoverNext
    <3>1. pc = "next" /\ call.op = "recover"
      BY <2>5, NextEffects
    <3>2. PICK committed \in Nat :
              /\ committed = Larger(call.scan, JournalMaximum(disk))
              /\ ram'.next = committed + 1 /\ ram'.writable
              /\ \/ /\ call.mounting /\ bootFloor > committed /\ ~ram'.ready
                    /\ pc' = "advance"
                 \/ /\ call.mounting => bootFloor <= committed /\ ram'.ready
                    /\ ~call.mounting => ram'.ready = ram.ready
                    /\ pc' = "idle" /\ call' = NoCall
      BY <2>5, NextEffects
    <3>3. highest' = highest /\ reserved' = reserved /\ bootFloor' = bootFloor
      BY <2>5 DEF RecoverNext, ghosts, world, device
    <3>4. InUse' = InUse
      BY <3>3 DEF InUse
    <3>5. JournalSound
      BY <1>3, SoundBefore
    <3>6. Secured(q) => q <= committed
      BY <2>5, <3>2, <3>5, CommittedCovers
    <3>7. q <= committed => Secured(q)'
      BY <2>5, <3>2, CommittedIsSecured
    <3>8. ~call.mounting => ram.writable /\ ram.ready
      BY <3>1 DEF FlagInv
    <3>9. CASE call.mounting /\ bootFloor > committed /\ ~ram'.ready /\ pc' = "advance"
      <4>1. q <= bootFloor
        BY <1>0, <2>0, <3>1, <3>6, <3>9
      <4>. QED  BY <1>q, <3>2, <3>3, <3>4, <3>9, <4>1 DEF JournalUpdates
    <3>10. CASE /\ call.mounting => bootFloor <= committed /\ ram'.ready
                /\ ~call.mounting => ram'.ready = ram.ready
                /\ pc' = "idle" /\ call' = NoCall
      <4>1. q <= committed
        BY <1>0, <2>0, <3>1, <3>6, <3>8, <3>10
      <4>2. ram'.ready
        BY <3>8, <3>10
      <4>3. InUse' < ram'.next
        BY <1>q, <3>2, <3>4, <4>1
      <4>. QED  BY <1>q, <1>s, <1>00, <3>4, <3>7, <3>10, <4>1, <4>2, <4>3
    <3>. QED  BY <3>2, <3>9, <3>10
  <2>6. CASE ReturnStep
    <3>1. pc = "persisted" /\ call.op # "bound_append" /\ (call.op = "advance" => call.ok)
      BY <2>6, ReturnEffects DEF FlagInv
    <3>2. ~ReplaceCard /\ ~StartStep /\ bootFloor' = bootFloor /\ pc' # "off" /\ highest' = highest
          /\ (pc' = "idle" \/ pc' = "next")
      BY <2>6, <3>1 DEF ReplaceCard, StartStep, RecoverJournal, Append_,
         AppendIf,
         AdvanceSequenceFloor, Reserve, ReturnStep, AppendReturn, ReserveReturn,
         AdvanceReturn, RecoverReturn, RecoverFailed, world, device, ghosts
    <3>3. Secured(q) => Secured(q)'
      BY <3>2, SecuredStep
    <3>4. call.ok => cut' = 0 /\ disk'.target = call.value /\ cut' = cut
      <4>1. JournalSound /\ SameJournals /\ cut' = cut
        BY <1>3, <2>6, SoundBefore, CardStepFrame DEF CardStep
      <4>. QED  BY <3>1, <4>1 DEF Shape, SameJournals
    <3>5. CASE call.op = "append"
      <4>1. call.value = ram.next
        BY <3>1, <3>5 DEF Shape, JournalUpdates
      <4>2. /\ ram'.next = ram.next + 1 /\ ram'.writable = ram.writable /\ ram'.ready = ram.ready
            /\ call' = NoCall /\ reserved' = reserved
        BY <2>6, <3>1, <3>5, <4>1, ReturnEffects
      <4>3. InUse' = InUse
        BY <3>2, <4>2 DEF InUse
      <4>4. ram.writable /\ ram.ready => InUse' < ram'.next
        BY <1>0, <1>q, <2>0, <4>2, <4>3
      <4>. QED  BY <1>00, <1>q, <1>s, <2>0, <3>1, <3>2, <3>3, <4>2, <4>3, <4>4
    <3>6. CASE call.op = "reserve" /\ ~call.ok
      <4>1. ram' = ram /\ call' = NoCall /\ reserved' = reserved
        BY <2>6, <3>6, ReturnEffects
      <4>2. InUse' = InUse
        BY <3>2, <4>1 DEF InUse
      <4>. QED  BY <1>00, <1>q, <1>s, <2>0, <3>1, <3>2, <3>3, <3>6, <4>1, <4>2
    <3>7. CASE call.op = "reserve" /\ call.ok
      <4>1. /\ ram'.next = call.value + 1 /\ ram'.writable = ram.writable /\ ram'.ready = ram.ready
            /\ call' = NoCall /\ reserved' = Larger(reserved, call.value)
        BY <2>6, <3>7, ReturnEffects
      <4>2. call.value >= ram.next /\ (ram.writable => ram.ready)
        BY <3>1, <3>7 DEF FlagInv, JournalUpdates
      <4>3. ram.writable => q < call.value \/ q < ram.next
        BY <1>0, <2>0, <3>1, <3>7, <4>2
      <4>4. InUse' = InUse \/ InUse' = call.value
        BY <1>0, <1>u, <3>2, <4>1 DEF InUse, Larger
      <4>5. ram.writable => InUse' <= call.value
        BY <1>0, <1>q, <1>u, <4>2, <4>3, <4>4
      <4>6. CASE ram.writable
        <5>1. Secured(InUse)'
          BY <1>0, <1>u, <3>2, <3>4, <3>7, <4>5, <4>6 DEF Secured, Held,
             ValueAbove, Updating
        <5>2. InUse' < ram'.next
          BY <1>0, <1>u, <4>1, <4>5, <4>6
        <5>. QED  BY <1>00, <4>1, <4>2, <5>1, <5>2
      <4>7. CASE ~ram.writable
        <5>1. InUse' = call.value => Secured(InUse)'
          BY <1>0, <3>2, <3>4, <3>7 DEF Secured, Held, ValueAbove, Updating
        <5>. QED
          BY <1>00, <1>q, <1>s, <2>0, <3>1, <3>2, <3>3, <4>1, <4>4, <4>7, <5>1
      <4>. QED  BY <4>6, <4>7
    <3>8. CASE call.op = "advance"
      <4>1. /\ ram'.next = call.value + 1 /\ ram'.writable = ram.writable /\ ram'.ready
            /\ call' = NoCall /\ reserved' = reserved
        BY <2>6, <3>1, <3>8, ReturnEffects
      <4>2. InUse' = InUse /\ q <= call.value
        BY <2>0, <3>1, <3>2, <3>8, <4>1 DEF InUse, JournalUpdates
      <4>3. Secured(q)'
        BY <1>0, <3>1, <3>2, <3>4, <3>8, <4>2 DEF Secured, Held, ValueAbove,
           Updating
      <4>. QED  BY <1>0, <1>00, <1>q, <1>s, <4>1, <4>2, <4>3
    <3>9. CASE call.op = "recover"
      <4>1. /\ \/ call' = call /\ pc' = "next" /\ ram' = ram
               \/ call' = NoCall /\ (~ram'.writable \/ ram' = ram)
            /\ reserved' = reserved
        BY <2>6, <3>9, ReturnEffects
      <4>2. InUse' = InUse
        BY <3>2, <4>1 DEF InUse
      <4>. QED
        BY <1>00, <1>q, <1>s, <2>0, <3>1, <3>2, <3>3, <3>9, <4>1, <4>2
    <3>. QED  BY <2>6, <3>1, <3>5, <3>6, <3>7, <3>8, <3>9, ReturnEffects
  <2>7. CASE OtherTask
    <3>1. /\ pc = "idle"
          /\ \/ pc' = "idle" /\ call' = NoCall
             \/ pc' = "advance"
          /\ ram'.next = ram.next /\ ram'.ready = ram.ready
          /\ ram'.writable => ram.writable
      BY <2>7, OtherEffects
    <3>2. /\ ~ReplaceCard /\ bootFloor' = bootFloor /\ highest' = highest /\ reserved' = reserved
          /\ Stored' = Stored /\ SameJournals /\ cut' = cut
      <4>1. /\ bootFloor' = bootFloor /\ highest' = highest /\ reserved' = reserved
            /\ disk' = disk /\ cut' = cut
        BY <2>7 DEF OtherTask, Upload, Heartbeat, CheckpointRemoval,
           PrepareRemoval, Reconcile,
           ghosts
      <4>2. ReplaceCard => pc = "off"
        BY DEF ReplaceCard
      <4>. QED  BY <3>1, <4>1, <4>2 DEF Stored, Content, SameJournals
    <3>3. InUse' = InUse
      BY <3>2 DEF InUse
    <3>4. Secured(q) => Secured(q)'
      BY <3>1, <3>2 DEF Secured, Held, ValueAbove, Updating, SameJournals
    <3>. QED
      BY <1>00, <1>q, <1>s, <2>0, <3>1, <3>2, <3>3, <3>4 DEF JournalUpdates
  <2>8. CASE StartStep
    <3>0. bootFloor' = bootFloor /\ reserved' = reserved
      BY <2>8 DEF StartStep, RecoverJournal, Append_, AppendIf,
         AdvanceSequenceFloor, Reserve,
         world, device, ghosts
    <3>1. ~ReplaceCard /\ pc # "off" /\ pc' # "off"
      BY <2>8 DEF ReplaceCard, StartStep, RecoverJournal, Append_, AppendIf,
         AdvanceSequenceFloor, Reserve, StartPersist
    <3>2. CASE RecoverJournal
      <4>1. Secured(q) => Secured(q)'
        BY <3>1, <3>2, SecuredStep
      <4>2. highest' = highest /\ pc = "journal" /\ ram' = ram /\ call'.op = "recover"
        <5>1. call.op = "recover" /\ call \in CallRecord
          BY <1>0, <3>2 DEF RecoverJournal, StepInv, RecoverSteps, TypeInv,
             Typed
        <5>. QED
          BY <3>2, <5>1 DEF RecoverJournal, StartPersist, CallRecord, ghosts
      <4>3. InUse' = InUse
        BY <3>0, <4>2 DEF InUse
      <4>. QED
        BY <1>q, <1>s, <2>0, <3>0, <3>1, <4>1, <4>2, <4>3 DEF JournalUpdates
    <3>3. CASE Append_ /\ pc' = "remove_tmp"
      <4>1. /\ pc = "idle" /\ ram.writable /\ ram.ready /\ ram' = ram /\ call'.op = "append"
            /\ highest' = Larger(highest, ram.next)
        BY <2>8, <3>3, StartEffects DEF Append_, AppendIf, NoCall
      <4>2. q < ram.next
        BY <2>0, <4>1 DEF JournalUpdates
      <4>3. InUse' = ram.next
        BY <1>0, <1>q, <1>u, <3>0, <4>1, <4>2 DEF InUse, Larger
      <4>4. ram.next \in Stored'
        BY <3>1, <3>3, StoredStep
      <4>5. Secured(InUse)'
        BY <1>0, <4>3, <4>4 DEF Secured
      <4>. QED  BY <3>3, <4>1, <4>3, <4>5 DEF JournalUpdates
    <3>4. CASE Append_ /\ pc' # "remove_tmp"
      <4>1. ~ram'.writable /\ call' = NoCall /\ highest' = highest /\ pc = "idle" /\ Stored' = Stored
            /\ pc' = "idle"
        BY <2>8, <3>1, <3>4, StartEffects, StoredStep DEF Append_, AppendIf,
           StepInv
      <4>2. InUse' = InUse
        BY <3>0, <4>1 DEF InUse
      <4>3. SameJournals /\ cut' = cut
        BY <2>8, CardStepFrame DEF CardStep
      <4>4. Secured(q) => Secured(q)'
        BY <4>1, <4>3 DEF Secured, Held, ValueAbove, Updating, SameJournals
      <4>. QED  BY <1>00, <1>q, <1>s, <2>0, <3>0, <3>1, <4>1, <4>2, <4>4
    <3>5. CASE ~RecoverJournal /\ ~Append_
      <4>0. highest' = highest
        BY <2>8, <3>5 DEF StartStep, AdvanceSequenceFloor, Reserve, ghosts
      <4>1. InUse' = InUse
        BY <3>0, <4>0 DEF InUse
      <4>2. CASE /\ pc = "idle" /\ ram.writable /\ ram' = ram /\ pc' = "remove_tmp"
                 /\ call'.op = "reserve" /\ call'.value >= ram.next
        <5>1. ram.ready
          BY <4>2 DEF FlagInv, JournalUpdates
        <5>2. q < ram.next /\ Secured(q)
          BY <2>0, <4>2, <5>1 DEF JournalUpdates
        <5>3. call'.value >= q
          <6>1. call'.value \in Used
            BY DEF TypeInv, Typed, CallRecord
          <6>. QED  BY <1>0, <4>2, <5>2, <6>1, SequenceBounds DEF Used
        <5>4. Secured(q)'
          BY <3>1, <5>2, <5>3, SecuredStep
        <5>. QED  BY <1>q, <1>s, <4>1, <4>2, <5>1, <5>2, <5>4
      <4>3. CASE /\ pc = "advance" /\ pc' = "idle" /\ call' = NoCall /\ ram.mounted /\ ram.writable
                 /\ call.value <= SequenceFloor /\ ram'.ready /\ ram'.writable
                 /\ ram'.next = ram.next
        <5>1. ram.ready
          BY <1>0, <4>3 DEF FlagInv
        <5>2. q < ram.next /\ Secured(q)
          BY <2>0, <4>3, <5>1 DEF JournalUpdates
        <5>3. SameJournals /\ cut' = cut /\ Stored' = Stored
          BY <2>8, <3>1, <3>5, CardStepFrame, StoredStep DEF CardStep
        <5>4. Secured(q)'
          BY <4>3, <5>2, <5>3 DEF Secured, Held, ValueAbove, Updating,
             SameJournals
        <5>. QED  BY <1>00, <1>q, <1>s, <4>1, <4>3, <5>2, <5>4
      <4>4. CASE /\ pc = "advance" /\ pc' = "idle" /\ call' = NoCall
                 /\ \/ ~(ram.mounted /\ ram.writable)
                    \/ call.value > SequenceFloor /\ call.value < ram.newest
                 /\ ~ram'.ready /\ ram'.writable = ram.writable
        <5>1. ~ram.writable
          BY <1>0, <4>4, Fields DEF FlagInv
        <5>3. SameJournals /\ cut' = cut /\ Stored' = Stored
          BY <2>8, <3>1, <3>5, CardStepFrame, StoredStep DEF CardStep
        <5>4. Secured(q) => Secured(q)'
          BY <4>4, <5>3 DEF Secured, Held, ValueAbove, Updating, SameJournals
        <5>. QED
          BY <1>00, <1>q, <1>s, <2>0, <3>0, <3>1, <4>1, <4>4, <5>1, <5>4
      <4>5. CASE /\ pc = "advance" /\ pc' = "remove_tmp" /\ ram' = ram
                 /\ ram.mounted /\ ram.writable /\ call.value > SequenceFloor
                 /\ call.op = "advance" /\ call'.op = "advance" /\ call'.value = call.value
        <5>1. call.value >= q
          <6>1. CASE ram.ready
            BY <1>0, <2>0, <4>5, <6>1 DEF JournalUpdates
          <6>2. CASE ~ram.ready
            BY <2>0, <4>5, <6>2 DEF FlagInv
          <6>. QED  BY <6>1, <6>2
        <5>2. Secured(q) => Secured(q)'
          BY <3>1, <4>5, <5>1, SecuredStep
        <5>. QED
          BY <1>q, <1>s, <2>0, <3>0, <3>1, <4>1, <4>5, <5>1, <5>2
          DEF JournalUpdates
      <4>. QED  BY <2>8, <3>5, <4>2, <4>3, <4>4, <4>5, StartEffects
    <3>. QED  BY <3>2, <3>3, <3>4, <3>5
  <2>. QED
    BY <1>3, <2>1, <2>2, <2>3, <2>4, <2>5, <2>6, <2>7, <2>8 DEF CardStep
<1>. QED  BY <1>1, <1>2, <1>3, NextCases

\* The assumptions of the next theorems, and what they rest on.
Reliable ==
  /\ Tolerated <= 1 /\ SwapRule = "documented"
  /\ Faults \cap {"floor_io", "repair_io", "bound_append"} = {}

SequenceInv ==
  /\ UpdateInv /\ RepairInv /\ StoredInv /\ FlagInv /\ TopInv /\ ScanInv /\ BoundInv
  /\ FreshInv

(* The conjunction is an invariant when the hypotheses of Reliable hold. *)
LEMMA SequenceInvariant ==
  ASSUME Reliable
  PROVE  Spec => []SequenceInv
<1>. Tolerated <= 1 /\ SwapRule = "documented" /\ "repair_io" \notin Faults
     /\ Faults \cap {"floor_io", "repair_io", "bound_append"} = {}
     /\ Faults \cap {"floor_io", "bound_append"} = {}
  BY DEF Reliable
<1>1. Init => SequenceInv
  <2>. SUFFICES ASSUME Init PROVE SequenceInv
    OBVIOUS
  <2>1. UpdateInv
    BY TypeInit, ShapeInit DEF UpdateInv
  <2>2. Stored = {} /\ InUse = 0
    BY NoFileIsEmpty DEF Init, Stored, Content, BlankCard, InUse, Larger
  <2>3. RepairInv /\ StoredInv
    BY NoFileIsEmpty DEF Init, RepairInv, StoredInv, BlankCard, ColdRam,
       NoCall, JournalUpdates
  <2>4. FlagInv /\ TopInv
    BY DEF Init, FlagInv, TopInv, ColdRam, NoCall, JournalUpdates
  <2>5. ScanInv
    BY <2>2 DEF Init, ScanInv, NoCall, ColdRam
  <2>6. BoundInv
    BY <2>2 DEF Init, BoundInv, NoCall, ColdRam, NvsFloor, Larger
  <2>7. FreshInv
    BY <2>2 DEF Init, FreshInv, NoCall, ColdRam, NvsFloor, Larger
  <2>. QED  BY <2>1, <2>3, <2>4, <2>5, <2>6, <2>7 DEF SequenceInv
<1>2. SequenceInv /\ UpdateInv' /\ [Next]_vars => SequenceInv'
  <2>. SUFFICES ASSUME SequenceInv, UpdateInv', [Next]_vars PROVE SequenceInv'
    OBVIOUS
  <2>. USE DEF SequenceInv, UpdateInv
  <2>1. RepairInv' /\ StoredInv'
    BY RepairInvStep, KeptStep
  <2>2. FlagInv' /\ TopInv'
    BY FlagStep, TopStep
  <2>3. ScanInv'
    BY ScanStep
  <2>4. BoundInv'
    BY BoundStep
  <2>5. FreshInv'
    BY FreshStep
  <2>. QED  BY <2>1, <2>2, <2>3, <2>4, <2>5
<1>. QED  BY <1>1, <1>2, UpdateInvariant, PTL DEF Spec

\* No sequence is used twice: whenever append() would accept a record,
\* next_sequence_ is above every record the card keeps and, while no update of
\* the journals is cut short twice between two confirmed ones, above every
\* sequence ever stored or reserved, also on the cards this one replaced
\* (NextIsFresh).  For any number of records, reservations, power losses,
\* short writes, failed mounts and failed journal updates; not for failures in
\* the repair of a torn tail, in advanceSequenceFloor() or in a data-reset
\* barrier's append, and not for an undocumented exchange of the card.
THEOREM SequencesNeverReused ==
  ASSUME Reliable
  PROVE  Spec => []NextIsFresh
<1>1. SequenceInv => NextIsFresh
  <2>. SUFFICES ASSUME SequenceInv, pc = "idle", ram.writable, ram.ready
                PROVE  /\ ram.next > LargestIn(kept)
                       /\ JournalSound => ram.next > Larger(highest, reserved)
    BY DEF NextIsFresh, CanWrite
  <2>0. TypeInv /\ ram.next \in Nat /\ ram.next > 0 /\ kept \in SUBSET Used /\ Used \subseteq Nat
    BY Fields, SequenceBounds DEF SequenceInv, UpdateInv, TypeInv, Typed, Used
  <2>1. \A s \in kept : s < ram.next
    BY DEF SequenceInv, StoredInv, ScanInv, JournalUpdates
  <2>2. ram.next > LargestIn(kept)
    <3>1. CASE kept = {}
      BY <2>0, <3>1 DEF LargestIn
    <3>2. CASE kept # {}
      <4>1. LargestIn(kept) \in kept
        BY <2>0, <3>2, LargestInIsLargest
      <4>. QED  BY <2>0, <2>1, <4>1
    <3>. QED  BY <3>1, <3>2
  <2>3. JournalSound => InUse < ram.next
    BY DEF SequenceInv, FreshInv, JournalUpdates
  <2>4. InUse \in Nat
    BY <2>0, InUseType
  <2>. QED  BY <2>0, <2>2, <2>3, <2>4 DEF InUse
<1>. QED  BY <1>1, SequenceInvariant, PTL

\* A record is stored only above the server's maximum, the persisted cursor
\* and the removal checkpoint (RecordAboveServerFloor), under the same
\* assumptions.
THEOREM RecordsAboveTheFloor ==
  ASSUME Reliable
  PROVE  Spec => RecordAboveServerFloor
<1>1. SequenceInv /\ [Next]_vars =>
        [JournalSound /\ pc = "idle" /\ call'.op \in {"append", "bound_append"}
           => call'.value > Larger(serverMax, NvsFloor)]_vars
  <2>. SUFFICES ASSUME SequenceInv, Next, JournalSound, pc = "idle",
                       call'.op \in {"append", "bound_append"}
                PROVE  call'.value > Larger(serverMax, NvsFloor)
    OBVIOUS
  <2>0. TypeInv /\ StepInv
    BY DEF SequenceInv, UpdateInv, TypeInv
  <2>00. NoCall.op = "none"
    BY DEF NoCall
  <2>1. StartStep
    <3>1. call.op = "none"
      BY <2>0, <2>00 DEF StepInv
    <3>2. ~PersistSequence
      BY <2>0, <3>1, PersistCallFrame DEF JournalUpdates
    <3>3. ~PowerLoss /\ ~ReplaceCard /\ ~(UNCHANGED vars)
      BY <2>00, <3>1 DEF PowerLoss, ReplaceCard, vars
    <3>4. ~MountStep /\ ~OtherTask
      BY <2>0, <2>00, MountEffects, OtherEffects
    <3>5. ~RepairStep /\ ~RecoverNext /\ ~ReturnStep
      BY <2>0, RepairEffects, NextEffects, ReturnEffects DEF RecoverSteps
    <3>. QED  BY <3>2, <3>3, <3>4, <3>5, NextCases DEF CardStep
  <2>2. call'.value = ram.next /\ ram.writable /\ ram.ready
    BY <2>0, <2>00, <2>1, StartEffects
  <2>3. InUse < ram.next
    BY <2>2 DEF SequenceInv, FreshInv, JournalUpdates
  <2>4. serverMax <= InUse /\ NvsFloor <= InUse
    BY DEF SequenceInv, BoundInv, NvsFloor, Larger
  <2>. QED
    BY <2>0, <2>2, <2>3, <2>4, Fields, InUseType DEF Larger, NvsFloor
<1>. QED
  BY <1>1, SequenceInvariant, PTL DEF RecordAboveServerFloor, Spec

=============================================================================
