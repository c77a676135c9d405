----------------------------- MODULE SdSequence ------------------------------
(***************************************************************************)
(* Reading sequences on the microSD card: SdStorage::append,               *)
(* reserveUnavailableIntervals, advanceSequenceFloor, persistSequence,     *)
(* recover, recoverFile and the mount that runs them, with the server      *)
(* cursor and the removal checkpoint kept in NVS.                          *)
(*                                                                         *)
(* StorageTask runs one of these calls at a time under the SD mutex; what  *)
(* makes them hard is that power can be lost, or a FAT operation fail,     *)
(* between any two changes of the card.  Every change of the card is       *)
(* therefore a step of its own.  The card is reduced to the file being     *)
(* appended to, its .repair copy and the three journal files; a journal    *)
(* that is absent or does not parse has the value 0.                       *)
(***************************************************************************)
EXTENDS Naturals, Sequences, FiniteSets

CONSTANTS
  MaxSequence,  \* the largest sequence (UINT64_MAX)
  Cursors,      \* the values of the server's maximum considered (a bound)
  MaxReserve,   \* the largest gap reserved by one call (a bound)
  Faults,       \* the FAT failures that may happen
  Tolerated,    \* how often a journal update may be cut short (see Interrupted)
  SwapRule,     \* when a blank card may take the place of the mounted one
  NoFile        \* stands for a file that does not exist

\* journal_io: an operation on a journal file, except under floor_io: in
\* advanceSequenceFloor.  short_write: a record.  mount_io: SD.begin, layout
\* or self test.  repair_io: the repair of a torn tail.  bound_append: the
\* append of a data-reset barrier, which does not tolerate a failed journal.
FaultKinds == {"journal_io", "floor_io", "short_write", "mount_io",
               "repair_io", "bound_append"}
SwapRules == {"documented", "runtime"}

ASSUME SequenceBounds ==
  MaxSequence \in Nat \ {0} /\ MaxReserve \in Nat /\ Cursors \subseteq Nat
ASSUME FaultAssumption ==
  Faults \subseteq FaultKinds /\ SwapRule \in SwapRules /\ Tolerated \in Nat
ASSUME FileAssumption == NoFile \notin Seq(Nat)

VARIABLES
  disk,      \* the card: file, torn, repair, target, tmp, bak
  nvs,       \* NVS: the server cursor and the removal checkpoint
  serverMax, \* the largest sequence the server has stored
  bootFloor, \* SdStorage::required_sequence_floor_, fixed by begin()
  ram,       \* SdStorage's health and next_sequence_
  request,   \* StorageCoordinator: required_sequence_floor_ and what is queued
  pc,        \* the next step of StorageTask
  call,      \* the locals of the call in progress
  cut,       \* ghost: how often the journal update was cut short
  highest,   \* ghost: the largest sequence ever stored
  reserved,  \* ghost: the largest sequence ever reserved
  kept,      \* ghost: the sequences this card stored with append() = true
  promised   \* ghost: the largest value persistSequence() confirmed here

vars == <<disk, nvs, serverMax, bootFloor, ram, request, pc, call, cut,
          highest, reserved, kept, promised>>
ghosts == <<highest, reserved, kept, promised>>
device == <<nvs, serverMax, bootFloor, request>>
world == <<device, cut>>

Larger(a, b) == IF a >= b THEN a ELSE b

Corrupt == 0  \* a complete line that fails its CRC
BlankCard == [file |-> NoFile, torn |-> FALSE, repair |-> NoFile,
              target |-> 0, tmp |-> 0, bak |-> 0]
ColdRam == [mounted |-> FALSE, writable |-> FALSE, removal |-> FALSE,
            ready |-> FALSE, next |-> 1, newest |-> 0]
NoRequest == [floor |-> 0, reconcile |-> FALSE, removal |-> FALSE]
NoCall == [op |-> "none", value |-> 0, mounting |-> FALSE,
           scan |-> 0, had |-> FALSE, ok |-> FALSE]

Lines(f) == IF f = NoFile THEN <<>> ELSE f
Readable(f) == {Lines(f)[i] : i \in 1..Len(Lines(f))} \ {Corrupt}

\* recoverFile stops at the first complete line that does not decode.
ScannedLines(f) ==
  {Lines(f)[i] : i \in {j \in 1..Len(Lines(f)) :
                          \A k \in 1..j : Lines(f)[k] # Corrupt}}
LargestIn(S) == IF S = {} THEN 0 ELSE CHOOSE m \in S : \A s \in S : s <= m

\* Mutant of ScanMaximum: the journals alone decide the next sequence.
ScanNothing(f) == 0

ScanMaximum(f) == LargestIn(ScannedLines(f))
HasCorruptLine(f) == \E i \in 1..Len(Lines(f)) : Lines(f)[i] = Corrupt

JournalMaximum(d) == Larger(d.target, Larger(d.tmp, d.bak))
NvsFloor == Larger(nvs.server, nvs.prepared)
SequenceFloor == ram.next - 1

MayFail(kind) == kind \in Faults
JournalMayFail == MayFail(IF call.op = "advance" THEN "floor_io" ELSE "journal_io")

\* A journal update is cut short by a power loss or by a failed operation on
\* one of its files.  The count is kept since the last confirmed update, and
\* for good once it has exceeded Tolerated.
Interrupted == cut' = IF cut > Tolerated THEN cut ELSE cut + 1
Confirmed == cut' = IF cut > Tolerated THEN cut ELSE 0
JournalSound == cut <= Tolerated

JournalUpdates == {"remove_tmp", "write_tmp", "drop_tmp", "remove_bak",
                   "backup", "install", "verify", "drop_target", "restore",
                   "remove_old", "persisted"}
CanWrite == ram.mounted /\ ram.writable /\ ~ram.removal

-----------------------------------------------------------------------------
Init ==
  /\ disk = BlankCard
  /\ nvs = [server |-> 0, prepared |-> 0]
  /\ serverMax = 0
  /\ bootFloor = 0
  /\ ram = ColdRam
  /\ request = NoRequest
  /\ pc = "off"
  /\ call = NoCall
  /\ cut = 0
  /\ highest = 0
  /\ reserved = 0
  /\ kept = {}
  /\ promised = 0

\* A torn decimal number parses as a smaller number; a complete one may
\* still fail its read-back.
TornTmp == \E prefix \in 0..call.value : disk' = [disk EXCEPT !.tmp = prefix]

PowerLoss ==
  /\ pc # "off"
  /\ pc' = "off"
  /\ ram' = ColdRam
  /\ call' = NoCall
  /\ request' = NoRequest
  /\ IF pc = "write_tmp" THEN TornTmp ELSE UNCHANGED disk
  /\ IF pc \in JournalUpdates THEN Interrupted ELSE UNCHANGED cut
  /\ UNCHANGED <<nvs, serverMax, bootFloor, ghosts>>

\* remountPreferred(): every health flag is reset before the card is opened.
StartMount ==
  /\ ram' = [ram EXCEPT !.mounted = TRUE, !.writable = FALSE,
                        !.removal = FALSE, !.ready = FALSE]
  /\ pc' = "recover_repair"
  /\ call' = [NoCall EXCEPT !.op = "recover", !.mounting = TRUE]

\* Mutant of Boot: the removal checkpoint is left out of the floor.
BootWithoutCheckpoint ==
  /\ pc = "off"
  /\ bootFloor' = nvs.server
  /\ StartMount
  /\ UNCHANGED <<disk, nvs, serverMax, request, cut, ghosts>>

\* Application::begin passes the floor known to NVS to SdStorage::begin.
Boot ==
  /\ pc = "off"
  /\ bootFloor' = NvsFloor
  /\ StartMount
  /\ UNCHANGED <<disk, nvs, serverMax, request, cut, ghosts>>

\* A runtime remount (operator, storage retry) keeps the floor of begin().
Remount ==
  /\ pc = "idle"
  /\ StartMount
  /\ UNCHANGED <<disk, world, ghosts>>

\* SD.begin, the layout or the self test fails.
MountFails ==
  /\ pc = "recover_repair"
  /\ call.mounting
  /\ MayFail("mount_io")
  /\ ram' = [ram EXCEPT !.mounted = FALSE]
  /\ pc' = "idle"
  /\ call' = NoCall
  /\ UNCHANGED <<disk, world, ghosts>>

\* Mutant of RecoverRepairCopy: every leftover copy is deleted.
DropRepairCopy ==
  /\ pc = "recover_repair"
  /\ disk' = [disk EXCEPT !.repair = NoFile]
  /\ pc' = "scan"
  /\ UNCHANGED <<ram, call, world, ghosts>>

\* recoverCleanupJournal(): a .repair copy left by an interrupted repair is
\* dropped when the record file exists and takes its place when it does not.
RecoverRepairCopy ==
  /\ pc = "recover_repair"
  /\ disk' = IF disk.repair = NoFile THEN disk
             ELSE IF disk.file # NoFile THEN [disk EXCEPT !.repair = NoFile]
             ELSE [disk EXCEPT !.file = disk.repair, !.torn = FALSE,
                               !.repair = NoFile]
  /\ pc' = "scan"
  /\ UNCHANGED <<ram, call, world, ghosts>>

\* applyRetention() ends with recover() when it reclaimed space.
RetentionRescan ==
  /\ pc = "idle"
  /\ CanWrite
  /\ pc' = "scan"
  /\ call' = [NoCall EXCEPT !.op = "recover"]
  /\ UNCHANGED <<disk, ram, world, ghosts>>

-----------------------------------------------------------------------------
(* recoverFile(): the scan, and the copy-and-rename repair of a torn tail   *)

\* A corrupt line ends the scan before the tail is reached.
Scan ==
  /\ pc = "scan"
  /\ call' = [call EXCEPT !.scan = ScanMaximum(disk.file)]
  /\ pc' = IF disk.torn /\ ~HasCorruptLine(disk.file)
           THEN "repair_copy" ELSE "journal"
  /\ UNCHANGED <<disk, ram, world, ghosts>>

RepairCopy ==
  /\ pc = "repair_copy"
  /\ \/ /\ disk' = [disk EXCEPT !.repair = Lines(disk.file)]
        /\ pc' = "repair_unlink"
     \/ /\ MayFail("repair_io")
        /\ disk' = [disk EXCEPT !.repair = NoFile]
        /\ pc' = "journal"
  /\ UNCHANGED <<ram, call, world, ghosts>>

RepairUnlink ==
  /\ pc = "repair_unlink"
  /\ \/ /\ disk' = [disk EXCEPT !.file = NoFile, !.torn = FALSE]
        /\ pc' = "repair_rename"
     \/ /\ MayFail("repair_io")
        /\ UNCHANGED disk
        /\ pc' = "journal"
  /\ UNCHANGED <<ram, call, world, ghosts>>

\* recover() goes on after a failed repair and still returns true.
RepairRename ==
  /\ pc = "repair_rename"
  /\ \/ disk' = [disk EXCEPT !.file = disk.repair, !.repair = NoFile]
     \/ MayFail("repair_io") /\ UNCHANGED disk
  /\ pc' = "journal"
  /\ UNCHANGED <<ram, call, world, ghosts>>

-----------------------------------------------------------------------------
(* recover(): the journals, the next sequence and the floor of begin()      *)

\* The calls of persistSequence: its first step removes a stale .tmp file.
StartPersist(value) ==
  /\ pc' = "remove_tmp"
  /\ call' = [call EXCEPT !.value = value, !.ok = FALSE]

\* A .tmp or .bak journal left behind is folded into the target first.
RecoverJournal ==
  /\ pc = "journal"
  /\ IF disk.tmp # 0 \/ disk.bak # 0
     THEN StartPersist(JournalMaximum(disk))
     ELSE pc' = "next" /\ UNCHANGED call
  /\ UNCHANGED <<disk, ram, world, ghosts>>

\* recover() fails: a mount stays read-only, a rescan keeps its state.
RecoverFailed ==
  /\ ram' = IF call.mounting THEN [ram EXCEPT !.writable = FALSE] ELSE ram
  /\ pc' = "idle"
  /\ call' = NoCall

RecoverNext ==
  LET committed == Larger(call.scan, JournalMaximum(disk)) IN
  /\ pc = "next"
  /\ IF committed = MaxSequence
     THEN RecoverFailed
     ELSE /\ ram' = [ram EXCEPT !.next = committed + 1, !.newest = call.scan,
                                !.writable = TRUE,
                                !.ready = IF call.mounting
                                          THEN bootFloor <= committed ELSE @]
          /\ IF call.mounting /\ bootFloor > committed
             THEN pc' = "advance" /\ call' = [NoCall EXCEPT !.op = "advance",
                                                            !.value = bootFloor]
             ELSE pc' = "idle" /\ call' = NoCall
  /\ UNCHANGED <<disk, world, ghosts>>

-----------------------------------------------------------------------------
(* persistSequence(): tmp, verify, backup, install, verify                  *)

JournalStep(d, next) == disk' = d /\ pc' = next /\ UNCHANGED cut
JournalFails(next) ==
  /\ JournalMayFail
  /\ Interrupted
  /\ pc' = next
  /\ UNCHANGED disk

RemoveTmp ==
  /\ pc = "remove_tmp"
  /\ \/ JournalStep([disk EXCEPT !.tmp = 0], "write_tmp") /\ UNCHANGED call
     \/ JournalFails("persisted") /\ UNCHANGED call
  /\ UNCHANGED <<ram, device, ghosts>>

WriteTmp ==
  /\ pc = "write_tmp"
  /\ \/ JournalStep([disk EXCEPT !.tmp = call.value], "remove_bak")
     \/ /\ JournalMayFail
        /\ TornTmp
        /\ pc' = "drop_tmp"
        /\ Interrupted
  /\ UNCHANGED <<ram, call, device, ghosts>>

\* Every failure before the install removes the .tmp file, if it can.
DropTmp ==
  /\ pc = "drop_tmp"
  /\ \/ JournalStep([disk EXCEPT !.tmp = 0], "persisted")
     \/ JournalFails("persisted")
  /\ UNCHANGED <<ram, call, device, ghosts>>

RemoveBak ==
  /\ pc = "remove_bak"
  /\ \/ JournalStep([disk EXCEPT !.bak = 0], "backup")
     \/ JournalFails("drop_tmp")
  /\ UNCHANGED <<ram, call, device, ghosts>>

\* Mutant of BackupTarget: the old journal is deleted, not kept.
DeleteTarget ==
  /\ pc = "backup"
  /\ call' = [call EXCEPT !.had = FALSE]
  /\ JournalStep([disk EXCEPT !.target = 0], "install")
  /\ UNCHANGED <<ram, device, ghosts>>

BackupTarget ==
  /\ pc = "backup"
  /\ call' = [call EXCEPT !.had = disk.target # 0]
  /\ \/ JournalStep([disk EXCEPT !.bak = disk.target, !.target = 0], "install")
     \/ disk.target # 0 /\ JournalFails("drop_tmp")
  /\ UNCHANGED <<ram, device, ghosts>>

InstallTmp ==
  /\ pc = "install"
  /\ \/ JournalStep([disk EXCEPT !.target = disk.tmp, !.tmp = 0], "verify")
     \/ JournalFails("restore")
  /\ UNCHANGED <<ram, call, device, ghosts>>

VerifyTarget ==
  /\ pc = "verify"
  /\ \/ /\ disk.target = call.value
        /\ JournalStep(disk, "remove_old")
        /\ call' = [call EXCEPT !.ok = TRUE]
     \/ JournalFails("drop_target") /\ UNCHANGED call
  /\ UNCHANGED <<ram, device, ghosts>>

DropTarget ==
  /\ pc = "drop_target"
  /\ \/ JournalStep([disk EXCEPT !.target = 0], "restore")
     \/ JournalFails("restore")
  /\ UNCHANGED <<ram, call, device, ghosts>>

\* rename(backup, target) fails when the target is still there.
RestoreBackup ==
  /\ pc = "restore"
  /\ \/ /\ call.had /\ disk.target = 0
        /\ JournalStep([disk EXCEPT !.target = disk.bak, !.bak = 0], "persisted")
     \/ /\ ~call.had \/ disk.target # 0
        /\ JournalStep(disk, "persisted")
     \/ call.had /\ disk.target = 0 /\ JournalFails("persisted")
  /\ UNCHANGED <<ram, call, device, ghosts>>

\* The confirmed journal: the backup is removed, whatever that returns.
RemoveOld ==
  /\ pc = "remove_old"
  /\ \/ disk' = [disk EXCEPT !.bak = 0]
     \/ JournalMayFail /\ UNCHANGED disk
  /\ pc' = "persisted"
  /\ Confirmed
  /\ promised' = Larger(promised, call.value)
  /\ UNCHANGED <<ram, call, device, highest, reserved, kept>>

PersistSequence ==
  \/ RemoveTmp \/ WriteTmp \/ DropTmp \/ RemoveBak \/ BackupTarget
  \/ InstallTmp \/ VerifyTarget \/ DropTarget \/ RestoreBackup \/ RemoveOld

-----------------------------------------------------------------------------
(* append()                                                                 *)

\* Written onto a torn tail the line is complete and undecodable.
WriteRecord(seq) ==
  [disk EXCEPT !.file = Append(Lines(disk.file),
                               IF disk.torn THEN Corrupt ELSE seq),
               !.torn = FALSE]

\* "bound_append": the call comes from a data-reset barrier and names the
\* card generation it expects.
AppendIf(accepted) ==
  /\ pc = "idle"
  /\ CanWrite
  /\ ram.ready
  /\ accepted
  /\ \E op \in {"append"} \cup ({"bound_append"} \cap Faults) :
       \/ /\ disk' = WriteRecord(ram.next)
          /\ highest' = Larger(highest, ram.next)
          /\ pc' = "remove_tmp"
          /\ call' = [NoCall EXCEPT !.op = op, !.value = ram.next]
          /\ UNCHANGED ram
       \/ /\ MayFail("short_write")
          /\ disk' = [disk EXCEPT !.torn = TRUE, !.file = Lines(@)]
          /\ ram' = [ram EXCEPT !.writable = FALSE]
          /\ UNCHANGED <<pc, call, highest>>
  /\ UNCHANGED <<world, reserved, kept, promised>>

Append_ == AppendIf(ram.next # MaxSequence)

\* The record is durable: a failed journal is tolerated, except for the
\* barrier's append, which returns false before next_sequence_ advances.
AppendReturn ==
  /\ pc = "persisted"
  /\ call.op \in {"append", "bound_append"}
  /\ IF call.ok \/ call.op = "append"
     THEN /\ ram' = [ram EXCEPT !.next = call.value + 1, !.newest = call.value]
          /\ kept' = kept \cup {call.value}
     ELSE UNCHANGED <<ram, kept>>
  /\ pc' = "idle"
  /\ call' = NoCall
  /\ UNCHANGED <<disk, world, highest, reserved, promised>>

-----------------------------------------------------------------------------
(* reserveUnavailableIntervals() and advanceSequenceFloor()                 *)

Reserve(count) ==
  /\ pc = "idle"
  /\ CanWrite
  /\ count <= MaxSequence - ram.next
  /\ pc' = "remove_tmp"
  /\ call' = [NoCall EXCEPT !.op = "reserve", !.value = SequenceFloor + count]
  /\ UNCHANGED <<disk, ram, world, ghosts>>

ReserveReturn ==
  /\ pc = "persisted"
  /\ call.op = "reserve"
  /\ IF call.ok
     THEN /\ ram' = [ram EXCEPT !.next = call.value + 1,
                                !.newest = Larger(@, call.value)]
          /\ reserved' = Larger(reserved, call.value)
     ELSE UNCHANGED <<ram, reserved>>
  /\ pc' = "idle"
  /\ call' = NoCall
  /\ UNCHANGED <<disk, world, highest, kept, promised>>

\* StorageTask takes the coalesced request of queueSequenceReconciliation; the
\* requested floor stays, and is the least the next request asks for.
Reconcile ==
  /\ pc = "idle"
  /\ request.reconcile
  /\ pc' = "advance"
  /\ call' = [NoCall EXCEPT !.op = "advance", !.value = request.floor]
  /\ request' = [request EXCEPT !.reconcile = FALSE]
  /\ UNCHANGED <<disk, nvs, serverMax, bootFloor, ram, cut, ghosts>>

\* A floor that is already reached is ready; an invalid one, or a card that
\* cannot be written, is not; any other is persisted first.
AdvanceSequenceFloor ==
  /\ pc = "advance"
  /\ \/ /\ ram.mounted /\ ram.writable /\ call.value <= SequenceFloor
        /\ ram' = [ram EXCEPT !.ready = TRUE]
        /\ pc' = "idle" /\ call' = NoCall
     \/ /\ \/ ~(ram.mounted /\ ram.writable)
           \/ call.value > SequenceFloor
              /\ (call.value < ram.newest \/ call.value = MaxSequence)
        /\ ram' = [ram EXCEPT !.ready = FALSE]
        /\ pc' = "idle" /\ call' = NoCall
     \/ /\ ram.mounted /\ ram.writable /\ call.value > SequenceFloor
        /\ call.value >= ram.newest /\ call.value # MaxSequence
        /\ StartPersist(call.value)
        /\ UNCHANGED ram
  /\ UNCHANGED <<disk, world, ghosts>>

AdvanceReturn ==
  /\ pc = "persisted"
  /\ call.op = "advance"
  /\ ram' = [ram EXCEPT !.ready = call.ok,
                        !.next = IF call.ok THEN call.value + 1 ELSE @]
  /\ pc' = "idle"
  /\ call' = NoCall
  /\ UNCHANGED <<disk, world, ghosts>>

RecoverReturn ==
  /\ pc = "persisted"
  /\ call.op = "recover"
  /\ IF call.ok
     THEN pc' = "next" /\ UNCHANGED <<ram, call>>
     ELSE RecoverFailed
  /\ UNCHANGED <<disk, world, ghosts>>

-----------------------------------------------------------------------------
(* The server (external), the heartbeat that applies its cursor, and the    *)
(* replacement of the card                                                  *)

\* A reading page is uploaded; its answer may never arrive.
Upload ==
  /\ pc = "idle" /\ ram.mounted
  /\ \E s \in Readable(disk.file) \cap Cursors :
       s > serverMax /\ serverMax' = s
  /\ UNCHANGED <<disk, nvs, bootFloor, ram, request, pc, call, cut, ghosts>>

\* queueSequenceReconciliation(): the largest floor is remembered even when the
\* control queue has no room for the request.
QueueReconciliation(required) ==
  \E queued \in {request.reconcile, TRUE} :
    request' = [request EXCEPT !.floor = Larger(@, required),
                               !.reconcile = queued]

\* ServerSync applies a heartbeat's cursor: it persists it (which may fail)
\* and queues the required floor when the card's floor is behind it.
Heartbeat ==
  LET required == Larger(Larger(ram.newest, SequenceFloor),
                         Larger(nvs.server, serverMax)) IN
  /\ pc = "idle"
  /\ serverMax >= nvs.server
  /\ nvs' \in {nvs, [nvs EXCEPT !.server = serverMax]}
  /\ IF ram.mounted /\ required > SequenceFloor
     THEN QueueReconciliation(required) ELSE UNCHANGED request
  /\ UNCHANGED <<disk, serverMax, bootFloor, ram, pc, call, cut, ghosts>>

\* setPreparedRemovalSequence() checkpoints the newest sequence (a smaller one
\* is refused), and only then is the removal queued, if there is room: records
\* may still be appended before it is carried out.
CheckpointRemoval ==
  /\ pc = "idle"
  /\ ram.newest >= nvs.prepared
  /\ ~request.removal
  /\ nvs' = [nvs EXCEPT !.prepared = ram.newest]
  /\ \E queued \in BOOLEAN : request' = [request EXCEPT !.removal = queued]
  /\ UNCHANGED <<disk, serverMax, bootFloor, ram, pc, call, cut, ghosts>>

PrepareRemoval ==
  /\ pc = "idle"
  /\ request.removal
  /\ request' = [request EXCEPT !.removal = FALSE]
  /\ ram' = [ram EXCEPT !.mounted = FALSE, !.writable = FALSE,
                        !.removal = TRUE]
  /\ UNCHANGED <<disk, nvs, serverMax, bootFloor, cut, pc, call, ghosts>>

\* "documented": powered off, every reading acknowledged or checkpointed.
\* "runtime": the unmounted card is exchanged under power.
ReplaceCard ==
  /\ disk # BlankCard
  /\ \/ pc = "off" /\ NvsFloor >= Larger(highest, reserved)
     \/ SwapRule = "runtime" /\ pc = "idle" /\ ram.removal
  /\ disk' = BlankCard
  /\ kept' = {}
  /\ promised' = 0
  /\ UNCHANGED <<nvs, serverMax, bootFloor, ram, request, pc, call, cut,
                 highest, reserved>>

Next ==
  \/ PowerLoss \/ Boot \/ Remount \/ MountFails \/ RecoverRepairCopy
  \/ RetentionRescan \/ Scan \/ RepairCopy \/ RepairUnlink \/ RepairRename
  \/ RecoverJournal \/ RecoverNext \/ RecoverReturn
  \/ PersistSequence
  \/ Append_ \/ AppendReturn
  \/ \E count \in 1..MaxReserve : Reserve(count)
  \/ ReserveReturn
  \/ Reconcile \/ AdvanceSequenceFloor \/ AdvanceReturn
  \/ Upload \/ Heartbeat \/ CheckpointRemoval \/ PrepareRemoval \/ ReplaceCard

Spec == Init /\ [][Next]_vars

-----------------------------------------------------------------------------
(* Properties                                                               *)

Sequence_ == 0..MaxSequence
PcStates ==
  {"off", "idle", "recover_repair", "scan", "repair_copy", "repair_unlink",
   "repair_rename", "journal", "next", "advance", "remove_tmp", "write_tmp",
   "drop_tmp", "remove_bak", "backup", "install", "verify", "drop_target",
   "restore", "remove_old", "persisted"}
File == Seq(Sequence_) \cup {NoFile}

\* Type invariant: no sequence, journal value or floor ever leaves uint64
\* (the tests against UINT64_MAX in append, reserveUnavailableIntervals,
\* advanceSequenceFloor and recover).
TypeOK ==
  /\ disk \in [file : File, torn : BOOLEAN, repair : File,
               target : Sequence_, tmp : Sequence_, bak : Sequence_]
  /\ nvs \in [server : Sequence_, prepared : Sequence_]
  /\ serverMax \in Sequence_
  /\ bootFloor \in Sequence_
  /\ ram \in [mounted : BOOLEAN, writable : BOOLEAN, removal : BOOLEAN,
              ready : BOOLEAN, next : Sequence_ \ {0}, newest : Sequence_]
  /\ request \in [floor : Sequence_, reconcile : BOOLEAN, removal : BOOLEAN]
  /\ pc \in PcStates
  /\ call \in [op : {"none", "append", "bound_append", "reserve", "advance",
                     "recover"},
               value : Sequence_, mounting : BOOLEAN, scan : Sequence_,
               had : BOOLEAN, ok : BOOLEAN]
  /\ cut \in 0..(Tolerated + 1)
  /\ highest \in Sequence_
  /\ reserved \in Sequence_
  /\ kept \subseteq Sequence_
  /\ promised \in Sequence_

\* No sequence is ever used twice: whenever append() would accept a record,
\* next_sequence_ is above every sequence stored on this card, across power
\* losses, failed journal writes, torn records, remounts and retention
\* rescans; and, while no journal update is cut short more than Tolerated
\* times, above every sequence ever stored or reserved, also on the cards
\* this one replaced.
NextIsFresh ==
  pc = "idle" /\ CanWrite /\ ram.ready =>
    /\ ram.next > LargestIn(kept)
    /\ JournalSound => ram.next > Larger(highest, reserved)

\* persistSequence() does not go back on a value it confirmed: at every
\* instant, also between two of its renames and with an update cut short
\* Tolerated times, one of the three journal files holds a value at least as
\* large (docs/SEQUENCE_RECONCILIATION.md, "Storage ownership").
JournalKeepsPromise == JournalSound => promised <= JournalMaximum(disk)

\* A record for which append() returned true stays readable: from the record
\* file or, while a torn tail is being repaired, from the .repair copy that
\* the next mount renames into its place.
DurableRecordsSurvive ==
  kept \subseteq Readable(IF disk.file = NoFile THEN disk.repair ELSE disk.file)

\* A record is stored only under a sequence above the server's maximum-seen
\* sequence, the cursor persisted in NVS and the removal checkpoint
\* (docs/SEQUENCE_RECONCILIATION.md, "Authoritative high-water mark"), while
\* no journal update is cut short more than Tolerated times.
RecordAboveServerFloor ==
  [][JournalSound /\ pc = "idle" /\ call'.op \in {"append", "bound_append"}
       => call'.value > Larger(serverMax, NvsFloor)]_vars

=============================================================================
