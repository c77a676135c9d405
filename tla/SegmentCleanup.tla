--------------------------- MODULE SegmentCleanup ----------------------------
(***************************************************************************)
(* Local retention: SdStorage::applyRetention selects closed, acknowledged *)
(* segments and removeSegmentTransactionally removes each with its index   *)
(* through a journal and a trash directory; recoverCleanupJournal finishes *)
(* or reverses what a power loss or a failed FAT operation interrupted.    *)
(*                                                                         *)
(* Every change of the card is a step of its own, so power may be lost     *)
(* between any two.  Reading segments have an index, event segments none   *)
(* and an acknowledgement cursor of their own.  The n-th segment of a kind *)
(* holds sequence n, was written at time n and takes one unit of space.    *)
(***************************************************************************)
EXTENDS Naturals, FiniteSets

CONSTANTS
  MaxSegments,\* how many segments of each kind there will be (a bound)
  Unopened,   \* how many of them are opened only in the course of time
  AckPoints,  \* the values of a server cursor that are considered (a bound)
  Untrusted,  \* the segments with a record whose time is not trusted
  Cutoffs,    \* the age cutoffs a retention request may bring (0: none)
  Faults,     \* the FAT operations that may fail
  Fragile,    \* the segments of which one may go bad (a bound)
  None,       \* no journal file
  Torn        \* a journal file that fails its CRC

Kinds == {"reading", "event"}
Segments == {[kind |-> k, n |-> i] : k \in Kinds, i \in 1..MaxSegments}
FaultKinds == {"mount", "write", "rename", "remove", "metadata"}

ASSUME CleanupAssumption ==
  /\ MaxSegments \in Nat /\ Unopened \in 0..MaxSegments
  /\ AckPoints \subseteq Nat /\ Untrusted \subseteq Segments
  /\ Cutoffs \subseteq Nat /\ 0 \in Cutoffs
  /\ Faults \subseteq FaultKinds /\ Fragile \subseteq Segments

VARIABLES
  disk,    \* where each segment's files are; the journal and its .tmp
  damaged, \* the segments that no longer pass inspection
  meta,    \* the segments whose cached metadata says closed and complete
  created, \* how many segments of each kind were ever opened
  acked,   \* NVS: the server's cursors
  ram,     \* SdStorage's health
  pc,      \* the next step of StorageTask
  call,    \* the locals of the call in progress
  overrun   \* ghost: a transaction began over the journal of another one

vars == <<disk, damaged, meta, created, acked, ram, pc, call, overrun>>
world == <<damaged, created, acked>>

Stages == {"planned", "files_moved", "record_deleted", "complete"}
Entries == [stage : Stages, seg : Segments]

ASSUME MarkAssumption == None # Torn /\ {None, Torn} \cap Entries = {}

HasIndex(s) == s.kind = "reading"

\* Whether a FAT operation of this kind succeeds.
Succeeds(kind) == IF kind \in Faults THEN BOOLEAN ELSE {TRUE}

Idle == [at |-> "none", queue |-> {}, goal |-> 0, seg |-> None,
         stage |-> "planned", ok |-> TRUE]
Unmounted == [mounted |-> FALSE, writable |-> FALSE, current |-> 0]

Init ==
  /\ created = [k \in Kinds |-> MaxSegments - Unopened]
  /\ acked = [k \in Kinds |-> 0]
  /\ disk = [record |-> [s \in Segments |->
                           IF s.n <= created[s.kind] THEN "live" ELSE "none"],
             index |-> [s \in Segments |->
                          IF HasIndex(s) /\ s.n <= created[s.kind]
                            THEN "live" ELSE "none"],
             journal |-> None, tmp |-> None]
  /\ damaged = {} /\ meta = {}
  /\ ram = Unmounted /\ pc = "off" /\ call = Idle
  /\ overrun = FALSE

----------------------------------------------------------------------------
(* The world around retention.                                              *)

\* append() and appendEvent() open the next file of their kind.
OpenSegment(k) ==
  LET s == [kind |-> k, n |-> created[k] + 1] IN
  /\ pc = "idle" /\ ram.writable /\ created[k] < MaxSegments
  /\ created' = [created EXCEPT ![k] = @ + 1]
  /\ disk' = [disk EXCEPT !.record[s] = "live",
                          !.index[s] = IF HasIndex(s) THEN "live" ELSE @]
  /\ ram' = IF k = "reading" THEN [ram EXCEPT !.current = s.n] ELSE ram
  /\ UNCHANGED <<damaged, meta, acked, pc, call, overrun>>

\* The server acknowledges further segments.  Retention reads the cursors
\* only when it starts, so this can wait until StorageTask is idle.
Acknowledge(k) ==
  /\ pc = "idle"
  /\ \E n \in AckPoints : /\ acked[k] < n /\ n <= created[k]
                           /\ acked' = [acked EXCEPT ![k] = n]
  /\ UNCHANGED <<disk, damaged, meta, created, ram, pc, call, overrun>>

\* A segment goes bad without changing its size, while StorageTask is idle.
Damage(s) ==
  /\ pc = "idle" /\ disk.record[s] = "live"
  /\ s \in Fragile /\ damaged = {}
  /\ damaged' = {s}
  /\ UNCHANGED <<disk, meta, created, acked, ram, pc, call, overrun>>

\* What is in RAM is lost; a temporary being written may be torn.
PowerLoss ==
  /\ pc # "off"
  /\ disk' \in {disk} \cup
       (IF pc = "write" THEN {[disk EXCEPT !.tmp = Torn]} ELSE {})
  /\ ram' = Unmounted /\ pc' = "off" /\ call' = Idle
  /\ UNCHANGED <<world, meta, overrun>>

----------------------------------------------------------------------------
(* recoverCleanupJournal                                                    *)

\* At boot, or on request.  A card that mounts but fails the layout or the
\* self test stays mounted and is not writable.
Mount ==
  /\ pc \in {"off", "idle"}
  /\ \/ /\ ram' = [ram EXCEPT !.mounted = TRUE, !.writable = FALSE]
        /\ pc' = "recover_tmp"
        /\ call' = [Idle EXCEPT !.at = "mount"]
     \/ /\ "mount" \in Faults
        /\ \E m \in BOOLEAN :
             ram' = [ram EXCEPT !.mounted = m, !.writable = FALSE]
        /\ pc' = "idle" /\ call' = Idle
  /\ UNCHANGED <<disk, world, meta, overrun>>

\* The recovery returns ok: to the mount, which goes on to recover(), or to
\* removeSegmentTransactionally, which fails in either case.
RecoveryReturns(ok) ==
  /\ IF call.at = "mount"
       THEN \E w \in {ok} \cup (IF "mount" \in Faults THEN {FALSE} ELSE {}) :
              ram' = [ram EXCEPT !.writable = w]
       ELSE ram' = ram
  /\ pc' = "idle" /\ call' = Idle

\* Mutant: a temporary is discarded even when no journal is installed.
DiscardTemporary ==
  /\ pc = "recover_tmp"
  /\ disk' = [disk EXCEPT !.tmp = None]
  /\ pc' = "recover_read"
  /\ UNCHANGED <<world, meta, ram, call, overrun>>

\* recover_atomic_temp: the target wins, a lone temporary takes its place.
RecoverTemporary ==
  /\ pc = "recover_tmp"
  /\ IF disk.tmp = None
       THEN disk' = disk /\ pc' = "recover_read" /\ UNCHANGED <<ram, call>>
       ELSE \E ok \in Succeeds(IF disk.journal # None
                                 THEN "remove" ELSE "rename") :
              IF ok
                THEN /\ disk' = [disk EXCEPT !.tmp = None,
                                   !.journal = IF @ # None THEN @
                                                           ELSE disk.tmp]
                     /\ pc' = "recover_read" /\ UNCHANGED <<ram, call>>
                ELSE disk' = disk /\ RecoveryReturns(FALSE)
  /\ UNCHANGED <<world, meta, overrun>>

\* StoragePolicy::cleanupRecoveryAction on the snapshot of a segment.
cleanupRecoveryAction(stage, s, record, index) ==
  LET Missing(place) == place[s] = "none"
      InTrash == record[s] = "trash" \/ (HasIndex(s) /\ index[s] = "trash")
      Original == record[s] = "live" \/ (HasIndex(s) /\ index[s] = "live")
  IN IF stage = "planned"
       THEN CASE Missing(record) \/ (HasIndex(s) /\ Missing(index)) -> "block"
              [] InTrash -> "reverse"
              [] OTHER -> "clear"
       ELSE CASE Original -> "block"
              [] InTrash -> "forward"
              [] OTHER -> "clear"

RecoverRead ==
  /\ pc = "recover_read"
  /\ IF disk.journal = None \/ disk.journal = Torn
       THEN RecoveryReturns(disk.journal = None)
       ELSE LET s == disk.journal.seg
                action == cleanupRecoveryAction(disk.journal.stage, s,
                                                disk.record, disk.index)
            IN IF action = "block" THEN RecoveryReturns(FALSE)
               ELSE /\ pc' = CASE action = "reverse" -> "undo_record"
                               [] action = "forward" -> "purge_record"
                               [] action = "clear" -> "clear_journal"
                    /\ call' = [call EXCEPT !.seg = s, !.ok = TRUE]
                    /\ ram' = ram
  /\ UNCHANGED <<disk, world, meta, overrun>>

\* One file of the segment, if it is in the trash, goes back or is deleted.
\* A failure is remembered, and the other file is still tried.
RecoverRecord(step, operation, place) ==
  LET s == call.seg IN
  /\ pc = step
  /\ \E ok \in IF disk.record[s] = "trash" THEN Succeeds(operation) ELSE {TRUE} :
       /\ disk' = IF ok /\ disk.record[s] = "trash"
                    THEN [disk EXCEPT !.record[s] = place] ELSE disk
       /\ call' = [call EXCEPT !.ok = ok]
  /\ pc' = IF step = "undo_record" THEN "undo_index" ELSE "purge_index"
  /\ UNCHANGED <<world, meta, ram, overrun>>

RecoverIndex(step, operation, place) ==
  LET s == call.seg IN
  /\ pc = step
  /\ \E ok \in IF disk.index[s] = "trash" THEN Succeeds(operation) ELSE {TRUE} :
       /\ disk' = IF ok /\ disk.index[s] = "trash"
                    THEN [disk EXCEPT !.index[s] = place] ELSE disk
       /\ IF ok /\ call.ok
            THEN pc' = "clear_journal" /\ UNCHANGED <<ram, call>>
            ELSE RecoveryReturns(FALSE)
  /\ UNCHANGED <<world, meta, overrun>>

UndoRecord == RecoverRecord("undo_record", "rename", "live")
UndoIndex == RecoverIndex("undo_index", "rename", "live")
PurgeRecord == RecoverRecord("purge_record", "remove", "none")
PurgeIndex == RecoverIndex("purge_index", "remove", "none")

----------------------------------------------------------------------------
(* applyRetention                                                           *)

Loaded(s) ==  \* loadSegmentMetadata: the cached metadata is accepted
  s \in meta /\ (HasIndex(s) => disk.index[s] = "live")
Inspected(s) ==  \* inspectSegment, inspectEventSegment: complete and indexed
  s \notin damaged /\ (HasIndex(s) => disk.index[s] = "live")
LastSequence(s) ==  \* of a segment that does not read to its end, nothing
  IF Loaded(s) \/ s \notin damaged THEN s.n ELSE 0

Live(k) == {s \in Segments : s.kind = k /\ disk.record[s] = "live"}

\* The file being written, and the one with the largest sequence.
Active(k) ==
  LET live == Live(k) IN
  {s \in live : \/ k = "reading" /\ s.n = ram.current
                \/ /\ LastSequence(s) # 0
                   /\ \A t \in live : LastSequence(t) <= LastSequence(s)}

\* minimum_window_protected: the two newest closed segments.
MinimumWindow(k) ==
  LET closed == Live(k) \ Active(k) IN
  {s \in closed : Cardinality({t \in closed :
                                 LastSequence(t) > LastSequence(s)}) < 2}

\* Mutant: the cursor of the readings also releases events.
EligibleByReadingCursor(s, context) ==
  /\ acked["reading"] > 0 /\ s.n <= acked["reading"]
  /\ s \notin Untrusted /\ s.n < context.cutoff[s.kind]

\* segmentEligibility of a segment that is closed, outside the window and
\* complete, under a retention context.
Eligible(s, context) ==
  /\ acked[s.kind] > 0 /\ s.n <= acked[s.kind]
  /\ \/ s \notin Untrusted /\ s.n < context.cutoff[s.kind]
     \/ /\ context.mode = "continuous_protected" /\ context.emergency
        /\ s \in Untrusted \/ s.n < context.minimum

\* The policies and the pressure under which Application queues a request.
\* The minimum history lies within the retention of readings.
Contexts ==
  {c \in [mode : {"strict_age", "continuous_protected"}, emergency : BOOLEAN,
          cutoff : [Kinds -> Cutoffs], minimum : Cutoffs] :
     c.cutoff["reading"] <= c.minimum}

Unlimited == 2 * MaxSegments  \* as many as there are segments

\* Scan, classify and plan.  Metadata is written for every segment that was
\* not loaded as closed; a segment whose metadata cannot be written counts as
\* incomplete.  With no pressure target every eligible segment is planned,
\* with one as many of the oldest as are needed.  In mode disabled only the
\* metadata is written.  A card that is mounted and not writable is accepted.
\* The cursors are those of the moment the request was queued: one that has
\* advanced since then only narrows the choice.
ApplyRetention ==
  LET live == Live("reading") \cup Live("event")
      active == Active("reading") \cup Active("event")
      closed == live \ (active \cup MinimumWindow("reading")
                               \cup MinimumWindow("event"))
      unsaved == {s \in live : ~Loaded(s)} \cup active
  IN
  /\ pc = "idle" /\ ram.mounted
  /\ \E lost \in IF "metadata" \in Faults THEN SUBSET unsaved ELSE {{}} :
       LET complete == {s \in closed \ lost : Loaded(s) \/ Inspected(s)}
           Plan(context, goal) ==
             [Idle EXCEPT !.at = "retention", !.goal = goal,
                !.queue = {s \in complete : Eligible(s, context)}]
       IN /\ meta' = (meta \ unsaved) \cup
                     {s \in unsaved \ (lost \cup active) : Inspected(s)}
          /\ \/ pc' = "idle" /\ call' = Idle  \* RetentionMode::Disabled
             \/ /\ pc' = "next"
                /\ \E c \in Contexts :
                     \E goal \in IF c.emergency THEN 0..2 ELSE {Unlimited} :
                       call' = Plan(c, goal)
  /\ UNCHANGED <<disk, world, ram, overrun>>

Before(s, t) == \/ s.kind = "reading" /\ t.kind = "event"
                \/ s.kind = t.kind /\ s.n < t.n
First(queue) == CHOOSE s \in queue : \A t \in queue \ {s} : Before(s, t)

Stops == pc' = "idle" /\ call' = Idle

\* No candidate is left, or the target is met.
FinishRetention ==
  /\ pc = "next" /\ (call.queue = {} \/ call.goal = 0)
  /\ Stops
  /\ UNCHANGED <<disk, world, meta, ram, overrun>>

\* The candidate is inspected again and compared with its metadata; then
\* removeSegmentTransactionally checks that its files are where they belong.
BeginRemoval ==
  LET s == First(call.queue) IN
  /\ pc = "next" /\ call.queue # {} /\ call.goal > 0
  /\ IF Inspected(s) /\ disk.record[s] = "live"
       THEN /\ pc' = "persist"
            /\ call' = [call EXCEPT !.seg = s, !.stage = "planned"]
            /\ overrun' = (overrun \/ disk.journal # None \/ disk.tmp # None)
       ELSE Stops /\ overrun' = overrun
  /\ UNCHANGED <<disk, world, meta, ram>>

----------------------------------------------------------------------------
(* persistCleanupJournal                                                    *)

PersistFailed ==
  IF call.stage = "files_moved"
    THEN pc' = "recover_tmp" /\ call' = [call EXCEPT !.at = "undo"]
    ELSE Stops

RemoveOldTemporary ==
  /\ pc = "persist"
  /\ \E ok \in Succeeds("remove") :
       disk' = IF ok THEN [disk EXCEPT !.tmp = None] ELSE disk
  /\ pc' = "write"
  /\ UNCHANGED <<world, meta, ram, call, overrun>>

WriteTemporary ==
  /\ pc = "write"
  /\ \/ /\ disk' = [disk EXCEPT !.tmp = [stage |-> call.stage,
                                         seg |-> call.seg]]
        /\ pc' = "replace" /\ call' = call
     \/ /\ "write" \in Faults
        /\ \E ok \in Succeeds("remove") :
             disk' = [disk EXCEPT !.tmp = IF ok THEN None ELSE Torn]
        /\ PersistFailed
  /\ UNCHANGED <<world, meta, ram, overrun>>

RemoveOldJournal ==
  /\ pc = "replace"
  /\ \E ok \in Succeeds("remove") :
       disk' = IF ok THEN [disk EXCEPT !.journal = None] ELSE disk
  /\ pc' = "install"
  /\ UNCHANGED <<world, meta, ram, call, overrun>>

\* FAT refuses to rename onto a file that exists.
InstallJournal ==
  /\ pc = "install"
  /\ \E ok \in IF disk.journal = None THEN Succeeds("rename") ELSE {FALSE} :
       IF ok
         THEN /\ disk' = [disk EXCEPT !.journal = disk.tmp, !.tmp = None]
              /\ pc' = CASE call.stage = "planned" -> "move_record"
                         [] call.stage = "files_moved" -> "delete_record"
                         [] call.stage = "record_deleted" ->
                              (IF HasIndex(call.seg) THEN "delete_index"
                                                     ELSE "delete_metadata")
                         [] call.stage = "complete" -> "clear_journal"
              /\ call' = [call EXCEPT !.ok = TRUE]
         ELSE disk' = disk /\ PersistFailed
  /\ UNCHANGED <<world, meta, ram, overrun>>

----------------------------------------------------------------------------
(* removeSegmentTransactionally                                             *)

PersistNext(stage) ==
  pc' = "persist" /\ call' = [call EXCEPT !.stage = stage]

Reverses == pc' = "recover_tmp" /\ call' = [call EXCEPT !.at = "undo"]

\* Mutant: the move is committed before the index has followed the record.
MoveRecordOnly ==
  /\ pc = "move_record"
  /\ disk' = [disk EXCEPT !.record[call.seg] = "trash"]
  /\ PersistNext("files_moved")
  /\ UNCHANGED <<world, meta, ram, overrun>>

MoveRecord ==
  /\ pc = "move_record"
  /\ \E ok \in Succeeds("rename") :
       IF ok THEN /\ disk' = [disk EXCEPT !.record[call.seg] = "trash"]
                  /\ IF HasIndex(call.seg)
                       THEN pc' = "move_index" /\ call' = call
                       ELSE PersistNext("files_moved")
             ELSE disk' = disk /\ Reverses
  /\ UNCHANGED <<world, meta, ram, overrun>>

MoveIndex ==
  /\ pc = "move_index"
  /\ \E ok \in Succeeds("rename") :
       IF ok THEN /\ disk' = [disk EXCEPT !.index[call.seg] = "trash"]
                  /\ PersistNext("files_moved")
             ELSE disk' = disk /\ Reverses
  /\ UNCHANGED <<world, meta, ram, overrun>>

DeleteRecord ==
  /\ pc = "delete_record"
  /\ \E ok \in Succeeds("remove") :
       IF ok THEN /\ disk' = [disk EXCEPT !.record[call.seg] = "none"]
                  /\ PersistNext("record_deleted")
             ELSE disk' = disk /\ Stops
  /\ UNCHANGED <<world, meta, ram, overrun>>

DeleteIndex ==
  /\ pc = "delete_index"
  /\ \E ok \in Succeeds("remove") :
       IF ok THEN /\ disk' = [disk EXCEPT !.index[call.seg] = "none"]
                  /\ pc' = "delete_metadata" /\ call' = call
             ELSE disk' = disk /\ Stops
  /\ UNCHANGED <<world, meta, ram, overrun>>

\* The result is ignored.
DeleteMetadata ==
  /\ pc = "delete_metadata"
  /\ \E ok \in Succeeds("remove") :
       meta' = IF ok THEN meta \ {call.seg} ELSE meta
  /\ PersistNext("complete")
  /\ UNCHANGED <<disk, world, ram, overrun>>

\* clearCleanupJournal: both files are tried.
ClearJournal ==
  /\ pc = "clear_journal"
  /\ \E ok \in IF disk.journal = None THEN {TRUE} ELSE Succeeds("remove") :
       /\ disk' = IF ok THEN [disk EXCEPT !.journal = None] ELSE disk
       /\ call' = [call EXCEPT !.ok = ok]
  /\ pc' = "clear_tmp"
  /\ UNCHANGED <<world, meta, ram, overrun>>

ClearTemporary ==
  /\ pc = "clear_tmp"
  /\ \E ok \in IF disk.tmp = None THEN {TRUE} ELSE Succeeds("remove") :
       /\ disk' = IF ok THEN [disk EXCEPT !.tmp = None] ELSE disk
       /\ CASE call.at # "retention" -> RecoveryReturns(ok /\ call.ok)
            [] call.at = "retention" /\ ok /\ call.ok ->
                 /\ pc' = "next" /\ ram' = ram
                 /\ call' = [call EXCEPT !.queue = @ \ {call.seg},
                                         !.goal = @ - 1, !.seg = None]
            [] OTHER -> Stops /\ ram' = ram
  /\ UNCHANGED <<world, meta, overrun>>

Next ==
  \/ \E k \in Kinds : OpenSegment(k) \/ Acknowledge(k)
  \/ \E s \in Segments : Damage(s)
  \/ PowerLoss \/ Mount
  \/ RecoverTemporary \/ RecoverRead
  \/ UndoRecord \/ UndoIndex \/ PurgeRecord \/ PurgeIndex
  \/ ApplyRetention \/ BeginRemoval \/ FinishRetention
  \/ RemoveOldTemporary \/ WriteTemporary \/ RemoveOldJournal
  \/ InstallJournal
  \/ MoveRecord \/ MoveIndex \/ DeleteRecord \/ DeleteIndex
  \/ DeleteMetadata \/ ClearJournal \/ ClearTemporary

Spec == Init /\ [][Next]_vars

----------------------------------------------------------------------------
(* Properties                                                               *)

Steps == {"off", "idle", "recover_tmp", "recover_read", "undo_record",
          "undo_index", "purge_record", "purge_index", "next", "persist",
          "write", "replace", "install", "move_record", "move_index",
          "delete_record", "delete_index", "delete_metadata",
          "clear_journal", "clear_tmp"}
Places == {"none", "live", "trash"}

\* The variables have the types SdStorage gives them; the goal of a plan
\* never runs below zero and only a reading segment has an index file.
TypeOK ==
  /\ disk \in [record : [Segments -> Places], index : [Segments -> Places],
               journal : Entries \cup {None, Torn},
               tmp : Entries \cup {None, Torn}]
  /\ \A s \in Segments : disk.index[s] # "none" => HasIndex(s)
  /\ damaged \subseteq Segments /\ meta \subseteq Segments
  /\ created \in [Kinds -> Nat] /\ acked \in [Kinds -> Nat]
  /\ ram \in [mounted : BOOLEAN, writable : BOOLEAN, current : Nat]
  /\ pc \in Steps
  /\ call \in [at : {"none", "mount", "undo", "retention"},
               queue : SUBSET Segments, goal : Nat,
               seg : Segments \cup {None}, stage : Stages, ok : BOOLEAN]
  /\ overrun \in BOOLEAN

\* The journal a recovery would read: recover_atomic_temp prefers the
\* installed journal.
Recoverable == IF disk.journal # None THEN disk.journal ELSE disk.tmp

\* A segment whose files are all in place, or all gone.
Whole(s) ==
  LET files == {disk.record[s]} \cup (IF HasIndex(s) THEN {disk.index[s]}
                                                     ELSE {})
  IN files = {"live"} \/ files = {"none"}

\* A segment with a file in the trash, or with only one of its two files
\* left, is always named by the journal the next recovery reads, so no
\* power loss or failed operation leaves half a segment behind; unless a
\* later transaction was started over the journal of an earlier one.
SplitPairIsJournalled ==
  overrun \/ \A s \in Segments :
    Whole(s) \/ (Recoverable \in Entries /\ Recoverable.seg = s)

\* Whatever step of a removal was the last, the recovery can tell what to do:
\* cleanupRecoveryAction never blocks on a journal that can be read.
RecoveryNeverBlocks ==
  pc = "recover_read" /\ disk.journal \in Entries /\ ~overrun =>
    cleanupRecoveryAction(disk.journal.stage, disk.journal.seg,
                          disk.record, disk.index) # "block"

\* A segment that went bad is never deleted, even when the metadata cached
\* before still calls it complete: each candidate is inspected again.
DamagedSegmentsKept == \A s \in damaged : disk.record[s] # "none"

\* Docs, "Transaction and recovery model": a journal that recovery could not
\* resolve blocks cleanup.
UnresolvedJournalBlocksCleanup == ~overrun

\* A segment is part of the history until the journal that a recovery would
\* read says files_moved; then it is gone for good.
Kept(s) ==
  \/ disk.record[s] = "live"
  \/ disk.record[s] = "trash" /\ Recoverable = [stage |-> "planned", seg |-> s]

History == INSTANCE RetainedHistory WITH
  Window <- 3, confirmed <- acked,
  forgotten <- [k \in Kinds |->
    {n \in 1..created[k] : ~Kept([kind |-> k, n |-> n])}]

\* Retention implements the abstract history: through all crashes, failures
\* and retries a removal takes effect in one step, is never undone, and takes
\* only acknowledged segments outside the three newest.
ImplementsHistory == History!Spec
=============================================================================
