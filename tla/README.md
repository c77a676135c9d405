# A TLA+ verification of the power-monitor sensor firmware

The firmware runs on an ESP32. It measures power, stores one record per interval
on a microSD card under a 64-bit sequence number, uploads the records to a server
that acknowledges them, lets a retention job remove acknowledged history, and keeps
its configuration, credentials and cursors in NVS. What makes it hard is not
computation but interruption: power may be lost between any two writes, every FAT
and NVS operation may fail, the card can be exchanged, and about ten FreeRTOS tasks
share the state. This directory holds TLA+ models of those parts, the TLC runs that
check them on small instances, and TLAPS proofs.

## 1. Inventory

| Part (source) | State | Operations | Interacts with |
|---|---|---|---|
| **AtomicConfigStore** `config/AtomicConfigStore.*` | two NVS slots with generation and CRC, a marker naming the active one | `commit`, `loadActive`, `loadPrevious`, `rollbackToPrevious` | ConfigService stores every configuration revision through it |
| **ConfigService** `config/ConfigService.*`, `ConfigRecovery.h`, `ProvisioningTransaction.*` | configuration, revision, server cursors and removal checkpoint (NVS and RAM) | apply, patch, provision, factory reset, `setServerAckSequence`, `setServerMaximumSeenSequence`, `setPreparedRemovalSequence` | everyone reads it; ServerSync and Application write the cursors |
| **SdStorage** `storage/SdStorage.*`, `StoragePolicy.*`, `RecordFormat.*` | the card's record, event, index, journal, metadata and trash files; health; `next_sequence_` | `begin`, `remount`, `append`, `appendEvent`, `reserveUnavailableIntervals`, `advanceSequenceFloor`, `applyRetention`, `prepareRemoval`, `recover`, queries | called by StorageTask under the SD mutex |
| **StorageCoordinator** `storage/StorageCoordinator.*`, `BoundedStorageMessagePool.h` | record and control queues, message pools, coalesced requests, gap counter, history slots, reset barrier | `enqueueRecord`, `queue...`, `taskLoop` | producers: measurement, sync, HTTP, application tasks; consumer: StorageTask |
| **ServerSync** `network/ServerSync.*`, `ServerSyncPolicy.*`, `storage/SyncCoverage.h` | backoff, single-flight gate, unavailable ranges, metrics | heartbeat, reading pages, event pages, manifest poll | reads the card, moves the cursors, queues floors |
| **Data reset** `reset/*` | phase, drain journal, event, cleanup and receipt stores in NVS | begin, drain, fence, delete, receipt, recover at boot | coordinator barrier, cursors, server receipts |
| **OTA** `ota/*` | recovery record (two slots and a marker), RTC stage ledger, partitions | stage, verify, switch, confirm, roll back | ServerSync polls the manifest, boot decides |
| **AuthService** `security/*`, `AuthReplayWindow.h` | sessions, lockout, nonces | login, verify, expire | HTTP API |
| **NetworkService, ClockService** `network/*` | Wi-Fi and clock state machines | connect, retry, step the time | trust of a record's time |
| **Application** `app/*` | tasks, last request ids | `begin`, maintenance loop | starts and drives all of the above |
| **Core, meters, diagnostics, HTTP API, UI** | aggregation window, pressure level, request buffers | | reporting and I/O |

What has to be right, and is hard to test:

* a configuration is the old one or the new one, whatever happens to a write; a setup
  changes configuration and credentials together or not at all; a remote update that
  cuts the device off is undone, and one that an operator made since is not;
* a sequence is never given to two records, also across crashes, failing journals
  and replaced cards, and never lies at or below what the server has stored;
* a record that was reported stored stays readable until retention removes it, and
  retention removes only what the server has, outside the protected windows, and
  never half of a segment;
* a reading is at the server before the cursor passes it, under the generation it was
  stored in, and the backlog is delivered in the end;
* a closed interval is stored, counted as a gap or held by the reset's drain journal;
  once a reset is prepared nothing reaches the card or the server that its evidence
  does not cover; a barrier is answered also when the card fails;
* a reset has exactly one outcome, also when power is lost between any two of its
  writes, and an authorized one ends;
* only an image that was observed to work becomes permanent, and the server's view of an
  update attempt is complete, true, and comes to an end;
* an enrolled device runs on a card that is wholly its own, and a token that was
  accepted is not lost;
* a device without a usable network can be configured, and one whose network comes back
  connects again.

`PROJECT.json` lists every component with its status and, under `hazards`, each place
in the code where one of these can go wrong, with the properties that would catch it.

## 2. Plan

1. `CrashAtomicCell`, `AtomicConfigStore` and its proofs: **done**.
2. `SdSequence`: sequences, journals, recovery, floors and card replacement: **done**.
3. `RetainedHistory`, `SegmentCleanup`: retention: **done**.
4. `StorageCoordinator`: queues, pools, gap accounting, the gates and barriers of a
   reset, with MeterTask, AggregationTask and StorageTask: **done**.
5. `SyncCoverage`, `ServerSync`: cursors, pages, heartbeats, and the reading gate of a
   reset: **done**.
6. `ResetTransaction`, `DataReset`: the durable record, its checkpoints and journals with
   power loss and recovery at boot: **done**.
7. `Ota`: recovery record, boot selection, observation, rollback, reports: **done**.
8. `RuntimeConfig`: setup transaction, operator and remote updates: **done**.
9. `Enrollment`: claim, staging, card hand-over, reenrollment, factory reset: **done**.
10. `Network`: station, setup access point, request for time: **done**.
11. Left: event upload and the event journal file; sessions, lockout and the replay
    window of authentication; the clock's acceptance of a step (`ClockService.cpp:40-49`);
    the interval aggregator and the memory-pressure hysteresis.

Theorems: every safety invariant and every action property of the runs, and the refinements
of `AtomicConfigStore`, `SegmentCleanup` and `DataReset` are **done** (section 5).

## 3. Modules

| Module | Models |
|---|---|
| `CrashAtomicCell` | the promise: a cell whose value changes in one step, to the value being installed, or not at all |
| `AtomicConfigStore` | `AtomicConfigStore.cpp`, one step per NVS write |
| `SdSequence` | the sequence side of `SdStorage.cpp`, with the coordinator's floor and removal requests, the heartbeat's cursor and Application's boot and checkpoint |
| `SdSequenceProofs` | the theorems about it |
| `RetainedHistory` | the promise: the set of segments that exist, from which acknowledged, closed segments outside the newest window are removed one by one and for good |
| `SegmentCleanup` | the retention side of `SdStorage.cpp` and `StoragePolicy.cpp` |
| `SegmentCleanupProofs` | the theorems about it, the refinement of `RetainedHistory` among them |
| `StorageCoordinator` | the tasks around `StorageCoordinator.cpp`: MeterTask and AggregationTask (`Application.cpp`), StorageTask, and the gates and phases of `DataResetCoordinator.cpp` |
| `StorageCoordinatorProofs` | the theorems about it |
| `SyncCoverage` | `deriveSyncCoverage` (`SyncCoverage.h`) and the selection of a page by the scan of the card (`SdStorage.cpp`) |
| `ServerSync` | reading pages and heartbeats of `ServerSync.cpp`, StorageTask's history jobs, the reset's admission and lease (`DataResetPolicy.cpp`), and the server |
| `ServerSyncProofs` | the theorems about it |
| `ResetTransaction` | the promise: one operation at a time, cancelled without effect or completed with no earlier reading left |
| `DataReset` | `DataResetCoordinator.cpp`, its stores, the barrier of StorageTask, and the boot |
| `DataResetProofs` | the theorems about it, the refinement of `ResetTransaction` among them |
| `Ota` | `OtaService.cpp`, `OtaUpdatePolicy.cpp`, `OtaRecoveryStore.cpp`, the observation window of `Application.cpp`, and the boot loader |
| `OtaProofs` | the theorems about it |
| `RuntimeConfig` | the configuration side of `ConfigService.cpp`, `ProvisioningTransaction.cpp`, and the remote update of `ServerSync.cpp` |
| `ConfigProofs` | the theorems about `AtomicConfigStore` and `RuntimeConfig` |
| `Enrollment` | the identity side of `ConfigService.cpp`, the card's manifest in `SdStorage.cpp`, and the hand-over in `Application.cpp` |
| `EnrollmentProofs` | the theorems about it |
| `Network` | `NetworkService.cpp`, `NetworkPolicy.h` |
| `MC...` | small instances of the above for TLC |

The parts meet where one module takes for granted what another one shows. `Ota`,
`DataReset` and `Enrollment` write their records in one step because `AtomicConfigStore`
is proved to be a crash-atomic cell; `RuntimeConfig` keeps the two steps of a commit
(slot, marker), because a rollback can fall between them. `DataReset` closes its gates in
one step because `StorageCoordinator` looks at every load and store in between.
`ServerSync` treats a reset as admission, freeze, barrier, evidence, commit, because
`DataReset` looks at what happens inside.

### AtomicConfigStore

The state is what NVS holds (two slots, the marker), the call in progress, and two
ghosts: the payload that was last decided and those that were ever in force. A blob is
a record of its fields or `BadSlot`/`BadMarker`, which stands for whatever fails its
length, magic or CRC. A write is stored, lost or torn, and the code may be told that it
failed when it did not; power may fail at every step. `CommitBegin` is the choice of
slot and generation, `CommitWriteSlot`, `CommitWriteMarker` and `CommitVerify` are
`commit`'s writes and read-back, `CommitEraseSlot` and `CommitUndo*` its error paths.

### SdSequence

`StorageTask` runs one call at a time under the SD mutex, so `pc` and `call` hold the
position and locals of one call, and each change of the card is a step. The card is one
record file (a sequence of lines; 0 is a complete line that fails its CRC), its
`.repair` copy, and the journal's target, `.tmp` and `.bak` files. A torn `.tmp` holds
any smaller number, since a cut decimal number still parses. The server, the operator
who exchanges the card, and the loss of power are external. Faults are switched on per
run by the constant `Faults`.

`Tolerated` bounds how often in a row a journal update may be cut short: `persistSequence`
promises to survive one interruption at any point, and does not survive two (section 4).
`SwapRule` says when a card may be exchanged: powered off with NVS at or above everything
stored ("documented"), or under power after a prepared removal ("runtime").

### SegmentCleanup

Two kinds of segments, readings (record and index) and events (record only), with a
cursor each. The n-th segment of a kind holds sequence n, was written at time n and
takes one unit. `applyRetention` first computes the plan in one step (`ApplyRetention`:
live and closed segments, cached or fresh metadata, the newest-window rule, eligibility,
the target) and then removes the planned segments in order, one change of the card per
step: `persistCleanupJournal` (`RemoveOldTemporary`, `WriteTemporary`,
`RemoveOldJournal`, `InstallJournal`), the moves, the deletions, the clearing of the
journal. `RecoverTemporary`, `RecoverRead` and the `Undo...`/`Purge...` steps are
`recoverCleanupJournal`, at a mount and on the error paths of a removal.

### StorageCoordinator

Four processes that meet only in atomics, two queues and the drain journal. `meter`,
`agg`, `task` and `reset` hold the position and the locals of MeterTask,
AggregationTask, StorageTask and the reset coordinator; `gate` is
`record_writes_enabled_` and the configuration's freeze, `producer` the producer barrier,
`inFlight` `record_enqueues_in_flight_`. Each load and store of a gate that another
process can fall between is a step, so `enqueueRecord` takes five (`EnqueueLook`,
`EnqueueCount`, `EnqueueRecheck`, `EnqueueSend`, then `EnqueueDone` or `EnqueueFull`
with `recordDroppedInterval`), and opening and closing the gates four. What StorageTask
does to the card in one call is one step, because it alone uses the card.

What is abstracted: an interval is its number and the counters of dropped intervals are
sets, so that an interval can be followed; an accumulated interval is a flag; the
record pool has as many slots as the queue has places (so "no slot" and "no place" are
one case); a barrier has no request id, since `data_reset_barrier_queued_` admits one at
a time; the checkpoints of a commit are two steps, `Commit` (up to the new generation)
and `CleanupResult`; a failed checkpoint is retried, as the operator's replay does; the
event journal of a cleanup is the statement that the events held are written before
success is published. Power is never lost here: the journal, the durable record and the
boot belong to `DataReset`.

Ghosts in `tally`: `closed` numbers the intervals, `gone` are those deleted by
retention or a cleanup, `shed` events given up with the gate open, and `refused`
intervals that AggregationTask gives up at the gate. The last is what the code does: an
interval that closes just before the gate, and meets it inside `enqueueRecord`, is
counted only in `sample_dropped_` (`Application.cpp:1104`), and so is one that finds the
two boundary records taken (`:1088`); neither becomes an unavailable interval.

### SyncCoverage and ServerSync

`SyncCoverage` is `deriveSyncCoverage` as an operator: from what a scan of the card
selected, retained and could not find it computes the sequences a page declares covered or
unavailable. What the scan selects is modelled too (`Scanned`, `Selections`): the files are
met in any order, since a segment's name ends in a random boot identifier; a record is
admitted among the candidates, and the highest are dropped while there are more than
`PageLimit` records or more than `PageBytes` bytes. A large record may so be dropped and a
smaller one with a higher sequence admitted after it, and the retained record that was not
selected then lies below the highest selected one: the case for which
`deriveSyncCoverage` stops at a sequence that was observed and not selected. A record that
alone exceeds the page (`record_exceeds_page_limit`) fails the page; no such record exists in
the run, nor on a card, where a line that long already fails the scan. The window of 500
sequences a scan observes is not told apart from `UnavailableLimit`. `ServerSync` runs all of
this on every page. Its processes are the ServerSync task
(`pc`), StorageTask with the history job slots, the reset, and the server with the
requests in flight. The look at the admission, the lease and the second look
(`SyncLook`, `SyncLease`, `SyncRecheck`) are separate steps, since the reset claims
admission between them; a page is asked for (`PushQueue`), taken from its slot (`PushPoll`),
posted, and the answer is applied under the lease (`PushAnswered`); a heartbeat moves the
same cursor (`HeartbeatApply`). A request whose answer is lost may be processed by the
server much later (`LateRequest`). `kept` is the ghost of the readings the device still
answers for. Deadlines and backoff are "some later tick"; a sequence is untimed (not
syncable) if `Untimed` has it and its clock was not set.

### DataReset

One step per durable write. `rec`, `drain`, `plan` and `events` are the operation record
and the three journals in NVS; each is saved, lost, or saved without confirmation
(`Written`), and every update is checked against `validRecordUpdate` and its siblings as
the stores do. A repeated save is accepted when it is the same record (`Saved`). A record
built with the clock or the meter (Preparing, Prepared, CommitAuthorized, Verified, Completed,
Cancelled) is the same only if the values have not changed since; otherwise it is refused
(`SavedFresh`), and either may happen. `requestPrepare`, `requestCommit` and `requestCancel` are the server's
calls; `processPendingPrepare`, `progressPreparing`, `processPendingCommit` and
`progressCommit`, one action per checkpoint, are `tick`; `DrainLoad` to `CleanFlush` is the
barrier StorageTask works through; `Boot`, `OrphanBinding` and `BootDrained` are
`Application::begin`. An interval, an event and a file are numbers; a record on the card
has its sequence, so that "appended twice" and "appended under another sequence" differ.
The server may repeat a request and may authorize a boundary above the required one. A
prepare that is rejected after its gates closed (`DataResetCoordinator.cpp:363-406`) leaves
no record; it is modelled in `StorageCoordinator`, where the gates are, and not here.

### Ota

Three processes over two application slots: the boot task (`BootTask`), the maintenance
task (`Maintenance`) and the reports of ServerSync (`FlushPendingReport`). `slot`, `entry`
and `latest` are the partitions and otadata of ESP-IDF (external, from how the code uses
them), `rec` the durable recovery record, `ram` its copy, `pc` the point in
`applyFromManifestUrl` or `checkRunningImage`. `vetted` is the ghost of the images that were
observed to be healthy while the durable record named them. Each `Persist` may fail or be
stored without confirmation. The manifest, its signature and the stream are authentic or
not; the health evidence is its class.

Left out or fixed: `verifyRollbackLater`, which Arduino's core defines weak and the
firmware does not override, is taken as the default; the RTC stage ledger only feeds
diagnostics; a data-reset freeze, safe mode and the policy that defers an installation
refuse a manifest before anything is stored.

### RuntimeConfig

`mut` is the mutation that holds `mutation_mutex_` and the step it is at; `http` and `sync`
are the two tasks that start mutations, with the values they read before. A commit writes
the slot and the marker in two steps, verifies and publishes; `commitProvisioning` writes
its journal, the token, salt and hash, commits and clears the journal, and its error path
is the same `Recovery` the boot runs. A remote update is fetched, applied, compared,
reported, and, when it moved the station, validated or undone within the window
(`Superseded`, `ValidateBegin`, `ValidateEnd`, `Expire`). A configuration is the setup and
the revision it came from, its network (`none`, `home`, `other`, one that cannot be joined,
or one that field validation refuses) and whether its server can be reached. `srvCfg` is
`server_cfg` in NVS and its copy in RAM, which differ after a write that was not confirmed.
`told` and `applied` are ghosts: the generation of the last update an operator was told is
saved, and the newest version `reportConfiguration` recorded. `overtaken` is the ghost of
one known interleaving: the operator's network settings are edited on a copy of the
configuration (`HttpApi.cpp:1103`) that a remote update may have replaced before the copy is
saved (`:1180`).

### Enrollment

The enrollment record is one atomic cell, NVS keys are written one at a time, the card has
a manifest with its `.tmp` and `.bak`. `SendClaim` to `QueueReboot` is `ServerSync::enroll`,
`LoadRecord` to `EraseToken` is `loadOrMigrateEnrollment`, `MountCard` with `WriteManifest`
is the mount, `CheckBinding` to `FinishActivation` is the hand-over, `ReenrollToken` to
`EndReenrollment` is `beginReenrollment`, `ResetKeys` and `ResetRecord` are `factoryReset`.
`server_max` moves with `server_ack` and `data_gen` with `reset_floor`, so each pair is one
key. Device 0 is the hardware id. `AdvanceFloor` never finds anything to raise in the model
(the mount has applied the floor already); it is kept because the code has it.

### Network

`update()` runs under the status mutex and is one step that returns the record of the
service's fields; the driver, the worker that stores credentials and the operator act
between two runs. A timer is off, armed or due. `ConnectionLost` counts against
`MaxChange` while the network is in range: a connection that is lost again and again for
ever is never stable.

## 4. Runs

| Run | Checks | Instance and why it is enough |
|---|---|---|
| `config_store` | `ActiveIsAllowed`, `PreviousOnceActive`, refinement of `CrashAtomicCell` | three payloads and five generations: both slots are overwritten, the largest generation is reached, and every write fails in every way |
| `sd_sequence` | `NextIsFresh`, `JournalKeepsPromise`, `DurableRecordsSurvive`, `RecordAboveServerFloor` | `MaxSequence` 3: two records or a gap and the guard at the largest value; the server has stored nothing or sequence 1 (`Cursors`); power losses without bound, failing journal files, torn records, failing mounts, one interrupted journal update in a row, card replaced as documented |
| `segment_cleanup` | `SplitPairIsJournalled`, `RecoveryNeverBlocks`, refinement of `RetainedHistory` | four segments of each kind, one opened late, one untrusted, one that goes bad (`Fragile`): a candidate of each kind outside the protected newest segments; mounts, writes, renames and removes may fail |
| `coordinator_fence` | `FenceHolds`, `EveryIntervalOwned`, `EvidenceFrozen` | two operations (a cancelled or rejected reset followed by another), two intervals, a queue of one (full with one record), one boundary record (so that a second one overflows), one retention request; card, NVS, lock, evidence and cleanup may fail, quiescence may time out |
| `coordinator_events` | `EveryEventOwned`, `BarrierAnswered` (liveness) | one operation, one interval, a queue and an event pool of two, two events; card and events may fail for ever |
| `server_sync` | `CursorBehindServer`, `DeliveredBeforeForgotten`, `GenerationKept`, `NoUploadBehindEvidence`, `BacklogDelivered` (liveness) | three readings of one, two and one bytes, the middle one possibly untimed, pages of two readings, two bytes and one unavailable sequence (so that each limit ends a page before the backlog ends, and the bytes leave a gap among the selected readings), segments of one reading, a completed reset; one of power loss, card replacement, lost answer with a late request, expired job |
| `data_reset` | `DrainedExactlyOnce`, `GenerationsSeparated`, `CompletedIsWhole`, `EventsPreserved`, `UnfinishedDrainBoots`, refinement of `ResetTransaction`, `AuthorizedEnds` (liveness) | two operations, so that journals of a cancelled or completed one meet the next; two intervals, one event, one power loss and one failing or unconfirmed operation anywhere (a second of either only repeats a recovery that is already reached in every state) |
| `ota` | `OnlyVettedImagesValid`, `ReportsComplete`, `ReportsTrue`, `EvidenceAdvances`, `InstallationConcludes` (liveness) | two deployments, so that the first image is the previous one of the second, and the second may be applied while the first is still observed; one power loss and one fault of five kinds |
| `runtime_config` | `SetupAtomic`, `AnsweredUpdatesKept`, `BadNetworkUndone` (liveness) | four generations: a setup, an update that moves the network and its rollback, and an operator's update in between (five were checked as well); four remote versions, one of each kind; two setups, one power loss, one failing NVS call |
| `enrollment` | `HandoverIsWhole`, `TokenKept`, `ActivationCompletes` (liveness) | two identities, three sequences, a boundary of 0 or 1, two power losses (one in the recovery from the first), one failing operation, one replaced card |
| `network` | `SetupReachable`, `Reconnects` (liveness) | one of changed credentials, restart or lost connection in range; the network comes and goes without bound |
| `reenrollment_cut` | `CutsAreRecoverable`, violated | see below |

Deadlock is checked where the system never stops. It is not for `config_store`,
`data_reset`, `server_sync`, `ota` and `runtime_config`, whose bounded instances really
come to rest: at the largest generation, or when the last operation, reading or offer of
the instance is done. Most modules have a `TypeOK`, an aid in writing the model; those of
`AtomicConfigStore`, `SdSequence`, `SegmentCleanup`, `ServerSync`, `DataReset` and `Ota` are
proved.

### Fairness

* Tasks that FreeRTOS schedules for ever, all with bounded waits, are weakly fair:
  StorageTask, AggregationTask, the ServerSync task, the maintenance task, the network task,
  the code of a boot. Nothing is assumed of the card or of MeterTask.
* Power comes back, and a halted device is switched off and on (`DataReset`, `Enrollment`).
* `ServerSync`: the server answers requests and adopts a generation it has authorized.
  `SyncLook` is strongly fair: a tick pushes readings only when no heartbeat is due, and the
  next heartbeat is due seconds after the last.
* `Ota`: a report that is tried again and again is one day delivered.
* `RuntimeConfig`: `Expire` is weakly fair: it does not wait for other mutations but gives
  up when the mutex is not free within 2 s, or when a reset has frozen the configuration
  (`GivesUp`; `ConfigService.cpp:914-916`, `:943-947`). The pending validation is cleared
  whatever the result and never tried again (`ServerSync.cpp:952-961`), so
  `BadNetworkUndone` excepts this outcome, as it does the loss of power and failing calls,
  `pending_config_validation_` being in RAM only.
* `Enrollment`: the queued restart is strongly fair; the code tries it again every 5 s
  until it finds the device idle.
* `Network`: time passes, and starting the access point, joining a network in range with
  good credentials, and an SNTP exchange succeed now and then when tried for ever.

### Where the code and its documents disagree

One disagreement has a run and an entry under `findings`. `reenrollment_cut`: the comment
in `beginReenrollment` says that a power cut leaves either the old enrolled identity or a
resumable request. The acknowledgement cursor is zeroed before the record is replaced; a
cut in between leaves a record with a floor above the cursor, which
`loadOrMigrateEnrollment` refuses at every later boot.

The others were found on the way; the property is in the module, and the constants
reproduce them:

* `SdSequence`, `RecordAboveServerFloor` with `SwapRule = "runtime"`,
  `Faults = {"mount_io"}`, `MaxSequence = 4`, `Cursors = {1, 2, 3}`: a card exchanged and
  remounted without a reboot is written from the floor known at boot, below the server's
  maximum (`SdStorage.cpp:326`; `docs/SEQUENCE_RECONCILIATION.md:22-24`).
* `SdSequence`, `JournalKeepsPromise` with `Faults = {"journal_io"}`, `Tolerated = 2`: a
  leftover backup journal is removed before the new journal is installed, also when it is
  the only file with the confirmed value (`SdStorage.cpp:3739`;
  `docs/SEQUENCE_RECONCILIATION.md:42-45`).
* `SdSequence`, `DurableRecordsSurvive` with `Faults = {"short_write", "repair_io"}`: a
  mount whose repair of a torn tail failed is writable, and the next record is glued to the
  torn bytes (`SdStorage.cpp:3486`; `docs/STORAGE_RECOVERY.md:7,15`).
* `SdSequence`, `RecordAboveServerFloor` with the fault `floor_io`: the floor a heartbeat
  requests leaves out the removal checkpoint, and reaching it marks the card ready after
  the complete floor failed at boot.
* `SegmentCleanup`, `UnresolvedJournalBlocksCleanup` with `Unopened = 0`, `Faults = {}`,
  `Fragile = {}`: a retention request overwrites a cleanup journal that recovery refused
  (`SdStorage.cpp:1607`; `docs/STORAGE_RETENTION_AND_CARD_REPLACEMENT.md:53-54`).
* `StorageCoordinator`, `AccumulatorSurvivesFreeze` with `MaxInterval = 2`,
  `BoundarySize = 2`, `MaxOperation = 1`, `MaxRetention = 0`, `Faults = {}`: AggregationTask
  that waits for a sample while the reset freezes is given the sample admitted before,
  refuses it, and gives up the interval accumulated so far with it
  (`Application.cpp:1050`; the comment at `:846-848` promises a lossless boundary).
* `StorageCoordinator`, `ReopenedWithoutStagedDrain` with `MaxInterval = 1`,
  `Faults = {"reject"}`: a prepare rejected after its gates closed opens them again,
  although AggregationTask may have staged its interval in the drain journal, which nothing
  reads then until a reboot (`DataResetCoordinator.cpp:375`; `:711-712`).
* `StorageCoordinator`, `NoPhantomGap` with `MaxInterval = 3`, `Faults = {"io", "reject"}`:
  the record retained at a gate that reopened is tried again every 10 ms while the queue is
  full, and every attempt counts it as an unavailable interval
  (`StorageCoordinator.cpp:175`; `Application.cpp:1004-1006`).
* `ServerSync`, `DeliveredBeforeForgotten` with `Faults = {"open"}`, `MaxGen = 0`: a segment
  that cannot be opened is skipped by `readEnvelopeFiles`, and its sequences are declared
  unavailable (`SdStorage.cpp:4150`; `SyncCoverage.h:64-65`).
* `ServerSync`, `BacklogDeliveredAfterSwap` with `Faults = {"swap"}`: after sequences above
  the cursor went away with a card, `readPage` answers `history_expired` and the upload
  stalls (`SdStorage.cpp:703-711`; `SyncCoverage.h:21-25`). `BacklogDelivered` excepts this
  case by name (`HoleBelowOldest`).
* `Ota`, `KnownGoodKept` with the run's constants: an update that fails can cost an image
  that was found good (`docs/OTA_PHASE4_FAIL_CLOSED.md:24`).
* `Ota`, `ReportsTrue` without its exception (`"validated" \in new => target \in vetted`)
  with `Faults = {}`: a manifest applied while a candidate is unverified is written over the
  last image that was found good, and when power fails before the new one is validated no
  boot entry is usable. The boot loader starts the first slot all the same, not as a pending
  image, and `begin` reports the image it expected as validated although it was never
  observed (`OtaService.cpp:864`, comment `:857-863`; `docs/OTA.md:107`). With
  one fault and two power losses it also happens to an update that follows a failed one and
  is installed from restricted recovery. `ReportsTrue` therefore asks for the observation
  only of an image with a usable entry.
* `Ota`, `OnlyVettedImagesValid` with `MaxFault = 3`: an operator's rollback during the
  observation window, a call of the update library that fails, and a Failed record that is
  stored without being confirmed leave an image that is marked valid although the record no
  longer names it. Any two of the three do not: `UnvettedImageNeedsThreeFaults` is proved.
* `DataReset`, `BootResumes`: after a power loss a prepared or authorized operation is
  resumed only by the server's repeated request or the operator, not by the boot
  (`docs/API.md:35`).
* `DataReset`, `EventOnCardOnce` with `MaxFault = 1`: an event journal whose completion was
  stored but not confirmed fails the barrier, the copy in RAM is kept and appended once more
  (`StorageCoordinator.cpp:1016-1028`, `:1543-1556`; `DataResetEventStore.h:27`).
* `Enrollment`, `RequestIsResumable` with the constants of `reenrollment_cut`: after a
  restart a pending reenrollment finds the card refused as that of another sensor.
* `RuntimeConfig`, `SetupAtomic` with `MaxFault = 2`: a key of a setup is written but not
  confirmed and then the probe of its recovery fails, so the journal stays while the device
  goes on; a second setup replaces the journal by one that holds the mixed credentials, and
  after a power loss its recovery puts that mixture back.
* `RuntimeConfig`, `AnsweredUpdatesKept` with `MaxFault = 2`: clearing the journal of a setup
  fails and so does the marker of the recovery's rollback; the device goes on with the
  configuration in RAM, an operator's update is answered as saved, and the recovery of the
  next boot goes back behind it. With one failing call neither happens: `OneFault` is proved.

Smaller observations the models carry as they are:

* `DataReset`: a record with the clock or the meter in it that was stored without being
  confirmed is refused when it is repeated with newer values, as an invalid transition, until
  a restart loads it (`DataResetCoordinator.cpp:690-722`, `:938-966`, `:1126-1136`,
  `:1154-1163`, `:1205-1212`; `DataResetPolicy.cpp:764-804`). Meanwhile the gates stay closed.
  `AuthorizedEnds` excepts that state by name (`Unconfirmed`) and asks that the reset ends
  after the restart.
* `DataReset`: power is lost after the interval of a prepare was staged and before its record
  was saved. The boot stores the interval as an orphan and completes the drain journal. When
  the server repeats the prepare under the same identifier, the interval of the new pause
  cannot be staged (`DataResetDrainStore.cpp:471-498`), and the prepare stays pending behind
  closed gates until a restart. `AuthorizedEnds` excepts a pending prepare.
* `Ota`: a failed save of `ManifestAuthenticated` leaves the record in RAM replaced, so the
  same attempt is rejected until a reboot; an unreadable record starts the evidence
  sequence again; power lost during a download leaves `DownloadStarting` for ever; a
  Validated record that cannot be saved is tried again only by the next boot.
* `RuntimeConfig`: a remote update superseded by an operator's is reported as rolled back
  although its settings stay (`ServerSync.cpp:932-944`); `updateNetworkSettings` may answer
  that the previous slot remains active although the new one is
  (`ConfigService.cpp:1145-1147`); a setup is answered as failed although it is committed
  when only the probe for the cleared journal failed; a failed rollback, one that gave up on
  the mutex (a password check holds it while it derives the key,
  `ConfigService.cpp:1781-1786`), or power lost during validation leaves the device on the
  network that does not work; a write of
  `server_cfg` that was not confirmed, followed by the rollback of that version, leaves
  `server_cfg` naming a version that is not in force after a restart.
* `Enrollment`: the answer to an older claim may be staged over a newer request
  (`overtaken`); a staged record that was stored but not confirmed waits for a power cycle;
  a card replaced while credentials are staged has every boot refused until it returns; an
  assigned boundary below the device's own refuses the claim although the token is spent.
* `StorageCoordinator`: `FenceHolds` says nothing of `dropped`: AggregationTask may be
  between its last look at the freeze and `markDataResetProducerQuiesced` when a reset is
  cancelled and the next one begins, and the second reset takes that mark for its own.

The passing runs leave out exactly the faults these cases need. Also outside the runs:
`bound_append` of `SdSequence`, and `metadata`, a failing write of cached metadata in
`SegmentCleanup`, which multiplies the instance by the subsets of segments.

## 5. Proofs

`ConfigProofs`, about `AtomicConfigStore`, for every set of payloads and every largest
generation:

* `TypeCorrect`: `Spec => []TypeOK`;
* `ActiveIsAlwaysAllowed`: a reader is given the last decided payload or the one an
  interrupted operation was installing;
* `RollbackTargetsOnceActive`: what a rollback may select was in force before;
* `StoreImplementsCell`: the store refines `CrashAtomicCell`.

None of these is inductive. That a reader is safe now says nothing about the next
marker write; that depends on what the other slot holds and how the two generations
compare. The inductive invariant `IInv` adds: what the slots and the marker are at each
step of a commit (`CommitInv`) and of a rollback (`RollbackInv`), in particular that the
slot under construction is not the active one and that its generation is above every
valid one; and that the slot which is not selected, if it is older, held a payload that
was in force (`PreviousInv`). `Invariance` proves `Spec => []IInv` with one step per
action; `CellStep` maps each step to a step of the cell or a stutter. The assumptions
are those of the module: a largest generation above 0 and distinct model constants.

`ConfigProofs`, about `RuntimeConfig`, for every sequence of updates, largest generation and
number of setups and power losses:

* `OneFault`: as long as at most one call of NVS has failed, `SetupAtomic` and
  `AnsweredUpdatesKept` hold;
* `SetupSafety`, `AnswerSafety`: both are invariants of the specification when
  `MaxFault` is 0 or 1, as in the run. With a second failing call both are false (section 4).

The inductive invariant is `ConfigInv` until the second failing call (`UntilSecondFault`).
Its parts: what is in the two slots, and that the slot a journal or a pending remote update
goes back to holds everything answered so far, except what it may undo (`StoreInv`,
`BackInv`); which keys, slots and marker each step of a commit, of a setup and of a recovery
has written (`SwitchInv`, `SetupInv`); where RAM may differ from NVS after a failed call
(`RamInv`); and that before the first failing call RAM follows NVS and only a setup runs
without network (`FirstInv`), which says what the one fault can meet.

`SegmentCleanupProofs`, for every number of segments, policy and set of faults:

* `TypeCorrect`;
* `SplitPairsAreJournalled`: a segment with one of its two files moved or gone is named by
  the journal that the next recovery reads, unless a removal overran another;
* `RecoveryDecides`: recovery never blocks on a journal it can read, with the same exception;
* `CleanupImplementsHistory`: retention, file by file and with interruptions, refines
  `RetainedHistory`.

The exception is the disagreement `UnresolvedJournalBlocksCleanup` of section 4, which the
model records in a ghost. `IndInv` is the type invariant with: only segments that were
opened have files (`OpenedInv`); whatever is in the trash, planned, journalled or being
removed may be released (`ReleaseInv`); the order of journal and rename at each step
(`OrderInv`); and, unless a removal was overrun, which files the segment in work has at each
step of a removal and of a recovery, in agreement with the journal (`JournalInv`).

`SdSequenceProofs`, for every largest sequence, reserve and set of cursors:

* `TypeCorrect`, under every fault and every rule for exchanging cards;
* `ConfirmedValueKept`: a sequence the journal confirmed is readable from one of its three
  files, if no update is interrupted twice in a row (`Tolerated <= 1`, what
  `persistSequence` promises);
* `ConfirmedRecordsKept`: a record confirmed as stored survives power loss, torn tails and
  repairs, if no repair fails half way;
* `SequencesNeverReused` and `RecordsAboveTheFloor`: the next sequence is above everything
  stored or reserved before, also on replaced cards, and no record is written at or below
  what the server has confirmed. Their hypothesis `Reliable` is one tolerated interruption,
  cards exchanged as documented, and none of the faults `floor_io`, `repair_io` and
  `bound_append`. TLC finds a counterexample when any one of these is given up (section 4),
  and the run satisfies it.

The journal theorem rests on `Shape`, which says for each step of `persistSequence` and of
the recovery which of the files exist, and on `PromiseInv`, which of them holds the
confirmed value. The freshness theorems add the repair copy (`RepairInv`, `StoredInv`) and
the relations between NVS, the floor in RAM, the scan of the card and the bound in a
record's guard (`FlagInv`, `TopInv`, `ScanInv`, `BoundInv`, `FreshInv`).

`StorageCoordinatorProofs`, for every depth of the queues and pools and every set of faults:

* `PreparedIsFenced` (`FenceHolds`): from prepare until the gate opens, nothing is queued,
  pending, or behind a producer's second look at the gate;
* `PreparedEvidenceFrozen` (`EvidenceFrozen`): no step changes the readings or gaps on the
  card while a reset stays prepared;
* `IntervalsAreOwned`, `EventsAreOwned`: every closed interval and every accepted event is
  somewhere, or counted as lost.

`InductiveInvariant` proves `Coordinated`: where each task's locals are meaningful and in
which phases the gates are open (`TypeInv`); at most one barrier is on its way, and it is of
the kind the coordinator waits for (`BarrierInv`); while a prepare drains, no producer is
past its second look, every queued record is within the snapshot that the barrier took, and
the barrier's answer means that all of them are on the card (`FenceInv`); the record
AggregationTask has sent is already someone else's (`OwnInv`). One `...Effect` lemma per
step of StorageTask says what it moves; the step lemmas of the invariants cite them. The
bounds in this module's `TypeOK` (lengths of queues, events owned within the pool) are not
part of it and are checked by TLC only.

`ServerSyncProofs`, for every number of readings, generations and limits of a page:

* `TypeCorrect`;
* `CursorStaysBehindServer`, `GenerationsAreKept`, `EvidenceIsFinal`: under every fault, with
  lost answers, late requests and expired jobs;
* `NothingForgottenUndelivered`: a syncable reading is at the server before the cursor
  passes it, if no segment fails to open (`"open" \notin Faults`; TLC shows the violation
  with that fault, section 4).

`SyncInv` adds to the properties: a finished page holds readings of the current generation,
and a request, late ones included, those of the generation it names (`PageInv`); an answer,
and what the heartbeat keeps of one, is not ahead of the server (`AnswerInv`); from the
barrier of a reset on no upload is past its second look and the cursors are the signed ones
(`ResetInv`); the card's records lie between the boundary and the next sequence
(`StoreInv`). `KeptInv` says for the last theorem that an undelivered reading is on the card
and that nothing on its way calls it unavailable.

`OtaProofs`, for every list of manifests and any number of restarts:

* `TypeCorrect`;
* `NoGapsInReports` (`ReportsComplete`) and `EvidenceNeverGoesBack` (`EvidenceAdvances`);
* `UnvettedImageNeedsThreeFaults`: an image that was not observed healthy is marked valid
  only in a behaviour with an operator's rollback, a failed call of the update library and
  an unconfirmed save;
* `ValidImagesWereVetted` (`OnlyVettedImagesValid`), where these cannot all happen: one of
  the three kinds is not in `Faults`, or `MaxFault <= 1`, as in the run;
* `OutcomesMatchImage`: whatever the faults, the server hears of a success only while the
  image of the attempt runs, and of a rollback only while another one does;
* `ReportedOutcomesTrue` (`ReportsTrue`), under the hypothesis of `ValidImagesWereVetted`.

The invariants relate the stage of the record to the place of the workflow (`RecordCases`),
the report under way to what the server has heard (`ReportInv`), the evidence sequences in
memory and in the store (`EvidenceInv`), and the image a record names to the partition, the boot
selection and the running image (`PlaceInv`).

An outcome may be reported many restarts after it was recorded, so `OutcomeInv` says of a
record that names one, in the store or in memory, that it stays true: it is true of both
images, or the boot loader starts the same image at every restart (`Kept`, from `Restarted`,
`Chosen` and `NextBoot`, which compute what would start if power failed now). It also needs
that a workflow under way has replaced every outcome by a record of its own and that a
rejected image is pending (`ControlInv`), and that an image selected again after a failed
installation is not the one the record names (`RunInv`).

`EnrollmentProofs`, for any number of tokens, power losses, failing operations and replaced
cards:

* `HandoverAlwaysWhole` (`HandoverIsWhole`);
* `AcceptedTokenKept` (`TokenKept`).

The first rests on the order of the activation (`ActivationInv`): the readings are gone
before the floor is raised, the floor is raised before the manifest is rebound, and the
manifest names the new device, alone, before a cursor moves; so that under an active record
the card is the device's own or blank, whatever was interrupted (`ActiveInv`). The second
needs to know where an owed token is at each step: in the pending record, or without a
record in its NVS key, and in RAM once the boot is past the mount (`TokenInv`). Neither
needs a bound on faults.

`DataResetProofs`, for any number of operations, intervals, events, rollovers of the meter,
power losses and failing operations:

* `TypeCorrect`;
* `DrainSafety` (`DrainedExactlyOnce`), `GenerationSafety` (`GenerationsSeparated`),
  `CompletionSafety` (`CompletedIsWhole`), `EventSafety` (`EventsPreserved`) and `BootSafety`
  (`UnfinishedDrainBoots`);
* `Refinement`: the coordinator, with its journal, workflow and retries, implements
  `ResetTransaction`.

All rest on one invariant (`InductiveInvariant`). Its centre is the relation of the record
in NVS and the one in RAM: they are equal, or one unconfirmed save apart (`RelationInv`).
What a record promises at its checkpoint about card, cursors, generation and the server is
stated once (`Held`) and holds for both records (`RecordsInv`), so that a restart, which may
take up a save that was never confirmed, finds its promises kept. The other parts say when
the gates are closed and what a job under way and its result refer to (`GateInv`, `JobInv`,
`ResultInv`), that a cleanup journal is that of an earlier operation or of one that has come
as far as its cleanup (`PlanInv`), which sequences and generation the card's records carry
(`CardInv`, `GenInv`), where the open intervals and those already handed over are, on the
card or in the drain journal (`AccInv`, `PendingInv`, `HandedInv`), and what is in RAM
before the coordinator has begun and why a boot stops (`PhaseInv`). One lemma per action
shows that it keeps them. For the refinement, the saves of the record are steps of the
transaction, a deletion is `Erase`, and everything else stutters.

The assumptions on constants are those of the modules: the bounds are natural numbers (or
positive), sets of faults hold known kinds, `NoFile`, `None` and `Torn` are none of the
values they are compared with, and `OtaAssumption` says that manifests carry positive
attempts and new image numbers. TLC evaluates all of them on every run.

Each inductive invariant was checked with TLC before it was proved. Only model-checked: the
bounds of `StorageCoordinator`'s `TypeOK`, and all liveness under fairness, both properties
of `Network` among it, which is outside what the prover can do.

## 6. Abstractions and what is not modelled

* A FAT rename or remove happens or does not; a file write may be torn. Directory
  corruption by a power loss inside FAT itself is not modelled.
* An NVS write leaves the old value, the new one or an undecodable blob.
* Record contents, paths, CRC arithmetic, formats and log lines are left out; what
  remains of a decoder is whether it accepts.
* One record file stands for the day files of the card in `SdSequence`: sequences grow
  along the files, and only the last can have a torn tail.
* `SegmentCleanup` treats the newest-window rule with the constants of the policy's
  defaults scaled to a few segments.
* Time is abstracted to the order of deadlines; clocks do not step.
* Cryptography, signatures and parsing are "accepted or not".
* `Network` assumes of the driver that a network in range which rejects the device reports
  one of the reasons `NetworkPolicy.h:31-39` takes for an authentication failure. For any
  other reason the code keeps retrying without opening the access point
  (`NetworkService.cpp:315-329`, `recovery_ap=not_started`), and `SetupReachable` would not
  hold of a device whose credentials are wrong.
* `Ota` offers newer images only: `allow_downgrade` (`OtaManifestV2.cpp:552-557`), with which a
  manifest may name an older version, is left out, and nothing is claimed for such a
  manifest.
* Not modelled at all, with reasons in `PROJECT.json`: meters, diagnostics, wire formats and
  TLS, the local web interface, host tools; event upload,
  authentication, the clock and the core algorithms.
