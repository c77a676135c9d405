-------------------------------- MODULE Ota --------------------------------
(***************************************************************************)
(* Firmware update with two application slots (ota/OtaService.cpp,         *)
(* OtaUpdatePolicy.cpp, OtaRecoveryStore.cpp) and the part of              *)
(* Application::begin that decides whether a new image stays.              *)
(*                                                                         *)
(* The maintenance task installs a manifest into the slot that is not      *)
(* running and restarts into it; the boot task identifies the image        *)
(* against the durable recovery record, observes it and marks it valid;    *)
(* the ServerSync task reports every durable milestone to the server.      *)
(* Power may fail between any two steps, NVS may refuse a write or a read, *)
(* the stream may be damaged, and an ESP-IDF call may fail.                *)
(*                                                                         *)
(* The recovery record is one cell that a commit replaces as a whole: that *)
(* is what AtomicConfigStore shows of persistence::commit.  An image is a  *)
(* number that stands for its version and its build hash.                  *)
(***************************************************************************)
EXTENDS Naturals, Sequences, FiniteSets

CONSTANTS Offers,    \* the manifests the server publishes, in that order
          ImageSize, \* chunks of an image
          MaxPower,  \* power losses
          Faults,    \* which faults happen, each of them once
          MaxFault,  \* how many of them in one behaviour
          MaxWait    \* evidence sequence up to which an attempt may wait

ASSUME OtaAssumption ==
  /\ \A i \in DOMAIN Offers :
       /\ Offers[i].dep \in Nat /\ Offers[i].attempt \in Nat \ {0}
       /\ Offers[i].image \in Nat \ {0, 1}
  /\ ImageSize \in Nat \ {0} /\ MaxPower \in Nat /\ MaxFault \in Nat
  /\ MaxWait \in Nat
  /\ Faults \subseteq {"save", "read", "call", "stream", "operator"}

VARIABLES slot,    \* the image in each application partition
          entry,   \* its state in otadata
          latest,  \* slot of the otadata entry with the higher sequence
          rec,     \* the recovery record in NVS
          incident,\* a restricted incident is durable
          running, \* the running slot
          mode,    \* what the boot task made of the running image
          pc,      \* who holds the workflow lock, and where it is
          ram,     \* recovery_
          flag,    \* status_.pending_reboot
          due,     \* report_pending_
          stream,  \* chunks received and whether they are the image's
          offer,   \* the manifest the server published last
          srv,     \* the attempt the server last heard of, and what it heard
          vetted,  \* images that passed the observation window
          hit,     \* faults that have happened
          power    \* power losses left

flashVars  == <<slot, entry, latest>>
nvsVars    == <<rec, incident>>
serverVars == <<offer, srv>>
taskVars   == <<mode, pc, ram, flag, due, stream>>
vars == <<flashVars, nvsVars, running, taskVars, serverVars, vetted, hit, power>>

Slots   == {0, 1}
Other(s) == 1 - s
NoImage == 0
Factory == 1    \* the image the device was flashed with
Nobody  == 2    \* no slot
Keys    == DOMAIN Offers
Idle    == "Idle"

\* kInstallMilestones: what a successful installation reports, in order.
kInstallMilestones ==
  <<"manifest_authenticated", "download_started", "downloading",
    "binary_verified", "partition_written", "rebooting",
    "post_boot_validation", "validated">>

Milestones == {kInstallMilestones[i] : i \in 1 .. 8}
                \cup {"waiting_for_schedule", "failed", "rollback_detected",
                      "rolled_back"}

States == {Idle, "ManifestAuthenticated", "WaitingForSchedule",
           "DownloadStarting", "PartitionWritten", "RebootPending",
           "Rebooting", "PostBootValidation", "Validated", "Failed",
           "RolledBack"}

EmptyRecord == [key |-> 0, target |-> NoImage, prev |-> NoImage,
                state |-> Idle, last |-> "", pending |-> FALSE, ev |-> 0]

Records == [key : Keys \cup {0}, target : Nat, prev : Nat, state : States,
            last : Milestones \cup {""}, pending : BOOLEAN, ev : Nat]

Image == slot[running]
-----------------------------------------------------------------------------
(***************************************************************************)
(* ESP-IDF: the boot loader, otadata and rollback.                         *)
(***************************************************************************)
\* A selection entry the boot loader considers.
Usable(e, s) == e[s] \in {"new", "pending", "valid"}

\* The slot otadata selects.
Selected(e, l) ==
  IF Usable(e, l) THEN l ELSE IF Usable(e, Other(l)) THEN Other(l) ELSE Nobody

Active == Selected(entry, latest)

\* esp_ota_check_rollback_is_possible: there is no factory partition, so the
\* other entry must be usable and its image intact.
RollbackPossible ==
  /\ Active # Nobody
  /\ Usable(entry, Other(Active)) /\ slot[Other(Active)] # NoImage

\* esp_ota_set_boot_partition: the new entry starts as NEW, whatever the
\* image was before.
Select(s) == entry' = [entry EXCEPT ![s] = "new"] /\ latest' = s

\* runningImagePendingVerification
PendingImage == entry[running] = "pending"

\* An image that was not marked valid before this restart is aborted, a new
\* one gets its one chance, and an image that does not verify is passed over.
BootLoader ==
  LET aborted == [s \in Slots |-> IF entry[s] = "pending" THEN "aborted"
                                  ELSE entry[s]]
      chosen  == Selected(aborted, latest)
      first   == IF chosen = Nobody THEN 0 ELSE chosen
  IN /\ entry' = [s \in Slots |-> IF s = chosen /\ aborted[s] = "new"
                                  THEN "pending" ELSE aborted[s]]
     /\ running' = IF slot[first] # NoImage THEN first ELSE Other(first)
-----------------------------------------------------------------------------
(***************************************************************************)
(* Pure policy.                                                            *)
(***************************************************************************)
\* What the observation window of Application::begin has seen when it ends.
Evidence == [core : BOOLEAN, tasks : BOOLEAN, local : BOOLEAN,
             external : BOOLEAN, expired : BOOLEAN]

classifyPostBootHealth(e) ==
  CASE ~e.core                            -> "FatalLocalRuntime"
    [] e.core /\ ~e.tasks /\ e.expired    -> "FatalLocalRuntime"
    [] e.core /\ ~e.tasks /\ ~e.expired   -> "RetryableLocalInitialization"
    [] e.core /\ e.tasks /\ ~e.local /\ e.expired
                                          -> "LocalInitializationBlocked"
    [] e.core /\ e.tasks /\ ~e.local /\ ~e.expired
                                          -> "RetryableLocalInitialization"
    [] e.core /\ e.tasks /\ e.local /\ ~e.external
                                          -> "HealthyExternalDegraded"
    [] OTHER                              -> "Healthy"

\* An expired observation window counts as a healthy one.
classifyPostBoot_Mut(pending, health, image, r) ==
  LET matches == r.pending /\ r.target # NoImage /\ image = r.target IN
  CASE pending /\ (~matches \/ health = "FatalLocalRuntime") -> "Rollback"
    [] ~pending /\ ~r.pending -> "None"
    [] ~pending /\ r.pending /\ ~matches -> "ReportRollback"
    [] OTHER -> "Validate"

classifyPostBoot(pending, health, image, r) ==
  LET matches == r.pending /\ r.target # NoImage /\ image = r.target IN
  CASE pending /\ ~matches -> "Rollback"
    [] pending /\ matches /\ health = "RetryableLocalInitialization" -> "Defer"
    [] pending /\ matches /\ health = "LocalInitializationBlocked" -> "Block"
    [] pending /\ matches /\ health \in {"Healthy", "HealthyExternalDegraded"}
         -> "Validate"
    [] pending /\ matches /\ health = "FatalLocalRuntime" -> "Rollback"
    [] ~pending /\ ~r.pending -> "None"
    [] ~pending /\ matches -> "Validate"
    [] ~pending /\ r.pending /\ ~matches /\ image = r.prev -> "ReportRollback"
    [] OTHER -> "FailUnexpectedImage"

reportMilestoneForState(state) ==
  CASE state = "ManifestAuthenticated" -> "manifest_authenticated"
    [] state = "WaitingForSchedule"    -> "waiting_for_schedule"
    [] state = "DownloadStarting"      -> "download_started"
    [] state \in {"PartitionWritten", "RebootPending"} -> "partition_written"
    [] state = "Rebooting"             -> "rebooting"
    [] state = "PostBootValidation"    -> "post_boot_validation"
    [] state = "Validated"             -> "validated"
    [] state = "Failed"                -> "failed"
    [] state = "RolledBack"            -> "rolled_back"
    [] OTHER                           -> ""

\* milestoneIndex: 0 for a milestone that is not part of an installation.
milestoneIndex(m) ==
  IF \E i \in 1 .. 8 : kInstallMilestones[i] = m
  THEN CHOOSE i \in 1 .. 8 : kInstallMilestones[i] = m
  ELSE 0

\* How much of the installation a report covers; waiting follows the manifest.
Delivered(last) ==
  milestoneIndex(IF last = "waiting_for_schedule" THEN "manifest_authenticated"
                 ELSE last)

\* A rollback is reported without replaying what came before it.
nextReportMilestone_Mut(last, desired) ==
  CASE desired = "" \/ last = desired -> ""
    [] desired = "rolled_back" ->
         IF last = "rollback_detected" THEN "rolled_back" ELSE "rollback_detected"
    [] desired \in {"failed", "waiting_for_schedule"} -> desired
    [] OTHER -> IF Delivered(last) >= milestoneIndex(desired) THEN ""
                ELSE kInstallMilestones[Delivered(last) + 1]

\* The next report of an attempt, or "" when nothing is owed.
nextReportMilestone(last, desired) ==
  CASE desired = "" \/ last = desired -> ""
    [] desired = "waiting_for_schedule" /\ last # desired ->
         IF last = "" THEN "manifest_authenticated"
         ELSE IF last = "manifest_authenticated" THEN desired ELSE ""
    [] desired = "failed" /\ last # desired -> "failed"
    [] desired = "rolled_back" /\ last # desired ->
         IF last = "failed" THEN ""
         ELSE IF last = "rollback_detected" THEN "rolled_back"
         ELSE IF Delivered(last) < milestoneIndex("rebooting")
              THEN kInstallMilestones[Delivered(last) + 1]
              ELSE "rollback_detected"
    [] OTHER -> IF Delivered(last) >= milestoneIndex(desired) THEN ""
                ELSE kInstallMilestones[Delivered(last) + 1]

Owed(r) == nextReportMilestone(r.last, reportMilestoneForState(r.state))

\* StreamTracker::finish and the SHA-256 comparison.
StreamComplete(s) == s.chunks = ImageSize /\ s.good

\* validatePolicy of a manifest without allow_downgrade: neither the running
\* version nor an older one.
validatePolicy(m) == m.image > Image

\* The replay check of applyFromManifestUrl against the record in memory.
Replayed(k) ==
  /\ ram.key # 0 /\ Offers[ram.key].dep = Offers[k].dep
  /\ \/ Offers[k].attempt < Offers[ram.key].attempt
     \/ k = ram.key /\ ram.state # "WaitingForSchedule"
-----------------------------------------------------------------------------
(***************************************************************************)
(* The recovery record.                                                    *)
(***************************************************************************)
Possible(f) == f \in Faults \ hit /\ Cardinality(hit) < MaxFault
Hits(f) == Possible(f) /\ hit' = hit \cup {f}
NoFault == UNCHANGED hit

\* persistState: the next evidence of the attempt.
Evolved(r, state, pending) ==
  [r EXCEPT !.state = state, !.pending = pending, !.ev = @ + 1]

\* saveAndVerify, successful: memory follows the store.
Saved(c) == rec' = c /\ ram' = c /\ NoFault

\* Memory moves on although the checkpoint was refused.
NotSaved_Mut(r, c) == Hits("save") /\ rec' \in {rec, c} /\ ram' = c

\* A commit that failed, or one whose read-back did: memory stays.
NotSaved(r, c) == Hits("save") /\ rec' \in {rec, c} /\ ram' = r

\* setState with persist: what the record in memory r becomes, saved or not.
\* Without a deployment there is nothing a record could name.
Persist(r, state, pending) ==
  IF r.key = 0 THEN UNCHANGED rec /\ ram' = r /\ NoFault
  ELSE \/ Saved(Evolved(r, state, pending))
       \/ NotSaved(r, Evolved(r, state, pending))

\* The checkpoint of this step is in the store and in memory.
Stored(r) == r.key # 0 /\ ram' # r
-----------------------------------------------------------------------------
(***************************************************************************)
(* Power, boot loader and OtaService::begin.                               *)
(***************************************************************************)
Init ==
  /\ slot = [s \in Slots |-> IF s = 0 THEN Factory ELSE NoImage]
  /\ entry = [s \in Slots |-> IF s = 0 THEN "valid" ELSE "none"]
  /\ latest = 0 /\ rec = EmptyRecord /\ incident = FALSE
  /\ running = 0 /\ mode = "normal" /\ pc = "idle"
  /\ ram = EmptyRecord /\ flag = FALSE /\ due = FALSE
  /\ stream = [chunks |-> 0, good |-> TRUE]
  /\ offer = 0 /\ srv = [key |-> 0, got |-> {}]
  /\ vetted = {Factory} /\ hit = {} /\ power = MaxPower

\* What a restart forgets.
ForgetMemory ==
  /\ mode' = "off" /\ pc' = "idle" /\ ram' = EmptyRecord
  /\ flag' = FALSE /\ due' = FALSE
  /\ stream' = [chunks |-> 0, good |-> TRUE]

PowerLoss ==
  /\ power > 0 /\ mode # "off"
  /\ power' = power - 1 /\ ForgetMemory
  /\ UNCHANGED <<flashVars, nvsVars, running, serverVars, vetted, hit>>

Boot ==
  /\ mode = "off" /\ BootLoader /\ mode' = "begin"
  /\ UNCHANGED <<slot, latest, nvsVars, pc, ram, flag, due, stream, serverVars,
                 vetted, hit, power>>

\* initiatePostBootRollback, up to its checkpoint; the mark follows.
initiatePostBootRollback(r, pending) ==
  /\ Persist(r, "Failed", pending)
  /\ due' = Stored(r) /\ pc' = "reject"

\* begin: the record cannot be read, or there is none.
BeginWithoutRecord ==
  /\ mode = "begin" /\ pc = "idle"
  /\ \/ rec.key = 0 /\ NoFault
     \/ rec.key # 0 /\ Hits("read")
  /\ flag' = FALSE /\ due' = FALSE /\ ram' = EmptyRecord
  /\ IF PendingImage THEN pc' = "reject" /\ UNCHANGED mode
                     ELSE mode' = "normal" /\ UNCHANGED pc
  /\ UNCHANGED <<flashVars, nvsVars, running, stream, serverVars, vetted, power>>

\* begin: a record that expects no new image.
BeginSettled ==
  /\ mode = "begin" /\ pc = "idle" /\ rec.key # 0 /\ ~rec.pending
  /\ flag' = FALSE
  /\ IF PendingImage
     THEN initiatePostBootRollback(rec, FALSE) /\ UNCHANGED mode
     ELSE /\ ram' = rec /\ due' = (rec.state # Idle) /\ mode' = "normal"
          /\ NoFault /\ UNCHANGED <<rec, pc>>
  /\ UNCHANGED <<flashVars, incident, running, stream, serverVars, vetted, power>>

\* begin: the record expects the image that now runs, or its rollback.
BeginPending ==
  /\ mode = "begin" /\ pc = "idle" /\ rec.key # 0 /\ rec.pending
  /\ LET action == classifyPostBoot(PendingImage, "Healthy", Image, rec) IN
     \/ /\ action = "Validate" /\ PendingImage
        /\ flag' = TRUE /\ Persist(rec, "PostBootValidation", TRUE)
        /\ mode' = "observe" /\ UNCHANGED <<pc, due>>
     \/ /\ action = "Validate" /\ ~PendingImage
        /\ flag' = FALSE /\ Persist(rec, "Validated", FALSE)
        /\ due' = Stored(rec) /\ mode' = "normal" /\ UNCHANGED pc
     \/ /\ action = "ReportRollback"
        /\ flag' = FALSE /\ Persist(rec, "RolledBack", FALSE)
        /\ due' = TRUE /\ mode' = "normal" /\ UNCHANGED pc
     \/ /\ action = "Rollback"
        /\ flag' = TRUE /\ initiatePostBootRollback(rec, TRUE) /\ UNCHANGED mode
     \/ /\ action = "FailUnexpectedImage"
        /\ flag' = TRUE /\ Persist(rec, "Failed", TRUE)
        /\ due' = TRUE /\ mode' = "normal" /\ UNCHANGED pc
  /\ UNCHANGED <<flashVars, incident, running, stream, serverVars, vetted, power>>

\* esp_ota_mark_app_invalid_rollback_and_reboot
MarkInvalid == entry' = [entry EXCEPT ![Active] = "invalid"] /\ ForgetMemory

\* The rest of initiatePostBootRollback.  What cannot be rolled back starts
\* nothing but local recovery when services have not started yet, and stays
\* unvalidated when they have.
Reject ==
  /\ pc = "reject"
  /\ \/ /\ RollbackPossible /\ MarkInvalid /\ NoFault /\ UNCHANGED incident
     \/ /\ \/ ~RollbackPossible /\ NoFault
           \/ RollbackPossible /\ Hits("call")
        /\ pc' = "idle"
        /\ IF mode = "begin"
           THEN mode' = "restricted" /\ due' = FALSE /\ incident' = TRUE
           ELSE mode' = "blocked" /\ UNCHANGED <<due, incident>>
        /\ UNCHANGED <<entry, ram, flag, stream>>
  /\ UNCHANGED <<slot, latest, rec, running, serverVars, vetted, power>>
-----------------------------------------------------------------------------
(***************************************************************************)
(* checkRunningImage, called once when the observation window ends.        *)
(***************************************************************************)
HealthyClasses == {"Healthy", "HealthyExternalDegraded"}

\* The durable record expects the running image.
Named == rec.pending /\ rec.target = Image

\* The window ends with a verdict; while it is retryable the loop goes on.
Verdicts ==
  {classifyPostBootHealth(e) : e \in Evidence} \ {"RetryableLocalInitialization"}

\* A workflow that holds the lock longer than the wait ends it undecided.
CheckRunningImage ==
  /\ mode = "observe"
  /\ \E health \in Verdicts :
       LET action == classifyPostBoot(TRUE, health, Image, ram) IN
       \/ /\ pc \notin {"idle", "reject", "uncheckpointed", "mark", "marked"}
          /\ mode' = "blocked" /\ NoFault /\ UNCHANGED <<rec, ram, due, pc, vetted>>
       \/ /\ pc = "idle" /\ ~PendingImage
          /\ mode' = "normal" /\ NoFault /\ UNCHANGED <<rec, ram, due, pc, vetted>>
       \/ /\ pc = "idle" /\ PendingImage /\ action = "Block"
          /\ Persist(ram, "Failed", flag)
          /\ due' = (due \/ Stored(ram))
          /\ mode' = "blocked" /\ UNCHANGED <<pc, vetted>>
       \/ /\ pc = "idle" /\ PendingImage /\ action = "Rollback"
          /\ initiatePostBootRollback(ram, flag) /\ UNCHANGED <<mode, vetted>>
       \/ /\ pc = "idle" /\ PendingImage /\ action = "Validate"
          /\ Persist(ram, "PostBootValidation", flag)
          /\ pc' = IF Stored(ram) THEN "mark" ELSE "uncheckpointed"
          /\ vetted' = IF Named /\ health \in HealthyClasses
                       THEN vetted \cup {Image} ELSE vetted
          /\ UNCHANGED <<mode, due>>
  /\ UNCHANGED <<flashVars, incident, running, flag, stream, serverVars, power>>

\* The checkpoint before the mark failed.
RejectUncheckpointed ==
  /\ pc = "uncheckpointed"
  /\ initiatePostBootRollback(ram, flag)
  /\ UNCHANGED <<flashVars, incident, running, mode, flag, stream, serverVars,
                 vetted, power>>

\* esp_ota_mark_app_valid_cancel_rollback
MarkValid ==
  /\ pc = "mark"
  /\ entry' = [entry EXCEPT ![Active] = "valid"]
  /\ flag' = FALSE /\ pc' = "marked"
  /\ UNCHANGED <<slot, latest, nvsVars, running, mode, ram, due, stream,
                 serverVars, vetted, hit, power>>

MarkValidFails ==
  /\ pc = "mark" /\ Hits("call") /\ pc' = "uncheckpointed"
  /\ UNCHANGED <<flashVars, nvsVars, running, mode, ram, flag, due, stream,
                 serverVars, vetted, power>>

\* The Validated record is not written once the image is valid.
SaveValidated_Mut ==
  /\ pc = "marked" /\ due' = TRUE /\ pc' = "idle" /\ mode' = "normal"
  /\ UNCHANGED <<flashVars, nvsVars, running, flag, ram, stream, serverVars,
                 vetted, hit, power>>

SaveValidated ==
  /\ pc = "marked"
  /\ Persist(ram, "Validated", flag)
  /\ due' = TRUE /\ pc' = "idle"
  /\ mode' = IF Stored(ram) THEN "normal" ELSE "blocked"
  /\ UNCHANGED <<flashVars, incident, running, flag, stream, serverVars, vetted,
                 power>>
-----------------------------------------------------------------------------
(***************************************************************************)
(* Reports: one transaction per call of flushPendingReportWithLease.       *)
(***************************************************************************)
\* The server accepts a report; the device then records that it did.
Accepted(m) ==
  /\ srv' = [key |-> ram.key,
             got |-> {m} \cup IF srv.key = ram.key THEN srv.got ELSE {}]
  /\ \/ /\ Saved([ram EXCEPT !.last = m])
        /\ due' = (Owed([ram EXCEPT !.last = m]) # "")
     \/ NotSaved(ram, [ram EXCEPT !.last = m]) /\ due' = TRUE
  /\ UNCHANGED offer

\* postReport: delivered, or not.
flushPendingReportWithLease ==
  \/ /\ Owed(ram) = "" /\ due' = FALSE
     /\ NoFault /\ UNCHANGED <<rec, ram, serverVars>>
  \/ /\ Owed(ram) # "" /\ Accepted(Owed(ram))
  \/ /\ Owed(ram) # "" /\ due' = TRUE
     /\ NoFault /\ UNCHANGED <<rec, ram, serverVars>>

\* The ServerSync task, whenever the workflow lock is free.  A report that
\* does not arrive is tried again after half a minute.
FlushPendingReport ==
  /\ mode \in {"observe", "normal", "blocked"} /\ pc = "idle" /\ due
  /\ flushPendingReportWithLease
  /\ UNCHANGED <<flashVars, incident, running, mode, pc, flag, stream, vetted,
                 power>>
-----------------------------------------------------------------------------
(***************************************************************************)
(* applyFromManifestUrl in the maintenance task.                           *)
(***************************************************************************)
FreshRecord(k) ==
  [EmptyRecord EXCEPT !.key = k, !.target = Offers[k].image, !.prev = Image,
     !.last = IF k = ram.key THEN ram.last ELSE "",
     !.ev = IF k = ram.key THEN ram.ev ELSE 0]

\* The manifest the server answers with; a failed transfer changes nothing.
fetchText == {k \in Keys : k >= offer}

\* Up to the authenticated manifest, the one published last or a newer one; a
\* manifest that does not verify or is a replay changes nothing that lasts.
ApplyManifest ==
  /\ mode \in {"observe", "normal", "blocked", "restricted"} /\ pc = "idle"
  /\ ~(mode = "restricted" /\ RollbackPossible)
  /\ \E k \in fetchText :
       /\ validatePolicy(Offers[k]) /\ ~Replayed(k)
       /\ offer' = k /\ flag' = FALSE
       /\ Persist(FreshRecord(k), "ManifestAuthenticated", FALSE)
       /\ due' = (due \/ Stored(FreshRecord(k)))
       /\ pc' = IF Stored(FreshRecord(k)) THEN "authenticated" ELSE "idle"
  /\ UNCHANGED <<flashVars, incident, running, mode, stream, srv, vetted, power>>

\* The report after each checkpoint, and where the workflow goes on.
AfterReport ==
  [authenticated |-> "schedule", started |-> "download", written |-> "arm",
   armed |-> "commit", committed |-> "restart", failed |-> "idle"]

Report ==
  /\ pc \in DOMAIN AfterReport
  /\ flushPendingReportWithLease /\ pc' = AfterReport[pc]
  /\ UNCHANGED <<flashVars, incident, running, mode, flag, stream, vetted, power>>

\* Outside the update window the attempt waits; the same manifest resumes it.
Schedule ==
  /\ pc = "schedule"
  /\ \/ /\ ram.ev <= MaxWait /\ Persist(ram, "WaitingForSchedule", FALSE) /\ pc' = "idle"
     \/ /\ Persist(ram, "DownloadStarting", FALSE)
        /\ pc' = IF Stored(ram) THEN "started" ELSE "idle"
  /\ due' = (due \/ Stored(ram))
  /\ UNCHANGED <<flashVars, incident, running, mode, flag, stream, serverVars,
                 vetted, power>>

Target == Other(running)

\* Update.begin erases the inactive slot.
DownloadBegin ==
  /\ pc = "download"
  /\ slot' = [slot EXCEPT ![Target] = NoImage]
  /\ stream' = [chunks |-> 0, good |-> TRUE] /\ pc' = "streaming"
  /\ UNCHANGED <<entry, latest, nvsVars, running, mode, ram, flag, due,
                 serverVars, vetted, hit, power>>

StreamChunk ==
  /\ pc = "streaming" /\ stream.chunks < ImageSize
  /\ \/ NoFault /\ stream' = [stream EXCEPT !.chunks = @ + 1]
     \/ Hits("stream") /\ stream' = [chunks |-> stream.chunks + 1, good |-> FALSE]
  /\ UNCHANGED <<flashVars, nvsVars, running, mode, pc, ram, flag, due,
                 serverVars, vetted, power>>

\* No server, no metadata, a reset or stalled connection, or a bad image.
DownloadFails ==
  /\ \/ pc \in {"download", "streaming"} /\ Hits("stream")
     \/ pc = "streaming" /\ stream.chunks = ImageSize
        /\ ~StreamComplete(stream) /\ NoFault
  /\ pc' = "failing"
  /\ UNCHANGED <<flashVars, nvsVars, running, mode, ram, flag, due, stream,
                 serverVars, vetted, power>>

\* Update.end(true): the image is complete and selected.
UpdateEnd ==
  /\ pc = "streaming" /\ stream.chunks = ImageSize /\ StreamComplete(stream)
  /\ slot' = [slot EXCEPT ![Target] = IF stream.good THEN ram.target ELSE NoImage]
  /\ Select(Target) /\ pc' = "ended"
  /\ UNCHANGED <<nvsVars, running, mode, ram, flag, due, stream, serverVars,
                 vetted, hit, power>>

\* verifySelectedBootPartition, and the first checkpoint after it.
\* The boot loader would start the new image from the slot it was written to.
verifySelectedBootPartition(s) ==
  /\ Selected(entry, latest) = s /\ s # running
  /\ entry[s] = "new" /\ slot[s] = ram.target

PartitionWritten ==
  /\ pc = "ended"
  /\ \/ Hits("call") /\ pc' = "close_download" /\ UNCHANGED <<rec, ram, due>>
     \/ IF verifySelectedBootPartition(Target)
        THEN /\ Persist(ram, "PartitionWritten", FALSE)
             /\ due' = (due \/ Stored(ram))
             /\ pc' = IF Stored(ram) THEN "written" ELSE "close"
        ELSE pc' = "close_download" /\ NoFault /\ UNCHANGED <<rec, ram, due>>
  /\ UNCHANGED <<flashVars, incident, running, mode, flag, stream, serverVars,
                 vetted, power>>

\* pending_reboot becomes TRUE with the RebootPending record.
Arm ==
  /\ pc = "arm" /\ flag' = TRUE
  /\ Persist(ram, "RebootPending", TRUE)
  /\ due' = (due \/ Stored(ram))
  /\ pc' = IF Stored(ram) THEN "armed" ELSE "close"
  /\ UNCHANGED <<flashVars, incident, running, mode, stream, serverVars, vetted,
                 power>>

Commit ==
  /\ pc = "commit"
  /\ Persist(ram, "Rebooting", flag)
  /\ due' = (due \/ Stored(ram))
  /\ pc' = IF Stored(ram) THEN "committed" ELSE "close"
  /\ UNCHANGED <<flashVars, incident, running, mode, flag, stream, serverVars,
                 vetted, power>>

verifyRecoveryBeforeReboot == rec = ram /\ rec.pending /\ rec.state = "Rebooting"

\* The final read-back and ESP.restart.
Restart ==
  /\ pc = "restart"
  /\ \/ verifyRecoveryBeforeReboot /\ ForgetMemory /\ NoFault
     \/ /\ ~verifyRecoveryBeforeReboot /\ NoFault /\ pc' = "close"
        /\ UNCHANGED <<mode, ram, flag, due, stream>>
     \/ /\ Hits("read") /\ pc' = "close"
        /\ UNCHANGED <<mode, ram, flag, due, stream>>
  /\ UNCHANGED <<flashVars, nvsVars, running, serverVars, vetted, power>>

\* restoreRunningBootPartition, the first half of failClosedAfterBootSelection.
Restore ==
  /\ pc \in {"close", "close_download"}
  /\ \/ Select(running) /\ NoFault
     \/ Hits("call") /\ UNCHANGED <<entry, latest>>
  /\ flag' = FALSE
  /\ pc' = IF pc = "close" THEN "closed" ELSE "closed_download"
  /\ UNCHANGED <<slot, nvsVars, running, mode, ram, due, stream, serverVars,
                 vetted, power>>

\* Its checkpoint; a failure inside downloadAndApply is recorded once more.
FailClosed ==
  /\ pc \in {"closed", "closed_download"}
  /\ Persist(ram, "Failed", FALSE)
  /\ due' = (due \/ Stored(ram))
  /\ pc' = IF pc = "closed" THEN "idle" ELSE "failing"
  /\ UNCHANGED <<flashVars, incident, running, mode, flag, stream, serverVars,
                 vetted, power>>

DownloadFailed ==
  /\ pc = "failing"
  /\ Persist(ram, "Failed", flag)
  /\ due' = (due \/ Stored(ram)) /\ pc' = "failed"
  /\ UNCHANGED <<flashVars, incident, running, mode, flag, stream, serverVars,
                 vetted, power>>
-----------------------------------------------------------------------------
(***************************************************************************)
(* rollbackAndReboot on an operator's order.                               *)
(***************************************************************************)
\* The outcome is recorded before it is known.
RollbackAndReboot_Mut ==
  /\ mode \in {"observe", "normal", "blocked", "restricted"} /\ pc = "idle"
  /\ Possible("operator") /\ RollbackPossible /\ ram.key # 0
  /\ rec' = Evolved(ram, "RolledBack", FALSE) /\ ram' = rec'
  /\ flag' = TRUE /\ pc' = "rollback" /\ hit' = hit \cup {"operator"}
  /\ UNCHANGED <<flashVars, incident, running, mode, due, stream, serverVars,
                 vetted, power>>

RollbackAndReboot ==
  /\ mode \in {"observe", "normal", "blocked", "restricted"} /\ pc = "idle"
  /\ Possible("operator") /\ RollbackPossible /\ ram.key # 0
  /\ \/ /\ rec' = Evolved(ram, "Rebooting", TRUE) /\ ram' = rec'
        /\ flag' = TRUE /\ pc' = "rollback" /\ hit' = hit \cup {"operator"}
     \/ /\ Possible("save") /\ hit' = hit \cup {"operator", "save"}
        /\ rec' \in {rec, Evolved(ram, "Rebooting", TRUE)}
        /\ flag' = FALSE /\ UNCHANGED <<ram, pc>>
  /\ UNCHANGED <<flashVars, incident, running, mode, due, stream, serverVars,
                 vetted, power>>

\* A mark that fails is recorded like a failed installation.
RollbackMark ==
  /\ pc = "rollback"
  /\ \/ MarkInvalid /\ NoFault
     \/ /\ Hits("call") /\ flag' = FALSE /\ pc' = "closed"
        /\ UNCHANGED <<entry, mode, ram, due, stream>>
  /\ UNCHANGED <<slot, latest, nvsVars, running, serverVars, vetted, power>>
-----------------------------------------------------------------------------
Maintenance ==
  \/ Report \/ Schedule \/ DownloadBegin \/ StreamChunk \/ DownloadFails
  \/ UpdateEnd \/ PartitionWritten \/ Arm \/ Commit \/ Restart \/ Restore
  \/ FailClosed \/ DownloadFailed \/ RollbackMark

BootTask ==
  \/ Boot \/ BeginWithoutRecord \/ BeginSettled \/ BeginPending \/ Reject
  \/ CheckRunningImage \/ RejectUncheckpointed \/ MarkValid \/ MarkValidFails
  \/ SaveValidated

Next ==
  \/ ApplyManifest \/ RollbackAndReboot \/ Maintenance \/ BootTask
  \/ FlushPendingReport \/ PowerLoss

\* The tasks run; an observation window ends; a report that is tried again
\* and again is one day delivered, and its checkpoint stored.
Deliver == FlushPendingReport /\ (Owed(ram) = "" \/ ram' # ram)

Fairness ==
  WF_vars(BootTask) /\ WF_vars(Maintenance) /\ WF_vars(Deliver)

Spec == Init /\ [][Next]_vars /\ Fairness
-----------------------------------------------------------------------------
\* Shapes of the partitions, the recovery record, the tasks and the server's view.
TypeOK ==
  /\ slot \in [Slots -> Nat] /\ latest \in Slots /\ running \in Slots
  /\ entry \in [Slots -> {"none", "new", "pending", "valid", "invalid", "aborted"}]
  /\ rec \in Records /\ ram \in Records
  /\ incident \in BOOLEAN /\ flag \in BOOLEAN /\ due \in BOOLEAN
  /\ mode \in {"off", "begin", "observe", "normal", "blocked", "restricted"}
  /\ pc \in {"idle", "reject", "mark", "uncheckpointed", "marked", "schedule",
             "download", "streaming", "failing", "ended", "arm", "commit",
             "restart", "close", "close_download", "closed", "closed_download",
             "rollback"} \cup DOMAIN AfterReport
  /\ stream \in [chunks : 0 .. ImageSize, good : BOOLEAN]
  /\ offer \in Keys \cup {0} /\ vetted \subseteq Nat
  /\ srv \in [key : Keys \cup {0}, got : SUBSET Milestones]
  /\ hit \subseteq Faults /\ power \in 0 .. MaxPower

\* Whatever the order of power losses, refused writes and failed calls, no
\* slot is marked valid but for an image that was observed to be healthy
\* while the durable record named it as the one to expect
\* (checkRunningImage, OtaService::begin).
OnlyVettedImagesValid ==
  \A s \in Slots : entry[s] = "valid" /\ slot[s] # NoImage => slot[s] \in vetted

\* The server never sees a gap in an attempt: whichever boots the reports of
\* an attempt are spread over, it has every earlier milestone of what it has,
\* and a rollback only after the restart (nextReportMilestone).
ReportsComplete ==
  /\ \A i, j \in 1 .. 8 :
       i < j /\ kInstallMilestones[j] \in srv.got => kInstallMilestones[i] \in srv.got
  /\ "rolled_back" \in srv.got => "rollback_detected" \in srv.got
  /\ "rollback_detected" \in srv.got => "rebooting" \in srv.got

\* A report of success or of a rollback is true when it is sent, over any
\* number of restarts after the outcome was recorded: the image of the attempt
\* runs and was observed to be healthy, or something else runs.  Excepted from
\* the observation is an image the boot loader started although no entry was
\* left to select: begin takes an expected image that is not pending for one
\* that was validated (reportJson, classifyPostBoot).
ReportsTrue ==
  [][LET new == IF srv'.key = srv.key THEN srv'.got \ srv.got ELSE srv'.got
         target == Offers[srv'.key].image
     IN /\ "validated" \in new =>
             Image = target /\ (Usable(entry, running) => target \in vetted)
        /\ "rolled_back" \in new => Image # target]_vars

\* What the server is told of an attempt is ordered by its evidence sequence,
\* across restarts and refused checkpoints: the sequence in memory, which the
\* reports carry, never goes back, and the store never falls behind it, so a
\* restart cannot take a reported one back.  Excepted is a record that could
\* not be read, after which the same attempt starts again
\* (persistState, postReport, applyFromManifestUrl).
EvidenceAdvances ==
  [][ram.key # 0 /\ "read" \notin hit =>
       /\ ram'.key = ram.key => ram'.ev >= ram.ev
       /\ rec.key = ram.key => rec.ev >= ram.ev]_vars

\* An installation that got as far as its restart comes to an end the server
\* is told of: validated, failed or rolled back, unless a newer attempt takes
\* its record.  Excepted are a device in restricted recovery and NVS faults: a
\* Validated record that cannot be written is retried only by the next boot.
InstallationConcludes ==
  (rec.state = "Rebooting" /\ rec.pending)
    ~> \/ rec.state \notin {"Rebooting", "PostBootValidation"} /\ Owed(rec) = ""
       \/ rec.state = "ManifestAuthenticated"
       \/ mode = "restricted" \/ hit \cap {"save", "read"} # {}

\* No failed update costs the device an image that was found good: unless an
\* operator orders a rollback, a vetted image is never marked invalid
\* (failClosedAfterBootSelection restores the running image).
KnownGoodKept ==
  "operator" \notin hit =>
    \A s \in Slots : entry[s] = "invalid" => slot[s] \notin vetted
=============================================================================
