----------------------------- MODULE OtaProofs ------------------------------
(***************************************************************************)
(* Proofs about Ota, for every list of manifests, every image size and any *)
(* number of power losses and faults: its type invariant, ReportsComplete, *)
(* EvidenceAdvances and, up to one combination of three faults,            *)
(* OnlyVettedImagesValid and ReportsTrue.                                  *)
(*                                                                         *)
(* Every step changes the recovery record in one of six ways               *)
(* (RecordCases); what the server was told follows from these alone        *)
(* (ReportInv).  What is marked valid depends on the boot selection and on *)
(* how the record in memory relates to the durable one while the running   *)
(* image is observed (VettedInv).  That a recorded outcome is still true   *)
(* when it is reported needs what the boot loader would start at every     *)
(* moment (OutcomeInv).                                                    *)
(***************************************************************************)
EXTENDS Ota, FiniteSetTheorems, TLAPS

EntryStates == {"none", "new", "pending", "valid", "invalid", "aborted"}

\* The steps of applyFromManifestUrl and of its error paths.
Installing ==
  {"authenticated", "schedule", "started", "download", "streaming", "failing",
   "ended", "written", "arm", "armed", "commit", "committed", "restart", "close",
   "close_download", "closed_download", "failed"}

\* The steps at which a report is due before the workflow goes on.
Reporting == {"authenticated", "started", "written", "armed", "committed", "failed"}

-----------------------------------------------------------------------------
(* Records and milestones                                                   *)

\* The steps that AfterReport leads from and to.
LEMMA AfterReportIs ==
  /\ DOMAIN AfterReport = Reporting
  /\ \A p \in Reporting :
       AfterReport[p] \in {"schedule", "download", "arm", "commit", "restart", "idle"}
  BY DEF AfterReport, Reporting

\* The constants are of their types.
LEMMA ConstantTypes ==
  /\ EmptyRecord \in Records /\ EmptyRecord.key = 0 /\ EmptyRecord.ev = 0
  /\ EmptyRecord.last = "" /\ EmptyRecord.state = Idle
  BY DEF EmptyRecord, Records, States, Idle, NoImage

\* The fields of a record.
LEMMA RecordFields ==
  ASSUME NEW r \in Records
  PROVE  /\ r.key \in Keys \cup {0} /\ r.target \in Nat /\ r.prev \in Nat
         /\ r.state \in States /\ r.last \in Milestones \cup {""}
         /\ r.pending \in BOOLEAN /\ r.ev \in Nat
  BY DEF Records

\* persistState changes the state, the expectation and the evidence.
LEMMA EvolvedFields ==
  ASSUME NEW r \in Records, NEW state \in States, NEW pending \in BOOLEAN
  PROVE  LET c == Evolved(r, state, pending)
         IN  /\ c \in Records /\ c.key = r.key /\ c.target = r.target /\ c.last = r.last
             /\ c.state = state /\ c.pending = pending /\ c.ev = r.ev + 1
<1>0. PICK n \in Nat : n = r.ev
  BY RecordFields
<1>1. r.ev + 1 \in Nat
  BY <1>0
<1>2. Evolved(r, state, pending) = [r EXCEPT !.state = state, !.pending = pending, !.ev = r.ev + 1]
  BY DEF Evolved, Records
<1>. QED  BY <1>1, <1>2 DEF Records

\* A delivered report changes what was reported last.
LEMMA ReportedFields ==
  ASSUME NEW r \in Records, NEW m \in Milestones
  PROVE  LET c == [r EXCEPT !.last = m]
         IN  /\ c \in Records /\ c.key = r.key /\ c.target = r.target /\ c.last = m
             /\ c.state = r.state /\ c.pending = r.pending /\ c.ev = r.ev
  BY DEF Records

\* The record of a new attempt.
LEMMA FreshFields ==
  ASSUME NEW k \in Keys, ram \in Records, Image \in Nat
  PROVE  /\ FreshRecord(k) \in Records /\ FreshRecord(k).key = k
         /\ FreshRecord(k).target = Offers[k].image /\ FreshRecord(k).state = Idle
         /\ FreshRecord(k).last = IF k = ram.key THEN ram.last ELSE ""
         /\ FreshRecord(k).ev = IF k = ram.key THEN ram.ev ELSE 0
         /\ ~FreshRecord(k).pending
<1>1. Offers[k].image \in Nat
  BY OtaAssumption DEF Keys
<1>. QED
  BY <1>1, RecordFields DEF FreshRecord, EmptyRecord, Records, States, Idle,
     NoImage

\* The index of a milestone of an installation, and of any other.
LEMMA IndexIs ==
  /\ \A i \in 1 .. 8 : milestoneIndex(kInstallMilestones[i]) = i
  /\ \A m : milestoneIndex(m) \in 0 .. 8
  /\ \A m : milestoneIndex(m) # 0 => m = kInstallMilestones[milestoneIndex(m)]
<1>1. \A i, j \in 1 .. 8 : kInstallMilestones[i] = kInstallMilestones[j] => i = j
  BY DEF kInstallMilestones
<1>2. ASSUME NEW m, \E i \in 1 .. 8 : kInstallMilestones[i] = m
      PROVE  /\ milestoneIndex(m) \in 1 .. 8 /\ kInstallMilestones[milestoneIndex(m)] = m
  BY <1>2 DEF milestoneIndex
<1>3. ASSUME NEW m, ~(\E i \in 1 .. 8 : kInstallMilestones[i] = m)
      PROVE  milestoneIndex(m) = 0
  BY <1>3 DEF milestoneIndex
<1>. QED  BY <1>1, <1>2, <1>3

\* The milestones by number.
LEMMA InstallMilestonesAre ==
  /\ \A i \in 1 .. 8 : kInstallMilestones[i] \in Milestones /\ kInstallMilestones[i] # ""
  /\ \A i \in 1 .. 8 : kInstallMilestones[i] \notin
       {"waiting_for_schedule", "failed", "rollback_detected", "rolled_back"}
  /\ kInstallMilestones[1] = "manifest_authenticated"
  /\ kInstallMilestones[6] = "rebooting"
  /\ {"waiting_for_schedule", "failed", "rollback_detected", "rolled_back"}
       \subseteq Milestones
<1>1. \A i \in 1 .. 8 : kInstallMilestones[i] \in Milestones
  BY DEF Milestones
<1>2. {"waiting_for_schedule", "failed", "rollback_detected", "rolled_back"} \subseteq Milestones
  BY DEF Milestones
<1>. QED  BY <1>1, <1>2 DEF kInstallMilestones

\* How far the reports got.
LEMMA DeliveredIs ==
  /\ \A last : Delivered(last) \in 0 .. 8
  /\ \A last : Delivered(last) # 0 /\ last # "waiting_for_schedule"
                 => last = kInstallMilestones[Delivered(last)]
  /\ Delivered("waiting_for_schedule") = 1 /\ milestoneIndex("rebooting") = 6
<1>0. 1 \in 1 .. 8 /\ 6 \in 1 .. 8
  OBVIOUS
<1>1. milestoneIndex("manifest_authenticated") = 1 /\ milestoneIndex("rebooting") = 6
  <2>1. milestoneIndex(kInstallMilestones[1]) = 1 /\ milestoneIndex(kInstallMilestones[6]) = 6
    BY <1>0, IndexIs
  <2>. QED  BY <2>1, InstallMilestonesAre
<1>. QED  BY <1>1, IndexIs DEF Delivered

\* Its successor is a milestone as long as there is one.
LEMMA DeliveredSuccessor ==
  ASSUME NEW last
  PROVE  /\ Delivered(last) < 6 => Delivered(last) + 1 \in 1 .. 8
         /\ ~(Delivered(last) < 6) => Delivered(last) >= 6
         /\ \A n \in 0 .. 8 : ~(Delivered(last) >= n) => Delivered(last) + 1 \in 1 .. 8
<1>1. PICK d \in 0 .. 8 : d = Delivered(last)
  BY DeliveredIs
<1>2. /\ d < 6 => d + 1 \in 1 .. 8
      /\ ~(d < 6) => d >= 6
      /\ \A n \in 0 .. 8 : ~(d >= n) => d + 1 \in 1 .. 8
  OBVIOUS
<1>. QED  BY <1>1, <1>2

\* A report that may follow what was delivered: the next milestone of the
\* installation, or one of the others after what has to precede it.
Follows(m, last) ==
  \/ Delivered(last) + 1 \in 1 .. 8 /\ m = kInstallMilestones[Delivered(last) + 1]
  \/ m = "manifest_authenticated" \/ m = "failed"
  \/ m = "waiting_for_schedule" /\ last = "manifest_authenticated"
  \/ m = "rolled_back" /\ last = "rollback_detected"
  \/ m = "rollback_detected" /\ Delivered(last) >= 6

\* nextReportMilestone answers nothing or what may follow.
LEMMA NextReportFollows ==
  ASSUME NEW last, NEW desired, NEW m, m = nextReportMilestone(last, desired), m # ""
  PROVE  Follows(m, last)
<1>b. milestoneIndex(desired) \in 0 .. 8
  BY IndexIs
<1>c. milestoneIndex("rebooting") = 6
  BY DeliveredIs
<1>1. CASE desired = "" \/ last = desired
  BY <1>1 DEF nextReportMilestone
<1>2. CASE ~(desired = "" \/ last = desired) /\ desired = "waiting_for_schedule"
  BY <1>2 DEF nextReportMilestone, Follows
<1>3. CASE ~(desired = "" \/ last = desired) /\ desired = "failed"
  BY <1>3 DEF nextReportMilestone, Follows
<1>4. CASE ~(desired = "" \/ last = desired) /\ desired = "rolled_back"
  <2>1. \/ m = "rolled_back" /\ last = "rollback_detected"
        \/ m = kInstallMilestones[Delivered(last) + 1] /\ Delivered(last) < 6
        \/ m = "rollback_detected" /\ ~(Delivered(last) < 6)
    BY <1>c, <1>4 DEF nextReportMilestone
  <2>2. Delivered(last) < 6 => Delivered(last) + 1 \in 1 .. 8
    BY DeliveredSuccessor
  <2>3. ~(Delivered(last) < 6) => Delivered(last) >= 6
    BY DeliveredSuccessor
  <2>. QED  BY <2>1, <2>2, <2>3 DEF Follows
<1>5. CASE /\ ~(desired = "" \/ last = desired)
           /\ desired \notin {"waiting_for_schedule", "failed", "rolled_back"}
  <2>1. /\ ~(Delivered(last) >= milestoneIndex(desired))
        /\ m = kInstallMilestones[Delivered(last) + 1]
    BY <1>5 DEF nextReportMilestone
  <2>2. Delivered(last) + 1 \in 1 .. 8
    BY <1>b, <2>1, DeliveredSuccessor
  <2>. QED  BY <2>1, <2>2 DEF Follows
<1>. QED  BY <1>1, <1>2, <1>3, <1>4, <1>5

\* Reports are milestones, and nothing is owed for a record without a state.
LEMMA OwedIs ==
  ASSUME NEW r
  PROVE  /\ Owed(r) # "" => Owed(r) \in Milestones /\ Follows(Owed(r), r.last)
         /\ r.state = Idle => Owed(r) = ""
<1>1. ASSUME Owed(r) # "" PROVE Owed(r) \in Milestones /\ Follows(Owed(r), r.last)
  <2>1. Follows(Owed(r), r.last)
    BY <1>1, NextReportFollows DEF Owed
  <2>2. \A i \in 1 .. 8 : kInstallMilestones[i] \in Milestones
    BY InstallMilestonesAre
  <2>3. kInstallMilestones[1] = "manifest_authenticated"
        /\ {"waiting_for_schedule", "failed", "rollback_detected", "rolled_back"}
             \subseteq Milestones
    BY InstallMilestonesAre
  <2>4. "manifest_authenticated" \in Milestones
    <3>1. 1 \in 1 .. 8
      OBVIOUS
    <3>. QED  BY <2>2, <2>3, <3>1
  <2>. QED  BY <2>1, <2>2, <2>3, <2>4 DEF Follows
<1>2. ASSUME r.state = Idle PROVE Owed(r) = ""
  <2>1. reportMilestoneForState(Idle) = ""
    BY DEF reportMilestoneForState, Idle
  <2>. QED  BY <1>2, <2>1 DEF Owed, nextReportMilestone
<1>. QED  BY <1>1, <1>2

-----------------------------------------------------------------------------
(* Types                                                                    *)

\* The places of the boot task and of the workflow lock.
Places == Installing \cup {"idle", "reject", "mark", "uncheckpointed", "marked",
                           "closed", "rollback"}

\* The types, and what is forgotten when the device is off or starts.
TypeInv ==
  /\ slot \in [Slots -> Nat] /\ latest \in Slots /\ running \in Slots
  /\ entry \in [Slots -> EntryStates]
  /\ rec \in Records /\ ram \in Records
  /\ incident \in BOOLEAN /\ flag \in BOOLEAN /\ due \in BOOLEAN
  /\ mode \in {"off", "begin", "observe", "normal", "blocked", "restricted"}
  /\ pc \in Places
  /\ stream \in [chunks : 0 .. ImageSize, good : BOOLEAN]
  /\ offer \in Keys \cup {0} /\ vetted \subseteq Nat
  /\ srv \in [key : Keys \cup {0}, got : SUBSET Milestones]
  /\ hit \subseteq Faults /\ power \in 0 .. MaxPower
  /\ mode = "off" => pc = "idle"
  /\ mode = "begin" => pc \in {"idle", "reject"}
  /\ mode \in {"off", "begin"} /\ pc = "idle" => ram = EmptyRecord

\* The device starts with the image it was flashed with.
LEMMA TypeInit == Init => TypeInv
<1>. SUFFICES ASSUME Init PROVE TypeInv
  OBVIOUS
<1>1. slot \in [Slots -> Nat] /\ entry \in [Slots -> EntryStates]
  BY DEF Init, Slots, EntryStates, Factory, NoImage
<1>2. ImageSize \in Nat /\ MaxPower \in Nat
  BY OtaAssumption
<1>3. stream \in [chunks : 0 .. ImageSize, good : BOOLEAN]
  BY <1>2 DEF Init
<1>4. srv \in [key : Keys \cup {0}, got : SUBSET Milestones]
  BY DEF Init
<1>5. power \in 0 .. MaxPower
  BY <1>2 DEF Init
<1>6. vetted \subseteq Nat /\ hit \subseteq Faults /\ latest \in Slots /\ running \in Slots
  BY DEF Init, Factory, Slots
<1>7. rec \in Records /\ ram \in Records
  BY ConstantTypes DEF Init
<1>8. mode = "normal" /\ pc = "idle" /\ pc \in Places /\ offer \in Keys \cup {0}
  BY DEF Init, Places
<1>9. incident \in BOOLEAN /\ flag \in BOOLEAN /\ due \in BOOLEAN
  BY DEF Init
<1>. QED  BY <1>1, <1>3, <1>4, <1>5, <1>6, <1>7, <1>8, <1>9 DEF TypeInv

\* These are the types of the module.
LEMMA TypeInvIsTypeOK == TypeInv => TypeOK
<1>1. Places \subseteq
        {"idle", "reject", "mark", "uncheckpointed", "marked", "schedule",
         "download", "streaming", "failing", "ended", "arm", "commit",
         "restart", "close", "close_download", "closed", "closed_download",
         "rollback"} \cup DOMAIN AfterReport
  BY AfterReportIs DEF Places, Installing, Reporting
<1>. QED  BY <1>1 DEF TypeInv, TypeOK, EntryStates

\* What saving, or failing to save, does to a record.
LEMMA PersistEffect ==
  ASSUME TypeInv, NEW r \in Records, NEW state \in States, NEW pending \in BOOLEAN,
         Persist(r, state, pending)
  PROVE  /\ rec' \in Records /\ ram' \in Records /\ hit' \subseteq Faults /\ hit \subseteq hit'
         /\ \/ rec' = rec /\ ram' = r
            \/ rec' = Evolved(r, state, pending) /\ ram' = Evolved(r, state, pending)
            \/ rec' = Evolved(r, state, pending) /\ ram' = r /\ "save" \in hit'
<1>1. Evolved(r, state, pending) \in Records
  BY EvolvedFields
<1>2. CASE r.key = 0
  BY <1>2 DEF Persist, NoFault, TypeInv
<1>3. CASE r.key # 0
  BY <1>1, <1>3 DEF Persist, Saved, NotSaved, NoFault, Hits, Possible, TypeInv
<1>. QED  BY <1>2, <1>3

\* What a report, delivered or not, changes.
LEMMA FlushEffect ==
  ASSUME TypeInv, flushPendingReportWithLease
  PROVE  /\ rec' \in Records /\ ram' \in Records /\ hit' \subseteq Faults /\ hit \subseteq hit'
         /\ due' \in BOOLEAN /\ offer' = offer
         /\ srv' \in [key : Keys \cup {0}, got : SUBSET Milestones]
         /\ \/ UNCHANGED <<rec, ram, srv>>
            \/ Owed(ram) # "" /\ Accepted(Owed(ram))
         /\ ram'.target = ram.target /\ ram'.pending = ram.pending
         /\ \/ rec' = rec
            \/ rec'.target = ram.target /\ rec'.pending = ram.pending
<1>0. rec \in Records /\ ram \in Records /\ hit \subseteq Faults
  BY DEF TypeInv
<1>1. CASE UNCHANGED <<rec, ram, serverVars>> /\ due' \in BOOLEAN /\ NoFault
  BY <1>1 DEF serverVars, NoFault, TypeInv
<1>2. CASE Owed(ram) # "" /\ Accepted(Owed(ram))
  <2>. DEFINE m == Owed(ram)
              c == [ram EXCEPT !.last = m]
  <2>1. m \in Milestones
    BY <1>2, OwedIs
  <2>2. /\ c \in Records /\ c.target = ram.target /\ c.pending = ram.pending
    BY <1>0, <2>1, ReportedFields
  <2>3. srv' = [key |-> ram.key, got |-> {m} \cup IF srv.key = ram.key THEN srv.got ELSE {}]
    BY <1>2 DEF Accepted
  <2>4. srv.got \subseteq Milestones
    BY DEF TypeInv
  <2>5. srv' \in [key : Keys \cup {0}, got : SUBSET Milestones]
    <3>. HIDE DEF m
    <3>. QED  BY <1>0, <2>1, <2>3, <2>4, RecordFields
  <2>6. \/ rec' = c /\ ram' = c /\ hit' = hit /\ due' = (Owed(c) # "")
        \/ (rec' = rec \/ rec' = c) /\ ram' = ram /\ hit' = hit \cup {"save"}
           /\ "save" \in Faults /\ due' = TRUE
    BY <1>2 DEF Accepted, Saved, NotSaved, NoFault, Hits, Possible
  <2>7. due' \in BOOLEAN
    <3>. HIDE DEF c
    <3>. QED  BY <2>6
  <2>8. offer' = offer
    BY <1>2 DEF Accepted
  <2>. HIDE DEF c, m
  <2>9. /\ rec' \in Records /\ ram' \in Records /\ hit' \subseteq Faults /\ hit \subseteq hit'
        /\ ram'.target = ram.target /\ ram'.pending = ram.pending
        /\ rec' = rec \/ (rec'.target = ram.target /\ rec'.pending = ram.pending)
    BY <1>0, <2>2, <2>6
  <2>. QED  BY <1>2, <2>5, <2>7, <2>8, <2>9
<1>3. \/ UNCHANGED <<rec, ram, serverVars>> /\ due' \in BOOLEAN /\ NoFault
      \/ Owed(ram) # "" /\ Accepted(Owed(ram))
  BY DEF flushPendingReportWithLease
<1>. QED  BY <1>1, <1>2, <1>3

\* The running image and a target are numbers; the other slot is the other.
LEMMA Numbers ==
  ASSUME TypeInv
  PROVE  /\ Image \in Nat /\ Target \in Slots /\ Target # running
         /\ Other(Target) = running /\ \A s \in Slots : s = running \/ s = Target
  BY DEF TypeInv, Image, Target, Other, Slots

\* The places the workflow reaches are places.
LEMMA PlaceNames ==
  /\ Installing \subseteq Places
  /\ {"idle", "reject", "mark", "uncheckpointed", "marked", "closed", "rollback"} \subseteq Places
  /\ {"authenticated", "schedule", "started", "download", "streaming", "failing",
      "ended", "written", "arm", "armed", "commit", "committed", "restart", "close",
      "close_download", "closed_download", "failed"} \subseteq Places
  BY DEF Places, Installing

\* The states and the expectation a record is persisted with.
LEMMA StateNames ==
  {"ManifestAuthenticated", "WaitingForSchedule", "DownloadStarting", "PartitionWritten",
   "RebootPending", "Rebooting", "PostBootValidation", "Validated", "Failed", "RolledBack"}
    = States \ {Idle}
  BY DEF States, Idle

\* The part of the types that only the boot loader and Update.* change.
FlashTypes ==
  /\ slot \in [Slots -> Nat] /\ latest \in Slots /\ running \in Slots
  /\ entry \in [Slots -> EntryStates]
  /\ stream \in [chunks : 0 .. ImageSize, good : BOOLEAN]
  /\ power \in 0 .. MaxPower

\* The part every workflow step changes.
TaskTypes ==
  /\ rec \in Records /\ ram \in Records
  /\ incident \in BOOLEAN /\ flag \in BOOLEAN /\ due \in BOOLEAN
  /\ mode \in {"off", "begin", "observe", "normal", "blocked", "restricted"}
  /\ pc \in Places /\ hit \subseteq Faults
  /\ offer \in Keys \cup {0} /\ vetted \subseteq Nat
  /\ srv \in [key : Keys \cup {0}, got : SUBSET Milestones]
  /\ mode = "off" => pc = "idle"
  /\ mode = "begin" => pc \in {"idle", "reject"}
  /\ mode \in {"off", "begin"} /\ pc = "idle" => ram = EmptyRecord

\* Both parts are the types.
LEMMA TypeParts == TypeInv <=> FlashTypes /\ TaskTypes
  BY DEF TypeInv, FlashTypes, TaskTypes

\* A chunk more, or a bad stream, is a stream.
LEMMA StreamFields ==
  ASSUME NEW C, NEW n \in C, NEW s \in [chunks : C, good : BOOLEAN]
  PROVE  /\ [s EXCEPT !.chunks = n] \in [chunks : C, good : BOOLEAN]
         /\ [chunks |-> n, good |-> FALSE] \in [chunks : C, good : BOOLEAN]
  OBVIOUS

\* Steps of the flash leave partitions and boot selection well formed.
LEMMA FlashStep ==
  ASSUME TypeInv, [Next]_vars
  PROVE  FlashTypes'
<1>. USE DEF EntryStates
<1>0. FlashTypes /\ ImageSize \in Nat /\ MaxPower \in Nat
  BY TypeParts, OtaAssumption
<1>1. CASE UNCHANGED <<slot, entry, latest, running, stream, power>>
  BY <1>0, <1>1 DEF FlashTypes
<1>z. [chunks |-> 0, good |-> TRUE] \in [chunks : 0 .. ImageSize, good : BOOLEAN]
  BY <1>0
<1>a. Active \in Slots \cup {Nobody} /\ Target \in Slots
  BY <1>0 DEF FlashTypes, Active, Selected, Target, Other, Slots, Nobody
<1>2. CASE PowerLoss
  <2>1. power' \in 0 .. MaxPower
    BY <1>0, <1>2 DEF PowerLoss, FlashTypes
  <2>. QED
    BY <1>0, <1>2, <1>z, <2>1 DEF PowerLoss, ForgetMemory, FlashTypes,
       flashVars
<1>3. CASE Boot
  <2>1. running' \in Slots
    <3>1. \A s \in Slots : Other(s) \in Slots
      BY DEF Slots, Other
    <3>2. 0 \in Slots /\ \A e : Selected(e, latest) \in Slots \cup {Nobody}
      BY <1>0, <3>1 DEF Selected, FlashTypes, Slots, Nobody
    <3>. QED  BY <1>3, <3>1, <3>2 DEF Boot, BootLoader
  <2>2. entry' \in [Slots -> EntryStates]
    BY <1>0, <1>3 DEF Boot, BootLoader, FlashTypes
  <2>3. UNCHANGED <<slot, latest, stream, power>>
    BY <1>3 DEF Boot
  <2>. QED  BY <1>0, <2>1, <2>2, <2>3 DEF FlashTypes
<1>4. CASE Reject
  <2>1. entry' \in [Slots -> EntryStates]
    BY <1>0, <1>4 DEF Reject, MarkInvalid, FlashTypes
  <2>2. stream' \in [chunks : 0 .. ImageSize, good : BOOLEAN]
    BY <1>0, <1>4, <1>z DEF Reject, MarkInvalid, ForgetMemory, FlashTypes
  <2>3. UNCHANGED <<slot, latest, running, power>>
    BY <1>4 DEF Reject
  <2>. QED  BY <1>0, <2>1, <2>2, <2>3 DEF FlashTypes
<1>5. CASE MarkValid
  <2>1. entry' \in [Slots -> EntryStates]
    BY <1>0, <1>5 DEF MarkValid, FlashTypes
  <2>3. UNCHANGED <<slot, latest, running, power, stream>>
    BY <1>5 DEF MarkValid
  <2>. QED  BY <1>0, <2>1, <2>3 DEF FlashTypes
<1>6. CASE DownloadBegin
  <2>1. slot' \in [Slots -> Nat]
    BY <1>0, <1>6 DEF DownloadBegin, FlashTypes, NoImage
  <2>2. stream' \in [chunks : 0 .. ImageSize, good : BOOLEAN]
    BY <1>6, <1>z DEF DownloadBegin
  <2>3. UNCHANGED <<entry, latest, running, power>>
    BY <1>6 DEF DownloadBegin
  <2>. QED  BY <1>0, <2>1, <2>2, <2>3 DEF FlashTypes
<1>7. CASE StreamChunk
  <2>1. stream.chunks + 1 \in 0 .. ImageSize /\ stream.good \in BOOLEAN
    BY <1>0, <1>7 DEF StreamChunk, FlashTypes
  <2>2. stream' \in [chunks : 0 .. ImageSize, good : BOOLEAN]
    <3>1. PICK n \in 0 .. ImageSize : n = stream.chunks + 1
      BY <2>1
    <3>2. \/ stream' = [stream EXCEPT !.chunks = n] \/ stream' = [chunks |-> n, good |-> FALSE]
      BY <1>7, <3>1 DEF StreamChunk
    <3>3. stream \in [chunks : 0 .. ImageSize, good : BOOLEAN]
      BY <1>0 DEF FlashTypes
    <3>4. /\ [stream EXCEPT !.chunks = n] \in [chunks : 0 .. ImageSize, good : BOOLEAN]
          /\ [chunks |-> n, good |-> FALSE] \in [chunks : 0 .. ImageSize, good : BOOLEAN]
      BY <3>3, StreamFields
    <3>. QED  BY <3>2, <3>4
  <2>3. UNCHANGED <<slot, entry, latest, running, power>>
    BY <1>7 DEF StreamChunk, flashVars
  <2>. QED  BY <1>0, <2>2, <2>3 DEF FlashTypes
<1>8. CASE UpdateEnd
  <2>0. ram.target \in Nat
    BY TypeParts, RecordFields DEF TaskTypes
  <2>1. slot' \in [Slots -> Nat]
    BY <1>0, <1>8, <2>0 DEF UpdateEnd, FlashTypes, NoImage
  <2>2. entry' \in [Slots -> EntryStates] /\ latest' \in Slots
    BY <1>0, <1>8, <1>a DEF UpdateEnd, Select, FlashTypes
  <2>3. UNCHANGED <<stream, running, power>>
    BY <1>8 DEF UpdateEnd
  <2>. QED  BY <1>0, <2>1, <2>2, <2>3 DEF FlashTypes
<1>9. CASE Restore
  <2>2. entry' \in [Slots -> EntryStates] /\ latest' \in Slots
    BY <1>0, <1>9 DEF Restore, Select, FlashTypes
  <2>3. UNCHANGED <<slot, stream, running, power>>
    BY <1>9 DEF Restore
  <2>. QED  BY <1>0, <2>2, <2>3 DEF FlashTypes
<1>10. CASE RollbackMark
  <2>1. entry' \in [Slots -> EntryStates]
    BY <1>0, <1>10 DEF RollbackMark, MarkInvalid, FlashTypes
  <2>2. stream' \in [chunks : 0 .. ImageSize, good : BOOLEAN]
    BY <1>0, <1>10, <1>z DEF RollbackMark, MarkInvalid, ForgetMemory,
       FlashTypes
  <2>3. UNCHANGED <<slot, latest, running, power>>
    BY <1>10 DEF RollbackMark
  <2>. QED  BY <1>0, <2>1, <2>2, <2>3 DEF FlashTypes
<1>11. CASE Restart
  <2>2. stream' \in [chunks : 0 .. ImageSize, good : BOOLEAN]
    BY <1>0, <1>11, <1>z DEF Restart, ForgetMemory, FlashTypes
  <2>3. UNCHANGED <<slot, entry, latest, running, power>>
    BY <1>11 DEF Restart, flashVars
  <2>. QED  BY <1>0, <2>2, <2>3 DEF FlashTypes
<1>12. CASE \/ BeginWithoutRecord \/ BeginSettled \/ BeginPending \/ CheckRunningImage
            \/ RejectUncheckpointed \/ MarkValidFails \/ SaveValidated \/ FlushPendingReport
            \/ ApplyManifest \/ Report \/ Schedule \/ DownloadFails \/ PartitionWritten
            \/ Arm \/ Commit \/ FailClosed \/ DownloadFailed \/ RollbackAndReboot
  <2>1. UNCHANGED <<slot, entry, latest, running, stream, power>>
    BY <1>12 DEF BeginWithoutRecord, BeginSettled, BeginPending,
       CheckRunningImage,
         RejectUncheckpointed, MarkValidFails, SaveValidated, FlushPendingReport,
         ApplyManifest, Report, Schedule, DownloadFails, PartitionWritten, Arm, Commit,
         FailClosed, DownloadFailed, RollbackAndReboot, flashVars
  <2>. QED  BY <1>1, <2>1
<1>13. CASE UNCHANGED vars
  BY <1>1, <1>13 DEF vars, flashVars, taskVars
<1>. QED
  BY <1>2, <1>3, <1>4, <1>5, <1>6, <1>7, <1>8, <1>9, <1>10, <1>11, <1>12, <1>13
  DEF Next, Maintenance, BootTask

\* Every step of a task leaves the record, the locks and the reports well formed.
LEMMA TaskStep ==
  ASSUME TypeInv, [Next]_vars
  PROVE  TaskTypes'
<1>. USE DEF nvsVars, serverVars, flashVars
<1>0. TaskTypes
  BY TypeParts
<1>r. /\ rec \in Records /\ ram \in Records /\ flag \in BOOLEAN /\ due \in BOOLEAN
      /\ hit \subseteq Faults /\ EmptyRecord \in Records /\ incident \in BOOLEAN
      /\ mode \in {"off", "begin", "observe", "normal", "blocked", "restricted"}
  BY <1>0, ConstantTypes DEF TaskTypes
<1>i. Image \in Nat
  BY Numbers
<1>b. \A r : Stored(r) \in BOOLEAN
  BY DEF Stored
<1>p. mode \in {"off", "begin"} => pc \in {"idle", "reject"}
  BY <1>0 DEF TaskTypes
<1>n. /\ Installing \subseteq Places
      /\ {"idle", "reject", "mark", "uncheckpointed", "marked", "closed", "rollback"}
           \subseteq Places
  BY PlaceNames
<1>1. CASE Schedule
  <2>1. Persist(ram, "WaitingForSchedule", FALSE) \/ Persist(ram, "DownloadStarting", FALSE)
    BY <1>1 DEF Schedule
  <2>2. rec' \in Records /\ ram' \in Records /\ hit' \subseteq Faults
    BY <1>r, <2>1, StateNames, PersistEffect
  <2>3. UNCHANGED <<offer, srv, vetted, incident>> /\ due' \in BOOLEAN /\ flag' \in BOOLEAN
    BY <1>b, <1>r, <1>1 DEF Schedule
  <2>4. pc' \in Places /\ mode' = mode /\ mode \notin {"off", "begin"}
    BY <1>n, <1>p, <1>1 DEF Schedule, Installing
  <2>. QED  BY <1>0, <2>2, <2>3, <2>4 DEF TaskTypes
<1>2. CASE Arm
  <2>1. Persist(ram, "RebootPending", TRUE)
    BY <1>2 DEF Arm
  <2>2. rec' \in Records /\ ram' \in Records /\ hit' \subseteq Faults
    BY <1>r, <2>1, StateNames, PersistEffect
  <2>3. UNCHANGED <<offer, srv, vetted, incident>> /\ due' \in BOOLEAN /\ flag' \in BOOLEAN
    BY <1>b, <1>r, <1>2 DEF Arm
  <2>4. pc' \in Places /\ mode' = mode /\ mode \notin {"off", "begin"}
    BY <1>n, <1>p, <1>2 DEF Arm, Installing
  <2>. QED  BY <1>0, <2>2, <2>3, <2>4 DEF TaskTypes
<1>3. CASE Commit
  <2>1. Persist(ram, "Rebooting", flag)
    BY <1>3 DEF Commit
  <2>2. rec' \in Records /\ ram' \in Records /\ hit' \subseteq Faults
    BY <1>r, <2>1, StateNames, PersistEffect
  <2>3. UNCHANGED <<offer, srv, vetted, incident>> /\ due' \in BOOLEAN /\ flag' \in BOOLEAN
    BY <1>b, <1>r, <1>3 DEF Commit
  <2>4. pc' \in Places /\ mode' = mode /\ mode \notin {"off", "begin"}
    BY <1>n, <1>p, <1>3 DEF Commit, Installing
  <2>. QED  BY <1>0, <2>2, <2>3, <2>4 DEF TaskTypes
<1>4. CASE FailClosed
  <2>1. Persist(ram, "Failed", FALSE)
    BY <1>4 DEF FailClosed
  <2>2. rec' \in Records /\ ram' \in Records /\ hit' \subseteq Faults
    BY <1>r, <2>1, StateNames, PersistEffect
  <2>3. UNCHANGED <<offer, srv, vetted, incident>> /\ due' \in BOOLEAN /\ flag' \in BOOLEAN
    BY <1>b, <1>r, <1>4 DEF FailClosed
  <2>4. pc' \in Places /\ mode' = mode /\ mode \notin {"off", "begin"}
    BY <1>n, <1>p, <1>4 DEF FailClosed, Installing
  <2>. QED  BY <1>0, <2>2, <2>3, <2>4 DEF TaskTypes
<1>5. CASE DownloadFailed
  <2>1. Persist(ram, "Failed", flag)
    BY <1>5 DEF DownloadFailed
  <2>2. rec' \in Records /\ ram' \in Records /\ hit' \subseteq Faults
    BY <1>r, <2>1, StateNames, PersistEffect
  <2>3. UNCHANGED <<offer, srv, vetted, incident>> /\ due' \in BOOLEAN /\ flag' \in BOOLEAN
    BY <1>b, <1>r, <1>5 DEF DownloadFailed
  <2>4. pc' \in Places /\ mode' = mode /\ mode \notin {"off", "begin"}
    BY <1>n, <1>p, <1>5 DEF DownloadFailed, Installing
  <2>. QED  BY <1>0, <2>2, <2>3, <2>4 DEF TaskTypes
<1>6. CASE SaveValidated
  <2>1. Persist(ram, "Validated", flag)
    BY <1>6 DEF SaveValidated
  <2>2. rec' \in Records /\ ram' \in Records /\ hit' \subseteq Faults
    BY <1>r, <2>1, StateNames, PersistEffect
  <2>3. UNCHANGED <<offer, srv, vetted, incident>> /\ due' \in BOOLEAN /\ flag' \in BOOLEAN
    BY <1>b, <1>r, <1>6 DEF SaveValidated
  <2>4. pc' \in Places /\ mode' \in {"normal", "blocked"}
    BY <1>n, <1>p, <1>6 DEF SaveValidated, Installing
  <2>. QED  BY <1>0, <2>2, <2>3, <2>4 DEF TaskTypes
<1>7. CASE RejectUncheckpointed
  <2>1. Persist(ram, "Failed", flag)
    BY <1>7 DEF RejectUncheckpointed, initiatePostBootRollback
  <2>2. rec' \in Records /\ ram' \in Records /\ hit' \subseteq Faults
    BY <1>r, <2>1, StateNames, PersistEffect
  <2>3. UNCHANGED <<offer, srv, vetted, incident>> /\ due' \in BOOLEAN /\ flag' \in BOOLEAN
    BY <1>b, <1>r, <1>7 DEF RejectUncheckpointed, initiatePostBootRollback
  <2>4. pc' \in Places /\ mode' = mode /\ mode \notin {"off", "begin"}
    BY <1>n, <1>p, <1>7 DEF RejectUncheckpointed, Installing,
       initiatePostBootRollback
  <2>. QED  BY <1>0, <2>2, <2>3, <2>4 DEF TaskTypes

<1>8. CASE BeginWithoutRecord
  <2>1. rec' \in Records /\ ram' \in Records /\ hit' \subseteq Faults
    BY <1>r, <1>8 DEF BeginWithoutRecord, NoFault, Hits, Possible
  <2>2. UNCHANGED <<offer, srv, vetted, incident>> /\ due' \in BOOLEAN /\ flag' \in BOOLEAN
    BY <1>8 DEF BeginWithoutRecord
  <2>3. pc' \in Places /\ mode' \in {"begin", "normal"} /\ (mode' = "begin" => pc' = "reject")
    BY <1>8, <1>n DEF BeginWithoutRecord
  <2>. QED  BY <1>0, <2>1, <2>2, <2>3 DEF TaskTypes
<1>9. CASE BeginSettled
  <2>1. \/ Persist(rec, "Failed", FALSE)
        \/ ram' = rec /\ rec' = rec /\ hit' = hit
    BY <1>9 DEF BeginSettled, initiatePostBootRollback, NoFault
  <2>2. rec' \in Records /\ ram' \in Records /\ hit' \subseteq Faults
    BY <1>r, <2>1, StateNames, PersistEffect
  <2>3. UNCHANGED <<offer, srv, vetted, incident>> /\ due' \in BOOLEAN /\ flag' \in BOOLEAN
    BY <1>b, <1>9 DEF BeginSettled, initiatePostBootRollback
  <2>4. pc' \in Places /\ mode' \in {"begin", "normal"} /\ (mode' = "begin" => pc' = "reject")
    BY <1>9, <1>n DEF BeginSettled, initiatePostBootRollback
  <2>. QED  BY <1>0, <2>2, <2>3, <2>4 DEF TaskTypes
<1>10. CASE BeginPending
  <2>1. \/ Persist(rec, "PostBootValidation", TRUE) \/ Persist(rec, "Validated", FALSE)
        \/ Persist(rec, "RolledBack", FALSE) \/ Persist(rec, "Failed", TRUE)
    BY <1>10 DEF BeginPending, initiatePostBootRollback
  <2>2. rec' \in Records /\ ram' \in Records /\ hit' \subseteq Faults
    BY <1>r, <2>1, StateNames, PersistEffect
  <2>3. UNCHANGED <<offer, srv, vetted, incident>> /\ due' \in BOOLEAN /\ flag' \in BOOLEAN
    BY <1>b, <1>r, <1>10 DEF BeginPending, initiatePostBootRollback
  <2>4. /\ pc' \in Places /\ mode' \in {"begin", "normal", "observe"}
        /\ mode' = "begin" => pc' = "reject"
    BY <1>10, <1>n DEF BeginPending, initiatePostBootRollback
  <2>. QED  BY <1>0, <2>2, <2>3, <2>4 DEF TaskTypes
<1>11. CASE PowerLoss \/ (ForgetMemory /\ UNCHANGED <<rec, incident, offer, srv, vetted>>
                          /\ hit' \subseteq Faults)
  <2>1. /\ ForgetMemory /\ UNCHANGED <<rec, incident, offer, srv, vetted>>
        /\ hit' \subseteq Faults
    BY <1>11, <1>r DEF PowerLoss
  <2>. QED  BY <1>0, <1>r, <1>n, <2>1 DEF ForgetMemory, TaskTypes
<1>12. CASE Boot
  BY <1>0, <1>12 DEF Boot, TaskTypes
<1>13. CASE Reject
  <2>1. CASE RollbackPossible /\ MarkInvalid /\ NoFault /\ UNCHANGED incident
    BY <1>13, <1>11, <1>r, <2>1 DEF Reject, MarkInvalid, NoFault
  <2>2. CASE /\ pc' = "idle" /\ hit' \subseteq Faults
             /\ mode' \in {"restricted", "blocked"} /\ due' \in BOOLEAN
             /\ incident' \in BOOLEAN /\ UNCHANGED <<rec, ram, flag, offer, srv, vetted>>
    BY <1>0, <1>n, <2>2 DEF TaskTypes
  <2>. QED  BY <1>13, <1>r, <2>1, <2>2 DEF Reject, NoFault, Hits, Possible
<1>14. CASE CheckRunningImage
  <2>1. \/ Persist(ram, "Failed", flag) \/ Persist(ram, "PostBootValidation", flag)
        \/ UNCHANGED <<rec, ram, hit>>
    BY <1>14 DEF CheckRunningImage, initiatePostBootRollback, NoFault
  <2>2. rec' \in Records /\ ram' \in Records /\ hit' \subseteq Faults
    BY <1>r, <2>1, StateNames, PersistEffect
  <2>3. UNCHANGED <<offer, srv, incident, flag>> /\ due' \in BOOLEAN
    BY <1>b, <1>r, <1>14 DEF CheckRunningImage, initiatePostBootRollback
  <2>4. vetted' \subseteq Nat
    BY <1>0, <1>i, <1>14 DEF CheckRunningImage, TaskTypes
  <2>5. pc' \in Places /\ mode' \in {"observe", "normal", "blocked"}
    BY <1>0, <1>14, <1>n DEF CheckRunningImage, initiatePostBootRollback,
       TaskTypes
  <2>. QED  BY <1>0, <2>2, <2>3, <2>4, <2>5 DEF TaskTypes
<1>15. CASE MarkValid \/ MarkValidFails
  <2>1. UNCHANGED <<rec, incident, mode, ram, due, offer, srv, vetted>>
        /\ hit' \subseteq Faults /\ flag' \in BOOLEAN
    BY <1>15, <1>r DEF MarkValid, MarkValidFails, Hits, Possible
  <2>2. pc' \in Places /\ mode \notin {"off", "begin"}
    BY <1>15, <1>n, <1>p DEF MarkValid, MarkValidFails
  <2>. QED  BY <1>0, <2>1, <2>2 DEF TaskTypes
<1>16. CASE FlushPendingReport \/ Report
  <2>1. /\ rec' \in Records /\ ram' \in Records /\ hit' \subseteq Faults
        /\ due' \in BOOLEAN /\ offer' = offer
        /\ srv' \in [key : Keys \cup {0}, got : SUBSET Milestones]
    BY <1>16, FlushEffect DEF FlushPendingReport, Report
  <2>2. UNCHANGED <<incident, mode, flag, vetted>>
    BY <1>16 DEF FlushPendingReport, Report
  <2>3. pc' \in Places /\ mode \notin {"off", "begin"}
    <3>1. CASE FlushPendingReport
      BY <1>n, <3>1 DEF FlushPendingReport
    <3>2. CASE Report
      <4>1. pc \in Reporting /\ pc' = AfterReport[pc]
        BY <3>2, AfterReportIs DEF Report
      <4>2. pc' \in {"schedule", "download", "arm", "commit", "restart", "idle"}
        BY <4>1, AfterReportIs
      <4>. QED  BY <4>1, <4>2, <1>p, PlaceNames DEF Reporting
    <3>. QED  BY <1>16, <3>1, <3>2
  <2>. QED  BY <1>0, <2>1, <2>2, <2>3 DEF TaskTypes
<1>17. CASE ApplyManifest
  <2>1. PICK k \in fetchText :
          /\ Persist(FreshRecord(k), "ManifestAuthenticated", FALSE)
          /\ offer' = k /\ flag' = FALSE
          /\ due' = (due \/ Stored(FreshRecord(k)))
          /\ pc' = IF Stored(FreshRecord(k)) THEN "authenticated" ELSE "idle"
    BY <1>17 DEF ApplyManifest
  <2>2. k \in Keys
    BY DEF fetchText
  <2>3. FreshRecord(k) \in Records
    BY <1>r, <1>i, <2>2, FreshFields
  <2>4. rec' \in Records /\ ram' \in Records /\ hit' \subseteq Faults
    BY <2>1, <2>3, StateNames, PersistEffect
  <2>5. UNCHANGED <<incident, mode, srv, vetted>> /\ mode \notin {"off", "begin"}
    BY <1>17 DEF ApplyManifest
  <2>6. due' \in BOOLEAN /\ pc' \in Places
    BY <1>b, <1>r, <2>1, PlaceNames
  <2>. QED  BY <1>0, <2>1, <2>2, <2>4, <2>5, <2>6 DEF TaskTypes
<1>18. CASE DownloadBegin \/ StreamChunk \/ DownloadFails \/ UpdateEnd \/ Restore
  <2>1. UNCHANGED <<rec, incident, mode, ram, due, offer, srv, vetted>>
        /\ hit' \subseteq Faults /\ flag' \in BOOLEAN
    BY <1>18, <1>r DEF DownloadBegin, StreamChunk, DownloadFails, UpdateEnd,
       Restore, Hits,
         Possible, NoFault
  <2>2. pc' \in Places /\ mode \notin {"off", "begin"}
    BY <1>18, <1>p, PlaceNames DEF DownloadBegin, StreamChunk, DownloadFails,
       UpdateEnd, Restore
  <2>. QED  BY <1>0, <2>1, <2>2 DEF TaskTypes
<1>19. CASE PartitionWritten
  <2>1. \/ Persist(ram, "PartitionWritten", FALSE)
        \/ UNCHANGED <<rec, ram>> /\ hit' \subseteq Faults
    BY <1>r, <1>19 DEF PartitionWritten, NoFault, Hits, Possible
  <2>2. rec' \in Records /\ ram' \in Records /\ hit' \subseteq Faults
    BY <1>r, <2>1, StateNames, PersistEffect
  <2>3. UNCHANGED <<offer, srv, incident, flag, vetted, mode>> /\ due' \in BOOLEAN
    BY <1>b, <1>r, <1>19 DEF PartitionWritten
  <2>4. pc' \in Places /\ mode \notin {"off", "begin"}
    BY <1>19, <1>p, PlaceNames DEF PartitionWritten
  <2>. QED  BY <1>0, <2>2, <2>3, <2>4 DEF TaskTypes
<1>20. CASE Restart
  <2>1. CASE ForgetMemory /\ NoFault
    BY <1>20, <1>11, <1>r, <2>1 DEF Restart, NoFault
  <2>2. CASE /\ pc' = "close" /\ hit' \subseteq Faults
             /\ UNCHANGED <<rec, incident, mode, ram, flag, due, offer, srv, vetted>>
    BY <1>0, <1>20, <1>p, <2>2, PlaceNames DEF Restart, TaskTypes
  <2>. QED  BY <1>20, <1>r, <2>1, <2>2 DEF Restart, NoFault, Hits, Possible
<1>21. CASE RollbackAndReboot
  <2>1. Evolved(ram, "Rebooting", TRUE) \in Records
    BY <1>r, StateNames, EvolvedFields
  <2>2. rec' \in Records /\ ram' \in Records /\ hit' \subseteq Faults
    BY <1>r, <1>21, <2>1 DEF RollbackAndReboot, Possible
  <2>3. UNCHANGED <<offer, srv, incident, due, vetted, mode>> /\ flag' \in BOOLEAN
    BY <1>21 DEF RollbackAndReboot
  <2>4. pc' \in Places /\ mode \notin {"off", "begin"}
    BY <1>21, PlaceNames DEF RollbackAndReboot
  <2>. QED  BY <1>0, <2>2, <2>3, <2>4 DEF TaskTypes
<1>22. CASE RollbackMark
  <2>1. CASE MarkInvalid /\ NoFault
    BY <1>22, <1>11, <1>r, <2>1 DEF RollbackMark, MarkInvalid, NoFault
  <2>2. CASE /\ pc' = "closed" /\ hit' \subseteq Faults /\ flag' = FALSE
             /\ UNCHANGED <<rec, incident, mode, ram, due, offer, srv, vetted>>
    BY <1>0, <1>22, <1>p, <2>2, PlaceNames DEF RollbackMark, TaskTypes
  <2>. QED
    BY <1>22, <1>r, <2>1, <2>2 DEF RollbackMark, NoFault, Hits, Possible
<1>23. CASE UNCHANGED vars
  BY <1>0, <1>23 DEF vars, taskVars, TaskTypes
<1>. QED
  BY <1>1, <1>2, <1>3, <1>4, <1>5, <1>6, <1>7, <1>8, <1>9, <1>10, <1>11, <1>12,
     <1>13, <1>14,
     <1>15, <1>16, <1>17, <1>18, <1>19, <1>20, <1>21, <1>22, <1>23
  DEF Next, Maintenance, BootTask

\* The types are an invariant.
LEMMA TypeStep ==
  ASSUME TypeInv, [Next]_vars
  PROVE  TypeInv'
<1>1. FlashTypes' /\ TaskTypes'
  BY FlashStep, TaskStep
<1>. QED  BY <1>1, TypeParts, PTL

\* TypeOK holds for every behaviour: the recovery record, the boot selection
\* and the workflow stay well formed through power losses and faults.
THEOREM TypeCorrect == Spec => []TypeOK
<1>1. TypeInv /\ [Next]_vars => TypeInv'
  BY TypeStep
<1>. QED  BY <1>1, TypeInit, TypeInvIsTypeOK, PTL DEF Spec

-----------------------------------------------------------------------------
(* What a step does to the record and to what the server heard              *)

\* A record r is persisted with a new state: store and memory follow, or
\* memory stays at r and the store may or may not have followed.
Evolves(r) ==
  \E state \in States \ {Idle}, pending \in BOOLEAN :
    \/ rec' = Evolved(r, state, pending) /\ ram' = Evolved(r, state, pending)
    \/ rec' \in {rec, Evolved(r, state, pending)} /\ ram' = r

\* The reports and the record of a step that is no report.
RecordStep ==
  \/ UNCHANGED <<rec, ram>>
  \/ Evolves(ram)
  \/ mode = "begin" /\ pc = "idle" /\ (Evolves(rec) \/ (rec' = rec /\ ram' = rec))
  \/ ram' = EmptyRecord /\ rec' = rec
  \/ \E k \in Keys : Evolves(FreshRecord(k))

\* persistState evolves the record it is given.
LEMMA PersistEvolves ==
  ASSUME TypeInv, NEW r \in Records, NEW state \in States \ {Idle}, NEW pending \in BOOLEAN,
         Persist(r, state, pending)
  PROVE  Evolves(r)
  BY PersistEffect DEF Evolves

\* Every step is a report or one of five changes of the record.
LEMMA RecordCases ==
  ASSUME TypeInv, [Next]_vars
  PROVE  \/ RecordStep /\ srv' = srv
         \/ Owed(ram) # "" /\ Accepted(Owed(ram))
<1>. USE DEF nvsVars, serverVars
<1>r. rec \in Records /\ ram \in Records /\ flag \in BOOLEAN
  BY DEF TypeInv
<1>1. CASE UNCHANGED vars
  BY <1>1 DEF vars, taskVars, RecordStep
<1>2. CASE MarkValid \/ MarkValidFails \/ DownloadBegin \/ StreamChunk \/ DownloadFails
           \/ UpdateEnd \/ Restore \/ Boot
  BY <1>2 DEF MarkValid, MarkValidFails, DownloadBegin, StreamChunk,
     DownloadFails, UpdateEnd,
       Restore, Boot, RecordStep
<1>3. CASE PowerLoss \/ Restart \/ RollbackMark \/ Reject \/ BeginWithoutRecord
  BY <1>3 DEF PowerLoss, Restart, RollbackMark, Reject, BeginWithoutRecord,
     MarkInvalid,
       ForgetMemory, RecordStep
<1>4. CASE Schedule \/ Arm \/ Commit \/ FailClosed \/ DownloadFailed \/ SaveValidated
           \/ RejectUncheckpointed
  <2>1. \E state \in States \ {Idle}, pending \in BOOLEAN : Persist(ram, state, pending)
    BY <1>r, <1>4, StateNames
    DEF Schedule, Arm, Commit, FailClosed, DownloadFailed, SaveValidated, RejectUncheckpointed,
        initiatePostBootRollback
  <2>2. srv' = srv
    BY <1>4
    DEF Schedule, Arm, Commit, FailClosed, DownloadFailed, SaveValidated, RejectUncheckpointed
  <2>. QED  BY <1>r, <2>1, <2>2, PersistEvolves DEF RecordStep
<1>5. CASE PartitionWritten \/ CheckRunningImage
  <2>1. \/ \E state \in States \ {Idle}, pending \in BOOLEAN : Persist(ram, state, pending)
        \/ UNCHANGED <<rec, ram>>
    BY <1>r, <1>5, StateNames DEF PartitionWritten, CheckRunningImage,
       initiatePostBootRollback
  <2>2. srv' = srv
    BY <1>5 DEF PartitionWritten, CheckRunningImage
  <2>. QED  BY <1>r, <2>1, <2>2, PersistEvolves DEF RecordStep
<1>6. CASE BeginSettled \/ BeginPending
  <2>1. \/ \E state \in States \ {Idle}, pending \in BOOLEAN : Persist(rec, state, pending)
        \/ rec' = rec /\ ram' = rec
    BY <1>6, StateNames DEF BeginSettled, BeginPending,
       initiatePostBootRollback
  <2>2. srv' = srv /\ mode = "begin" /\ pc = "idle"
    BY <1>6 DEF BeginSettled, BeginPending
  <2>3. Evolves(rec) \/ (rec' = rec /\ ram' = rec)
    BY <1>r, <2>1, PersistEvolves
  <2>. QED  BY <2>2, <2>3 DEF RecordStep
<1>7. CASE ApplyManifest
  <2>1. PICK k \in Keys : Persist(FreshRecord(k), "ManifestAuthenticated", FALSE)
    BY <1>7 DEF ApplyManifest, fetchText
  <2>2. FreshRecord(k) \in Records
    BY <1>r, Numbers, FreshFields
  <2>3. Evolves(FreshRecord(k))
    BY <2>1, <2>2, StateNames, PersistEvolves
  <2>4. srv' = srv
    BY <1>7 DEF ApplyManifest
  <2>. QED  BY <2>3, <2>4 DEF RecordStep
<1>8. CASE RollbackAndReboot
  <2>1. Evolves(ram)
    BY <1>8, StateNames DEF RollbackAndReboot, Evolves
  <2>2. srv' = srv
    BY <1>8 DEF RollbackAndReboot
  <2>. QED  BY <2>1, <2>2 DEF RecordStep
<1>9. CASE Report \/ FlushPendingReport
  <2>1. UNCHANGED <<rec, ram, srv>> \/ (Owed(ram) # "" /\ Accepted(Owed(ram)))
    BY <1>9, FlushEffect DEF Report, FlushPendingReport
  <2>. QED  BY <2>1 DEF RecordStep
<1>. QED
  BY <1>1, <1>2, <1>3, <1>4, <1>5, <1>6, <1>7, <1>8, <1>9 DEF Next,
     Maintenance, BootTask
-----------------------------------------------------------------------------
(* Reports                                                                  *)

\* What a record says was reported last, the server has of that attempt.
Heard(r) ==
  r.last # "" =>
    /\ srv.key = r.key /\ r.last \in srv.got
    /\ r.last = "waiting_for_schedule" => "manifest_authenticated" \in srv.got

\* The device resumes its reports from what the server has: from the record
\* in the store after a restart, from the one in memory otherwise.
ReportInv ==
  /\ ReportsComplete /\ Heard(rec) /\ Heard(ram)
  /\ ram.state # Idle => rec.key = ram.key

\* Nothing has been reported.
LEMMA ReportInit == Init => ReportInv
<1>. SUFFICES ASSUME Init PROVE ReportInv
  OBVIOUS
<1>1. srv.got = {} /\ rec.last = "" /\ ram.last = "" /\ ram.state = Idle
  BY ConstantTypes DEF Init
<1>. QED  BY <1>1 DEF ReportInv, ReportsComplete, Heard

\* What is persisted keeps the attempt and its reports.
LEMMA ReportRecordStep ==
  ASSUME TypeInv, ReportInv, RecordStep, srv' = srv
  PROVE  ReportInv'
<1>r. rec \in Records /\ ram \in Records /\ EmptyRecord \in Records
  BY ConstantTypes DEF TypeInv
<1>c. ReportsComplete'
  BY DEF ReportInv, ReportsComplete
<1>h. Heard(rec) /\ Heard(ram) /\ (ram.state # Idle => rec.key = ram.key)
  BY DEF ReportInv
<1>e. ASSUME NEW r \in Records, Evolves(r), Heard(r), r.state = Idle \/ rec.key = r.key
      PROVE  Heard(rec)' /\ Heard(ram)' /\ (ram'.state # Idle => rec'.key = ram'.key)
  <2>1. PICK state \in States \ {Idle}, pending \in BOOLEAN :
          \/ rec' = Evolved(r, state, pending) /\ ram' = Evolved(r, state, pending)
          \/ rec' \in {rec, Evolved(r, state, pending)} /\ ram' = r
    BY <1>e DEF Evolves
  <2>. DEFINE c == Evolved(r, state, pending)
  <2>2. c.key = r.key /\ c.last = r.last
    BY EvolvedFields
  <2>3. Heard(c)
    BY <1>e, <2>2 DEF Heard
  <2>4. (rec' = c /\ ram' = c) \/ (rec' \in {rec, c} /\ ram' = r)
    BY <2>1
  <2>. HIDE DEF c
  <2>. QED  BY <1>e, <1>h, <2>2, <2>3, <2>4 DEF Heard
<1>1. CASE UNCHANGED <<rec, ram>>
  BY <1>1, <1>c, <1>h DEF ReportInv, Heard
<1>2. CASE Evolves(ram)
  BY <1>2, <1>c, <1>h, <1>r, <1>e DEF ReportInv
<1>3. CASE Evolves(rec)
  BY <1>3, <1>c, <1>h, <1>r, <1>e DEF ReportInv
<1>4. CASE rec' = rec /\ ram' = rec
  BY <1>4, <1>c, <1>h DEF ReportInv, Heard
<1>5. CASE ram' = EmptyRecord /\ rec' = rec
  BY <1>5, <1>c, <1>h, ConstantTypes DEF ReportInv, Heard
<1>6. ASSUME NEW k \in Keys, Evolves(FreshRecord(k)) PROVE ReportInv'
  <2>1. /\ FreshRecord(k) \in Records /\ FreshRecord(k).key = k /\ FreshRecord(k).state = Idle
        /\ FreshRecord(k).last = IF k = ram.key THEN ram.last ELSE ""
    BY <1>r, Numbers, FreshFields
  <2>2. Heard(FreshRecord(k))
    BY <1>h, <2>1 DEF Heard
  <2>. QED  BY <1>6, <1>c, <1>e, <2>1, <2>2 DEF ReportInv
<1>. QED  BY <1>1, <1>2, <1>3, <1>4, <1>5, <1>6 DEF RecordStep

\* The numbers of the milestones in a set of reports.
Numbered(got) == {i \in 1 .. 8 : kInstallMilestones[i] \in got}

\* Every earlier milestone is there.
Closed(N) == \A i, j \in 1 .. 8 : i < j /\ j \in N => i \in N

\* Milestones that are there up to d stay complete with the next one.
LEMMA ClosedIs ==
  ASSUME NEW N, Closed(N), NEW d \in 0 .. 8, d # 0 => d \in N
  PROVE  /\ \A i \in 1 .. 8 : i <= d => i \in N
         /\ d + 1 \in 1 .. 8 => Closed(N \cup {d + 1})
         /\ Closed(N \cup {1})
         /\ d >= 6 => 6 \in N
  BY DEF Closed

\* Complete reports of an attempt: no gap, and a rollback after the restart.
Complete(got) ==
  /\ Closed(Numbered(got))
  /\ "rolled_back" \in got => "rollback_detected" \in got
  /\ "rollback_detected" \in got => "rebooting" \in got

\* That is what ReportsComplete says of the server.
LEMMA CompleteIs == ReportsComplete <=> Complete(srv.got)
  BY DEF ReportsComplete, Complete, Closed, Numbered

\* The last report of a record is among those of the server.
Covers(got, last) ==
  /\ last # "" => last \in got
  /\ last = "waiting_for_schedule" => "manifest_authenticated" \in got

\* A milestone of the installation that is added adds its number.
LEMMA NumberedNext ==
  ASSUME NEW got, NEW i \in 1 .. 8
  PROVE  Numbered(got \cup {kInstallMilestones[i]}) = Numbered(got) \cup {i}
<1>1. \A j \in 1 .. 8 : kInstallMilestones[i] = kInstallMilestones[j] => i = j
  BY DEF kInstallMilestones
<1>. QED  BY <1>1 DEF Numbered

\* The others add none.
LEMMA NumberedAdds ==
  ASSUME NEW got
  PROVE  /\ \A m \in {"waiting_for_schedule", "failed", "rollback_detected", "rolled_back"} :
              Numbered(got \cup {m}) = Numbered(got)
         /\ Numbered(got \cup {"manifest_authenticated"}) = Numbered(got) \cup {1}
         /\ 6 \in Numbered(got) => "rebooting" \in got
<1>0. 1 \in 1 .. 8 /\ 6 \in 1 .. 8
  OBVIOUS
<1>3. \A m \in {"waiting_for_schedule", "failed", "rollback_detected", "rolled_back"} :
        Numbered(got \cup {m}) = Numbered(got)
  BY InstallMilestonesAre DEF Numbered
<1>4. Numbered(got \cup {kInstallMilestones[1]}) = Numbered(got) \cup {1}
  BY <1>0, NumberedNext
<1>5. kInstallMilestones[1] = "manifest_authenticated" /\ kInstallMilestones[6] = "rebooting"
  BY InstallMilestonesAre
<1>6. 6 \in Numbered(got) => kInstallMilestones[6] \in got
  BY DEF Numbered
<1>. QED  BY <1>3, <1>4, <1>5, <1>6

\* A report that may follow leaves no gap.
LEMMA FollowsCompletes ==
  ASSUME NEW got, NEW m, NEW last, Follows(m, last), Complete(got), Covers(got, last)
  PROVE  Complete(got \cup {m})
<1>1. PICK d \in 0 .. 8 : d = Delivered(last)
  BY DeliveredIs
<1>2. d # 0 => d \in Numbered(got)
  <2>1. CASE last = "waiting_for_schedule"
    <3>1. d = 1 /\ kInstallMilestones[1] \in got
      BY <1>1, <2>1, DeliveredIs, InstallMilestonesAre DEF Covers
    <3>. QED  BY <3>1 DEF Numbered
  <2>2. CASE last # "waiting_for_schedule"
    <3>1. d # 0 => last = kInstallMilestones[d]
      BY <1>1, <2>2, DeliveredIs
    <3>2. d # 0 => d \in 1 .. 8
      OBVIOUS
    <3>3. d # 0 => kInstallMilestones[d] # ""
      BY <3>2, InstallMilestonesAre
    <3>4. d # 0 => kInstallMilestones[d] \in got
      BY <3>1, <3>3 DEF Covers
    <3>. QED  BY <3>2, <3>4 DEF Numbered
  <2>. QED  BY <2>1, <2>2
<1>3. /\ d + 1 \in 1 .. 8 => Closed(Numbered(got) \cup {d + 1})
      /\ Closed(Numbered(got) \cup {1}) /\ Closed(Numbered(got))
      /\ d >= 6 => 6 \in Numbered(got)
  BY <1>2, ClosedIs DEF Complete
<1>4. \/ d + 1 \in 1 .. 8 /\ m = kInstallMilestones[d + 1]
      \/ m = "manifest_authenticated" \/ m = "failed"
      \/ m = "waiting_for_schedule" /\ last = "manifest_authenticated"
      \/ m = "rolled_back" /\ last = "rollback_detected"
      \/ m = "rollback_detected" /\ d >= 6
  BY <1>1 DEF Follows
<1>5. CASE d + 1 \in 1 .. 8 /\ m = kInstallMilestones[d + 1]
  <2>1. Numbered(got \cup {m}) = Numbered(got) \cup {d + 1}
    <3>1. PICK e \in 1 .. 8 : e = d + 1
      BY <1>5
    <3>2. m = kInstallMilestones[e]
      BY <1>5, <3>1
    <3>3. Numbered(got \cup {kInstallMilestones[e]}) = Numbered(got) \cup {e}
      BY NumberedNext
    <3>. QED  BY <3>1, <3>2, <3>3, Zenon
  <2>2. m # "rolled_back" /\ m # "rollback_detected"
    BY <1>5, InstallMilestonesAre
  <2>3. Closed(Numbered(got \cup {m}))
    BY <1>3, <1>5, <2>1
  <2>. QED  BY <2>2, <2>3 DEF Complete
<1>6. CASE m = "manifest_authenticated"
  BY <1>3, <1>6, NumberedAdds DEF Complete
<1>7. CASE m = "failed" \/ m = "waiting_for_schedule"
  BY <1>3, <1>7, NumberedAdds DEF Complete
<1>8. CASE m = "rolled_back" /\ last = "rollback_detected"
  BY <1>3, <1>8, NumberedAdds DEF Complete, Covers
<1>9. CASE m = "rollback_detected" /\ d >= 6
  BY <1>3, <1>9, NumberedAdds DEF Complete
<1>. QED  BY <1>4, <1>5, <1>6, <1>7, <1>8, <1>9

\* A report that arrives is the one that follows what the server has.
LEMMA ReportAccepted ==
  ASSUME TypeInv, ReportInv, Owed(ram) # "", Accepted(Owed(ram))
  PROVE  ReportInv'
<1>. DEFINE m == Owed(ram)
            c == [ram EXCEPT !.last = m]
            old == IF srv.key = ram.key THEN srv.got ELSE {}
<1>r. rec \in Records /\ ram \in Records /\ srv.got \in SUBSET Milestones
  BY DEF TypeInv
<1>1. m \in Milestones /\ Follows(m, ram.last) /\ ram.state # Idle
  BY OwedIs
<1>2. rec.key = ram.key
  BY <1>1 DEF ReportInv
<1>3. c.key = ram.key /\ c.last = m /\ c.state = ram.state
  BY <1>r, <1>1, ReportedFields
<1>4. srv' = [key |-> ram.key, got |-> {m} \cup old]
  BY DEF Accepted
<1>5. (rec' = c /\ ram' = c) \/ (rec' \in {rec, c} /\ ram' = ram)
  BY DEF Accepted, Saved, NotSaved
<1>h. Heard(rec) /\ Heard(ram) /\ ReportsComplete
  BY DEF ReportInv
<1>f. "manifest_authenticated" \notin {"waiting_for_schedule"} /\ m # ""
  OBVIOUS
<1>6. /\ ram.last # "" => ram.last \in old
      /\ rec.last # "" => rec.last \in old
      /\ ram.last = "waiting_for_schedule" => "manifest_authenticated" \in old
      /\ rec.last = "waiting_for_schedule" => "manifest_authenticated" \in old
  <2>1. "waiting_for_schedule" # ""
    OBVIOUS
  <2>. HIDE DEF m
  <2>. QED  BY <1>2, <1>h, <2>1 DEF Heard
<1>7. Covers(old, ram.last)
  <2>. HIDE DEF old, m
  <2>. QED  BY <1>6 DEF Covers
<1>8. Complete(old)
  <2>1. Complete(srv.got)
    BY <1>h, CompleteIs
  <2>2. Complete({})
    BY DEF Complete, Closed, Numbered
  <2>. QED  BY <2>1, <2>2
<1>9. m = "waiting_for_schedule" => "manifest_authenticated" \in old
  <2>1. m = "waiting_for_schedule" => ram.last = "manifest_authenticated"
    <3>1. \A i \in 1 .. 8 : kInstallMilestones[i] # "waiting_for_schedule"
      BY InstallMilestonesAre
    <3>. HIDE DEF m
    <3>. QED  BY <1>1, <3>1 DEF Follows
  <2>. HIDE DEF m, old
  <2>. QED  BY <1>6, <2>1
<1>. HIDE DEF m, c, old
<1>10. Complete(old \cup {m})
  BY <1>1, <1>7, <1>8, FollowsCompletes
<1>11. srv'.key = ram.key /\ srv'.got = old \cup {m}
  BY <1>4
<1>12. ReportsComplete'
  <2>1. ReportsComplete' <=> Complete(srv'.got)
    BY DEF ReportsComplete, Complete, Closed, Numbered
  <2>. QED  BY <1>10, <1>11, <2>1
<1>13. Heard(rec)' /\ Heard(ram)'
  BY <1>2, <1>3, <1>5, <1>6, <1>9, <1>11 DEF Heard
<1>14. rec'.key = ram'.key
  BY <1>2, <1>3, <1>5
<1>. QED  BY <1>12, <1>13, <1>14 DEF ReportInv

\* ReportsComplete holds for every behaviour, whatever fails and however
\* often: the server has every earlier milestone of what it has, and a
\* rollback only after the restart (nextReportMilestone, postReport).
THEOREM NoGapsInReports == Spec => []ReportsComplete
<1>1. TypeInv /\ ReportInv /\ [Next]_vars => TypeInv' /\ ReportInv'
  BY TypeStep, RecordCases, ReportRecordStep, ReportAccepted
<1>2. Init => TypeInv /\ ReportInv
  BY TypeInit, ReportInit
<1>3. ReportInv => ReportsComplete
  BY DEF ReportInv
<1>. QED  BY <1>1, <1>2, <1>3, PTL DEF Spec

-----------------------------------------------------------------------------
(* The evidence sequence                                                    *)

\* A record no later than the one in the store.
NotAhead(r) == r.key # 0 /\ rec.key = r.key => rec.ev >= r.ev

\* The store never falls behind memory.
EvidenceInv == NotAhead(ram)

\* The sequence of one attempt in memory does not go back.
EvidenceStep == ram.key # 0 /\ ram'.key = ram.key => ram'.ev >= ram.ev

\* Evidence sequences compare as numbers do.
LEMMA EvidenceOrder ==
  /\ \A r \in Records : r.ev >= r.ev
  /\ \A r \in Records, state \in States, pending \in BOOLEAN :
       Evolved(r, state, pending).ev >= r.ev
<1>1. \A n \in Nat : n >= n /\ n + 1 >= n
  OBVIOUS
<1>2. \A r \in Records : r.ev \in Nat
  BY RecordFields
<1>3. \A r \in Records, state \in States, pending \in BOOLEAN :
        Evolved(r, state, pending).ev = r.ev + 1
  BY EvolvedFields
<1>. QED  BY <1>1, <1>2, <1>3

\* Persisting a record that is not ahead of the store keeps it so.
LEMMA EvolvesInOrder ==
  ASSUME TypeInv, NEW r \in Records, NotAhead(r), Evolves(r)
  PROVE  EvidenceInv' /\ ram'.key = r.key /\ ram'.ev >= r.ev
<1>1. PICK state \in States \ {Idle}, pending \in BOOLEAN :
        \/ rec' = Evolved(r, state, pending) /\ ram' = Evolved(r, state, pending)
        \/ rec' \in {rec, Evolved(r, state, pending)} /\ ram' = r
  BY DEF Evolves
<1>. DEFINE c == Evolved(r, state, pending)
<1>2. c.key = r.key /\ c.ev >= r.ev /\ c.ev >= c.ev /\ r.ev >= r.ev
  <2>1. c \in Records
    BY EvolvedFields
  <2>. QED  BY <2>1, EvolvedFields, EvidenceOrder
<1>3. (rec' = c /\ ram' = c) \/ (rec' \in {rec, c} /\ ram' = r)
  BY <1>1
<1>. HIDE DEF c
<1>. QED  BY <1>2, <1>3 DEF EvidenceInv, NotAhead

\* No step takes the evidence sequence back, in memory or in the store.
LEMMA EvidenceKept ==
  ASSUME TypeInv, EvidenceInv, [Next]_vars
  PROVE  EvidenceInv' /\ EvidenceStep
<1>r. rec \in Records /\ ram \in Records
  BY DEF TypeInv
<1>o. rec.ev >= rec.ev /\ ram.ev >= ram.ev
  BY <1>r, EvidenceOrder
<1>1. CASE UNCHANGED <<rec, ram>>
  BY <1>1, <1>o DEF EvidenceInv, NotAhead, EvidenceStep
<1>2. CASE Evolves(ram)
  BY <1>2, <1>r, EvolvesInOrder DEF EvidenceInv, EvidenceStep
<1>3. CASE mode = "begin" /\ pc = "idle" /\ (Evolves(rec) \/ (rec' = rec /\ ram' = rec))
  <2>1. ram.key = 0
    BY <1>3, ConstantTypes DEF TypeInv
  <2>2. NotAhead(rec)
    BY <1>o DEF NotAhead
  <2>3. EvidenceInv'
    BY <1>3, <1>r, <1>o, <2>2, EvolvesInOrder DEF EvidenceInv, NotAhead
  <2>. QED  BY <2>1, <2>3 DEF EvidenceStep
<1>4. CASE ram' = EmptyRecord /\ rec' = rec
  BY <1>4, ConstantTypes DEF EvidenceInv, NotAhead, EvidenceStep
<1>5. ASSUME NEW k \in Keys, Evolves(FreshRecord(k)) PROVE EvidenceInv' /\ EvidenceStep
  <2>1. /\ FreshRecord(k) \in Records /\ FreshRecord(k).key = k
        /\ FreshRecord(k).ev = IF k = ram.key THEN ram.ev ELSE 0
    BY <1>r, Numbers, FreshFields
  <2>2. rec.ev >= 0
    <3>1. \A n \in Nat : n >= 0
      OBVIOUS
    <3>. QED  BY <1>r, <3>1, RecordFields
  <2>3. NotAhead(FreshRecord(k))
    BY <2>1, <2>2 DEF EvidenceInv, NotAhead
  <2>4. EvidenceInv' /\ ram'.key = k /\ ram'.ev >= FreshRecord(k).ev
    BY <1>5, <2>1, <2>3, EvolvesInOrder
  <2>. QED  BY <2>1, <2>4 DEF EvidenceStep
<1>6. CASE Owed(ram) # "" /\ Accepted(Owed(ram))
  <2>. DEFINE c == [ram EXCEPT !.last = Owed(ram)]
  <2>1. c.key = ram.key /\ c.ev = ram.ev
    BY <1>6, <1>r, OwedIs, ReportedFields
  <2>2. (rec' = c /\ ram' = c) \/ (rec' \in {rec, c} /\ ram' = ram)
    BY <1>6 DEF Accepted, Saved, NotSaved
  <2>. HIDE DEF c
  <2>. QED  BY <1>o, <2>1, <2>2 DEF EvidenceInv, NotAhead, EvidenceStep
<1>. QED  BY <1>1, <1>2, <1>3, <1>4, <1>5, <1>6, RecordCases DEF RecordStep

\* EvidenceAdvances holds for every behaviour: across restarts and refused
\* checkpoints the evidence sequence of an attempt never goes back, and the
\* store is never behind what a report carries (persistState, postReport).
THEOREM EvidenceNeverGoesBack == Spec => EvidenceAdvances
<1>1. TypeInv /\ EvidenceInv /\ [Next]_vars => TypeInv' /\ EvidenceInv'
  BY TypeStep, EvidenceKept
<1>2. Init => TypeInv /\ EvidenceInv
  <2>1. Init => ram.key = 0
    BY ConstantTypes DEF Init
  <2>. QED  BY <2>1, TypeInit DEF EvidenceInv, NotAhead
<1>3. TypeInv /\ EvidenceInv /\ [Next]_vars =>
        [ram.key # 0 /\ "read" \notin hit =>
           /\ ram'.key = ram.key => ram'.ev >= ram.ev
           /\ rec.key = ram.key => rec.ev >= ram.ev]_vars
  BY EvidenceKept DEF EvidenceInv, NotAhead, EvidenceStep
<1>. QED  BY <1>1, <1>2, <1>3, PTL DEF Spec, EvidenceAdvances

-----------------------------------------------------------------------------
(* What is marked valid                                                     *)

\* The three faults that together validate an image the record no longer
\* names: an operator's rollback during the observation, the mark of that
\* rollback failing, and its Failed record being stored without confirmation.
ThreeFaults == {"operator", "call", "save"} \subseteq hit

\* The running image is the one an observation may validate: it is selected,
\* and the store names it whenever memory does.
Expected ==
  /\ Active = running
  /\ ThreeFaults \/ (ram.pending => Named)

\* The part of the invariant that the valid entries need.
PlaceInv ==
  /\ pc \in Installing => ram.target # Image
  /\ pc = "rollback" => "operator" \in hit
  /\ pc = "closed" /\ ram.target = Image => {"operator", "call"} \subseteq hit
  /\ mode = "begin" /\ pc = "idle" /\ PendingImage => Active = running
  /\ mode = "observe" /\ pc \in {"idle", "rollback", "closed"} /\ PendingImage
       /\ ram.target = Image => Expected
  /\ pc = "mark" => Active = running /\ (ThreeFaults \/ Image \in vetted)

VettedInv == PlaceInv /\ (ThreeFaults \/ OnlyVettedImagesValid)

\* The factory image runs and counts as vetted.
LEMMA VettedInit == Init => VettedInv
<1>. SUFFICES ASSUME Init PROVE VettedInv
  OBVIOUS
<1>1. pc = "idle" /\ mode = "normal"
  BY DEF Init
<1>2. OnlyVettedImagesValid
  BY DEF Init, OnlyVettedImagesValid, Slots, Factory, NoImage
<1>. QED  BY <1>1, <1>2 DEF VettedInv, PlaceInv, Installing

\* An image is validated only as the one the record expects.
LEMMA ValidateMeans ==
  ASSUME NEW health, NEW image, NEW r, classifyPostBoot(TRUE, health, image, r) = "Validate"
  PROVE  r.pending /\ image = r.target /\ health \in HealthyClasses
<1>. DEFINE matches == r.pending /\ r.target # NoImage /\ image = r.target
<1>1. CASE ~matches
  BY <1>1 DEF classifyPostBoot
<1>2. CASE matches /\ health = "RetryableLocalInitialization"
  BY <1>2 DEF classifyPostBoot
<1>3. CASE matches /\ health = "LocalInitializationBlocked"
  BY <1>3 DEF classifyPostBoot
<1>4. CASE matches /\ health = "FatalLocalRuntime"
  BY <1>4 DEF classifyPostBoot
<1>5. CASE matches /\ health \notin {"RetryableLocalInitialization", "FatalLocalRuntime",
               "LocalInitializationBlocked", "Healthy", "HealthyExternalDegraded"}
  BY <1>5 DEF classifyPostBoot
<1>6. CASE matches /\ health \in HealthyClasses
  BY <1>6
<1>. QED  BY <1>1, <1>2, <1>3, <1>4, <1>5, <1>6 DEF HealthyClasses

\* A step that is no restart of the boot loader leaves the running image.
LEMMA ImageStays ==
  ASSUME TypeInv, [Next]_vars, ~Boot
  PROVE  running' = running /\ Image' = Image /\ hit \subseteq hit' /\ vetted \subseteq vetted'
<1>. USE DEF nvsVars, serverVars, flashVars
<1>h. \A f : Hits(f) => hit \subseteq hit'
  BY DEF Hits
<1>r. rec \in Records /\ ram \in Records /\ flag \in BOOLEAN
  BY DEF TypeInv
<1>p. ASSUME NEW r \in Records, NEW state \in States, NEW pending \in BOOLEAN,
             Persist(r, state, pending)
      PROVE  hit \subseteq hit'
  BY <1>p, PersistEffect
<1>1. CASE UNCHANGED <<slot, running>>
  <2>1. running' = running /\ Image' = Image
    BY <1>1 DEF Image
  <2>. QED
    <3>1. CASE UNCHANGED vars
      BY <2>1, <3>1 DEF vars
    <3>2. CASE BeginWithoutRecord \/ Reject \/ MarkValid \/ MarkValidFails \/ Restart
               \/ Restore \/ StreamChunk \/ DownloadFails \/ RollbackMark \/ PowerLoss
               \/ RollbackAndReboot \/ DownloadBegin \/ UpdateEnd
      <4>1. hit \subseteq hit' /\ vetted' = vetted
        BY <1>h, <3>2 DEF BeginWithoutRecord, Reject, MarkValid,
           MarkValidFails, Restart,
             Restore, StreamChunk, DownloadFails, RollbackMark, PowerLoss, RollbackAndReboot,
             DownloadBegin, UpdateEnd, NoFault
      <4>. QED  BY <2>1, <4>1
    <3>3. CASE Schedule \/ Arm \/ Commit \/ FailClosed \/ DownloadFailed \/ SaveValidated
               \/ RejectUncheckpointed \/ PartitionWritten \/ CheckRunningImage
      <4>1. \/ \E state \in States, pending \in BOOLEAN : Persist(ram, state, pending)
            \/ Hits("call") \/ NoFault
        BY <1>r, <3>3, StateNames
        DEF Schedule, Arm, Commit, FailClosed, DownloadFailed, SaveValidated,
            RejectUncheckpointed, PartitionWritten, CheckRunningImage, initiatePostBootRollback
      <4>2. vetted \subseteq vetted'
        BY <3>3 DEF Schedule, Arm, Commit, FailClosed, DownloadFailed,
           SaveValidated,
            RejectUncheckpointed, PartitionWritten, CheckRunningImage
      <4>. QED  BY <1>h, <1>p, <1>r, <2>1, <4>1, <4>2 DEF NoFault
    <3>4. CASE BeginSettled \/ BeginPending
      <4>1. \/ \E state \in States, pending \in BOOLEAN : Persist(rec, state, pending)
            \/ NoFault
        BY <3>4, StateNames DEF BeginSettled, BeginPending,
           initiatePostBootRollback
      <4>2. vetted' = vetted
        BY <3>4 DEF BeginSettled, BeginPending
      <4>. QED  BY <1>p, <1>r, <2>1, <4>1, <4>2 DEF NoFault
    <3>5. CASE ApplyManifest
      <4>1. PICK k \in Keys : Persist(FreshRecord(k), "ManifestAuthenticated", FALSE)
        BY <3>5 DEF ApplyManifest, fetchText
      <4>2. FreshRecord(k) \in Records
        BY <1>r, Numbers, FreshFields
      <4>3. hit \subseteq hit'
        BY <1>p, <4>1, <4>2, StateNames
      <4>. QED  BY <2>1, <3>5, <4>3 DEF ApplyManifest
    <3>6. CASE Report \/ FlushPendingReport
      <4>1. hit \subseteq hit' /\ vetted' = vetted
        BY <3>6, FlushEffect DEF Report, FlushPendingReport
      <4>. QED  BY <2>1, <4>1
    <3>. QED
      BY <3>1, <3>2, <3>3, <3>4, <3>5, <3>6 DEF Next, Maintenance, BootTask
<1>2. CASE DownloadBegin \/ UpdateEnd
  <2>1. running' = running /\ hit' = hit /\ vetted' = vetted
    BY <1>2 DEF DownloadBegin, UpdateEnd
  <2>2. PICK x : slot' = [slot EXCEPT ![Target] = x]
    BY <1>2 DEF DownloadBegin, UpdateEnd
  <2>3. slot'[running] = slot[running]
    BY <2>2, Numbers DEF TypeInv
  <2>. QED  BY <2>1, <2>3 DEF Image
<1>3. UNCHANGED <<slot, running>> \/ DownloadBegin \/ UpdateEnd
  BY DEF Next, Maintenance, BootTask, vars, BeginWithoutRecord, Reject,
     MarkValid,
     MarkValidFails, Restart, Restore, StreamChunk, DownloadFails, RollbackMark, PowerLoss,
     RollbackAndReboot, Schedule, Arm, Commit, FailClosed, DownloadFailed, SaveValidated,
     RejectUncheckpointed, PartitionWritten, CheckRunningImage, BeginSettled, BeginPending,
     ApplyManifest, Report, FlushPendingReport
<1>. QED  BY <1>1, <1>2, <1>3

\* The boot loader starts a new image only as the selected one, and no image
\* becomes valid by being started.
LEMMA BootSelects ==
  ASSUME TypeInv, Boot
  PROVE  /\ PendingImage' => Active' = running'
         /\ \A s \in Slots : entry'[s] = "valid" => entry[s] = "valid"
<1>. DEFINE aborted == [s \in Slots |-> IF entry[s] = "pending" THEN "aborted" ELSE entry[s]]
            chosen == Selected(aborted, latest)
            first == IF chosen = Nobody THEN 0 ELSE chosen
<1>1. /\ entry' = [s \in Slots |-> IF s = chosen /\ aborted[s] = "new"
                                   THEN "pending" ELSE aborted[s]]
      /\ running' = (IF slot[first] # NoImage THEN first ELSE Other(first))
      /\ latest' = latest
  BY DEF Boot, BootLoader
<1>2. latest \in Slots /\ Other(latest) \in Slots
  BY DEF TypeInv, Slots, Other
<1>3. chosen \in {latest, Other(latest), Nobody} /\ first \in Slots
  BY <1>2 DEF Selected, Slots
<1>4. running' \in Slots /\ \A s \in Slots : Other(s) \in Slots /\ Other(s) # s
  <2>1. \A s \in Slots : Other(s) \in Slots /\ Other(s) # s
    BY DEF Slots, Other
  <2>. HIDE DEF first
  <2>. QED  BY <1>1, <1>3, <2>1
<1>5. \A s \in Slots : aborted[s] # "pending" /\ (aborted[s] = "valid" => entry[s] = "valid")
  OBVIOUS
<1>6. \A s \in Slots : entry'[s] = IF s = chosen /\ aborted[s] = "new"
                                   THEN "pending" ELSE aborted[s]
  <2>. HIDE DEF aborted, chosen
  <2>. QED  BY <1>1
<1>7. \A s \in Slots : Usable(entry', s) <=> Usable(aborted, s)
  <2>. HIDE DEF aborted, chosen
  <2>. QED  BY <1>6 DEF Usable
<1>8. Active' = chosen
  <2>1. Active' = Selected(entry', latest)
    BY <1>1 DEF Active
  <2>2. Selected(entry', latest) = Selected(aborted, latest)
    <3>. HIDE DEF aborted
    <3>. QED  BY <1>2, <1>7 DEF Selected
  <2>. QED  BY <2>1, <2>2
<1>9. ASSUME PendingImage' PROVE running' = chosen
  <2>1. entry'[running'] = "pending"
    BY <1>9 DEF PendingImage
  <2>. HIDE DEF aborted, chosen
  <2>. QED  BY <1>4, <1>5, <1>6, <2>1
<1>10. \A s \in Slots : entry'[s] = "valid" => entry[s] = "valid"
  <2>. HIDE DEF aborted, chosen
  <2>. QED  BY <1>5, <1>6
<1>. QED  BY <1>8, <1>9, <1>10

\* A step that leaves the boot selection leaves what is selected.
LEMMA SelectionStays ==
  ASSUME UNCHANGED <<entry, latest, running>>
  PROVE  Active' = Active /\ PendingImage' = PendingImage
  BY DEF Active, PendingImage

\* What persisting does to the target and the expectation of memory and store.
LEMMA PersistTarget ==
  ASSUME TypeInv, NEW r \in Records, NEW state \in States, NEW pending \in BOOLEAN,
         Persist(r, state, pending)
  PROVE  /\ ram'.target = r.target /\ hit \subseteq hit'
         /\ \/ rec' = rec /\ ram' = r
            \/ /\ rec'.target = r.target /\ rec'.pending = pending
               /\ ram'.pending = pending
            \/ /\ rec'.target = r.target /\ rec'.pending = pending
               /\ ram' = r /\ "save" \in hit'
<1>1. LET c == Evolved(r, state, pending) IN c.target = r.target /\ c.pending = pending
  BY EvolvedFields
<1>2. /\ hit \subseteq hit'
      /\ \/ rec' = rec /\ ram' = r
         \/ rec' = Evolved(r, state, pending) /\ ram' = Evolved(r, state, pending)
         \/ rec' = Evolved(r, state, pending) /\ ram' = r /\ "save" \in hit'
  BY PersistEffect
<1>. QED  BY <1>1, <1>2

\* Outside the boot task an installation works on another image than the
\* running one, and what it does leaves the observed image expected.
LEMMA PlaceStep ==
  ASSUME TypeInv, PlaceInv, [Next]_vars
  PROVE  PlaceInv'
<1>. USE DEF nvsVars, serverVars, flashVars
<1>r. /\ rec \in Records /\ ram \in Records /\ flag \in BOOLEAN
      /\ mode \in {"off", "begin"} => pc \in {"idle", "reject"}
  BY DEF TypeInv
<1>n. /\ {"idle", "reject", "mark", "marked", "uncheckpointed", "closed", "rollback"}
           \cap Installing = {}
      /\ Reporting \subseteq Installing
  BY DEF Installing, Reporting
<1>1. CASE UNCHANGED vars
  BY <1>1 DEF vars, taskVars, PlaceInv, Expected, Active, PendingImage, Named,
     Image, ThreeFaults
<1>2. CASE Boot
  <2>1. mode' = "begin" /\ pc' = "idle"
    BY <1>2 DEF Boot, TypeInv
  <2>. QED  BY <1>2, <1>n, <2>1, BootSelects DEF PlaceInv
<1>3. CASE mode' \in {"off", "normal", "blocked", "restricted"} /\ pc' = "idle"
  BY <1>3, <1>n DEF PlaceInv
<1>4. CASE pc' \in {"reject", "marked", "uncheckpointed"}
  BY <1>4, <1>n DEF PlaceInv
<1>. SUFFICES ASSUME ~Boot, ~UNCHANGED vars,
                     ~(mode' \in {"off", "normal", "blocked", "restricted"} /\ pc' = "idle"),
                     pc' \notin {"reject", "marked", "uncheckpointed"}
              PROVE  PlaceInv'
  BY <1>1, <1>2, <1>3, <1>4
<1>m. running' = running /\ Image' = Image /\ hit \subseteq hit' /\ vetted \subseteq vetted'
  BY ImageStays
<1>t. ThreeFaults => ThreeFaults'
  BY <1>m DEF ThreeFaults
\* Steps of an installation, which concern another image.
<1>5. CASE ram'.target # Image /\ pc' \in Installing \cup {"idle", "closed"} /\ mode' # "begin"
  BY <1>5, <1>m, <1>n DEF PlaceInv
<1>6. CASE \/ Schedule \/ Arm \/ Commit \/ DownloadFailed
  <2>1. pc \in Installing /\ pc' \in Installing \cup {"idle"} /\ mode' = mode
    BY <1>6 DEF Schedule, Arm, Commit, DownloadFailed, Installing
  <2>2. \E state \in States, pending \in BOOLEAN : Persist(ram, state, pending)
    BY <1>r, <1>6, StateNames DEF Schedule, Arm, Commit, DownloadFailed
  <2>3. ram'.target = ram.target
    BY <1>r, <2>2, PersistTarget
  <2>4. mode # "begin"
    BY <1>r, <1>n, <2>1
  <2>. QED  BY <1>5, <2>1, <2>3, <2>4 DEF PlaceInv
<1>7. CASE DownloadBegin \/ StreamChunk \/ DownloadFails \/ UpdateEnd \/ Restore
           \/ (Restart /\ pc' = "close")
  <2>1. pc \in Installing /\ pc' \in Installing \cup {"closed"} /\ ram' = ram /\ mode' = mode
    BY <1>7 DEF DownloadBegin, StreamChunk, DownloadFails, UpdateEnd, Restore,
       Restart,
         ForgetMemory, Installing
  <2>2. mode # "begin"
    BY <1>r, <1>n, <2>1
  <2>. QED  BY <1>5, <2>1, <2>2 DEF PlaceInv
<1>8. CASE PartitionWritten
  <2>1. pc \in Installing /\ pc' \in Installing /\ mode' = mode
    BY <1>8 DEF PartitionWritten, Installing
  <2>2. ram' = ram \/ Persist(ram, "PartitionWritten", FALSE)
    BY <1>8 DEF PartitionWritten
  <2>3. ram'.target = ram.target
    BY <1>r, <2>2, StateNames, PersistTarget
  <2>4. mode # "begin"
    BY <1>r, <1>n, <2>1
  <2>. QED  BY <1>5, <2>1, <2>3, <2>4 DEF PlaceInv
<1>9. CASE Report
  <2>1. pc \in Reporting /\ pc' = AfterReport[pc] /\ mode' = mode /\ flushPendingReportWithLease
    BY <1>9, AfterReportIs DEF Report
  <2>2. pc' \in Installing \cup {"idle"}
    BY <2>1, AfterReportIs DEF Installing
  <2>3. ram'.target = ram.target
    BY <2>1, FlushEffect
  <2>4. mode # "begin" /\ pc \in Installing
    BY <1>r, <1>n, <2>1
  <2>. QED  BY <1>5, <2>1, <2>2, <2>3, <2>4 DEF PlaceInv
<1>10. CASE ApplyManifest
  <2>1. PICK k \in Keys :
          /\ validatePolicy(Offers[k])
          /\ Persist(FreshRecord(k), "ManifestAuthenticated", FALSE)
          /\ pc' = IF Stored(FreshRecord(k)) THEN "authenticated" ELSE "idle"
    BY <1>10 DEF ApplyManifest, fetchText
  <2>2. FreshRecord(k) \in Records /\ FreshRecord(k).target = Offers[k].image
    BY <1>r, Numbers, FreshFields
  <2>3. Offers[k].image # Image
    <3>1. PICK n \in Nat : n = Image
      BY Numbers
    <3>2. PICK o \in Nat : o = Offers[k].image
      BY OtaAssumption DEF Keys
    <3>3. o > n => o # n
      OBVIOUS
    <3>. QED  BY <2>1, <3>1, <3>2, <3>3 DEF validatePolicy
  <2>4. ram'.target = Offers[k].image
    BY <2>1, <2>2, StateNames, PersistTarget
  <2>5. pc' \in Installing \cup {"idle"} /\ mode' # "begin"
    BY <1>10, <2>1 DEF ApplyManifest, Installing
  <2>. QED  BY <1>5, <2>3, <2>4, <2>5
\* Steps that leave the observed image expected.
<1>11. ASSUME UNCHANGED <<entry, latest>>, mode' = mode, mode # "begin",
              pc \in {"idle", "rollback", "closed"}, pc' \in {"idle", "rollback", "closed"},
              pc' = "rollback" => "operator" \in hit',
              ram'.target = ram.target,
              pc' = "closed" /\ ram.target = Image => {"operator", "call"} \subseteq hit',
              mode = "observe" /\ PendingImage /\ ram.target = Image
                => ThreeFaults' \/ (ram'.pending => Named')
       PROVE  PlaceInv'
  <2>1. Active' = Active /\ PendingImage' = PendingImage
    BY <1>11, <1>m, SelectionStays
  <2>2. mode = "observe" /\ PendingImage /\ ram.target = Image => Active = running
    BY <1>11 DEF PlaceInv, Expected
  <2>. QED  BY <1>11, <1>m, <1>n, <2>1, <2>2 DEF PlaceInv, Expected
<1>12. CASE FlushPendingReport
  <2>1. /\ UNCHANGED <<entry, latest, mode, pc>> /\ mode # "begin" /\ pc = "idle"
        /\ flushPendingReportWithLease
    BY <1>12 DEF FlushPendingReport
  <2>2. /\ ram'.target = ram.target /\ ram'.pending = ram.pending
        /\ rec' = rec \/ (rec'.target = ram.target /\ rec'.pending = ram.pending)
    BY <2>1, FlushEffect
  <2>3. mode = "observe" /\ PendingImage /\ ram.target = Image
          => ThreeFaults' \/ (ram'.pending => Named')
    BY <1>m, <1>t, <2>1, <2>2 DEF PlaceInv, Expected, Named
  <2>. QED  BY <1>11, <2>1, <2>2, <2>3
<1>13. CASE RollbackAndReboot
  <2>1. UNCHANGED <<entry, latest, mode>> /\ mode # "begin" /\ pc = "idle"
    BY <1>13 DEF RollbackAndReboot
  <2>. DEFINE c == Evolved(ram, "Rebooting", TRUE)
  <2>2. c.target = ram.target /\ c.pending = TRUE
    <3>1. "Rebooting" \in States /\ TRUE \in BOOLEAN
      BY DEF States
    <3>. QED  BY <1>r, <3>1, EvolvedFields
  <2>3. /\ "operator" \in hit' /\ pc' \in {"idle", "rollback"}
        /\ (rec' = c /\ ram' = c) \/ (rec' \in {rec, c} /\ ram' = ram)
    BY <1>13, <2>1 DEF RollbackAndReboot
  <2>. HIDE DEF c
  <2>4. mode = "observe" /\ PendingImage /\ ram.target = Image
          => ThreeFaults' \/ (ram'.pending => Named')
    BY <1>m, <1>t, <2>1, <2>2, <2>3 DEF PlaceInv, Expected, Named
  <2>5. ram'.target = ram.target
    BY <2>2, <2>3
  <2>. QED  BY <1>11, <2>1, <2>3, <2>4, <2>5
<1>14. CASE RollbackMark
  <2>1. /\ pc = "rollback" /\ pc' = "closed" /\ "call" \in hit'
        /\ UNCHANGED <<entry, latest, mode, ram, rec>>
    BY <1>14 DEF RollbackMark, MarkInvalid, ForgetMemory, Hits
  <2>2. "operator" \in hit' /\ mode # "begin"
    BY <1>r, <1>m, <2>1 DEF PlaceInv
  <2>3. mode = "observe" /\ PendingImage /\ ram.target = Image
          => ThreeFaults' \/ (ram'.pending => Named')
    BY <1>m, <1>t, <2>1 DEF PlaceInv, Expected, Named
  <2>. QED  BY <1>11, <2>1, <2>2, <2>3
<1>15. CASE FailClosed
  <2>1. /\ UNCHANGED <<entry, latest, mode>> /\ pc \in {"closed", "closed_download"}
        /\ pc' = (IF pc = "closed" THEN "idle" ELSE "failing")
        /\ Persist(ram, "Failed", FALSE)
    BY <1>15 DEF FailClosed
  <2>2. /\ ram'.target = ram.target
        /\ \/ rec' = rec /\ ram' = ram
           \/ ram'.pending = FALSE
           \/ "save" \in hit'
    BY <1>r, <2>1, StateNames, PersistTarget
  <2>3. mode # "begin"
    BY <1>r, <2>1
  <2>4. CASE pc = "closed_download"
    BY <1>5, <2>1, <2>2, <2>3, <2>4 DEF PlaceInv, Installing
  <2>5. CASE pc = "closed"
    <3>1. mode = "observe" /\ PendingImage /\ ram.target = Image
            => ThreeFaults' \/ (ram'.pending => Named')
      BY <1>m, <1>t, <2>1, <2>2, <2>5 DEF PlaceInv, Expected, Named,
         ThreeFaults
    <3>. QED  BY <1>11, <2>1, <2>2, <2>3, <2>5, <3>1
  <2>. QED  BY <2>1, <2>4, <2>5
\* The boot task: the image that is observed and the one that is marked.
<1>16. CASE BeginPending
  <2>1. /\ mode = "begin" /\ pc = "idle" /\ pc' = "idle" /\ mode' = "observe" /\ PendingImage
        /\ classifyPostBoot(PendingImage, "Healthy", Image, rec) = "Validate"
        /\ Persist(rec, "PostBootValidation", TRUE) /\ UNCHANGED <<entry, latest>>
    BY <1>16 DEF BeginPending, initiatePostBootRollback
  <2>2. rec.pending /\ rec.target = Image
    <3>1. PendingImage = TRUE
      BY <2>1 DEF PendingImage
    <3>. QED  BY <2>1, <3>1, ValidateMeans
  <2>3. rec'.pending /\ rec'.target = Image
    BY <1>r, <2>1, <2>2, StateNames, PersistTarget
  <2>4. Active' = running'
    BY <1>m, <2>1, SelectionStays DEF PlaceInv
  <2>. QED  BY <1>m, <1>n, <2>1, <2>3, <2>4 DEF PlaceInv, Expected, Named
<1>17. CASE CheckRunningImage
  <2>1. mode = "observe" /\ UNCHANGED <<entry, latest>>
    BY <1>17 DEF CheckRunningImage
  <2>2. CASE mode' = "blocked" /\ UNCHANGED <<rec, ram, pc, vetted>>
             /\ pc \notin {"idle", "reject", "uncheckpointed", "mark", "marked"}
    BY <1>m, <2>2 DEF PlaceInv
  <2>3. CASE \E health \in Verdicts :
               /\ pc = "idle" /\ PendingImage /\ pc' = "mark" /\ mode' = mode
               /\ classifyPostBoot(TRUE, health, Image, ram) = "Validate"
               /\ vetted' = IF Named /\ health \in HealthyClasses
                            THEN vetted \cup {Image} ELSE vetted
    <3>1. PICK health \in Verdicts :
            /\ pc = "idle" /\ PendingImage /\ pc' = "mark" /\ mode' = mode
            /\ classifyPostBoot(TRUE, health, Image, ram) = "Validate"
            /\ vetted' = IF Named /\ health \in HealthyClasses
                         THEN vetted \cup {Image} ELSE vetted
      BY <2>3
    <3>2. ram.pending /\ Image = ram.target /\ health \in HealthyClasses
      BY <3>1, ValidateMeans
    <3>3. Active = running /\ (ThreeFaults \/ Named)
      BY <2>1, <3>1, <3>2 DEF PlaceInv, Expected
    <3>4. Active' = running' /\ (ThreeFaults' \/ Image' \in vetted')
      BY <1>m, <1>t, <2>1, <3>1, <3>2, <3>3, SelectionStays
    <3>. QED  BY <1>n, <3>1, <3>4 DEF PlaceInv
  <2>. QED
    BY <1>17, <2>1, <2>2, <2>3 DEF CheckRunningImage, initiatePostBootRollback
<1>18. CASE \/ BeginWithoutRecord \/ BeginSettled \/ Reject \/ RejectUncheckpointed
            \/ MarkValid \/ MarkValidFails \/ SaveValidated \/ PowerLoss
            \/ (Restart /\ pc' # "close")
  <2>1. \/ mode' \in {"off", "normal", "blocked", "restricted"} /\ pc' = "idle"
        \/ pc' \in {"reject", "marked", "uncheckpointed"}
    BY <1>18 DEF BeginWithoutRecord, BeginSettled, Reject,
       RejectUncheckpointed, MarkValid,
       MarkValidFails, SaveValidated, PowerLoss, Restart, MarkInvalid, ForgetMemory,
       initiatePostBootRollback
  <2>. QED  BY <2>1
<1>. QED
  BY <1>6, <1>7, <1>8, <1>9, <1>10, <1>12, <1>13, <1>14, <1>15, <1>16, <1>17,
     <1>18
  DEF Next, Maintenance, BootTask

\* Only MarkValid makes an entry valid, and only for the running image.
LEMMA VettedStep ==
  ASSUME TypeInv, VettedInv, [Next]_vars
  PROVE  VettedInv'
<1>. USE DEF nvsVars, serverVars, flashVars
<1>p. PlaceInv'
  BY PlaceStep DEF VettedInv
<1>e. entry \in [Slots -> EntryStates] /\ slot \in [Slots -> Nat] /\ running \in Slots
  BY DEF TypeInv
<1>m. ThreeFaults => ThreeFaults'
  BY ImageStays DEF ThreeFaults, Boot
<1>v. vetted \subseteq vetted'
  BY ImageStays DEF Boot
<1>. SUFFICES ASSUME ~ThreeFaults'
              PROVE  OnlyVettedImagesValid'
  BY <1>p DEF VettedInv
<1>0. OnlyVettedImagesValid
  BY <1>m DEF VettedInv
\* A step that makes no entry valid and writes no image into a valid slot.
<1>1. ASSUME \A s \in Slots : entry'[s] = "valid" =>
               entry[s] = "valid" /\ slot'[s] \in {slot[s], NoImage}
      PROVE  OnlyVettedImagesValid'
  BY <1>0, <1>1, <1>v DEF OnlyVettedImagesValid
<1>2. CASE UNCHANGED <<slot, entry>>
  BY <1>1, <1>2
<1>3. CASE Boot
  BY <1>1, <1>3, BootSelects DEF Boot
<1>4. CASE MarkValid
  <2>1. entry' = [entry EXCEPT ![running] = "valid"] /\ Image \in vetted
    BY <1>4, <1>m DEF MarkValid, VettedInv, PlaceInv
  <2>2. slot' = slot /\ vetted' = vetted
    BY <1>4 DEF MarkValid
  <2>. QED  BY <1>0, <1>e, <2>1, <2>2 DEF OnlyVettedImagesValid, Image
<1>5. CASE DownloadBegin
  BY <1>1, <1>5, <1>e DEF DownloadBegin
<1>6. CASE UpdateEnd
  <2>1. entry' = [entry EXCEPT ![Target] = "new"] /\ \E x : slot' = [slot EXCEPT ![Target] = x]
    BY <1>6 DEF UpdateEnd, Select
  <2>. QED  BY <1>1, <1>e, <2>1
<1>7. CASE Restore \/ Reject \/ RollbackMark
  <2>1. slot' = slot
    BY <1>7 DEF Restore, Reject, RollbackMark
  <2>2. entry' = entry \/ \E s, x : x # "valid" /\ entry' = [entry EXCEPT ![s] = x]
    BY <1>7 DEF Restore, Reject, RollbackMark, Select, MarkInvalid
  <2>3. \A s \in Slots : entry'[s] = "valid" => entry[s] = "valid"
    BY <1>e, <2>2
  <2>. QED  BY <1>1, <2>1, <2>3
<1>8. CASE \/ BeginWithoutRecord \/ BeginSettled \/ BeginPending \/ CheckRunningImage
           \/ RejectUncheckpointed \/ MarkValidFails \/ SaveValidated \/ FlushPendingReport
           \/ ApplyManifest \/ Report \/ Schedule \/ DownloadFails \/ PartitionWritten
           \/ Arm \/ Commit \/ FailClosed \/ DownloadFailed \/ RollbackAndReboot
           \/ StreamChunk \/ Restart \/ PowerLoss \/ UNCHANGED vars
  <2>1. UNCHANGED <<slot, entry>>
    BY <1>8 DEF BeginWithoutRecord, BeginSettled, BeginPending,
       CheckRunningImage,
         RejectUncheckpointed, MarkValidFails, SaveValidated, FlushPendingReport,
         ApplyManifest, Report, Schedule, DownloadFails, PartitionWritten, Arm, Commit,
         FailClosed, DownloadFailed, RollbackAndReboot, StreamChunk, Restart, PowerLoss, vars
  <2>. QED  BY <1>2, <2>1
<1>. QED
  BY <1>3, <1>4, <1>5, <1>6, <1>7, <1>8 DEF Next, Maintenance, BootTask

\* Whatever the number of offers, power losses and faults, an image that was
\* never observed healthy while the durable record expected it is marked valid
\* only in a behaviour in which three faults met: an operator's rollback, a
\* failed ESP-IDF call and a record stored without confirmation.
THEOREM UnvettedImageNeedsThreeFaults ==
  Spec => [](ThreeFaults \/ OnlyVettedImagesValid)
<1>1. TypeInv /\ VettedInv /\ [Next]_vars => TypeInv' /\ VettedInv'
  BY TypeStep, VettedStep
<1>2. Init => TypeInv /\ VettedInv
  BY TypeInit, VettedInit
<1>3. VettedInv => ThreeFaults \/ OnlyVettedImagesValid
  BY DEF VettedInv
<1>. QED  BY <1>1, <1>2, <1>3, PTL DEF Spec

\* Every step has no fault, one fault, or an operator's order that is not saved.
LEMMA HitCases ==
  ASSUME TypeInv, [Next]_vars
  PROVE  \/ hit' = hit
         \/ \E f : Hits(f)
         \/ Possible("save") /\ hit' = hit \cup {"operator", "save"}
         \/ Possible("operator") /\ hit' = hit \cup {"operator"}
<1>. USE DEF NoFault
<1>p. \A r, state, pending : Persist(r, state, pending) => hit' = hit \/ Hits("save")
  BY DEF Persist, Saved, NotSaved
<1>1. CASE UNCHANGED vars \/ MarkValid \/ DownloadBegin \/ UpdateEnd \/ Boot \/ PowerLoss
  BY <1>1 DEF vars, MarkValid, DownloadBegin, UpdateEnd, Boot, PowerLoss
<1>2. CASE BeginWithoutRecord \/ Reject \/ MarkValidFails \/ Restart \/ Restore \/ StreamChunk
           \/ DownloadFails \/ RollbackMark
  BY <1>2 DEF BeginWithoutRecord, Reject, MarkValidFails, Restart, Restore,
     StreamChunk,
       DownloadFails, RollbackMark
<1>3. CASE Schedule \/ Arm \/ Commit \/ FailClosed \/ DownloadFailed \/ SaveValidated
           \/ RejectUncheckpointed \/ PartitionWritten \/ CheckRunningImage \/ BeginSettled
           \/ BeginPending \/ ApplyManifest
  BY <1>p, <1>3 DEF Schedule, Arm, Commit, FailClosed, DownloadFailed,
     SaveValidated,
       RejectUncheckpointed, PartitionWritten, CheckRunningImage, BeginSettled,
       BeginPending, ApplyManifest, initiatePostBootRollback
<1>4. CASE Report \/ FlushPendingReport
  BY <1>4 DEF Report, FlushPendingReport, flushPendingReportWithLease,
     Accepted, Saved, NotSaved
<1>5. CASE RollbackAndReboot
  BY <1>5 DEF RollbackAndReboot
<1>. QED  BY <1>1, <1>2, <1>3, <1>4, <1>5 DEF Next, Maintenance, BootTask

\* Where one fault is all that happens, the first one leaves no room for another.
LEMMA FewFaults ==
  ASSUME TypeInv, MaxFault <= 1, ~ThreeFaults, [Next]_vars
  PROVE  ~ThreeFaults'
<1>1. ASSUME NEW f, Possible(f) PROVE hit = {}
  <2>1. IsFiniteSet(hit)
    <3>1. Faults \subseteq {"save", "read", "call", "stream", "operator"}
      BY OtaAssumption
    <3>2. IsFiniteSet({"save", "read", "call", "stream", "operator"})
      <4>1. IsFiniteSet({})
        BY FS_EmptySet
      <4>2. IsFiniteSet(((({} \cup {"save"}) \cup {"read"}) \cup {"call"}) \cup {"stream"})
        BY <4>1, FS_AddElement
      <4>3. {"save", "read", "call", "stream", "operator"}
              = ((((({} \cup {"save"}) \cup {"read"}) \cup {"call"}) \cup {"stream"})
                 \cup {"operator"})
        OBVIOUS
      <4>. QED  BY <4>2, <4>3, FS_AddElement
    <3>. QED  BY <3>1, <3>2, FS_Subset DEF TypeInv
  <2>2. PICK n \in Nat : n = Cardinality(hit)
    BY <2>1, FS_CardinalityType
  <2>3. PICK k \in Nat : k = MaxFault
    BY OtaAssumption
  <2>4. n < k /\ k <= 1
    BY <1>1, <2>2, <2>3 DEF Possible
  <2>5. n = 0
    BY <2>4
  <2>. QED  BY <2>1, <2>2, <2>5, FS_EmptySet
<1>2. CASE hit' = hit
  BY <1>2 DEF ThreeFaults
<1>3. ASSUME NEW f, Hits(f) PROVE ~ThreeFaults'
  BY <1>1, <1>3 DEF Hits, ThreeFaults
<1>4. CASE Possible("save") /\ hit' = hit \cup {"operator", "save"}
  BY <1>1, <1>4 DEF ThreeFaults
<1>5. CASE Possible("operator") /\ hit' = hit \cup {"operator"}
  BY <1>1, <1>5 DEF ThreeFaults
<1>. QED  BY <1>2, <1>3, <1>4, <1>5, HitCases

\* OnlyVettedImagesValid holds for every behaviour of a device on which those
\* three faults do not all happen, or on which faults do not accumulate
\* (checkRunningImage, OtaService::begin).
THEOREM ValidImagesWereVetted ==
  ASSUME ~({"operator", "call", "save"} \subseteq Faults) \/ MaxFault <= 1
  PROVE  Spec => []OnlyVettedImagesValid
<1>. DEFINE Inv == TypeInv /\ VettedInv /\ ~ThreeFaults
<1>1. Inv /\ [Next]_vars => Inv'
  <2>1. TypeInv /\ VettedInv /\ [Next]_vars => TypeInv' /\ VettedInv'
    BY TypeStep, VettedStep
  <2>2. TypeInv' /\ ~({"operator", "call", "save"} \subseteq Faults) => ~ThreeFaults'
    BY DEF TypeInv, ThreeFaults
  <2>. QED  BY <2>1, <2>2, FewFaults
<1>2. Init => Inv
  <2>1. Init => ~ThreeFaults
    BY DEF Init, ThreeFaults
  <2>. QED  BY <2>1, TypeInit, VettedInit
<1>3. Inv => OnlyVettedImagesValid
  BY DEF VettedInv
<1>. QED  BY <1>1, <1>2, <1>3, PTL DEF Spec

-----------------------------------------------------------------------------
(* What is reported of the outcome                                          *)

\* The states of a record that say how the attempt ended.
Outcomes == {"Validated", "RolledBack"}

\* The record's outcome is true of a device that runs this image.
Fits(r, image) ==
  /\ r.state = "Validated" => image = r.target
  /\ r.state = "RolledBack" => image # r.target

\* What the boot loader will select and start if power fails now.
Restarted == [s \in Slots |-> IF entry[s] = "pending" THEN "aborted" ELSE entry[s]]
Chosen == Selected(Restarted, latest)
First == IF Chosen = Nobody THEN 0 ELSE Chosen
NextBoot == IF slot[First] # NoImage THEN First ELSE Other(First)

\* Starting it will not change the selection.
Steady == Chosen = Nobody \/ Restarted[Chosen] = "valid"

\* The outcome stays true over restarts: it is true of both images, or the
\* same image is started every time.
StaysTrue(r, images, same, next) ==
  \/ \A s \in Slots : images[s] # NoImage => Fits(r, images[s])
  \/ same /\ Fits(r, images[next])

Kept(r) == StaysTrue(r, slot, Steady /\ ~PendingImage, NextBoot)

\* A record is of an attempt and names its image; an outcome expects nothing.
Proper(r) ==
  /\ r.key = 0 => r.state = Idle
  /\ r.key # 0 => r.target = Offers[r.key].image
  /\ r.state \in Outcomes => ~r.pending

\* Where the boot task and the workflow are.
ControlInv ==
  /\ mode = "observe" \/ pc \notin {"idle", "reject"} =>
       rec.state \notin Outcomes /\ ram.state \notin Outcomes
  /\ pc = "reject" => mode \in {"begin", "observe"} /\ PendingImage
  /\ pc \in {"mark", "marked", "uncheckpointed"} => mode = "observe"
  /\ pc \in {"mark", "uncheckpointed"} => PendingImage
  /\ pc \in {"mark", "marked"} => Active = running /\ ram.target = Image
  /\ pc = "marked" => ~flag /\ entry[running] = "valid"
  /\ pc \in Installing => rec.target # Image

\* What runs: an image, and not one that an attempt names if it was selected
\* again after a failed installation.
RunInv ==
  /\ Image # NoImage
  /\ entry[running] = "new" => rec.target # Image /\ ram.target # Image
  /\ mode = "begin" /\ pc = "idle" /\ ~PendingImage =>
       (Steady /\ NextBoot = running) \/ slot[Other(running)] = NoImage

\* An outcome is true of the running image, and stays so.
TruthInv ==
  /\ rec.state \in Outcomes => Kept(rec)
  /\ rec.state \in Outcomes /\ mode = "begin" /\ ~PendingImage => Fits(rec, Image)
  /\ ram.state \in Outcomes /\ mode \in {"normal", "blocked"} =>
       Kept(ram) /\ Fits(ram, Image) /\ ~PendingImage

OutcomeInv == Proper(rec) /\ Proper(ram) /\ ControlInv /\ RunInv /\ TruthInv

\* The factory image runs and no attempt was made.
LEMMA OutcomeInit == Init => OutcomeInv
<1>. SUFFICES ASSUME Init PROVE OutcomeInv
  OBVIOUS
<1>1. /\ pc = "idle" /\ mode = "normal" /\ rec = EmptyRecord /\ ram = EmptyRecord
      /\ running = 0 /\ slot[0] = Factory /\ entry[0] = "valid"
  BY DEF Init, Slots
<1>2. rec.state = Idle /\ rec.key = 0 /\ Idle \notin Outcomes
  BY <1>1, ConstantTypes DEF Idle, Outcomes
<1>. QED
  BY <1>1, <1>2 DEF OutcomeInv, Proper, ControlInv, RunInv, TruthInv, Installing, Image,
     Factory, NoImage

\* The outcome of a record is that of its state and its target.
LEMMA SameOutcome ==
  ASSUME NEW r, NEW q, q.state = r.state, q.target = r.target
  PROVE  /\ \A image : Fits(q, image) <=> Fits(r, image)
         /\ \A images, same, next : StaysTrue(q, images, same, next)
                                      <=> StaysTrue(r, images, same, next)
  BY DEF Fits, StaysTrue

\* Without a change of the partitions a restart starts what it would have.
LEMMA FlashStays ==
  ASSUME UNCHANGED <<slot, entry, latest, running>>
  PROVE  /\ Image' = Image /\ Active' = Active /\ PendingImage' = PendingImage
         /\ Steady' = Steady /\ NextBoot' = NextBoot
  BY DEF Image, Active, PendingImage, Steady, Chosen, Restarted, First, NextBoot

\* What the boot loader does to its own selection.
LEMMA BootEffect ==
  ASSUME TypeInv, Boot, Image # NoImage
  PROVE  /\ running' = NextBoot /\ slot' = slot /\ Image' # NoImage
         /\ Steady => Steady' /\ NextBoot' = NextBoot /\ ~PendingImage'
         /\ ~PendingImage' => \/ Steady' /\ NextBoot' = running'
                              \/ slot'[Other(running')] = NoImage
         /\ entry'[running'] = "new" => running' = running /\ entry[running] = "new"
<1>1. /\ entry' = [s \in Slots |-> IF s = Chosen /\ Restarted[s] = "new"
                                   THEN "pending" ELSE Restarted[s]]
      /\ running' = NextBoot /\ latest' = latest /\ slot' = slot
  BY DEF Boot, BootLoader, Chosen, Restarted, First, NextBoot
<1>2. /\ latest \in Slots /\ running \in Slots /\ 0 \in Slots /\ Nobody \notin Slots
      /\ \A s \in Slots : Other(s) \in Slots /\ Other(s) # s /\ Other(Other(s)) = s
      /\ \A s, t \in Slots : s = t \/ s = Other(t)
  BY DEF TypeInv, Slots, Other, Nobody
<1>3. Chosen \in {latest, Other(latest), Nobody} /\ First \in Slots /\ NextBoot \in Slots
  <2>1. Chosen \in {latest, Other(latest), Nobody}
    BY DEF Chosen, Selected
  <2>. QED  BY <1>2, <2>1 DEF First, NextBoot
<1>4. \A s \in Slots : Restarted[s] # "pending" /\ (Restarted[s] = "new" => entry[s] = "new")
  BY DEF Restarted
<1>5. \A s \in Slots : entry'[s] = IF s = Chosen /\ Restarted[s] = "new"
                                   THEN "pending" ELSE Restarted[s]
  BY <1>1
<1>6. slot[NextBoot] # NoImage /\ (slot[First] = NoImage => NextBoot = running)
  BY <1>2, <1>3 DEF NextBoot, Image
<1>7. Chosen \in Slots => Usable(Restarted, Chosen)
  BY <1>2 DEF Chosen, Selected
<1>8. Chosen = Nobody => \A s \in Slots : ~Usable(Restarted, s)
  BY <1>2 DEF Chosen, Selected
<1>9. ASSUME Steady
      PROVE  Steady' /\ NextBoot' = NextBoot /\ ~PendingImage'
  <2>1. \A s \in Slots : entry'[s] = Restarted[s]
    BY <1>2, <1>5, <1>9 DEF Steady
  <2>2. \A s \in Slots : Restarted'[s] = Restarted[s]
    <3>1. \A s \in Slots : Restarted'[s] = IF entry'[s] = "pending" THEN "aborted" ELSE entry'[s]
      BY DEF Restarted
    <3>. QED  BY <1>4, <2>1, <3>1
  <2>3. Chosen' = Chosen
    BY <1>1, <1>2, <2>2 DEF Chosen, Selected, Usable
  <2>4. Steady' /\ NextBoot' = NextBoot
    BY <1>1, <1>3, <1>9, <2>2, <2>3 DEF Steady, NextBoot, First
  <2>5. ~PendingImage'
    BY <1>1, <1>3, <1>4, <2>1 DEF PendingImage
  <2>. QED  BY <2>4, <2>5
<1>10. ASSUME ~Steady
       PROVE  /\ Chosen \in Slots /\ First = Chosen /\ entry'[Chosen] = "pending"
              /\ Restarted[Chosen] = "new"
  <2>1. Chosen \in Slots /\ Restarted[Chosen] # "valid"
    BY <1>2, <1>3, <1>10 DEF Steady
  <2>2. Restarted[Chosen] = "new"
    BY <1>4, <1>7, <2>1 DEF Usable
  <2>. QED  BY <1>2, <1>5, <2>1, <2>2 DEF First
<1>11. ASSUME ~PendingImage', ~Steady PROVE slot'[Other(running')] = NoImage
  <2>1. NextBoot # Chosen
    BY <1>1, <1>10, <1>11 DEF PendingImage
  <2>. QED  BY <1>1, <1>2, <1>10, <1>11, <2>1 DEF NextBoot
<1>12. ASSUME entry'[running'] = "new" PROVE running' = running /\ entry[running] = "new"
  <2>1. NextBoot # Chosen /\ Restarted[NextBoot] = "new"
    BY <1>1, <1>3, <1>5, <1>12
  <2>2. Usable(Restarted, NextBoot)
    BY <2>1 DEF Usable
  <2>3. First = Chosen
    BY <1>3, <1>8, <2>2 DEF First
  <2>4. NextBoot = running
    BY <1>6, <2>1, <2>3 DEF NextBoot
  <2>. QED  BY <1>1, <1>2, <1>4, <2>1, <2>4
<1>. QED
  <2>1. Image' # NoImage
    BY <1>1, <1>6 DEF Image
  <2>2. Steady => Steady' /\ NextBoot' = running'
    BY <1>1, <1>9
  <2>. QED  BY <1>1, <1>9, <1>11, <1>12, <2>1, <2>2

\* persistState keeps a record proper, and an outcome comes from its state.
LEMMA PersistProper ==
  ASSUME TypeInv, Proper(rec), NEW r \in Records, Proper(r), NEW state \in States \ {Idle},
         NEW pending \in BOOLEAN, state \in Outcomes => ~pending, Persist(r, state, pending)
  PROVE  /\ Proper(rec)' /\ Proper(ram)' /\ ram'.target = r.target
         /\ rec' = rec \/ (rec'.state = state /\ rec'.target = r.target)
         /\ ram' = r \/ (ram'.state = state /\ rec'.state = state /\ r.key # 0)
         /\ ram' # r => rec'.target = r.target
<1>1. LET c == Evolved(r, state, pending)
      IN  c.key = r.key /\ c.target = r.target /\ c.state = state /\ c.pending = pending
  BY EvolvedFields
<1>2. CASE r.key = 0
  BY <1>2 DEF Persist, Proper
<1>3. CASE r.key # 0
  <2>1. Proper(Evolved(r, state, pending))
    BY <1>1, <1>3 DEF Proper
  <2>2. rec' \in {rec, Evolved(r, state, pending)} /\ ram' \in {r, Evolved(r, state, pending)}
        /\ (ram' # r => rec' = ram')
    BY <1>3 DEF Persist, Saved, NotSaved
  <2>3. Proper(rec)' /\ Proper(ram)'
    BY <2>1, <2>2 DEF Proper
  <2>. QED  BY <1>1, <1>3, <2>2, <2>3
<1>. QED  BY <1>2, <1>3

\* A report, delivered or not, leaves a proper record with its outcome.
LEMMA FlushProper ==
  ASSUME TypeInv, Proper(rec), Proper(ram), flushPendingReportWithLease
  PROVE  /\ Proper(rec)' /\ Proper(ram)'
         /\ ram'.state = ram.state /\ ram'.target = ram.target
         /\ rec' = rec \/ (rec'.state = ram.state /\ rec'.target = ram.target)
<1>r. ram \in Records
  BY DEF TypeInv
<1>1. CASE UNCHANGED <<rec, ram>>
  BY <1>1 DEF Proper
<1>2. CASE Owed(ram) # "" /\ Accepted(Owed(ram))
  <2>. DEFINE c == [ram EXCEPT !.last = Owed(ram)]
  <2>1. /\ c.key = ram.key /\ c.target = ram.target /\ c.state = ram.state
        /\ c.pending = ram.pending
    BY <1>r, <1>2, OwedIs, ReportedFields
  <2>2. Proper(c)
    BY <2>1 DEF Proper
  <2>3. rec' \in {rec, c} /\ ram' \in {ram, c}
    BY <1>2 DEF Accepted, Saved, NotSaved
  <2>. HIDE DEF c
  <2>4. Proper(rec)' /\ Proper(ram)'
    BY <2>2, <2>3 DEF Proper
  <2>. QED  BY <2>1, <2>3, <2>4
<1>. QED  BY <1>1, <1>2, FlushEffect

\* The steps of the workflow, which has replaced every outcome by its own record.
LEMMA WorkflowStep ==
  ASSUME TypeInv, PlaceInv, OutcomeInv, Proper(rec)', Proper(ram)',
         pc \notin {"idle", "reject", "mark", "marked", "uncheckpointed"},
         pc' \notin {"reject", "mark", "marked", "uncheckpointed"},
         pc' \in Installing => pc \in Installing,
         mode' \notin {"off", "begin"}, running' = running, Image' = Image,
         entry'[running] = "new" => entry[running] = "new" \/ pc \in Installing,
         ram'.state \notin Outcomes, ram'.target = ram.target,
         rec' = rec \/ (rec'.state \notin Outcomes /\ rec'.target = ram.target)
  PROVE  OutcomeInv'
<1>1. rec.state \notin Outcomes
  BY DEF OutcomeInv, ControlInv
<1>2. rec'.state \notin Outcomes
  BY <1>1
<1>3. pc \in Installing => rec.target # Image /\ ram.target # Image
  BY DEF OutcomeInv, ControlInv, PlaceInv
<1>4. pc' \in Installing => rec'.target # Image'
  BY <1>3
<1>5. entry'[running'] = "new" => rec'.target # Image' /\ ram'.target # Image'
  BY <1>3 DEF OutcomeInv, RunInv
<1>6. ControlInv'
  BY <1>2, <1>4 DEF ControlInv
<1>7. RunInv'
  BY <1>5 DEF RunInv, OutcomeInv
<1>8. TruthInv'
  BY <1>2 DEF TruthInv
<1>. QED  BY <1>6, <1>7, <1>8 DEF OutcomeInv

\* A restart or a loss of power.
LEMMA DownStep ==
  ASSUME TypeInv, OutcomeInv, mode' = "off", pc' = "idle", ram' = EmptyRecord, rec' = rec,
         UNCHANGED <<slot, running>>, entry'[running] = "new" => entry[running] = "new",
         rec.state \in Outcomes => Kept(rec)'
  PROVE  OutcomeInv'
<1>1. Image' = Image /\ Image # NoImage
  BY DEF Image, OutcomeInv, RunInv
<1>2. Proper(rec)' /\ Proper(ram)'
  BY ConstantTypes DEF OutcomeInv, Proper, Outcomes, Idle
<1>3. ram'.target = NoImage /\ ram'.state \notin Outcomes
  BY DEF EmptyRecord, Outcomes, Idle
<1>4. ControlInv'
  BY DEF ControlInv, Installing
<1>5. RunInv'
  BY <1>1, <1>3 DEF RunInv, OutcomeInv
<1>6. TruthInv'
  BY DEF TruthInv
<1>. QED  BY <1>2, <1>4, <1>5, <1>6 DEF OutcomeInv

\* The boot loader: what it starts, the outcome in the store is true of.
LEMMA BootStep ==
  ASSUME TypeInv, OutcomeInv, Boot
  PROVE  OutcomeInv'
<1>1. /\ mode = "off" /\ pc = "idle" /\ mode' = "begin" /\ pc' = "idle"
      /\ UNCHANGED <<rec, ram, slot>>
  BY DEF Boot, nvsVars, TypeInv
<1>2. /\ running' = NextBoot /\ Image' # NoImage
      /\ Steady => Steady' /\ NextBoot' = NextBoot /\ ~PendingImage'
      /\ ~PendingImage' => \/ Steady' /\ NextBoot' = running'
                           \/ slot'[Other(running')] = NoImage
      /\ entry'[running'] = "new" => running' = running /\ entry[running] = "new"
  BY BootEffect DEF OutcomeInv, RunInv
<1>3. running' \in Slots
  BY <1>2, Numbers DEF NextBoot, First, TypeInv, Chosen, Selected, Slots, Other
<1>4. ControlInv'
  BY <1>1 DEF ControlInv, Installing
<1>5. RunInv'
  BY <1>1, <1>2 DEF RunInv, OutcomeInv, Image
<1>6. rec.state \in Outcomes => Kept(rec)' /\ Fits(rec, Image)'
  <2>. SUFFICES ASSUME rec.state \in Outcomes PROVE Kept(rec)' /\ Fits(rec, Image)'
    OBVIOUS
  <2>1. CASE \A s \in Slots : slot[s] # NoImage => Fits(rec, slot[s])
    BY <1>1, <1>2, <1>3, <2>1 DEF Kept, StaysTrue, Image, Fits
  <2>2. CASE Steady /\ ~PendingImage /\ Fits(rec, slot[NextBoot])
    <3>1. Fits(rec', slot'[NextBoot'])
      BY <1>1, <1>2, <2>2
    <3>2. Fits(rec', Image')
      BY <1>1, <1>2, <2>2 DEF Image
    <3>. QED  BY <1>2, <2>2, <3>1, <3>2 DEF Kept, StaysTrue, Fits
  <2>. QED  BY <2>1, <2>2 DEF OutcomeInv, TruthInv, Kept, StaysTrue
<1>7. TruthInv'
  BY <1>1, <1>6 DEF TruthInv
<1>. QED  BY <1>1, <1>4, <1>5, <1>7 DEF OutcomeInv, Proper

\* begin takes up the record, or finds out how the attempt ended.
LEMMA BeginStep ==
  ASSUME TypeInv, OutcomeInv, BeginWithoutRecord \/ BeginSettled \/ BeginPending
  PROVE  OutcomeInv'
<1>1. /\ mode = "begin" /\ pc = "idle" /\ UNCHANGED <<slot, entry, latest, running>>
  BY DEF BeginWithoutRecord, BeginSettled, BeginPending, flashVars
<1>2. /\ Image' = Image /\ PendingImage' = PendingImage
      /\ Steady' = Steady /\ NextBoot' = NextBoot
  BY <1>1, FlashStays
<1>3. rec \in Records /\ Proper(rec) /\ Image # NoImage
      /\ (entry[running] = "new" => rec.target # Image)
  BY DEF TypeInv, OutcomeInv, RunInv
\* An outcome that stays in the store stays true.
<1>4. rec' = rec => (rec'.state \in Outcomes =>
                       Kept(rec)' /\ (~PendingImage' => Fits(rec', Image')))
  BY <1>1, <1>2 DEF OutcomeInv, TruthInv, Kept
\* The image is rejected.
<1>5. ASSUME mode' = "begin", pc' = "reject", PendingImage, Proper(rec)', Proper(ram)',
             ram'.target \in {rec.target, NoImage},
             rec' = rec \/ (rec'.state = "Failed" /\ rec'.target = rec.target)
      PROVE  OutcomeInv'
  <2>1. ControlInv'
    BY <1>2, <1>5 DEF ControlInv, Installing
  <2>2. RunInv'
    BY <1>1, <1>2, <1>3, <1>5 DEF RunInv
  <2>3. TruthInv'
    BY <1>2, <1>4, <1>5 DEF TruthInv, Outcomes
  <2>. QED  BY <1>5, <2>1, <2>2, <2>3 DEF OutcomeInv
\* The device starts its services.
<1>6. ASSUME mode' = "normal", pc' = "idle", Proper(rec)', Proper(ram)',
             ram'.target \in {rec.target, NoImage},
             rec' = rec \/ rec'.target = rec.target,
             \A r \in {rec', ram'} : r.state \in Outcomes =>
               ~PendingImage /\ Fits(r, Image)
                 /\ StaysTrue(r, slot, Steady /\ ~PendingImage, NextBoot)
      PROVE  OutcomeInv'
  <2>1. ControlInv'
    BY <1>6 DEF ControlInv, Installing
  <2>2. RunInv'
    BY <1>1, <1>2, <1>3, <1>6 DEF RunInv
  <2>3. TruthInv'
    BY <1>1, <1>2, <1>6 DEF TruthInv, Kept
  <2>. QED  BY <1>6, <2>1, <2>2, <2>3 DEF OutcomeInv
<1>7. CASE BeginWithoutRecord
  <2>1. /\ rec' = rec /\ ram' = EmptyRecord
        /\ \/ PendingImage /\ pc' = "reject" /\ mode' = mode
           \/ ~PendingImage /\ mode' = "normal" /\ pc' = pc
    BY <1>7 DEF BeginWithoutRecord, nvsVars
  <2>2. Proper(rec)' /\ Proper(ram)' /\ ram'.target = NoImage /\ ram'.state \notin Outcomes
    BY <1>3, <2>1 DEF Proper, EmptyRecord, Outcomes, Idle
  <2>3. CASE PendingImage
    BY <1>1, <1>5, <2>1, <2>2, <2>3
  <2>4. CASE ~PendingImage
    <3>1. rec.state \in Outcomes => Fits(rec, Image) /\ Kept(rec)
      BY <1>1, <2>4 DEF OutcomeInv, TruthInv
    <3>. QED  BY <1>1, <1>6, <2>1, <2>2, <2>4, <3>1 DEF Kept
  <2>. QED  BY <2>3, <2>4
<1>8. CASE BeginSettled /\ PendingImage
  <2>1. Persist(rec, "Failed", FALSE) /\ pc' = "reject" /\ mode' = mode
    BY <1>8 DEF BeginSettled, initiatePostBootRollback
  <2>2. "Failed" \in States \ {Idle} /\ "Failed" \notin Outcomes
    BY DEF States, Idle, Outcomes
  <2>3. /\ Proper(rec)' /\ Proper(ram)' /\ ram'.target = rec.target
        /\ rec' = rec \/ (rec'.state = "Failed" /\ rec'.target = rec.target)
    BY <1>3, <2>1, <2>2, PersistProper
  <2>. QED  BY <1>1, <1>5, <1>8, <2>1, <2>3
<1>9. CASE BeginSettled /\ ~PendingImage
  <2>1. rec' = rec /\ ram' = rec /\ mode' = "normal" /\ pc' = pc
    BY <1>9 DEF BeginSettled
  <2>2. rec.state \in Outcomes => Fits(rec, Image) /\ Kept(rec)
    BY <1>1, <1>9 DEF OutcomeInv, TruthInv
  <2>3. Proper(rec)' /\ Proper(ram)'
    BY <1>3, <2>1 DEF Proper
  <2>. QED  BY <1>1, <1>6, <1>9, <2>1, <2>2, <2>3 DEF Kept
<1>10. CASE BeginPending
  <2>1. rec.pending /\ rec.state \notin Outcomes /\ rec.key # 0
    BY <1>3, <1>10 DEF BeginPending, Proper
  <2>. DEFINE action == classifyPostBoot(PendingImage, "Healthy", Image, rec)
              matches == rec.pending /\ rec.target # NoImage /\ Image = rec.target
  <2>p. PendingImage \in BOOLEAN
    BY DEF PendingImage
  <2>2. /\ action = "Rollback" => PendingImage
        /\ action = "Validate" => Image = rec.target
        /\ action = "ReportRollback" => ~PendingImage /\ Image # rec.target
    <3>1. CASE PendingImage
      <4>1. PendingImage = TRUE
        BY <2>p, <3>1
      <4>2. action \in {"Rollback", "Validate"}
        BY <4>1 DEF classifyPostBoot
      <4>3. action = "Validate" => Image = rec.target
        BY <4>1, ValidateMeans
      <4>. QED  BY <3>1, <4>2, <4>3
    <3>2. CASE ~PendingImage
      <4>1. PendingImage = FALSE
        BY <2>p, <3>2
      <4>2. action = IF matches THEN "Validate"
                     ELSE IF Image = rec.prev THEN "ReportRollback" ELSE "FailUnexpectedImage"
        BY <2>1, <4>1 DEF classifyPostBoot
      <4>3. ~matches => Image # rec.target
        BY <1>3, <2>1
      <4>. QED  BY <3>2, <4>2, <4>3
    <3>. QED  BY <3>1, <3>2
  <2>. HIDE DEF action
  <2>3. \/ action = "Validate" /\ PendingImage /\ Persist(rec, "PostBootValidation", TRUE)
             /\ mode' = "observe" /\ pc' = pc
        \/ action = "Validate" /\ ~PendingImage /\ Persist(rec, "Validated", FALSE)
             /\ mode' = "normal" /\ pc' = pc
        \/ action = "ReportRollback" /\ Persist(rec, "RolledBack", FALSE)
             /\ mode' = "normal" /\ pc' = pc
        \/ action = "Rollback" /\ Persist(rec, "Failed", TRUE) /\ mode' = mode /\ pc' = "reject"
        \/ Persist(rec, "Failed", TRUE) /\ mode' = "normal" /\ pc' = pc
    BY <1>10 DEF BeginPending, initiatePostBootRollback, action
  <2>4. /\ {"PostBootValidation", "Validated", "RolledBack", "Failed"} \subseteq States \ {Idle}
        /\ {"PostBootValidation", "Failed"} \cap Outcomes = {}
    BY DEF States, Idle, Outcomes
  \* Whatever is written, it is proper and names the same image.
  <2>5. ASSUME NEW state \in {"PostBootValidation", "Validated", "RolledBack", "Failed"},
               NEW pending \in BOOLEAN, state \in Outcomes => ~pending,
               Persist(rec, state, pending)
        PROVE  /\ Proper(rec)' /\ Proper(ram)' /\ ram'.target = rec.target
               /\ rec' = rec \/ (rec'.state = state /\ rec'.target = rec.target)
               /\ ram' = rec \/ (ram'.state = state /\ ram'.target = rec.target)
    BY <1>3, <2>4, <2>5, PersistProper
  <2>6. CASE action = "Validate" /\ PendingImage /\ Persist(rec, "PostBootValidation", TRUE)
             /\ mode' = "observe" /\ pc' = pc
    <3>1. /\ Proper(rec)' /\ Proper(ram)' /\ ram'.target = rec.target
          /\ rec' = rec \/ (rec'.state = "PostBootValidation" /\ rec'.target = rec.target)
          /\ ram' = rec \/ (ram'.state = "PostBootValidation" /\ ram'.target = rec.target)
      BY <2>4, <2>5, <2>6
    <3>2. rec'.state \notin Outcomes /\ ram'.state \notin Outcomes
      BY <2>1, <2>4, <3>1
    <3>3. ControlInv'
      BY <1>1, <2>6, <3>2 DEF ControlInv, Installing
    <3>4. RunInv'
      BY <1>1, <1>2, <1>3, <2>6, <3>1 DEF RunInv
    <3>5. TruthInv'
      BY <3>2 DEF TruthInv
    <3>. QED  BY <3>1, <3>3, <3>4, <3>5 DEF OutcomeInv
  <2>7. ASSUME NEW state \in {"Validated", "RolledBack", "Failed"}, NEW pending \in BOOLEAN,
               state \in Outcomes => ~pending, Persist(rec, state, pending),
               state = "Validated" => ~PendingImage /\ Image = rec.target,
               state = "RolledBack" => ~PendingImage /\ Image # rec.target,
               mode' = "normal", pc' = pc
        PROVE  OutcomeInv'
    <3>1. /\ Proper(rec)' /\ Proper(ram)' /\ ram'.target = rec.target
          /\ rec' = rec \/ (rec'.state = state /\ rec'.target = rec.target)
          /\ ram' = rec \/ (ram'.state = state /\ ram'.target = rec.target)
      BY <2>5, <2>7
    <3>2. ASSUME NEW r \in {rec', ram'}, r.state \in Outcomes
          PROVE  /\ ~PendingImage /\ Fits(r, Image)
                 /\ StaysTrue(r, slot, Steady /\ ~PendingImage, NextBoot)
      <4>1. r.state = state /\ r.target = rec.target /\ state # "Failed"
        BY <2>1, <2>4, <3>1, <3>2
      <4>2. ~PendingImage /\ Fits(r, Image)
        BY <2>7, <4>1 DEF Fits
      <4>3. CASE Steady /\ NextBoot = running
        BY <4>2, <4>3 DEF StaysTrue, Image
      <4>4. CASE slot[Other(running)] = NoImage
        <5>1. \A s \in Slots : s = running \/ s = Other(running)
          BY DEF Slots, Other, TypeInv
        <5>. QED  BY <4>2, <4>4, <5>1 DEF StaysTrue, Image
      <4>. QED  BY <1>1, <4>2, <4>3, <4>4 DEF OutcomeInv, RunInv
    <3>. QED  BY <1>1, <1>6, <2>7, <3>1, <3>2
  <2>8. CASE action = "Rollback" /\ Persist(rec, "Failed", TRUE) /\ mode' = mode
             /\ pc' = "reject"
    <3>1. /\ Proper(rec)' /\ Proper(ram)' /\ ram'.target = rec.target
          /\ rec' = rec \/ (rec'.state = "Failed" /\ rec'.target = rec.target)
      BY <2>4, <2>5, <2>8
    <3>. QED  BY <1>1, <1>5, <2>2, <2>8, <3>1
  <2>9. CASE action = "Validate" /\ ~PendingImage /\ Persist(rec, "Validated", FALSE)
             /\ mode' = "normal" /\ pc' = pc
    BY <2>2, <2>7, <2>9
  <2>10. CASE action = "ReportRollback" /\ Persist(rec, "RolledBack", FALSE)
              /\ mode' = "normal" /\ pc' = pc
    BY <2>2, <2>7, <2>10
  <2>11. CASE Persist(rec, "Failed", TRUE) /\ mode' = "normal" /\ pc' = pc
    BY <2>4, <2>7, <2>11
  <2>. QED  BY <2>3, <2>6, <2>8, <2>9, <2>10, <2>11
<1>. QED  BY <1>7, <1>8, <1>9, <1>10

\* Steps that leave the partitions and the running image.
LEMMA QuietStep ==
  ASSUME TypeInv, OutcomeInv, UNCHANGED <<slot, entry, latest, running>>,
         mode' \notin {"off", "begin"}, Proper(rec)', Proper(ram)', ControlInv',
         rec' = rec \/ rec'.target = ram.target \/ rec'.target # Image,
         ram'.target = ram.target \/ ram'.target # Image,
         rec'.state \in Outcomes => \/ rec' = rec
                                    \/ StaysTrue(rec', slot, Steady /\ ~PendingImage, NextBoot),
         ram'.state \in Outcomes /\ mode' \in {"normal", "blocked"} =>
           /\ StaysTrue(ram', slot, Steady /\ ~PendingImage, NextBoot)
           /\ Fits(ram', Image) /\ ~PendingImage
  PROVE  OutcomeInv'
<1>1. /\ Image' = Image /\ PendingImage' = PendingImage
      /\ Steady' = Steady /\ NextBoot' = NextBoot
  BY FlashStays
<1>2. RunInv'
  BY <1>1 DEF RunInv, OutcomeInv
<1>3. rec'.state \in Outcomes => Kept(rec)'
  BY <1>1 DEF OutcomeInv, TruthInv, Kept
<1>4. TruthInv'
  BY <1>1, <1>3 DEF TruthInv, Kept
<1>. QED  BY <1>2, <1>4 DEF OutcomeInv

\* The steps that save another state of the attempt than its outcome.
LEMMA SavingSteps ==
  ASSUME TypeInv, PlaceInv, OutcomeInv, [Next]_vars, ~Boot,
         Schedule \/ PartitionWritten \/ Arm \/ Commit \/ FailClosed \/ DownloadFailed
  PROVE  OutcomeInv'
<1>. USE DEF flashVars
<1>1. running' = running /\ Image' = Image
  BY ImageStays
<1>2. /\ pc \notin {"idle", "reject", "mark", "marked", "uncheckpointed"}
      /\ pc' \notin {"reject", "mark", "marked", "uncheckpointed"}
      /\ pc' \in Installing => pc \in Installing
      /\ mode' = mode /\ entry' = entry
  BY DEF Schedule, PartitionWritten, Arm, Commit, FailClosed, DownloadFailed, Installing
<1>3. mode \notin {"off", "begin"}
  BY <1>2 DEF TypeInv
<1>4. \/ UNCHANGED <<rec, ram>>
      \/ \E state \in {"WaitingForSchedule", "DownloadStarting", "PartitionWritten",
                       "RebootPending", "Rebooting", "Failed"}, pending \in BOOLEAN :
           Persist(ram, state, pending)
  BY DEF Schedule, PartitionWritten, Arm, Commit, FailClosed, DownloadFailed, TypeInv
<1>5. ram \in Records /\ Proper(rec) /\ Proper(ram) /\ ram.state \notin Outcomes
  BY <1>2 DEF TypeInv, OutcomeInv, ControlInv
<1>6. /\ Proper(rec)' /\ Proper(ram)' /\ ram'.state \notin Outcomes
      /\ ram'.target = ram.target
      /\ rec' = rec \/ (rec'.state \notin Outcomes /\ rec'.target = ram.target)
  <2>1. CASE UNCHANGED <<rec, ram>>
    BY <1>5, <2>1 DEF Proper
  <2>2. ASSUME NEW state \in {"WaitingForSchedule", "DownloadStarting", "PartitionWritten",
                              "RebootPending", "Rebooting", "Failed"},
               NEW pending \in BOOLEAN, Persist(ram, state, pending)
        PROVE  /\ Proper(rec)' /\ Proper(ram)' /\ ram'.state \notin Outcomes
               /\ ram'.target = ram.target
               /\ rec' = rec \/ (rec'.state \notin Outcomes /\ rec'.target = ram.target)
    <3>1. state \in States \ {Idle} /\ state \notin Outcomes
      BY StateNames DEF Outcomes
    <3>2. /\ Proper(rec)' /\ Proper(ram)' /\ ram'.target = ram.target
          /\ rec' = rec \/ (rec'.state = state /\ rec'.target = ram.target)
          /\ ram' = ram \/ ram'.state = state
      BY <1>5, <2>2, <3>1, PersistProper
    <3>. QED  BY <1>5, <3>1, <3>2
  <2>. QED  BY <1>4, <2>1, <2>2
<1>. QED  BY <1>1, <1>2, <1>3, <1>6, WorkflowStep

\* The other steps of the workflow that do not end in a restart.
LEMMA InstallingSteps ==
  ASSUME TypeInv, PlaceInv, OutcomeInv, [Next]_vars, ~Boot, mode' # "off",
         \/ Report \/ DownloadBegin \/ StreamChunk \/ DownloadFails \/ UpdateEnd
         \/ Restart \/ Restore \/ RollbackMark
  PROVE  OutcomeInv'
<1>. USE DEF flashVars, nvsVars
<1>1. running' = running /\ Image' = Image
  BY ImageStays
<1>t. /\ ram \in Records /\ Proper(rec) /\ Proper(ram) /\ running \in Slots
      /\ entry \in [Slots -> EntryStates]
  BY DEF TypeInv, OutcomeInv
<1>2. CASE Report
  <2>1. /\ pc \in Reporting /\ pc' = AfterReport[pc] /\ mode' = mode /\ entry' = entry
        /\ flushPendingReportWithLease
    BY <1>2, AfterReportIs DEF Report
  <2>2. pc' \in {"schedule", "download", "arm", "commit", "restart", "idle"}
    BY <2>1, AfterReportIs
  <2>3. /\ pc \notin {"idle", "reject", "mark", "marked", "uncheckpointed"}
        /\ pc \in Installing
    BY <2>1 DEF Reporting, Installing
  <2>4. /\ Proper(rec)' /\ Proper(ram)'
        /\ ram'.state = ram.state /\ ram'.target = ram.target
        /\ rec' = rec \/ (rec'.state = ram.state /\ rec'.target = ram.target)
    BY <1>t, <2>1, FlushProper
  <2>5. ram.state \notin Outcomes
    BY <2>3 DEF OutcomeInv, ControlInv
  <2>6. mode \notin {"off", "begin"}
    BY <2>3 DEF TypeInv
  <2>. QED  BY <1>1, <2>1, <2>2, <2>3, <2>4, <2>5, <2>6, WorkflowStep
<1>3. CASE ~Report
  <2>1. /\ pc \notin {"idle", "reject", "mark", "marked", "uncheckpointed"}
        /\ pc' \notin {"reject", "mark", "marked", "uncheckpointed"}
        /\ pc' \in Installing => pc \in Installing
        /\ mode' = mode /\ UNCHANGED <<rec, ram>>
    BY <1>3 DEF DownloadBegin, StreamChunk, DownloadFails, UpdateEnd, Restart, Restore,
       RollbackMark, ForgetMemory, MarkInvalid, Installing
  <2>2. mode \notin {"off", "begin"}
    BY <2>1 DEF TypeInv
  <2>3. entry'[running] = "new" => entry[running] = "new" \/ pc \in Installing
    <3>1. CASE UpdateEnd
      <4>1. entry' = [entry EXCEPT ![Target] = "new"] /\ Target # running
        BY <3>1, Numbers DEF UpdateEnd, Select
      <4>. QED  BY <1>t, <4>1
    <3>2. CASE Restore
      BY <3>2 DEF Restore, Installing
    <3>3. CASE ~UpdateEnd /\ ~Restore
      BY <1>3, <3>3 DEF DownloadBegin, StreamChunk, DownloadFails, Restart, RollbackMark,
         MarkInvalid, ForgetMemory
    <3>. QED  BY <3>1, <3>2, <3>3
  <2>4. Proper(rec)' /\ Proper(ram)'
    BY <1>t, <2>1 DEF Proper
  <2>5. ram'.state \notin Outcomes
    BY <2>1 DEF OutcomeInv, ControlInv
  <2>. QED  BY <1>1, <2>1, <2>2, <2>3, <2>4, <2>5, WorkflowStep
<1>. QED  BY <1>2, <1>3

\* A restart, wanted or not, and the marks that lead to one.
LEMMA GoingDown ==
  ASSUME TypeInv, PlaceInv, OutcomeInv, mode' = "off",
         PowerLoss \/ Restart \/ Reject \/ RollbackMark
  PROVE  OutcomeInv'
<1>. USE DEF flashVars, nvsVars
<1>t. entry \in [Slots -> EntryStates] /\ running \in Slots
  BY DEF TypeInv
<1>m. pc = "restart" \/ pc = "rollback" => mode # "off"
  BY DEF TypeInv
<1>1. /\ pc' = "idle" /\ ram' = EmptyRecord /\ UNCHANGED <<rec, slot, running>>
      /\ entry' = entry \/ entry' = [entry EXCEPT ![Active] = "invalid"]
  BY <1>m DEF PowerLoss, Restart, Reject, RollbackMark, ForgetMemory, MarkInvalid
<1>2. entry'[running] = "new" => entry[running] = "new"
  BY <1>t, <1>1
<1>3. ASSUME rec.state \in Outcomes PROVE Kept(rec)'
  <2>1. Kept(rec)
    BY <1>3 DEF OutcomeInv, TruthInv
  <2>2. CASE PowerLoss \/ Restart
    <3>1. UNCHANGED <<slot, entry, latest, running>>
      BY <2>2 DEF PowerLoss, Restart
    <3>2. PendingImage' = PendingImage /\ Steady' = Steady /\ NextBoot' = NextBoot
      BY <3>1, FlashStays
    <3>. QED  BY <1>1, <2>1, <3>2 DEF Kept
  <2>3. CASE Reject \/ RollbackMark
    <3>1. pc \in {"reject", "rollback"}
      BY <2>3 DEF Reject, RollbackMark
    <3>2. PendingImage
      BY <1>3, <3>1 DEF OutcomeInv, ControlInv
    <3>. QED  BY <1>1, <2>1, <3>2 DEF Kept, StaysTrue
  <2>. QED  BY <2>2, <2>3
<1>. QED  BY <1>1, <1>2, <1>3, DownStep

\* An image that was marked valid as the selected one is started every time.
LEMMA MarkedIsSteady ==
  ASSUME TypeInv, Active = running, entry[running] = "valid", Image # NoImage
  PROVE  Steady /\ NextBoot = running /\ ~PendingImage
<1>1. latest \in Slots /\ running \in Slots /\ Nobody \notin Slots
      /\ \A s \in Slots : Other(s) \in Slots /\ Other(s) # s
  BY DEF TypeInv, Slots, Other, Nobody
<1>2. /\ \A s \in Slots : Usable(Restarted, s) => Usable(entry, s)
      /\ Restarted[running] = "valid"
  BY <1>1 DEF Usable, Restarted
<1>3. Usable(Restarted, running)
  BY <1>2 DEF Usable
<1>4. Chosen = running
  BY <1>1, <1>2, <1>3 DEF Active, Chosen, Selected
<1>. QED  BY <1>1, <1>2, <1>4 DEF Steady, First, NextBoot, Image, PendingImage

\* The observation ends: the image stays unvalidated or is to be marked.
LEMMA ObservationStep ==
  ASSUME TypeInv, PlaceInv, OutcomeInv, CheckRunningImage
  PROVE  OutcomeInv'
<1>. USE DEF flashVars
<1>1. /\ mode = "observe" /\ UNCHANGED <<slot, entry, latest, running>>
      /\ ram \in Records /\ flag \in BOOLEAN /\ Proper(rec) /\ Proper(ram)
      /\ rec.state \notin Outcomes /\ ram.state \notin Outcomes
  BY DEF CheckRunningImage, TypeInv, OutcomeInv, ControlInv
<1>2. Image' = Image /\ Active' = Active /\ PendingImage' = PendingImage
  BY <1>1, FlashStays
<1>3. /\ {"Failed", "PostBootValidation"} \subseteq States \ {Idle}
      /\ {"Failed", "PostBootValidation"} \cap Outcomes = {}
  BY StateNames DEF Outcomes
\* What is saved, and where the boot task goes.
<1>4. ASSUME UNCHANGED <<rec, ram>> \/ Persist(ram, "Failed", flag)
               \/ Persist(ram, "PostBootValidation", flag)
      PROVE  /\ Proper(rec)' /\ Proper(ram)' /\ ram'.target = ram.target
             /\ rec' = rec \/ rec'.target = ram.target
             /\ rec'.state \notin Outcomes /\ ram'.state \notin Outcomes
  <2>1. CASE UNCHANGED <<rec, ram>>
    BY <1>1, <2>1 DEF Proper
  <2>2. ASSUME NEW state \in {"Failed", "PostBootValidation"}, Persist(ram, state, flag)
        PROVE  /\ Proper(rec)' /\ Proper(ram)' /\ ram'.target = ram.target
               /\ rec' = rec \/ rec'.target = ram.target
               /\ rec'.state \notin Outcomes /\ ram'.state \notin Outcomes
    <3>1. /\ Proper(rec)' /\ Proper(ram)' /\ ram'.target = ram.target
          /\ rec' = rec \/ (rec'.state = state /\ rec'.target = ram.target)
          /\ ram' = ram \/ ram'.state = state
      BY <1>1, <1>3, <2>2, PersistProper
    <3>. QED  BY <1>1, <1>3, <3>1
  <2>. QED  BY <1>4, <2>1, <2>2
<1>5. ASSUME UNCHANGED <<rec, ram>> \/ Persist(ram, "Failed", flag)
               \/ Persist(ram, "PostBootValidation", flag),
             mode' \in {"observe", "normal", "blocked"}, ControlInv'
      PROVE  OutcomeInv'
  BY <1>1, <1>4, <1>5, QuietStep
<1>6. CASE /\ pc \notin {"idle", "reject", "uncheckpointed", "mark", "marked"}
           /\ mode' = "blocked" /\ UNCHANGED <<rec, ram, pc>>
  <2>1. ControlInv'
    BY <1>1, <1>2, <1>6 DEF ControlInv, OutcomeInv
  <2>. QED  BY <1>5, <1>6, <2>1
<1>7. CASE pc = "idle" /\ mode' \in {"normal", "blocked"} /\ UNCHANGED pc
           /\ (UNCHANGED <<rec, ram>> \/ Persist(ram, "Failed", flag))
  <2>1. ControlInv'
    BY <1>7 DEF ControlInv, Installing
  <2>. QED  BY <1>5, <1>7, <2>1
<1>8. CASE pc = "idle" /\ PendingImage /\ Persist(ram, "Failed", flag) /\ pc' = "reject"
           /\ mode' = mode
  <2>1. ControlInv'
    BY <1>1, <1>2, <1>4, <1>8 DEF ControlInv, Installing
  <2>. QED  BY <1>1, <1>5, <1>8, <2>1
<1>9. CASE /\ pc = "idle" /\ PendingImage /\ Persist(ram, "PostBootValidation", flag)
           /\ pc' \in {"mark", "uncheckpointed"} /\ mode' = mode
           /\ \E health \in Verdicts :
                classifyPostBoot(TRUE, health, Image, ram) = "Validate"
  <2>1. Image = ram.target
    BY <1>9, ValidateMeans
  <2>2. Active = running
    BY <1>1, <1>9, <2>1 DEF PlaceInv, Expected
  <2>3. ControlInv'
    BY <1>1, <1>2, <1>4, <1>9, <2>1, <2>2 DEF ControlInv, Installing
  <2>. QED  BY <1>1, <1>5, <1>9, <2>3
<1>. QED
  BY <1>6, <1>7, <1>8, <1>9 DEF CheckRunningImage, initiatePostBootRollback

\* The mark, its record and the ways in which they fail.
LEMMA MarkStep ==
  ASSUME TypeInv, PlaceInv, OutcomeInv, mode' # "off",
         RejectUncheckpointed \/ MarkValid \/ MarkValidFails \/ SaveValidated \/ Reject
  PROVE  OutcomeInv'
<1>. USE DEF flashVars, nvsVars
<1>t. /\ ram \in Records /\ rec \in Records /\ flag \in BOOLEAN /\ Proper(rec) /\ Proper(ram)
      /\ entry \in [Slots -> EntryStates] /\ running \in Slots /\ latest \in Slots
      /\ Image # NoImage
  BY DEF TypeInv, OutcomeInv, RunInv
<1>n. {"idle", "reject", "mark", "marked", "uncheckpointed"} \cap Installing = {}
  BY DEF Installing
<1>1. CASE RejectUncheckpointed
  <2>1. /\ pc = "uncheckpointed" /\ mode = "observe" /\ mode' = mode /\ pc' = "reject"
        /\ UNCHANGED <<slot, entry, latest, running>> /\ Persist(ram, "Failed", flag)
        /\ PendingImage /\ rec.state \notin Outcomes /\ ram.state \notin Outcomes
    BY <1>1 DEF RejectUncheckpointed, initiatePostBootRollback, OutcomeInv, ControlInv
  <2>2. "Failed" \in States \ {Idle} /\ "Failed" \notin Outcomes
    BY StateNames DEF Outcomes
  <2>3. /\ Proper(rec)' /\ Proper(ram)' /\ ram'.target = ram.target
        /\ rec' = rec \/ (rec'.state = "Failed" /\ rec'.target = ram.target)
        /\ ram' = ram \/ ram'.state = "Failed"
    BY <1>t, <2>1, <2>2, PersistProper
  <2>4. rec'.state \notin Outcomes /\ ram'.state \notin Outcomes
    BY <2>1, <2>2, <2>3
  <2>5. PendingImage'
    BY <2>1, FlashStays
  <2>6. ControlInv'
    BY <1>n, <2>1, <2>4, <2>5 DEF ControlInv
  <2>. QED  BY <2>1, <2>3, <2>4, <2>6, QuietStep
<1>2. CASE MarkValidFails
  <2>1. /\ pc = "mark" /\ mode = "observe" /\ mode' = mode /\ pc' = "uncheckpointed"
        /\ UNCHANGED <<slot, entry, latest, running, rec, ram>>
        /\ PendingImage /\ rec.state \notin Outcomes /\ ram.state \notin Outcomes
    BY <1>2 DEF MarkValidFails, OutcomeInv, ControlInv
  <2>2. PendingImage' /\ Proper(rec)' /\ Proper(ram)'
    BY <1>t, <2>1, FlashStays DEF Proper
  <2>3. ControlInv'
    BY <1>n, <2>1, <2>2 DEF ControlInv
  <2>. QED  BY <2>1, <2>2, <2>3, QuietStep
<1>3. CASE MarkValid
  <2>1. /\ pc = "mark" /\ mode = "observe" /\ mode' = mode /\ pc' = "marked" /\ flag' = FALSE
        /\ UNCHANGED <<slot, latest, running, rec, ram>>
        /\ entry' = [entry EXCEPT ![running] = "valid"]
        /\ Active = running /\ ram.target = Image
        /\ rec.state \notin Outcomes /\ ram.state \notin Outcomes
    BY <1>3 DEF MarkValid, OutcomeInv, ControlInv
  <2>2. entry'[running] = "valid" /\ \A s \in Slots : s # running => entry'[s] = entry[s]
    BY <1>t, <2>1
  <2>3. Active' = running'
    <3>1. /\ \A s \in Slots : Other(s) \in Slots /\ Other(s) # s
          /\ latest = running \/ Other(latest) = running
      BY <1>t DEF Slots, Other
    <3>2. Usable(entry', running) /\ \A s \in Slots : s # running =>
            (Usable(entry', s) <=> Usable(entry, s))
      BY <2>2 DEF Usable
    <3>3. Nobody # running
      BY <1>t DEF Nobody, Slots
    <3>. QED  BY <1>t, <2>1, <3>1, <3>2, <3>3 DEF Active, Selected
  <2>4. Image' = Image
    BY <2>1 DEF Image
  <2>5. ControlInv'
    BY <1>n, <2>1, <2>2, <2>3, <2>4 DEF ControlInv
  <2>6. RunInv'
    BY <1>t, <2>1, <2>2, <2>4 DEF RunInv
  <2>7. TruthInv'
    BY <2>1 DEF TruthInv
  <2>8. Proper(rec)' /\ Proper(ram)'
    BY <1>t, <2>1 DEF Proper
  <2>. QED  BY <2>5, <2>6, <2>7, <2>8 DEF OutcomeInv
<1>4. CASE SaveValidated
  <2>1. /\ pc = "marked" /\ mode' \in {"normal", "blocked"} /\ pc' = "idle"
        /\ UNCHANGED <<slot, entry, latest, running>> /\ Persist(ram, "Validated", flag)
        /\ Active = running /\ ram.target = Image /\ entry[running] = "valid" /\ ~flag
        /\ rec.state \notin Outcomes /\ ram.state \notin Outcomes
    BY <1>4 DEF SaveValidated, OutcomeInv, ControlInv
  <2>2. Steady /\ NextBoot = running /\ ~PendingImage
    BY <1>t, <2>1, MarkedIsSteady
  <2>3. "Validated" \in States \ {Idle}
    BY StateNames
  <2>4. /\ Proper(rec)' /\ Proper(ram)' /\ ram'.target = ram.target
        /\ rec' = rec \/ (rec'.state = "Validated" /\ rec'.target = ram.target)
        /\ ram' = ram \/ ram'.state = "Validated"
    BY <1>t, <2>1, <2>3, PersistProper
  <2>5. ASSUME NEW r, r.state = "Validated", r.target = Image
        PROVE  Fits(r, Image) /\ StaysTrue(r, slot, Steady /\ ~PendingImage, NextBoot)
    BY <2>2, <2>5 DEF Fits, StaysTrue, Image
  <2>6. ControlInv'
    BY <1>n, <2>1 DEF ControlInv
  <2>7. rec'.state \in Outcomes => StaysTrue(rec', slot, Steady /\ ~PendingImage, NextBoot)
    BY <2>1, <2>4, <2>5
  <2>8. ram'.state \in Outcomes =>
          Fits(ram', Image) /\ StaysTrue(ram', slot, Steady /\ ~PendingImage, NextBoot)
    BY <2>1, <2>4, <2>5
  <2>. QED  BY <2>1, <2>2, <2>4, <2>6, <2>7, <2>8, QuietStep
<1>5. CASE Reject
  <2>1. /\ pc = "reject" /\ pc' = "idle" /\ UNCHANGED <<slot, entry, latest, running, rec, ram>>
        /\ \/ mode' = "restricted"
           \/ mode' = "blocked" /\ mode = "observe"
    BY <1>5 DEF Reject, MarkInvalid, ForgetMemory, OutcomeInv, ControlInv
  <2>2. mode' = "blocked" => ram.state \notin Outcomes
    BY <2>1 DEF OutcomeInv, ControlInv
  <2>3. ControlInv'
    BY <1>n, <2>1 DEF ControlInv
  <2>4. Proper(rec)' /\ Proper(ram)'
    BY <1>t, <2>1 DEF Proper
  <2>. QED  BY <2>1, <2>2, <2>3, <2>4, QuietStep
<1>. QED  BY <1>1, <1>2, <1>3, <1>4, <1>5

\* A new attempt, an operator's order and a report take up an idle device.
LEMMA RequestStep ==
  ASSUME TypeInv, PlaceInv, OutcomeInv,
         ApplyManifest \/ RollbackAndReboot \/ FlushPendingReport
  PROVE  OutcomeInv'
<1>. USE DEF flashVars
<1>1. /\ UNCHANGED <<slot, entry, latest, running, mode>> /\ pc = "idle"
      /\ mode \in {"observe", "normal", "blocked", "restricted"}
      /\ ram \in Records /\ rec \in Records /\ Proper(rec) /\ Proper(ram)
  BY DEF ApplyManifest, RollbackAndReboot, FlushPendingReport, TypeInv, OutcomeInv
<1>2. Image' = Image
  BY <1>1, FlashStays
<1>3. mode = "observe" => rec.state \notin Outcomes /\ ram.state \notin Outcomes
  BY DEF OutcomeInv, ControlInv
\* The outcome in memory, where the services run.
<1>4. ram.state \in Outcomes /\ mode \in {"normal", "blocked"} =>
        /\ StaysTrue(ram, slot, Steady /\ ~PendingImage, NextBoot)
        /\ Fits(ram, Image) /\ ~PendingImage
  BY DEF OutcomeInv, TruthInv, Kept
<1>5. CASE ApplyManifest
  <2>1. PICK k \in Keys :
          /\ validatePolicy(Offers[k])
          /\ Persist(FreshRecord(k), "ManifestAuthenticated", FALSE)
          /\ pc' = IF Stored(FreshRecord(k)) THEN "authenticated" ELSE "idle"
    BY <1>5 DEF ApplyManifest, fetchText
  <2>2. /\ FreshRecord(k) \in Records /\ FreshRecord(k).target = Offers[k].image
        /\ FreshRecord(k).key = k /\ FreshRecord(k).state = Idle
    BY <1>1, Numbers, FreshFields
  <2>3. Offers[k].image # Image
    <3>1. PICK n \in Nat : n = Image
      BY Numbers
    <3>2. PICK o \in Nat : o = Offers[k].image
      BY OtaAssumption DEF Keys
    <3>3. o > n => o # n
      OBVIOUS
    <3>. QED  BY <2>1, <3>1, <3>2, <3>3 DEF validatePolicy
  <2>4. Idle \notin Outcomes /\ "ManifestAuthenticated" \notin Outcomes
        /\ "ManifestAuthenticated" \in States \ {Idle}
    BY DEF Outcomes, Idle, States
  <2>5. Proper(FreshRecord(k))
    BY <2>2, <2>4 DEF Proper
  <2>6. /\ Proper(rec)' /\ Proper(ram)' /\ ram'.target = Offers[k].image
        /\ rec' = rec \/ (rec'.state = "ManifestAuthenticated" /\ rec'.target = Offers[k].image)
        /\ ram' = FreshRecord(k)
             \/ (ram'.state = "ManifestAuthenticated" /\ rec'.state = "ManifestAuthenticated")
        /\ ram' # FreshRecord(k) => rec'.target = Offers[k].image
    BY <1>1, <2>1, <2>2, <2>4, <2>5, PersistProper
  <2>7. ram'.state \notin Outcomes /\ (rec'.state \in Outcomes => rec' = rec)
    BY <2>2, <2>4, <2>6
  <2>8. ControlInv'
    <3>1. CASE pc' = "idle"
      BY <1>1, <1>3, <2>7, <3>1 DEF ControlInv, Installing
    <3>2. CASE pc' = "authenticated" /\ ram' # FreshRecord(k)
      BY <1>2, <2>3, <2>4, <2>6, <2>7, <3>2 DEF ControlInv
    <3>. QED  BY <2>1, <3>1, <3>2 DEF Stored
  <2>. QED  BY <1>1, <2>3, <2>6, <2>7, <2>8, QuietStep
<1>6. CASE RollbackAndReboot
  <2>. DEFINE c == Evolved(ram, "Rebooting", TRUE)
  <2>1. /\ c.key = ram.key /\ c.target = ram.target /\ c.state = "Rebooting"
        /\ "Rebooting" \notin Outcomes
    <3>1. "Rebooting" \in States /\ TRUE \in BOOLEAN
      BY DEF States
    <3>. QED  BY <1>1, <3>1, EvolvedFields DEF Outcomes
  <2>2. /\ ram.key # 0
        /\ \/ rec' = c /\ ram' = c /\ pc' = "rollback"
           \/ rec' \in {rec, c} /\ ram' = ram /\ pc' = pc
    BY <1>6 DEF RollbackAndReboot
  <2>. HIDE DEF c
  <2>3. Proper(c)
    BY <1>1, <2>1, <2>2 DEF Proper
  <2>4. Proper(rec)' /\ Proper(ram)'
    BY <1>1, <2>2, <2>3 DEF Proper
  <2>5. ControlInv'
    BY <1>1, <1>3, <2>1, <2>2 DEF ControlInv, Installing
  <2>6. /\ rec' = rec \/ rec'.target = ram.target
        /\ ram'.target = ram.target
        /\ rec'.state \in Outcomes => rec' = rec
        /\ ram'.state \in Outcomes => ram' = ram
    BY <2>1, <2>2
  <2>. QED  BY <1>1, <1>4, <2>4, <2>5, <2>6, QuietStep
<1>7. CASE FlushPendingReport
  <2>1. /\ mode \in {"observe", "normal", "blocked"} /\ pc' = pc
        /\ flushPendingReportWithLease
    BY <1>7 DEF FlushPendingReport
  <2>2. /\ Proper(rec)' /\ Proper(ram)'
        /\ ram'.state = ram.state /\ ram'.target = ram.target
        /\ rec' = rec \/ (rec'.state = ram.state /\ rec'.target = ram.target)
    BY <1>1, <2>1, FlushProper
  <2>3. ControlInv'
    BY <1>1, <1>3, <2>1, <2>2 DEF ControlInv, Installing
  <2>4. rec'.state \in Outcomes =>
          \/ rec' = rec
          \/ StaysTrue(rec', slot, Steady /\ ~PendingImage, NextBoot)
    <3>. SUFFICES ASSUME rec'.state \in Outcomes, rec' # rec
                  PROVE  StaysTrue(rec', slot, Steady /\ ~PendingImage, NextBoot)
      OBVIOUS
    <3>1. rec'.state = ram.state /\ rec'.target = ram.target
      BY <2>2
    <3>2. StaysTrue(ram, slot, Steady /\ ~PendingImage, NextBoot)
      BY <1>3, <1>4, <2>1, <3>1
    <3>. QED  BY <3>1, <3>2, SameOutcome
  <2>5. ram'.state \in Outcomes /\ mode' \in {"normal", "blocked"} =>
          /\ StaysTrue(ram', slot, Steady /\ ~PendingImage, NextBoot)
          /\ Fits(ram', Image) /\ ~PendingImage
    BY <1>1, <1>4, <2>2, SameOutcome
  <2>. QED  BY <1>1, <2>2, <2>3, <2>4, <2>5, QuietStep
<1>. QED  BY <1>5, <1>6, <1>7

\* Every step keeps what the reports of an outcome rest on.
LEMMA OutcomeStep ==
  ASSUME TypeInv, PlaceInv, OutcomeInv, [Next]_vars
  PROVE  OutcomeInv'
<1>1. CASE UNCHANGED vars
  <2>1. UNCHANGED <<slot, entry, latest, running, rec, ram, mode, pc, flag>>
    BY <1>1 DEF vars, flashVars, nvsVars, taskVars
  <2>2. /\ Image' = Image /\ Active' = Active /\ PendingImage' = PendingImage
        /\ Steady' = Steady /\ NextBoot' = NextBoot
    BY <2>1, FlashStays
  <2>. QED
    BY <2>1, <2>2 DEF OutcomeInv, Proper, ControlInv, RunInv, TruthInv, Kept
<1>2. CASE Boot
  BY <1>2, BootStep
<1>3. CASE BeginWithoutRecord \/ BeginSettled \/ BeginPending
  BY <1>3, BeginStep
<1>4. CASE CheckRunningImage
  BY <1>4, ObservationStep
<1>5. CASE ApplyManifest \/ RollbackAndReboot \/ FlushPendingReport
  BY <1>5, RequestStep
<1>6. CASE PowerLoss
  BY <1>6, GoingDown DEF PowerLoss, ForgetMemory
<1>7. CASE ~Boot /\ (Schedule \/ PartitionWritten \/ Arm \/ Commit \/ FailClosed \/ DownloadFailed)
  BY <1>7, SavingSteps
<1>8. CASE RejectUncheckpointed \/ MarkValid \/ MarkValidFails \/ SaveValidated
  <2>1. mode' # "off"
    <3>1. mode = "observe"
      BY <1>8 DEF RejectUncheckpointed, MarkValid, MarkValidFails, SaveValidated,
         OutcomeInv, ControlInv
    <3>. QED
      BY <1>8, <3>1 DEF RejectUncheckpointed, MarkValid, MarkValidFails, SaveValidated
  <2>. QED  BY <1>8, <2>1, MarkStep
<1>9. CASE Reject
  BY <1>9, GoingDown, MarkStep
<1>10. CASE Restart \/ RollbackMark
  <2>1. CASE mode' = "off"
    BY <1>10, <2>1, GoingDown
  <2>2. CASE mode' # "off" /\ ~Boot
    BY <1>10, <2>2, InstallingSteps
  <2>. QED  BY <1>2, <2>1, <2>2
<1>11. CASE Report \/ DownloadBegin \/ StreamChunk \/ DownloadFails \/ UpdateEnd \/ Restore
  <2>1. mode' = mode /\ pc \in Installing
    BY <1>11, AfterReportIs DEF Report, DownloadBegin, StreamChunk, DownloadFails, UpdateEnd,
       Restore, Reporting, Installing
  <2>2. mode # "off"
    BY <2>1 DEF TypeInv, Installing
  <2>. QED  BY <1>2, <1>11, <2>1, <2>2, InstallingSteps
<1>. QED
  BY <1>1, <1>2, <1>3, <1>4, <1>5, <1>6, <1>7, <1>8, <1>9, <1>10, <1>11
  DEF Next, Maintenance, BootTask

\* The outcome is reported for the state that says so.
LEMMA OwedOutcome ==
  ASSUME NEW r \in Records
  PROVE  /\ Owed(r) = "validated" => r.state = "Validated"
         /\ Owed(r) = "rolled_back" => r.state = "RolledBack"
<1>. DEFINE desired == reportMilestoneForState(r.state)
            next == Delivered(r.last) + 1
<1>1. r.state \in States
  BY RecordFields
<1>2. /\ desired = "validated" => r.state = "Validated"
      /\ desired = "rolled_back" => r.state = "RolledBack"
      /\ desired # "validated" => milestoneIndex(desired) <= 7
  <2>1. \A m : milestoneIndex(m) = 8 => m = "validated"
    <3>1. kInstallMilestones[8] = "validated"
      BY DEF kInstallMilestones
    <3>. QED  BY <3>1, IndexIs
  <2>2. milestoneIndex(desired) \in 0 .. 8
    BY IndexIs
  <2>3. desired # "validated" => milestoneIndex(desired) <= 7
    <3>. HIDE DEF desired
    <3>. QED  BY <2>1, <2>2
  <2>4. /\ desired = "validated" => r.state = "Validated"
        /\ desired = "rolled_back" => r.state = "RolledBack"
    BY <1>1 DEF reportMilestoneForState, States, Idle
  <2>. QED  BY <2>3, <2>4
<1>3. next \in 1 .. 9 /\ \A i \in 1 .. 7 : kInstallMilestones[i] # "validated"
  <2>1. Delivered(r.last) \in 0 .. 8
    BY DeliveredIs
  <2>2. \A i \in 1 .. 7 : kInstallMilestones[i] # "validated"
    BY DEF kInstallMilestones
  <2>. QED  BY <2>1, <2>2
<1>. HIDE DEF desired
<1>4. Owed(r) = nextReportMilestone(r.last, desired)
  BY DEF Owed, desired
<1>5. ASSUME Owed(r) = "validated" PROVE desired = "validated"
  <2>. SUFFICES ASSUME desired # "validated" PROVE FALSE
    OBVIOUS
  <2>1. PICK d \in 0 .. 8 : d = Delivered(r.last)
    BY DeliveredIs
  <2>2. PICK n \in 0 .. 8 : n = milestoneIndex(desired)
    BY IndexIs
  <2>3. n <= 7 /\ milestoneIndex("rebooting") = 6
    BY <1>2, <2>2, DeliveredIs
  <2>4. kInstallMilestones[d + 1] = "validated" /\ (d < 6 \/ ~(d >= n))
    BY <1>4, <1>5, <2>1, <2>2, <2>3 DEF nextReportMilestone
  <2>5. d + 1 \in 1 .. 7
    BY <2>2, <2>3, <2>4
  <2>. QED  BY <1>3, <2>4, <2>5
<1>6. ASSUME Owed(r) = "rolled_back" PROVE desired = "rolled_back"
  <2>. SUFFICES ASSUME desired # "rolled_back" PROVE FALSE
    OBVIOUS
  <2>1. ~(Delivered(r.last) >= milestoneIndex(desired))
        /\ kInstallMilestones[Delivered(r.last) + 1] = "rolled_back"
    BY <1>4, <1>6 DEF nextReportMilestone
  <2>2. Delivered(r.last) + 1 \in 1 .. 8
    BY <2>1, IndexIs, DeliveredSuccessor
  <2>. QED  BY <2>1, <2>2, InstallMilestonesAre
<1>. QED  BY <1>2, <1>5, <1>6

\* Only the two steps that report change what the server was told.
LEMMA OnlyReportsReach ==
  ASSUME [Next]_vars, srv' # srv
  PROVE  Report \/ FlushPendingReport
<1>. USE DEF serverVars
<1>1. ~UNCHANGED vars /\ ~Boot /\ ~PowerLoss /\ ~ApplyManifest /\ ~RollbackAndReboot
  BY DEF vars, Boot, PowerLoss, ApplyManifest, RollbackAndReboot
<1>2. /\ ~BeginWithoutRecord /\ ~BeginSettled /\ ~BeginPending /\ ~Reject /\ ~CheckRunningImage
      /\ ~RejectUncheckpointed /\ ~MarkValid /\ ~MarkValidFails /\ ~SaveValidated
  BY DEF BeginWithoutRecord, BeginSettled, BeginPending, Reject, CheckRunningImage,
     RejectUncheckpointed, MarkValid, MarkValidFails, SaveValidated
<1>3. /\ ~Schedule /\ ~DownloadBegin /\ ~StreamChunk /\ ~DownloadFails /\ ~UpdateEnd
      /\ ~PartitionWritten /\ ~Arm /\ ~Commit /\ ~Restart /\ ~Restore /\ ~FailClosed
      /\ ~DownloadFailed /\ ~RollbackMark
  BY DEF Schedule, DownloadBegin, StreamChunk, DownloadFails, UpdateEnd, PartitionWritten, Arm,
     Commit, Restart, Restore, FailClosed, DownloadFailed, RollbackMark
<1>. QED  BY <1>1, <1>2, <1>3 DEF Next, Maintenance, BootTask

\* What the server hears in a step that it had not heard of this attempt.
News == IF srv'.key = srv.key THEN srv'.got \ srv.got ELSE srv'.got

\* An outcome that is sent is true of the running image, and a successful one
\* is of an image whose entry is valid, if it has a usable one.
LEMMA ReportedOutcome ==
  ASSUME TypeInv, OutcomeInv, [Next]_vars
  PROVE  /\ "validated" \in News =>
              /\ Image = Offers[srv'.key].image
              /\ Usable(entry, running) => entry[running] = "valid"
         /\ "rolled_back" \in News => Image # Offers[srv'.key].image
<1>. SUFFICES ASSUME NEW m \in {"validated", "rolled_back"}, m \in News
              PROVE  /\ m = "validated" =>
                          /\ Image = Offers[srv'.key].image
                          /\ Usable(entry, running) => entry[running] = "valid"
                     /\ m = "rolled_back" => Image # Offers[srv'.key].image
  OBVIOUS
<1>1. srv' # srv
  BY DEF News
<1>2. Report \/ FlushPendingReport
  BY <1>1, OnlyReportsReach
<1>3. flushPendingReportWithLease
  BY <1>2 DEF Report, FlushPendingReport
<1>4. Owed(ram) # "" /\ Accepted(Owed(ram))
  BY <1>1, <1>3, FlushEffect
<1>5. srv'.key = ram.key /\ m = Owed(ram)
  BY <1>4 DEF Accepted, News
<1>6. /\ m = "validated" => ram.state = "Validated"
      /\ m = "rolled_back" => ram.state = "RolledBack"
      /\ ram.state \in Outcomes
  BY <1>5, OwedOutcome DEF TypeInv, Outcomes
<1>7. FlushPendingReport
  <2>1. pc \notin Reporting
    BY <1>6 DEF OutcomeInv, ControlInv, Reporting
  <2>. QED  BY <1>2, <2>1, AfterReportIs DEF Report
<1>8. mode \in {"normal", "blocked"}
  BY <1>6, <1>7 DEF FlushPendingReport, OutcomeInv, ControlInv
<1>9. Fits(ram, Image) /\ entry[running] # "pending"
  BY <1>6, <1>8 DEF OutcomeInv, TruthInv, PendingImage
<1>10. ram.target = Offers[ram.key].image
  BY <1>6 DEF OutcomeInv, Proper, Outcomes, Idle
<1>11. entry[running] = "new" => ram.target # Image
  BY DEF OutcomeInv, RunInv
<1>. QED  BY <1>5, <1>6, <1>9, <1>10, <1>11 DEF Fits, Usable

\* Whatever the number of offers, power losses and faults, the server is told
\* of a success only while the image of the attempt runs, and of a rollback
\* only while another one does (reportJson, classifyPostBoot).
THEOREM OutcomesMatchImage ==
  Spec => [][/\ "validated" \in News => Image = Offers[srv'.key].image
             /\ "rolled_back" \in News => Image # Offers[srv'.key].image]_vars
<1>. DEFINE Inv == TypeInv /\ VettedInv /\ OutcomeInv
<1>1. Inv /\ [Next]_vars => Inv'
  BY TypeStep, VettedStep, OutcomeStep DEF VettedInv
<1>2. Init => Inv
  BY TypeInit, VettedInit, OutcomeInit
<1>3. Inv /\ [Next]_vars =>
        [/\ "validated" \in News => Image = Offers[srv'.key].image
         /\ "rolled_back" \in News => Image # Offers[srv'.key].image]_vars
  BY ReportedOutcome
<1>. QED  BY <1>1, <1>2, <1>3, PTL DEF Spec

\* ReportsTrue holds for every behaviour of a device on which the three faults
\* of ValidImagesWereVetted do not all happen, or on which faults do not
\* accumulate: over any number of restarts and power losses, an image that is
\* reported as validated was observed to be healthy, unless it runs without a
\* usable boot entry (reportJson, classifyPostBoot, checkRunningImage).
THEOREM ReportedOutcomesTrue ==
  ASSUME ~({"operator", "call", "save"} \subseteq Faults) \/ MaxFault <= 1
  PROVE  Spec => ReportsTrue
<1>. DEFINE Inv == TypeInv /\ VettedInv /\ ~ThreeFaults /\ OutcomeInv
<1>1. Inv /\ [Next]_vars => Inv'
  <2>1. TypeInv /\ VettedInv /\ OutcomeInv /\ [Next]_vars => TypeInv' /\ VettedInv' /\ OutcomeInv'
    BY TypeStep, VettedStep, OutcomeStep DEF VettedInv
  <2>2. TypeInv' /\ ~({"operator", "call", "save"} \subseteq Faults) => ~ThreeFaults'
    BY DEF TypeInv, ThreeFaults
  <2>. QED  BY <2>1, <2>2, FewFaults
<1>2. Init => Inv
  <2>1. Init => ~ThreeFaults
    BY DEF Init, ThreeFaults
  <2>. QED  BY <2>1, TypeInit, VettedInit, OutcomeInit
<1>3. ASSUME Inv, [Next]_vars
      PROVE  LET new == IF srv'.key = srv.key THEN srv'.got \ srv.got ELSE srv'.got
                 target == Offers[srv'.key].image
             IN /\ "validated" \in new =>
                     Image = target /\ (Usable(entry, running) => target \in vetted)
                /\ "rolled_back" \in new => Image # target
  <2>1. entry[running] = "valid" => Image \in vetted
    BY <1>3 DEF VettedInv, OnlyVettedImagesValid, OutcomeInv, RunInv, TypeInv, Image
  <2>2. /\ "validated" \in News =>
             /\ Image = Offers[srv'.key].image
             /\ Usable(entry, running) => entry[running] = "valid"
        /\ "rolled_back" \in News => Image # Offers[srv'.key].image
    BY <1>3, ReportedOutcome
  <2>. QED  BY <2>1, <2>2 DEF News
<1>. QED  BY <1>1, <1>2, <1>3, PTL DEF Spec, ReportsTrue

=============================================================================
