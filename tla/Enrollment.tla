------------------------------ MODULE Enrollment ------------------------------
(***************************************************************************)
(* The identity of the device.  A one-time token is claimed at the server; *)
(* the credentials of the answer are staged in one atomic record of        *)
(* ConfigService, and the device restarts.  Before any task runs, the boot *)
(* hands the card over: it deletes the readings of the earlier identity,   *)
(* raises the sequence floor, binds the card's manifest to the new device, *)
(* moves the server's cursors to the floor, and only then makes the        *)
(* credentials active.  Reenrollment and the factory reset revoke them.    *)
(*                                                                         *)
(* Power may be lost between any two steps, and an NVS or card operation   *)
(* may fail, in which case it may have been done all the same.  The record *)
(* is written by AtomicConfigStore, hence in one step; the NVS keys are    *)
(* written one at a time.  server_max moves with server_ack and data_gen   *)
(* with reset_floor: each pair is one key here.  Device 0 is the           *)
(* hardware id, under which a card is used before the first enrollment.    *)
(***************************************************************************)
EXTENDS Integers, FiniteSets, FiniteSetsExt

CONSTANTS
    MaxToken,   \* bound on the tokens issued; token t enrolls device t
    MaxSeq,     \* bound on the sequences of readings
    MaxBound,   \* bound on the reset boundaries the server assigns
    MaxCut,     \* bound on the power losses
    MaxFault,   \* bound on the operations that fail
    MaxSwap     \* bound on the card replacements

ASSUME BoundsAssumption ==
    {MaxToken, MaxSeq, MaxBound, MaxCut, MaxFault, MaxSwap} \subseteq Nat

VARIABLES
    rec,        \* the active record of kEnrollmentSlots
    nvs,        \* enroll_tok, server_ack, remove_seq, reset_floor
    card,       \* the inserted card: manifest files, next sequence, readings
    phase,      \* "off", "boot", "up", or "halted": begin() returned false
    pc,         \* the step the boot or the mutation in progress is at
    ram,        \* the published identity, the cursors, a queued restart
    mount,      \* card_device_id of the verified card, or NoDevice
    claim,      \* the claim in flight, with the server's answer
    issued,     \* tokens issued so far; a reenrollment in progress uses the last
    spent,      \* tokens the server has seen claimed
    given,      \* the last token the operator was told is accepted
    overtaken,  \* the answer to the claim of an older token was staged
    cuts, faults, swaps

cloud == <<issued, spent, given, overtaken>>
vars == <<rec, nvs, card, phase, pc, ram, mount, claim, cloud, cuts, faults, swaps>>

NoDevice == -1
Torn == -2
Sequences == 1 .. MaxSeq

Record(kind, dev, tok, src, gen, bnd, floor) ==
    [kind |-> kind, dev |-> dev, tok |-> tok, src |-> src, card |-> gen,
     bnd |-> bnd, floor |-> floor]
NoRecord == Record("none", 0, 0, 0, 0, 0, 0)
Tombstone == Record("clear", 0, 0, 0, 0, 0, 0)
Pending(tok) == Record("pending", 0, tok, 0, 0, 0, 0)
Staged(dev, src, gen, bnd) == Record("staged", dev, 0, src, gen, bnd, 0)
Activated(r, floor) == Record("active", r.dev, 0, 0, 0, r.bnd, floor)
ClearedKeys == [tok |-> 0, ack |-> 0, rem |-> 0, bnd |-> 0]
BlankCard(gen) ==
    [gen |-> gen, target |-> NoDevice, tmp |-> NoDevice, bak |-> NoDevice,
     next |-> 1, recs |-> {}]
NoRam == [dev |-> 0, tok |-> 0, staged |-> FALSE, ack |-> 0, reboot |-> FALSE]
NoClaim == [tok |-> 0, ans |-> "none", bnd |-> 0]

Init ==
    /\ rec = Tombstone /\ nvs = ClearedKeys /\ card = BlankCard(1)
    /\ phase = "off" /\ pc = "idle" /\ ram = NoRam /\ mount = NoDevice
    /\ claim = NoClaim
    /\ issued = 0 /\ spent = {} /\ given = 0 /\ overtaken = FALSE
    /\ cuts = 0 /\ faults = 0 /\ swaps = 0

-----------------------------------------------------------------------------
(* Steps and their failures *)

Works == UNCHANGED faults
Fails == faults < MaxFault /\ faults' = faults + 1
Booting(at) == phase = "boot" /\ pc = at
Running(at) == phase = "up" /\ pc = at
GoTo(to) == pc' = to /\ UNCHANGED phase
Halt == phase' = "halted" /\ pc' = "idle"

\* One checked write of an NVS key; `Refused` is what its failure leads to.
WriteKey(new, to, Refused) ==
    \/ nvs' = new /\ GoTo(to) /\ Works
    \/ nvs' \in {nvs, new} /\ Fails /\ Refused

Others == UNCHANGED <<claim, cloud, cuts, swaps>>
OnlyKeys == UNCHANGED <<rec, card, ram, mount>> /\ Others
OnlyCard == UNCHANGED <<rec, nvs, ram, mount>> /\ Others

-----------------------------------------------------------------------------
(* Boot: loadOrMigrateEnrollment *)

PowerOn ==
    /\ phase = "off"
    /\ phase' = "boot" /\ pc' = "load"
    /\ UNCHANGED <<rec, nvs, card, ram, mount, faults>> /\ Others

\* An active record whose floor, boundary or cursors are not in NVS is refused.
CursorsBehindRecord ==
    nvs.bnd < rec.bnd \/ nvs.ack < rec.floor \/ nvs.rem < rec.floor

LoadRecord ==
    /\ Booting("load")
    /\ CASE rec.kind = "none" ->
              \/ rec' = Tombstone /\ GoTo("mount") /\ Works /\ UNCHANGED ram
              \/ rec' \in {rec, Tombstone} /\ Halt /\ Fails /\ UNCHANGED ram
         [] rec.kind = "clear" -> GoTo("mount") /\ Works /\ UNCHANGED <<rec, ram>>
         [] rec.kind = "pending" -> GoTo("ptok") /\ Works /\ UNCHANGED <<rec, ram>>
         [] rec.kind = "active" /\ CursorsBehindRecord -> Halt /\ Works /\ UNCHANGED <<rec, ram>>
         [] OTHER ->
              /\ ram' = [ram EXCEPT !.dev = IF rec.kind = "active" THEN rec.dev ELSE 0,
                                    !.staged = (rec.kind = "staged")]
              /\ GoTo("etok") /\ Works /\ UNCHANGED rec
    /\ UNCHANGED <<nvs, card, mount>> /\ Others

\* A pending reenrollment is prepared again: the token, then the cursors.
RestoreToken == Booting("ptok") /\ WriteKey([nvs EXCEPT !.tok = rec.tok], "pack", Halt) /\ OnlyKeys
RestoreAck == Booting("pack") /\ WriteKey([nvs EXCEPT !.ack = 0], "prem", Halt) /\ OnlyKeys
RestoreRemoval == Booting("prem") /\ WriteKey([nvs EXCEPT !.rem = 0], "ppub", Halt) /\ OnlyKeys

\* (Mutant: the published identity lacks the pending token.)
PublishPending_Mut ==
    /\ Booting("ppub")
    /\ nvs' = [nvs EXCEPT !.tok = 0] /\ Works
    /\ GoTo("mount")
    /\ UNCHANGED <<rec, card, ram, mount>> /\ Others

PublishPending ==
    /\ Booting("ppub")
    /\ ram' = [ram EXCEPT !.tok = rec.tok]
    /\ \/ nvs' = [nvs EXCEPT !.tok = 0] /\ Works
       \/ UNCHANGED nvs /\ Fails         \* only a warning
    /\ GoTo("mount")
    /\ UNCHANGED <<rec, card, mount>> /\ Others

EraseToken == Booting("etok") /\ WriteKey([nvs EXCEPT !.tok = 0], "mount", Halt) /\ OnlyKeys

-----------------------------------------------------------------------------
(* Boot: SdStorage::begin, with writeManifest *)

StorageDevice == IF ram.staged THEN rec.dev ELSE ram.dev
AcceptedPrevious == IF ram.staged THEN rec.src ELSE NoDevice

\* Recover an interrupted rebind of the manifest.
RecoverManifest(c, id, prev) ==
    IF c.target # NoDevice THEN c
    ELSE IF c.tmp = id THEN [c EXCEPT !.target = c.tmp, !.tmp = NoDevice, !.bak = NoDevice]
    ELSE IF prev # NoDevice /\ c.bak = prev
         THEN [c EXCEPT !.target = c.bak, !.tmp = NoDevice, !.bak = NoDevice]
    ELSE IF c.tmp = NoDevice /\ c.bak = NoDevice THEN [c EXCEPT !.target = id]
    ELSE c

\* The rebind's leftovers go once the manifest names this device.
Accepted(c, id, prev) == c.target = id \/ (prev # NoDevice /\ c.target = prev)
Tidy(c, id) == IF c.target = id THEN [c EXCEPT !.tmp = NoDevice, !.bak = NoDevice] ELSE c

RequiredFloor ==
    Max({nvs.ack, nvs.rem, nvs.bnd, IF ram.staged THEN rec.bnd ELSE 0})

WriteManifest ==
    LET c == RecoverManifest(card, StorageDevice, AcceptedPrevious) IN
    IF Accepted(c, StorageDevice, AcceptedPrevious)
    THEN /\ card' = [Tidy(c, StorageDevice) EXCEPT !.next = Max({@, RequiredFloor + 1})]
         /\ mount' = c.target
    ELSE card' = c /\ mount' = NoDevice

\* The card may also fail to mount; the boot goes on without it.
MountCard ==
    /\ Booting("mount")
    /\ \/ WriteManifest /\ Works
       \/ mount' = NoDevice /\ UNCHANGED card /\ Fails
    /\ ram' = [ram EXCEPT !.ack = nvs.ack]
    /\ IF ram.staged THEN GoTo("bound") ELSE phase' = "up" /\ pc' = "idle"
    /\ UNCHANGED <<rec, nvs>> /\ Others

-----------------------------------------------------------------------------
(* Boot: the activation of staged credentials *)

ActivationFloor == Max({rec.bnd, card.next - 1, ram.ack, nvs.rem})

CheckBinding ==
    /\ Booting("bound")
    /\ IF mount \in {rec.src, rec.dev} /\ card.gen = rec.card THEN GoTo("clear") ELSE Halt
    /\ Works /\ UNCHANGED card /\ OnlyCard

\* (Mutant: readings the server has not acknowledged are kept for upload.)
ClearReadings_Mut ==
    /\ Booting("clear")
    /\ LET plan == {r \in card.recs : r.sent} IN
       \/ \E r \in plan :
             /\ card' = [card EXCEPT !.recs = @ \ {r}]
             /\ GoTo("clear") /\ Works
       \/ plan = {} /\ GoTo("advance") /\ Works /\ UNCHANGED card
    /\ OnlyCard

\* clearPreEnrollmentReadingData, one file at a time.
ClearReadings ==
    /\ Booting("clear")
    /\ \/ \E r \in card.recs :
             /\ card' = [card EXCEPT !.recs = @ \ {r}]
             /\ GoTo("clear") /\ Works
       \/ card.recs = {} /\ GoTo("advance") /\ Works /\ UNCHANGED card
       \/ Halt /\ Fails /\ UNCHANGED card
    /\ OnlyCard

\* advanceSequenceFloor
AdvanceFloor ==
    /\ Booting("advance")
    /\ LET new == [card EXCEPT !.next = Max({@, ActivationFloor + 1})] IN
       \/ card' = new /\ GoTo("rebind") /\ Works
       \/ card' \in {card, new} /\ Halt /\ Fails
    /\ OnlyCard

\* rebindCardForEnrollment: temporary, backup, install, verify, drop the backup.
StageManifest ==
    /\ Booting("rebind")
    /\ IF card.target = rec.dev THEN GoTo("aack") /\ UNCHANGED card
       ELSE GoTo("tmp") /\ card' = [card EXCEPT !.tmp = Torn, !.bak = NoDevice]
    /\ Works /\ OnlyCard

WriteTemporary ==
    /\ Booting("tmp")
    /\ \/ card' = [card EXCEPT !.tmp = rec.dev] /\ GoTo("backup") /\ Works
       \/ card' = [card EXCEPT !.tmp = NoDevice] /\ Halt /\ Fails
    /\ OnlyCard

BackupManifest ==
    /\ Booting("backup")
    /\ \/ card' = [card EXCEPT !.bak = card.target, !.target = NoDevice] /\ GoTo("install") /\ Works
       \/ card' = [card EXCEPT !.tmp = NoDevice] /\ Halt /\ Fails
    /\ OnlyCard

InstallManifest ==
    /\ Booting("install")
    /\ \/ card' = [card EXCEPT !.target = card.tmp, !.tmp = NoDevice] /\ GoTo("unback") /\ Works
       \/ card' \in {card, [card EXCEPT !.target = card.bak, !.bak = NoDevice]} /\ Halt /\ Fails
    /\ OnlyCard

DropBackup ==
    /\ Booting("unback")
    /\ \/ card' = [card EXCEPT !.bak = NoDevice] /\ GoTo("aack") /\ Works
       \/ UNCHANGED card /\ Halt /\ Fails
    /\ OnlyCard

\* activatePendingEnrollment: its guard, the cursors, the boundary, the record.
FloorFits == ActivationFloor >= rec.bnd /\ nvs.bnd <= rec.bnd

ActivateAck ==
    /\ Booting("aack")
    /\ IF FloorFits THEN WriteKey([nvs EXCEPT !.ack = ActivationFloor], "arem", Halt)
       ELSE Halt /\ Works /\ UNCHANGED nvs
    /\ OnlyKeys
ActivateRemoval ==
    Booting("arem") /\ WriteKey([nvs EXCEPT !.rem = ActivationFloor], "abnd", Halt) /\ OnlyKeys
ActivateBoundary ==
    Booting("abnd") /\ WriteKey([nvs EXCEPT !.bnd = rec.bnd], "arec", Halt) /\ OnlyKeys

ActivateRecord ==
    /\ Booting("arec")
    /\ LET new == Activated(rec, ActivationFloor) IN
       \/ /\ rec' = new /\ GoTo("atok") /\ Works
          /\ ram' = [NoRam EXCEPT !.dev = rec.dev, !.ack = ActivationFloor]
          /\ mount' = rec.dev
       \/ rec' \in {rec, new} /\ Halt /\ Fails /\ UNCHANGED <<ram, mount>>
    /\ UNCHANGED <<nvs, card>> /\ Others

\* The token goes, the binding is checked once more, and the tasks start.
FinishActivation ==
    /\ Booting("atok")
    /\ \/ /\ nvs' = [nvs EXCEPT !.tok = 0] /\ Works
          /\ IF card.target = rec.dev THEN phase' = "up" /\ pc' = "idle" ELSE Halt
       \/ UNCHANGED nvs /\ Halt /\ Fails
    /\ OnlyKeys

-----------------------------------------------------------------------------
(* The claim: ServerSync::enroll and stageEnrollmentActivation *)

\* enrollmentToken(): the pending token in RAM, else the enroll_tok key.
Token == IF ram.tok # 0 THEN ram.tok ELSE nvs.tok

SendClaim ==
    /\ Running("idle") /\ claim = NoClaim
    /\ ram.dev = 0 /\ ~ram.staged /\ Token # 0 /\ mount # NoDevice
    /\ claim' = [NoClaim EXCEPT !.tok = Token]
    /\ UNCHANGED <<rec, nvs, card, phase, pc, ram, mount, cloud, cuts, faults, swaps>>

\* The server: a token enrolls one device, once.
ServerAnswers ==
    /\ claim.tok # 0 /\ claim.ans = "none"
    /\ \/ /\ claim.tok \notin spent
          /\ \E b \in 0 .. MaxBound : claim' = [claim EXCEPT !.ans = "assigned", !.bnd = b]
       \/ claim.tok \in spent /\ claim' = NoClaim
    /\ spent' = spent \union {claim.tok}
    /\ UNCHANGED <<rec, nvs, card, phase, pc, ram, mount, issued, given, overtaken,
                   cuts, faults, swaps>>

\* The exchange times out, before or after the server has seen the claim.
LoseClaim ==
    /\ claim # NoClaim
    /\ claim' = NoClaim
    /\ UNCHANGED <<rec, nvs, card, phase, pc, ram, mount, cloud, cuts, faults, swaps>>

\* (Mutant: the boundary is not compared.)
StageAllowed_Mut == mount # NoDevice

\* An assignment behind the device's own boundary is refused.
StageAllowed == mount # NoDevice /\ claim.bnd >= nvs.bnd

StageActivation ==
    /\ Running("idle") /\ claim.ans = "assigned"
    /\ claim' = NoClaim
    /\ LET new == Staged(claim.tok, mount, card.gen, claim.bnd) IN
       \/ /\ StageAllowed /\ Works
          /\ rec' = new /\ GoTo("stok")
          /\ ram' = [ram EXCEPT !.dev = 0, !.tok = 0, !.staged = TRUE]
          /\ overtaken' = (overtaken \/ claim.tok # given)
       \/ /\ StageAllowed /\ Fails
          /\ rec' \in {rec, new} /\ GoTo("idle") /\ UNCHANGED ram
          /\ overtaken' = (overtaken \/ claim.tok # given)
       \/ /\ ~StageAllowed /\ Works
          /\ GoTo("idle") /\ UNCHANGED <<rec, ram, overtaken>>
    /\ UNCHANGED <<nvs, card, mount, issued, spent, given, cuts, swaps>>

\* The token is erased (failing is only a warning) and the restart queued.
QueueReboot ==
    /\ Running("stok")
    /\ \/ nvs' = [nvs EXCEPT !.tok = 0] /\ Works
       \/ UNCHANGED nvs /\ Fails
    /\ ram' = [ram EXCEPT !.reboot = TRUE]
    /\ GoTo("idle")
    /\ UNCHANGED <<rec, card, mount>> /\ Others

Off ==
    /\ phase' = "off" /\ pc' = "idle" /\ ram' = NoRam /\ mount' = NoDevice
    /\ claim' = NoClaim

\* The maintenance task restarts, even if a reenrollment came in between.
ActivationReboot ==
    /\ Running("idle") /\ ram.reboot
    /\ Off
    /\ UNCHANGED <<rec, nvs, card, cloud, cuts, faults, swaps>>

-----------------------------------------------------------------------------
(* The operator: a token, reenrollment, factory reset *)

\* setEnrollmentToken, from the setup of a device without credentials.
GiveToken ==
    /\ Running("idle") /\ rec = Tombstone /\ nvs.tok = 0
    /\ ram.dev = 0 /\ ram.tok = 0 /\ ~ram.staged
    /\ issued < MaxToken
    /\ issued' = issued + 1 /\ given' = issued + 1
    /\ nvs' = [nvs EXCEPT !.tok = issued + 1]
    /\ UNCHANGED <<rec, card, phase, pc, ram, mount, claim, spent, overtaken, cuts, faults, swaps>>

RequestReenrollment ==
    /\ Running("idle") /\ issued < MaxToken
    /\ issued' = issued + 1
    /\ GoTo("rtok")
    /\ UNCHANGED <<rec, nvs, card, ram, mount, claim, spent, given, overtaken, cuts, faults, swaps>>

\* beginReenrollment: the token, the cursors, then the record.
Refused == pc' = "idle" /\ UNCHANGED phase
ReenrollToken == Running("rtok") /\ WriteKey([nvs EXCEPT !.tok = issued], "rack", Refused) /\ OnlyKeys
ReenrollAck == Running("rack") /\ WriteKey([nvs EXCEPT !.ack = 0], "rrem", Refused) /\ OnlyKeys
ReenrollRemoval == Running("rrem") /\ WriteKey([nvs EXCEPT !.rem = 0], "rrec", Refused) /\ OnlyKeys

\* The record, the published identity, and the RAM cursors.
CommitPending ==
    /\ Running("rrec")
    /\ \/ /\ rec' = Pending(issued) /\ GoTo("rend") /\ Works
          /\ ram' = [ram EXCEPT !.dev = 0, !.tok = issued, !.staged = FALSE, !.ack = 0]
       \/ rec' \in {rec, Pending(issued)} /\ Refused /\ Fails /\ UNCHANGED ram
    /\ UNCHANGED <<nvs, card, mount>> /\ Others

EndReenrollment ==
    /\ Running("rend")
    /\ \/ nvs' = [nvs EXCEPT !.tok = 0] /\ Works
       \/ UNCHANGED nvs /\ Fails
    /\ given' = issued /\ GoTo("idle")
    /\ UNCHANGED <<rec, card, ram, mount, claim, issued, spent, overtaken, cuts, swaps>>

\* factoryReset: the record's namespace, the other keys, a tombstone, a restart.
FactoryReset ==
    /\ Running("idle")
    /\ \/ rec' = NoRecord /\ given' = 0 /\ GoTo("fkeys") /\ Works
       \/ /\ rec' \in {rec, NoRecord} /\ Refused /\ Fails
          /\ given' = IF rec' = rec THEN given ELSE 0
    /\ UNCHANGED <<nvs, card, ram, mount, claim, issued, spent, overtaken, cuts, swaps>>
ResetKeys == Running("fkeys") /\ WriteKey(ClearedKeys, "frec", Refused) /\ OnlyKeys
ResetRecord ==
    /\ Running("frec")
    /\ \/ rec' = Tombstone /\ Off /\ Works
       \/ /\ rec' \in {rec, Tombstone} /\ Refused /\ Fails
          /\ UNCHANGED <<ram, mount, claim>>
    /\ UNCHANGED <<nvs, card, cloud, cuts, swaps>>

-----------------------------------------------------------------------------
(* Readings and their acknowledgement *)

AppendReading ==
    /\ Running("idle") /\ mount # NoDevice /\ card.next \in Sequences
    /\ card' = [card EXCEPT !.next = @ + 1,
                            !.recs = @ \union {[seq |-> card.next, dev |-> ram.dev, sent |-> FALSE]}]
    /\ UNCHANGED <<phase, pc, faults>> /\ OnlyCard

\* The server has taken the readings up to `s`, and its cursor is persisted.
Acknowledge ==
    /\ Running("idle") /\ ram.dev # 0 /\ mount # NoDevice
    /\ \E s \in {r.seq : r \in {x \in card.recs : x.seq > ram.ack}} :
          /\ nvs' = [nvs EXCEPT !.ack = s]
          /\ ram' = [ram EXCEPT !.ack = s]
          /\ card' = [card EXCEPT !.recs =
                         {IF r.seq > ram.ack /\ r.seq <= s THEN [r EXCEPT !.sent = TRUE] ELSE r :
                          r \in card.recs}]
    /\ UNCHANGED <<rec, phase, pc, mount, faults>> /\ Others

-----------------------------------------------------------------------------
(* Power and cards *)

PowerLoss ==
    /\ phase \in {"boot", "up"} /\ cuts < MaxCut
    /\ cuts' = cuts + 1
    /\ Off
    /\ UNCHANGED <<rec, nvs, card, cloud, faults, swaps>>

\* A device that stopped in begin() waits for its user.
PowerCycle ==
    /\ phase = "halted"
    /\ Off
    /\ UNCHANGED <<rec, nvs, card, cloud, cuts, faults, swaps>>

ReplaceCard ==
    /\ phase = "off" /\ swaps < MaxSwap
    /\ swaps' = swaps + 1
    /\ card' = BlankCard(card.gen + 1)
    /\ UNCHANGED <<rec, nvs, phase, pc, ram, mount, claim, cloud, cuts, faults>>

-----------------------------------------------------------------------------
Boot ==
    \/ PowerOn \/ LoadRecord \/ RestoreToken \/ RestoreAck \/ RestoreRemoval
    \/ PublishPending \/ EraseToken \/ MountCard

Activate ==
    \/ CheckBinding \/ ClearReadings \/ AdvanceFloor \/ StageManifest
    \/ WriteTemporary \/ BackupManifest \/ InstallManifest \/ DropBackup
    \/ ActivateAck \/ ActivateRemoval \/ ActivateBoundary \/ ActivateRecord
    \/ FinishActivation

Claim == SendClaim \/ ServerAnswers \/ LoseClaim \/ StageActivation \/ QueueReboot

Reenroll ==
    \/ RequestReenrollment \/ ReenrollToken \/ ReenrollAck \/ ReenrollRemoval
    \/ CommitPending \/ EndReenrollment

Next ==
    \/ Boot \/ Activate \/ Claim \/ ActivationReboot
    \/ GiveToken \/ Reenroll
    \/ FactoryReset \/ ResetKeys \/ ResetRecord
    \/ AppendReading \/ Acknowledge
    \/ PowerLoss \/ PowerCycle \/ ReplaceCard

\* The boot is sequential code; the queued restart is retried every 5 s; power
\* comes back, and a halted device is switched off and on.
Fairness ==
    /\ WF_vars(Boot) /\ WF_vars(Activate)
    /\ WF_vars(QueueReboot) /\ SF_vars(ActivationReboot)
    /\ WF_vars(PowerCycle)
    /\ WF_vars(ReenrollToken \/ ReenrollAck \/ ReenrollRemoval \/ CommitPending \/ EndReenrollment)
    /\ WF_vars(ResetKeys \/ ResetRecord)

Spec == Init /\ [][Next]_vars /\ Fairness

-----------------------------------------------------------------------------
(* Properties *)

Settled == phase = "up" /\ pc = "idle"

(***************************************************************************)
(* An enrolled device runs only on a card bound to it, holding no reading  *)
(* of an earlier identity, and no reading the server's cursor has passed   *)
(* unsent: whatever was interrupted, the hand-over of Application::begin   *)
(* (delete, raise the floor, rebind, move the cursors, activate) is whole. *)
(***************************************************************************)
HandoverIsWhole ==
    Settled /\ ram.dev # 0 /\ mount # NoDevice /\ rec.kind = "active" =>
        /\ card.target = ram.dev /\ mount = ram.dev
        /\ \A r \in card.recs :
              /\ r.dev = ram.dev /\ r.seq > rec.floor
              /\ r.seq <= ram.ack => r.sent

(***************************************************************************)
(* A token the operator was told is accepted is not lost by a power cut or *)
(* a failed write of setEnrollmentToken, beginReenrollment, the boot's     *)
(* repetition of it or stageEnrollmentActivation: a running device still   *)
(* holds it (or a later one) until the server has seen it claimed, unless  *)
(* the answer to an older claim was staged over it.                        *)
(***************************************************************************)
TokenKept ==
    Settled /\ given # 0 /\ given \notin spent /\ ~overtaken => Token >= given

(***************************************************************************)
(* Staged credentials become active as long as their card stays: no cut or *)
(* failed write of the activation leaves a state which every later boot    *)
(* refuses (Application::begin, activatePendingEnrollment).                *)
(***************************************************************************)
ActivationCompletes ==
    (rec.kind = "staged" /\ (ram.staged \/ phase # "up"))
        ~> (rec.kind # "staged" \/ card.gen # rec.card)

(***************************************************************************)
(* Without failing operations no boot is refused: beginReenrollment says   *)
(* that a power cut leaves either the old enrolled identity or a resumable *)
(* reenrollment request.                                                   *)
(***************************************************************************)
CutsAreRecoverable == phase # "halted"

(***************************************************************************)
(* A pending reenrollment finds the card usable, which ServerSync::enroll  *)
(* requires.  It does not after a restart: begin() mounts under the        *)
(* hardware id, the card is still bound to the revoked identity, and it is *)
(* refused as the card of another sensor.                                  *)
(***************************************************************************)
RequestIsResumable == Settled /\ rec.kind = "pending" => mount # NoDevice
=============================================================================
