---------------------------- MODULE RuntimeConfig ----------------------------
(***************************************************************************)
(* The runtime configuration of the device: ConfigService's two slots and  *)
(* credential keys in NVS, the setup transaction that changes all of them  *)
(* together, the updates of the operator (HTTP worker) and of the server   *)
(* (ServerSync), and the undoing of a remote update that cuts the device   *)
(* off.                                                                    *)
(*                                                                         *)
(* One mutation runs at a time (mutation_mutex_): `mut` is the one that    *)
(* holds the mutex and the step it is at.  The two tasks work between      *)
(* their mutations on values they read before.  The slots are those of     *)
(* AtomicConfigStore, with a commit in two steps (slot, marker).  Power    *)
(* may be lost at any step, and an NVS call may fail: a write that fails   *)
(* may have been made all the same (it was not confirmed).                 *)
(*                                                                         *)
(* Names are other than those of AtomicConfigStore (ConfigSpec, mut, ...)  *)
(* so that ConfigProofs can extend both.                                   *)
(***************************************************************************)
EXTENDS Naturals, Sequences, FiniteSets, FiniteSetsExt

CONSTANTS
    Updates,    \* what each version of the server's configuration changes
    MaxGen,     \* bound on the generations of the configuration slots
    MaxSetup,   \* bound on the setup requests
    MaxFault,   \* bound on the NVS calls that fail
    MaxCut      \* bound on the power losses

ASSUME UpdatesAssumption ==
    Updates \in Seq({"plain", "move", "bad", "unreachable", "invalid"})

VARIABLES
    act,        \* the active configuration slot
    oth,        \* the other slot
    cred,       \* enroll_tok, admin_salt, admin_hash: the setup that wrote each
    journal,    \* the provisioning transaction journal
    srvCfg,     \* server_cfg and its copy in RAM: the newest applied version
    phase,      \* "off", "boot", "up", or "halted": begin() returned false
    ram,        \* the published configuration and its generation
    mut,        \* the mutation in progress
    http,       \* the job of the HTTP worker
    sync,       \* what ServerSync is doing with a remote update
    pend,       \* pending_config_validation_: version and generation
    rb,         \* how the last validation ended: pending_config_rollback_report_
                \* ("restored", "superseded") and pending_config_report_detail_
    offer,      \* the server's current version
    setups,     \* setup requests so far
    told,       \* the generation of the last update an operator was told of
    overtaken,  \* an operator's stale copy replaced a newer remote update
    applied,    \* the newest version that reportConfiguration recorded
    faults, cuts

durable == <<act, oth, cred, journal, srvCfg>>
tasks == <<http, sync, pend, rb>>
counts == <<offer, setups, told, overtaken, applied, faults, cuts>>
configVars == <<durable, phase, ram, mut, tasks, counts>>

Factory == [setup |-> 0, net |-> "none", url |-> TRUE, rev |-> 0]
EmptySlot == [gen |-> 0, conf |-> Factory]
NoCred == [tok |-> 0, salt |-> 0, hash |-> 0]
NoJournal == [gen |-> 0, cred |-> NoCred]
NoMutation == [kind |-> "none", pc |-> "none", conf |-> Factory, gen |-> 0]
NoHttp == [kind |-> "none", conf |-> Factory]
NoSync == [pc |-> "idle", ver |-> 0, before |-> Factory, gen |-> 0]
NoPend == [ver |-> 0, gen |-> 0]

\* The station configuration lets the device onto a network; the server answers.
Connected(c) == c.net \in {"home", "other"}
Reachable == phase = "up" /\ Connected(ram.conf) /\ ram.conf.url

ConfigInit ==
    /\ act = [gen |-> 1, conf |-> Factory] /\ oth = EmptySlot
    /\ cred = NoCred /\ journal = NoJournal /\ srvCfg = [nvs |-> 0, ram |-> 0]
    /\ phase = "up" /\ ram = act /\ mut = NoMutation
    /\ http = NoHttp /\ sync = NoSync /\ pend = NoPend /\ rb = "none"
    /\ offer = 0 /\ setups = 0 /\ told = 0 /\ overtaken = FALSE /\ applied = 0
    /\ faults = 0 /\ cuts = 0

-----------------------------------------------------------------------------
(* Failing NVS calls *)

CanFail == faults < MaxFault
Works == UNCHANGED faults
Fails == CanFail /\ faults' = faults + 1

\* A write of `new` over `old`: made and confirmed, or reported as failed.
Written(var, old, new) == var = new /\ Works
Unconfirmed(var, old, new) == var \in {old, new} /\ Fails

-----------------------------------------------------------------------------
(* The mutation in progress *)

At(step) == phase \in {"up", "boot"} /\ mut.pc = step
Goto(step) == mut' = [mut EXCEPT !.pc = step]
Free == phase = "up" /\ mut = NoMutation
\* The caller waits 2 to 15 s for the mutex and gives up when it is held that
\* long, by another mutation or by verifyAdminPassword during its key
\* derivation, or when a data reset has frozen the configuration.
GivesUp == phase = "up" /\ UNCHANGED mut
Largest == Max({act.gen, oth.gen})
Start(kind, step, conf, gen) ==
    mut' = [kind |-> kind, pc |-> step, conf |-> conf, gen |-> gen]

FromOperator == mut.kind \in {"setup", "local", "network"}
FromSync == mut.kind \in {"remote", "rollback", "expire"}

\* What the end of the validation window leaves to be reported.
Restored(ok) == IF ok THEN "restored" ELSE "conflict"

\* The mutation returns `ok` to its caller.  ServerSync goes on with the
\* answer (fetchConfiguration or the end of the validation window).
Returns(ok, gen) ==
    /\ mut' = NoMutation
    /\ http' = IF FromOperator THEN NoHttp ELSE http
    /\ sync' = CASE mut.kind = "remote" /\ ok -> [sync EXCEPT !.pc = "compare", !.gen = gen]
                 [] mut.kind = "remote" /\ ~ok -> NoSync  \* "rejected" is reported
                 [] mut.kind \in {"rollback", "expire"} -> NoSync
                 [] OTHER -> sync
    /\ IF mut.kind = "expire" THEN pend' = NoPend /\ rb' = Restored(ok) ELSE UNCHANGED <<pend, rb>>
    /\ told' = IF ok /\ FromOperator THEN gen ELSE told
Return(ok) == Returns(ok, ram.gen)

\* The fields of a candidate are in range; nothing else can be committed.
validate(c) == c.net # "malformed"

\* A journal step of the mutation that leaves the tasks alone.
Quiet == UNCHANGED <<tasks, phase, offer, setups, told, overtaken, applied, cuts>>

-----------------------------------------------------------------------------
(* commitPersistentConfig: the slot, then the marker *)

\* Where a mutation goes when its commit fails.
CommitFailed ==
    IF mut.kind = "setup" THEN Goto("probe") /\ UNCHANGED tasks /\ UNCHANGED told
                         ELSE Return(FALSE)

WriteSlot ==
    /\ At("slot")
    /\ LET new == [gen |-> Largest + 1, conf |-> mut.conf] IN
       \/ Written(oth', oth, new) /\ Goto("marker") /\ UNCHANGED tasks /\ UNCHANGED told
       \/ oth' \in {oth, EmptySlot} /\ Fails /\ CommitFailed  \* the target is erased
    /\ UNCHANGED <<act, cred, journal, srvCfg, phase, ram, offer, setups, overtaken, applied, cuts>>

\* The marker names the other slot.
Swap == act' = oth /\ oth' = act

WriteMarker ==
    /\ At("marker")
    /\ \/ /\ Swap /\ Works /\ Goto("verify") /\ UNCHANGED tasks /\ UNCHANGED told
          /\ overtaken' = (overtaken \/ oth.conf.rev < ram.conf.rev)
       \/ /\ UNCHANGED act /\ oth' \in {oth, EmptySlot} /\ Fails /\ CommitFailed
          /\ UNCHANGED overtaken
    /\ UNCHANGED <<cred, journal, srvCfg, phase, ram, offer, setups, applied, cuts>>

\* verifyPersistentConfig and publishPersistentConfig.  commitCandidate goes
\* back to the previous slot when the check fails; updateNetworkSettings and
\* networkReset only answer that it failed; setup undoes everything.
VerifyAndPublish ==
    /\ At("verify")
    /\ \/ /\ ram' = act /\ Works
          /\ IF mut.kind = "setup" THEN Goto("clear") /\ UNCHANGED tasks /\ UNCHANGED told
             ELSE IF mut.kind = "netreset" THEN Goto("restart") /\ UNCHANGED tasks /\ UNCHANGED told
             ELSE Returns(TRUE, act.gen)
       \/ /\ Fails /\ UNCHANGED ram
          /\ CASE mut.kind = "setup" -> Goto("probe") /\ UNCHANGED tasks /\ UNCHANGED told
               [] mut.kind \in {"local", "remote"} -> Goto("back") /\ UNCHANGED tasks /\ UNCHANGED told
               [] OTHER -> Return(FALSE)
    /\ UNCHANGED <<durable, phase, offer, setups, overtaken, applied, cuts>>

\* persistence::rollbackToPrevious: only an older slot is selected.
Older == oth.gen # 0 /\ oth.gen < act.gen
SelectOlder == Older /\ Swap /\ Works
NotSelected == \/ ~Older /\ UNCHANGED <<act, oth>> /\ Works
               \/ Older /\ Fails /\ (Swap \/ UNCHANGED <<act, oth>>)

CandidateRollback ==
    /\ At("back")
    /\ SelectOlder \/ NotSelected
    /\ UNCHANGED <<cred, journal, srvCfg, phase, ram, offer, setups, overtaken, applied, cuts>>
    /\ Return(FALSE)

-----------------------------------------------------------------------------
(* commitProvisioning *)

\* POST /api/v1/setup/apply is open until there is an administrator and a
\* network; the worker takes the job later.
SetupOpen == cred.salt = 0 \/ cred.hash = 0 \/ ram.conf.net = "none"

RequestSetup ==
    /\ phase = "up" /\ http = NoHttp /\ SetupOpen /\ setups < MaxSetup
    /\ setups' = setups + 1
    /\ http' = [kind |-> "setup",
                conf |-> [ram.conf EXCEPT !.setup = setups + 1, !.net = "home", !.url = TRUE]]
    /\ UNCHANGED <<durable, phase, ram, mut, sync, pend, rb, offer, told, overtaken, applied,
                   faults, cuts>>

commitProvisioning ==
    /\ Free /\ http.kind = "setup" /\ Largest < MaxGen /\ validate(http.conf)
    /\ Start("setup", "journal", http.conf, 0)
    /\ UNCHANGED <<durable, phase, ram, tasks, counts>>

\* A candidate that is not valid, or that is not taken in time, is answered
\* with an error.
RefuseOperator ==
    /\ http # NoHttp /\ ~FromOperator /\ GivesUp
    /\ http' = NoHttp
    /\ UNCHANGED <<durable, phase, ram, sync, pend, rb, counts>>

\* prepareProvisioningTransaction; a journal that was not confirmed is erased.
WriteJournal ==
    /\ At("journal")
    /\ LET new == [gen |-> ram.gen, cred |-> cred] IN
       \/ Written(journal', journal, new) /\ Goto("tok")
       \/ Unconfirmed(journal', journal, new) /\ Goto("dropJournal")
    /\ UNCHANGED <<act, oth, cred, srvCfg, ram>> /\ Quiet

DropJournal ==
    /\ At("dropJournal")
    /\ Written(journal', journal, NoJournal) \/ Unconfirmed(journal', journal, NoJournal)
    /\ Goto("probe")
    /\ UNCHANGED <<act, oth, cred, srvCfg, ram>> /\ Quiet

WriteKey(step, key, next) ==
    /\ At(step)
    /\ LET new == [cred EXCEPT ![key] = mut.conf.setup] IN
       \/ Written(cred', cred, new) /\ Goto(next)
       \/ Unconfirmed(cred', cred, new) /\ Goto("probe")
    /\ UNCHANGED <<act, oth, journal, srvCfg, ram>> /\ Quiet

WriteToken == WriteKey("tok", "tok", "salt")
WriteSalt == WriteKey("salt", "salt", "hash")
WriteHash == WriteKey("hash", "hash", "slot")

\* clearProvisioningTransaction is the commit point of the setup.
ClearJournal ==
    /\ At("clear")
    /\ \/ Written(journal', journal, NoJournal) /\ Return(TRUE)
       \/ Unconfirmed(journal', journal, NoJournal) /\ Goto("probe")
          /\ UNCHANGED tasks /\ UNCHANGED told
    /\ UNCHANGED <<act, oth, cred, srvCfg, phase, ram, offer, setups, overtaken, applied, cuts>>

-----------------------------------------------------------------------------
(* recoverIncompleteProvisioning, after a failed setup and at every boot *)

RecoveryFails == IF phase = "boot" THEN phase' = "halted" /\ mut' = NoMutation /\ UNCHANGED tasks
                                        /\ UNCHANGED told
                 ELSE UNCHANGED phase /\ Return(FALSE)

recoveryAction(previous, active) ==
    IF active < previous THEN "Conflict"
    ELSE IF active = previous THEN "RestoreCredentials" ELSE "Rollback"

ProbeJournal ==
    /\ At("probe")
    /\ \/ /\ Works /\ UNCHANGED phase /\ UNCHANGED tasks /\ UNCHANGED told
          /\ \/ journal = NoJournal /\ Goto("publish")
             \/ journal # NoJournal /\ recoveryAction(journal.gen, act.gen) = "RestoreCredentials"
                /\ Goto("undoTok")
             \/ journal # NoJournal /\ recoveryAction(journal.gen, act.gen) = "Rollback"
                /\ Goto("undoConf")
       \/ /\ \/ Fails
             \/ journal # NoJournal /\ recoveryAction(journal.gen, act.gen) = "Conflict" /\ Works
          /\ RecoveryFails
    /\ UNCHANGED <<durable, ram, offer, setups, overtaken, applied, cuts>>

UndoConfig ==
    /\ At("undoConf")
    /\ \/ SelectOlder /\ oth.gen = journal.gen /\ Goto("undoTok") /\ UNCHANGED phase
          /\ UNCHANGED tasks /\ UNCHANGED told
       \/ /\ NotSelected \/ (SelectOlder /\ oth.gen # journal.gen)
          /\ RecoveryFails
    /\ UNCHANGED <<cred, journal, srvCfg, ram, offer, setups, overtaken, applied, cuts>>

RestoreKey(step, key, next) ==
    /\ At(step)
    /\ LET new == [cred EXCEPT ![key] = journal.cred[key]] IN
       \/ Written(cred', cred, new) /\ Goto(next) /\ UNCHANGED phase
          /\ UNCHANGED tasks /\ UNCHANGED told
       \/ Unconfirmed(cred', cred, new) /\ RecoveryFails
    /\ UNCHANGED <<act, oth, journal, srvCfg, ram, offer, setups, overtaken, applied, cuts>>

RestoreToken == RestoreKey("undoTok", "tok", "undoSalt")
RestoreSalt == RestoreKey("undoSalt", "salt", "undoHash")
RestoreHash_Mut == RestoreKey("undoHash", "salt", "undoClear")  \* the salt once more
RestoreHash == RestoreKey("undoHash", "hash", "undoClear")

ClearUndone ==
    /\ At("undoClear")
    /\ \/ Written(journal', journal, NoJournal) /\ Goto("publish") /\ UNCHANGED phase
          /\ UNCHANGED tasks /\ UNCHANGED told
       \/ Unconfirmed(journal', journal, NoJournal) /\ RecoveryFails
    /\ UNCHANGED <<act, oth, cred, srvCfg, ram, offer, setups, overtaken, applied, cuts>>

\* publishRecoveredProvisioningState, or the rest of begin(): the active slot
\* is loaded and published.
PublishLoaded ==
    /\ At("publish")
    /\ \/ /\ ram' = act /\ Works
          /\ IF phase = "boot"
             THEN phase' = "up" /\ mut' = NoMutation /\ UNCHANGED tasks /\ UNCHANGED told
             ELSE UNCHANGED phase /\ Return(FALSE)
       \/ Fails /\ UNCHANGED ram /\ RecoveryFails
    /\ UNCHANGED <<durable, offer, setups, overtaken, applied, cuts>>

Recovery == \/ ProbeJournal \/ UndoConfig \/ RestoreToken \/ RestoreSalt \/ RestoreHash
            \/ ClearUndone \/ PublishLoaded

-----------------------------------------------------------------------------
(* The operator's other changes *)

\* A job of the worker.  The network settings are edited on a copy taken
\* before the mutex is; updateFromJson edits the configuration under it.
RequestUpdate ==
    /\ phase = "up" /\ http = NoHttp /\ ~SetupOpen /\ Largest < MaxGen
    /\ \E k \in {"local", "network"}, n \in {"home", "malformed"} :
          http' = [kind |-> k, conf |-> IF k = "local" THEN [Factory EXCEPT !.net = n]
                                        ELSE [ram.conf EXCEPT !.net = n, !.url = TRUE]]
    /\ UNCHANGED <<durable, phase, ram, mut, sync, pend, rb, counts>>

updateFromJson ==
    /\ Free /\ http.kind = "local" /\ Largest < MaxGen /\ validate(http.conf)
    /\ Start("local", "slot", ram.conf, 0)
    /\ UNCHANGED <<durable, phase, ram, tasks, counts>>

updateNetworkSettings ==
    /\ Free /\ http.kind = "network" /\ Largest < MaxGen /\ validate(http.conf)
    /\ Start("network", "slot", http.conf, 0)
    /\ UNCHANGED <<durable, phase, ram, tasks, counts>>

networkReset ==
    /\ Free /\ ~SetupOpen /\ Largest < MaxGen
    /\ Start("netreset", "slot", [ram.conf EXCEPT !.net = "none"], 0)
    /\ UNCHANGED <<durable, phase, ram, tasks, counts>>

\* The device restarts after a network reset; nothing of its memory is left.
Forget ==
    /\ ram' = EmptySlot /\ mut' = NoMutation /\ http' = NoHttp /\ sync' = NoSync
    /\ pend' = NoPend /\ rb' = "none"

Restart ==
    /\ At("restart") /\ Forget /\ phase' = "off"
    /\ UNCHANGED <<durable, counts>>

-----------------------------------------------------------------------------
(* Remote configuration: ServerSync *)

ServerPublishes ==
    /\ offer < Len(Updates) /\ offer' = offer + 1
    /\ UNCHANGED <<durable, phase, ram, mut, tasks, setups, told, overtaken, applied, faults, cuts>>

parseConfig(c, v) ==
    LET d == [c EXCEPT !.rev = v] IN
    CASE Updates[v] = "plain" -> d
      [] Updates[v] = "move" -> [d EXCEPT !.net = "other"]
      [] Updates[v] = "bad" -> [d EXCEPT !.net = "bad"]
      [] Updates[v] = "unreachable" -> [d EXCEPT !.url = FALSE]
      [] Updates[v] = "invalid" -> [d EXCEPT !.net = "malformed"]

stationConfigurationChanged(b, a) == b.net # a.net
networkCriticalChanged(b, a) == b.url # a.url

SyncIdle == phase = "up" /\ sync = NoSync

\* The answer to GET device-config/effective; the device compares what it
\* applies with the configuration it has now.
fetchConfiguration ==
    /\ SyncIdle /\ Reachable /\ pend = NoPend /\ offer > srvCfg.ram
    /\ sync' = [NoSync EXCEPT !.pc = "apply", !.ver = offer, !.before = ram.conf]
    /\ UNCHANGED <<durable, phase, ram, mut, http, pend, rb, counts>>

ApplyRemote ==
    /\ sync.pc = "apply" /\ ~FromSync
    /\ LET candidate == parseConfig(ram.conf, sync.ver) IN
       \/ /\ Free /\ Largest < MaxGen /\ validate(candidate)
          /\ Start("remote", "slot", candidate, 0) /\ UNCHANGED sync
       \/ GivesUp /\ sync' = NoSync  \* not valid or not in time: "rejected" is reported
    /\ UNCHANGED <<durable, phase, ram, http, pend, rb, counts>>

\* A station change is staged for validation, anything else reported at once.
CompareApplied ==
    /\ phase = "up" /\ sync.pc = "compare"
    /\ IF stationConfigurationChanged(sync.before, ram.conf)
       THEN /\ pend' = [ver |-> sync.ver, gen |-> sync.gen] /\ rb' = "none"
            /\ sync' = NoSync
       ELSE sync' = [sync EXCEPT !.pc = "report"] /\ UNCHANGED <<pend, rb>>
    /\ UNCHANGED <<durable, phase, ram, mut, http, counts>>

\* reportConfiguration(version, "applied"): recorded by the server and by
\* setServerConfigVersion; lost on the way; or recorded by the server while the
\* write of server_cfg fails, which may have been made all the same.
Recorded(v) ==
    /\ Reachable /\ mut = NoMutation /\ v >= srvCfg.ram
    /\ srvCfg' = [nvs |-> IF v = srvCfg.ram THEN srvCfg.nvs ELSE v, ram |-> v]
    /\ applied' = v /\ Works
NotRecorded(v) ==
    /\ UNCHANGED applied
    /\ \/ UNCHANGED srvCfg /\ Works
       \/ Reachable /\ mut = NoMutation /\ Unconfirmed(srvCfg', srvCfg, [srvCfg EXCEPT !.nvs = v])

ReportApplied ==
    /\ phase = "up" /\ sync.pc = "report"
    /\ \/ Recorded(sync.ver) /\ sync' = NoSync
       \/ /\ NotRecorded(sync.ver)
          /\ sync' = IF networkCriticalChanged(sync.before, ram.conf)
                     THEN [sync EXCEPT !.pc = "undo"] ELSE NoSync
    /\ UNCHANGED <<act, oth, cred, journal, phase, ram, mut, http, pend, rb, offer, setups,
                   told, overtaken, cuts>>

\* ConfigService::rollbackToPrevious(expected generation).
RollbackAllowed_Mut(gen) == TRUE  \* whatever the generation is by now
RollbackAllowed(gen) == ram.gen = gen /\ act.gen = gen

UndoRemote ==
    /\ sync.pc = "undo" /\ ~FromSync
    /\ \/ /\ Free /\ RollbackAllowed(sync.gen)
          /\ Start("rollback", "select", Factory, sync.gen) /\ UNCHANGED sync
       \/ GivesUp /\ sync' = NoSync  \* another generation by now, or not in time
    /\ UNCHANGED <<durable, phase, ram, http, pend, rb, counts>>

rollbackToPrevious ==
    /\ At("select")
    /\ \/ SelectOlder /\ ram' = oth /\ Return(TRUE)
       \/ NotSelected /\ UNCHANGED ram /\ Return(FALSE)
    /\ UNCHANGED <<cred, journal, srvCfg, phase, offer, setups, overtaken, applied, cuts>>

\* The validation of a staged station change, at each tick.
Validating == SyncIdle /\ pend # NoPend /\ ~FromSync

Superseded ==
    /\ Validating /\ ram.gen # pend.gen
    /\ pend' = NoPend /\ rb' = "superseded"
    /\ UNCHANGED <<durable, phase, ram, mut, http, sync, counts>>

\* The report is under way while other tasks go on.
ValidateBegin ==
    /\ Validating /\ ram.gen = pend.gen /\ Connected(ram.conf)
    /\ sync' = [NoSync EXCEPT !.pc = "validate"]
    /\ UNCHANGED <<durable, phase, ram, mut, http, pend, rb, counts>>

ValidateEnd ==
    /\ phase = "up" /\ sync.pc = "validate"
    /\ \/ Recorded(pend.ver) /\ pend' = NoPend
       \/ NotRecorded(pend.ver) /\ UNCHANGED pend
    /\ sync' = NoSync
    /\ UNCHANGED <<act, oth, cred, journal, phase, ram, mut, http, rb, offer, setups, told,
                   overtaken, cuts>>

\* Thirty seconds have passed: back to the previous configuration.  The
\* validation is over whatever rollbackToPrevious answers; "busy" stands for
\* the conflict of a call that gave up.
Expire_Mut ==  \* the validation waits behind the online gate
    /\ Validating /\ Free /\ ram.gen = pend.gen /\ Reachable
    /\ Start("expire", "select", Factory, pend.gen)
    /\ UNCHANGED <<durable, phase, ram, tasks, counts>>

Expire ==
    /\ Validating /\ ram.gen = pend.gen
    /\ \/ /\ Free /\ RollbackAllowed(pend.gen)
          /\ Start("expire", "select", Factory, pend.gen) /\ UNCHANGED <<pend, rb>>
       \/ /\ Free /\ ~RollbackAllowed(pend.gen)
          /\ pend' = NoPend /\ rb' = Restored(FALSE) /\ UNCHANGED mut
       \/ GivesUp /\ pend' = NoPend /\ rb' = "busy"
    /\ UNCHANGED <<durable, phase, ram, http, sync, counts>>

ReportRolledBack ==
    /\ SyncIdle /\ pend = NoPend /\ rb \in {"restored", "superseded"} /\ Reachable
    /\ rb' = "none"
    /\ UNCHANGED <<durable, phase, ram, mut, http, sync, pend, counts>>

-----------------------------------------------------------------------------
(* Power *)

PowerCut ==
    /\ phase \in {"up", "boot"} /\ cuts < MaxCut /\ cuts' = cuts + 1
    /\ Forget /\ phase' = "off"
    /\ UNCHANGED <<durable, offer, setups, told, overtaken, applied, faults>>

\* A boot that failed stays in setup() until the power is cycled.
PowerCycle == /\ phase = "halted" /\ Forget /\ phase' = "off"
              /\ UNCHANGED <<durable, counts>>

Boot ==
    /\ phase = "off" /\ phase' = "boot"
    /\ Start("boot", "probe", Factory, 0)
    /\ srvCfg' = [srvCfg EXCEPT !.ram = srvCfg.nvs]
    /\ UNCHANGED <<act, oth, cred, journal, ram, tasks, counts>>

-----------------------------------------------------------------------------
Commit == WriteSlot \/ WriteMarker \/ VerifyAndPublish \/ CandidateRollback
Setup == \/ commitProvisioning \/ WriteJournal \/ DropJournal \/ WriteToken \/ WriteSalt
         \/ WriteHash \/ ClearJournal
Operator == \/ RefuseOperator \/ RequestSetup \/ RequestUpdate \/ updateFromJson \/ updateNetworkSettings
            \/ networkReset \/ Restart
Remote == \/ fetchConfiguration \/ ApplyRemote \/ CompareApplied \/ ReportApplied \/ UndoRemote
          \/ rollbackToPrevious \/ Superseded \/ ValidateBegin \/ ValidateEnd \/ Expire
          \/ ReportRolledBack
ConfigNext == \/ Commit \/ Setup \/ Recovery \/ Operator \/ ServerPublishes \/ Remote
              \/ PowerCut \/ PowerCycle \/ Boot

\* The mutation that holds the mutex goes on; ServerSync's tick goes on; the
\* validation window ends.
Mutation == Commit \/ Setup \/ Recovery \/ rollbackToPrevious \/ Restart
Tick == ApplyRemote \/ CompareApplied \/ ReportApplied \/ UndoRemote \/ Superseded \/ ValidateEnd
Fairness == /\ WF_configVars(Mutation) /\ WF_configVars(Tick)
            /\ WF_configVars(Expire) /\ WF_configVars(Boot)
ConfigSpec == ConfigInit /\ [][ConfigNext]_configVars /\ Fairness

-----------------------------------------------------------------------------
(* Properties *)

Quiescent == phase = "up" /\ mut = NoMutation

\* commitProvisioning is one transaction: whenever no mutation is running and
\* no journal is left, the token, the salt, the hash and the active
\* configuration all come from the same setup, also after power losses and
\* failed writes during the setup or during its recovery.
SetupAtomic ==
    Quiescent /\ journal = NoJournal =>
        /\ cred.tok = cred.salt /\ cred.salt = cred.hash
        /\ act.conf.setup = cred.tok

\* What the operator was told is saved is not undone: neither the recovery of
\* a setup nor the rollback of a remote update goes back behind it.
OperatorUpdateKept == Quiescent => act.gen >= told

\* A version that was reported to the server as applied stays in force,
\* unless an operator's network settings, edited on a copy taken before it,
\* replaced it.
AppliedStays == Quiescent /\ act.conf.rev < applied => overtaken

\* Updates that were answered stay.
AnsweredUpdatesKept == OperatorUpdateKept /\ AppliedStays

\* A remote update to a network the device cannot join is undone (or has been
\* replaced by a newer configuration), if no NVS call failed and power was
\* not lost meanwhile: validation runs although the device is offline.  The
\* code has one more way out, which is never retried: rollbackToPrevious does
\* not get the mutex within 2 s or finds the configuration frozen, and the
\* device stays on the network it cannot join.
BadNetworkUndone ==
    \A g \in 1 .. MaxGen :
        pend.gen = g /\ ram.conf.net = "bad"
            ~> \/ ram.conf.net # "bad" \/ ram.gen # g \/ rb = "busy"
               \/ faults > 0 \/ cuts > 0
=============================================================================
