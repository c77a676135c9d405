------------------------------- MODULE Network -------------------------------
(***************************************************************************)
(* NetworkService: the station connection with its retries, the setup      *)
(* access point of a device that is not configured or whose credentials    *)
(* the network rejects, and the request for network time.                  *)
(*                                                                         *)
(* update() runs on the network task under the status mutex and is one     *)
(* step; the Wi-Fi driver, the worker that stores new credentials, and the *)
(* operator act between two of its runs.  The service is a record of its   *)
(* fields, and its methods are operators on that record.  Times are not    *)
(* counted: a timer is off, armed or due, and an armed one becomes due     *)
(* some time later.  The phase_ enumeration, the server flags, mDNS and    *)
(* the diagnostic scan are only shown and logged, and are left out.        *)
(***************************************************************************)
EXTENDS Naturals

CONSTANT MaxChange  \* bound on changed credentials, restarts, lost connections

ASSUME MaxChangeAssumption == MaxChange \in Nat

VARIABLES
    net,        \* the fields of NetworkService and the state of the driver
    cred,       \* stored credentials: "none", "good", or "bad"
    requests,   \* the atomics other tasks set: apply, restart, activity
    air,        \* the configured network is in range
    commit,     \* credentials are stored, their apply is not requested yet
    changes

vars == <<net, cred, requests, air, commit, changes>>

Timers == {"reconnect", "started", "recovery", "ttl", "apStart", "apply", "ntp"}
NoRequests == [apply |-> FALSE, restart |-> FALSE, activity |-> FALSE]
ApOutcomes == {"ok", "nopass", "fail"}
HasCredentials == cred # "none"

\* wifi is WiFi.status(), using the credentials given to WiFi.begin, auth that
\* last_disconnect_reason_ is an authentication failure.
Fresh ==
    [conn |-> FALSE, ap |-> FALSE, restartPending |-> FALSE,
     wifi |-> "idle", using |-> "none", auth |-> FALSE,
     sntp |-> "off", sync |-> FALSE,
     reconnect |-> "due", started |-> "off", recovery |-> "due",
     ttl |-> "armed", apStart |-> "off", apply |-> "off", ntp |-> "due"]

-----------------------------------------------------------------------------
(* The methods *)

stopSetupAp(n) == [n EXCEPT !.ap = FALSE]

startSetupAp_Mut(n, o) ==
    IF o = "ok" THEN [n EXCEPT !.ap = TRUE, !.apStart = "off",
                               !.restartPending = FALSE, !.ttl = "armed"]
    ELSE [n EXCEPT !.ttl = "armed"]  \* (mutant: no further try)

\* Without a password nothing changes but the time of the next try.
startSetupAp(n, o) ==
    CASE o = "nopass" -> [n EXCEPT !.apStart = "armed"]
      [] o = "fail" -> [stopSetupAp(n) EXCEPT !.apStart = "armed", !.ttl = "armed"]
      [] o = "ok" -> [n EXCEPT !.ap = TRUE, !.apStart = "off",
                               !.restartPending = FALSE, !.ttl = "armed"]

connectStation_Mut(n) ==  \* the next attempt is not scheduled
    [n EXCEPT !.wifi = "joining", !.using = cred, !.reconnect = "off",
              !.started = IF @ = "off" THEN "armed" ELSE @]

\* An attempt; the next one is scheduled, and the first one since the last
\* connection starts the time after which recovery is considered.
connectStation(n) ==
    [n EXCEPT !.wifi = "joining", !.using = cred, !.reconnect = "armed",
              !.started = IF @ = "off" THEN "armed" ELSE @]

configureNtp(n) == [n EXCEPT !.sntp = "running", !.ntp = "armed"]

onConnected(n) ==
    LET closed == IF n.ap /\ HasCredentials THEN stopSetupAp(n) ELSE n IN
    configureNtp([closed EXCEPT
        !.conn = TRUE, !.started = "off",
        !.apStart = IF n.restartPending THEN @ ELSE "off"])

applyConfiguration(n, o) ==
    LET closed == IF n.ap /\ HasCredentials THEN stopSetupAp(n) ELSE n
        reset == [closed EXCEPT !.wifi = "idle", !.conn = FALSE, !.started = "off",
                                !.reconnect = "due", !.recovery = "due",
                                !.auth = FALSE, !.apply = "off"]
    IN IF HasCredentials THEN connectStation(reset)
       ELSE IF reset.ap THEN reset ELSE startSetupAp(reset, o)

credentialsLikelyInvalid(n) == n.wifi = "failed" \/ n.auth

shouldStartCredentialRecoveryAp(n) ==
    /\ HasCredentials /\ ~n.ap /\ n.recovery = "due" /\ n.started = "due"
    /\ credentialsLikelyInvalid(n)

-----------------------------------------------------------------------------
(* update(), after its early returns *)

\* A change of the driver's connection is noticed.
Noticed(n) ==
    IF n.wifi = "connected" THEN IF n.conn THEN n ELSE onConnected(n)
    ELSE IF n.conn THEN [n EXCEPT !.conn = FALSE, !.reconnect = "armed"] ELSE n

Retried(n, up) ==
    IF ~up /\ HasCredentials /\ n.reconnect = "due" THEN connectStation(n) ELSE n

Recovered(n, up, o) ==
    IF ~up /\ shouldStartCredentialRecoveryAp(n)
    THEN startSetupAp([n EXCEPT !.recovery = "armed"], o) ELSE n

Expired(n) ==
    IF n.ap /\ HasCredentials /\ n.ttl = "due"
    THEN [stopSetupAp(n) EXCEPT !.recovery = "armed"] ELSE n

TimeAsked(n, up) ==
    IF up /\ ~n.sync /\ n.ntp = "due" THEN configureNtp(n) ELSE n

Serve(n, o) ==
    LET up == n.wifi = "connected"
    IN TimeAsked(Expired(Recovered(Retried(Noticed(n), up), up, o)), up)

\* The requests of the other tasks, in the order update() takes them.
ApRetryDue(n) == n.apStart = "due" /\ (n.restartPending \/ (~n.ap /\ ~n.conn))

Updated(o) ==
    LET n == IF requests.activity THEN [net EXCEPT !.ttl = "armed"] ELSE net
        m == IF requests.apply THEN [n EXCEPT !.apply = "armed"] ELSE n
    IN CASE requests.restart -> startSetupAp([n EXCEPT !.restartPending = TRUE], o)
         [] ~requests.restart /\ ApRetryDue(n) -> startSetupAp(n, o)
         [] ~requests.restart /\ ~ApRetryDue(n) /\ m.apply = "due" -> applyConfiguration(m, o)
         [] OTHER -> Serve(m, o)

\* An early return leaves the request to apply for the next run.
ApplySeen == ~requests.restart /\ ~ApRetryDue(net)

update(o) ==
    /\ net' = Updated(o)
    /\ requests' = [NoRequests EXCEPT !.apply = @ \/ (requests.apply /\ ~ApplySeen)]
    /\ UNCHANGED <<cred, air, commit, changes>>

\* begin() connects, or opens the access point.
Init ==
    /\ cred \in {"none", "good", "bad"}
    /\ \E o \in ApOutcomes :
          net = IF HasCredentials THEN connectStation(Fresh) ELSE startSetupAp(Fresh, o)
    /\ requests = NoRequests /\ commit = FALSE /\ changes = 0
    /\ air \in BOOLEAN

-----------------------------------------------------------------------------
(* The driver and the network *)

Env == UNCHANGED <<cred, requests, air, commit, changes>>

JoinSucceeds ==
    /\ net.wifi = "joining" /\ net.using = "good" /\ air
    /\ net' = [net EXCEPT !.wifi = "connected"]
    /\ Env

\* The event handler stores the reason: the password, which is assumed of every
\* failure in range, or anything else.
JoinFails ==
    /\ net.wifi = "joining"
    /\ \/ net' = [net EXCEPT !.wifi = "failed", !.auth = TRUE] /\ air
       \/ net' = [net EXCEPT !.wifi = "lost", !.auth = FALSE] /\ ~air
    /\ Env

\* Out of range, or (MaxChange times) turned away by the access point.
ConnectionLost ==
    /\ net.wifi = "connected"
    /\ \/ ~air /\ changes' = changes
       \/ air /\ changes < MaxChange /\ changes' = changes + 1
    /\ \E reason \in BOOLEAN : net' = [net EXCEPT !.wifi = "lost", !.auth = reason]
    /\ UNCHANGED <<cred, requests, air, commit>>

SntpAnswers ==
    /\ net.sntp = "running" /\ net.wifi = "connected"
    /\ net' = [net EXCEPT !.sync = TRUE, !.sntp = "off"]
    /\ Env

SntpSilent ==
    /\ net.sntp = "running"
    /\ net' = [net EXCEPT !.sntp = "off"]
    /\ Env

AirChanges ==
    /\ air' = ~air
    /\ UNCHANGED <<net, cred, requests, commit, changes>>

Expires(t) ==
    /\ net[t] = "armed"
    /\ net' = [net EXCEPT ![t] = "due"]
    /\ Env

-----------------------------------------------------------------------------
(* The other tasks *)

\* The worker stores credentials and asks for their application afterwards.
StoreCredentials ==
    /\ ~commit /\ changes < MaxChange
    /\ cred' \in {"good", "bad"} /\ commit' = TRUE /\ changes' = changes + 1
    /\ UNCHANGED <<net, requests, air>>

requestConfigurationApply ==
    /\ commit
    /\ commit' = FALSE /\ requests' = [requests EXCEPT !.apply = TRUE]
    /\ UNCHANGED <<net, cred, air, changes>>

\* A new setup password over USB; a page of the setup portal.
requestSetupApRestart ==
    /\ ~requests.restart /\ changes < MaxChange /\ changes' = changes + 1
    /\ requests' = [requests EXCEPT !.restart = TRUE]
    /\ UNCHANGED <<net, cred, air, commit>>

touchSetupActivity ==
    /\ ~requests.activity /\ net.ap
    /\ requests' = [requests EXCEPT !.activity = TRUE]
    /\ UNCHANGED <<net, cred, air, commit, changes>>

-----------------------------------------------------------------------------
Driver ==
    \/ JoinSucceeds \/ JoinFails \/ ConnectionLost \/ SntpAnswers \/ SntpSilent
    \/ AirChanges

OtherTasks ==
    \/ StoreCredentials \/ requestConfigurationApply
    \/ requestSetupApRestart \/ touchSetupActivity

Next ==
    \/ \E o \in ApOutcomes : update(o)
    \/ \E t \in Timers : Expires(t)
    \/ Driver \/ OtherTasks

\* The network task runs for ever, time passes, the access point can be
\* started now and then, and an exchange that is tried again and again
\* succeeds in the end.
Fairness ==
    /\ WF_vars(\E o \in ApOutcomes : update(o))
    /\ SF_vars(/\ update("ok") /\ (~net.ap \/ net.restartPending)
               /\ net'.ap /\ ~net'.restartPending)
    /\ \A t \in Timers : WF_vars(Expires(t))
    /\ WF_vars(requestConfigurationApply)
    /\ SF_vars(JoinSucceeds) /\ SF_vars(SntpAnswers) /\ SF_vars(JoinFails)

Spec == Init /\ [][Next]_vars /\ Fairness

-----------------------------------------------------------------------------
(* Properties *)

(***************************************************************************)
(* A device that cannot get onto a network can be configured: without      *)
(* credentials, or with credentials the network rejects, its access point  *)
(* opens, although single starts fail, other requests come in between, and *)
(* the point of a configured device is closed again after its time to live.*)
(* The driver is taken to report the rejection as one (JoinFails).         *)
(***************************************************************************)
SetupReachable ==
    /\ cred = "none" ~> net.ap \/ cred # "none"
    /\ cred = "bad" /\ air ~> net.ap \/ cred # "bad" \/ ~air

(***************************************************************************)
(* A device with good credentials comes back: as long as the network is in *)
(* range it gets connected, notices it, and asks for the time until it is  *)
(* synchronized, whatever failed or was requested before.                  *)
(***************************************************************************)
Reconnects ==
    cred = "good" /\ air ~> (net.conn /\ net.sync) \/ cred # "good" \/ ~air
=============================================================================
