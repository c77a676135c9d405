----------------------------- MODULE ServerSync -----------------------------
(***************************************************************************)
(* How durable readings reach the server (network/ServerSync.cpp).         *)
(*                                                                         *)
(* The ServerSync task asks StorageTask for a page after the durable       *)
(* acknowledgement cursor, posts it, and moves the cursor to what the      *)
(* server answers; a heartbeat moves the same cursor.  The answer may be   *)
(* lost, the request may be processed long after the task gave up on it,   *)
(* power may fail, the card may be replaced, and a data reset may close    *)
(* the reading gate at any point: it claims admission, waits for the       *)
(* reading-sync lease, drains, signs its evidence and then starts a new    *)
(* generation.  The reset's own journals are the subject of DataReset, and *)
(* a server that has seen more than the device knows of that of SdSequence.*)
(* Deadlines are abstracted to "some later tick".                          *)
(***************************************************************************)
EXTENDS Naturals, FiniteSets, Sequences, SyncCoverage

CONSTANTS MaxSeq,          \* readings stored in all generations
          Untimed,         \* sequences whose timestamp may be untrustworthy
          MaxGen,          \* resets that complete
          PageLimit,       \* kReadingBatchRecordLimit
          PageBytes,       \* kReadingBatchPayloadBytes
          Bytes,           \* size of a stored reading
          UnavailableLimit,\* unavailable sequences of one page
          QueueDepth,      \* control queue
          MaxSegment,      \* readings of a segment
          Faults,          \* which faults happen
          MaxFault         \* how many

ASSUME SyncAssumption ==
  /\ MaxSeq \in Nat \ {0} /\ Untimed \subseteq 1 .. MaxSeq /\ MaxGen \in Nat
  /\ PageLimit \in Nat \ {0} /\ PageBytes \in Nat
  /\ Bytes \in [1 .. MaxSeq -> Nat]
  /\ UnavailableLimit \in Nat \ {0}
  /\ QueueDepth \in Nat \ {0} /\ MaxSegment \in Nat \ {0}
  /\ Faults \subseteq {"power", "swap", "timeout", "expiry", "open"}
  /\ MaxFault \in Nat

VARIABLES card,     \* the retained records: "none", "sync" or "plain"
          next,     \* next_sequence of SdStorage
          born,     \* generation in which a sequence was stored
          kept,     \* syncable readings the device still answers for
          gen,      \* data generation
          boundary, \* data reset boundary
          cur,      \* durable cursors: acknowledgement, maximum seen
          reset,    \* progress of a data reset
          evidence, \* cursors signed in the Prepared record
          job,      \* reading_page_job_id_
          slot,     \* the result slot of that job
          queue,    \* history jobs in the control queue, next one first
          observed, \* data_reset_gate_observed_
          pc,       \* where the ServerSync task is
          who,      \* which operation takes the lease
          net,      \* the request or the answer in flight
          late,     \* a request the task gave up on, not yet processed
          hold,     \* what heartbeat() decided before it took the lease
          srv,      \* the server: generation, base, accepted, unavailable
          budget    \* faults still allowed

storageVars == <<card, next, born, kept>>
deviceVars  == <<gen, boundary, cur>>
resetVars   == <<reset, evidence>>
pageVars    == <<job, slot, queue, observed>>
taskVars    == <<pc, who, hold>>
wireVars    == <<net, late, srv>>
vars == <<storageVars, deviceVars, resetVars, pageVars, taskVars, wireVars,
          budget>>

Seqs == 1 .. MaxSeq
Gens == 0 .. MaxGen
Cursors == [ack : 0 .. MaxSeq, max : 0 .. MaxSeq]
Pages == [ok : BOOLEAN, records : SUBSET Seqs, unavailable : SUBSET Seqs]
Batches == [gen : Gens, records : SUBSET Seqs, unavailable : SUBSET Seqs]
ResetSteps == {"none", "admitted", "frozen", "drained", "prepared"}

\* The variables keep their types; a page, a batch or an answer is only
\* there at the points of the task that use it.
TypeOK ==
  /\ card \in [Seqs -> {"none", "sync", "plain"}]
  /\ next \in 1 .. MaxSeq + 1
  /\ born \in [Seqs -> Gens] /\ kept \subseteq Seqs
  /\ gen \in Gens /\ boundary \in 0 .. MaxSeq
  /\ cur \in Cursors /\ evidence \in Cursors
  /\ reset \in ResetSteps
  /\ job \in {"none", "held"}
  /\ slot.state \in {"free", "pending", "ready"} /\ slot.page \in Pages
  /\ queue \in Seq([after : 0 .. MaxSeq, live : BOOLEAN])
  /\ Len(queue) <= QueueDepth
  /\ observed \in BOOLEAN
  /\ pc \in {"idle", "beat", "looked", "leased", "holding", "posted"}
  /\ who \in {"push", "heartbeat"}
  /\ net.kind \in {"none", "batch", "heartbeat", "answer", "failed"}
  /\ late \in SUBSET Batches /\ Cardinality(late) <= 1
  /\ hold \in [ack : 0 .. MaxSeq, max : 0 .. MaxSeq, regressed : BOOLEAN]
  /\ srv.gen \in Gens /\ srv.base \in 0 .. MaxSeq
  /\ srv.got \subseteq (Seqs \X Gens) /\ srv.gone \subseteq Seqs
  /\ budget \in 0 .. MaxFault
  /\ (pc = "posted" => net.kind \in {"batch", "answer", "failed"})
  /\ (pc \in {"idle", "looked", "leased", "holding"}
        => net.kind = "none")

NoPage == [ok |-> FALSE, records |-> {}, unavailable |-> {}]
Free == [state |-> "free", page |-> NoPage]
Pending == [state |-> "pending", page |-> NoPage]
NoAnswer == [ack |-> 0, max |-> 0, regressed |-> FALSE]
NoCursor == [ack |-> 0, max |-> 0]
Silence == [kind |-> "none"]

Init ==
  /\ card = [s \in Seqs |-> "none"] /\ next = 1
  /\ born = [s \in Seqs |-> 0] /\ kept = {}
  /\ gen = 0 /\ boundary = 0
  /\ cur = NoCursor /\ evidence = NoCursor
  /\ reset = "none"
  /\ job = "none" /\ slot = Free /\ queue = <<>> /\ observed = FALSE
  /\ pc = "idle" /\ who = "push"
  /\ hold = NoAnswer
  /\ net = Silence /\ late = {}
  /\ srv = [gen |-> 0, base |-> 0, got |-> {}, gone |-> {}]
  /\ budget = MaxFault

CanFault(f) == f \in Faults /\ budget > 0
Fault(f) == CanFault(f) /\ budget' = budget - 1

-----------------------------------------------------------------------------
\* The card, as StorageTask sees it.

Retained == {s \in Seqs : card[s] # "none"}
Syncable == {s \in Seqs : card[s] = "sync"}
oldest_sequence == IF Retained = {} THEN 0 ELSE Min(Retained)
newest_sequence == IF Retained = {} THEN 0 ELSE Max(Retained)
newest_syncable_sequence == IF Syncable = {} THEN 0 ELSE Max(Syncable)

resetAdmissionActive == reset # "none"
dataResetFrozen == reset \notin {"none", "admitted"}
recordWritesEnabled == ~dataResetFrozen

\* A reading is appended with or without a trustworthy timestamp.
appendRecord ==
  /\ recordWritesEnabled /\ next <= MaxSeq
  /\ \E kind \in {"sync"} \cup (IF next \in Untimed THEN {"plain"} ELSE {}) :
       /\ card' = [card EXCEPT ![next] = kind]
       /\ kept' = IF kind = "sync" THEN kept \cup {next} ELSE kept
  /\ born' = [born EXCEPT ![next] = gen]
  /\ next' = next + 1
  /\ UNCHANGED <<deviceVars, resetVars, pageVars, taskVars, wireVars, budget>>

\* Retention deletes a whole segment, and only an acknowledged one.
Segment(s) == {t \in Seqs : (t - 1) \div MaxSegment = (s - 1) \div MaxSegment}
RemoveSegment ==
  \E s \in Retained :
    /\ \A t \in Segment(s) : t < next /\ t <= cur.ack
    /\ card' = [t \in Seqs |-> IF t \in Segment(s) THEN "none" ELSE card[t]]
    /\ UNCHANGED <<next, born, kept, deviceVars, resetVars, pageVars,
                   taskVars, wireVars, budget>>

\* What the scan selects of a set of records.  The segments are read in the
\* order of their names, which end in random boot ids.
Selections ==
  [S \in SUBSET Seqs |->
     {Candidates(order, Bytes, PageLimit, PageBytes) : order \in SetToSeqs(S)}]
Scanned(after, unreadable) == {s \in Syncable \ unreadable : s > after}

\* readPage.  A cursor below the oldest record is answered as expired; a
\* segment that cannot be opened is passed over.
readPage(after, unreadable, candidates) ==
  LET seen == Scanned(after, unreadable) IN
  IF after # 0 /\ oldest_sequence # 0 /\ after + 1 < oldest_sequence
  THEN NoPage
  ELSE CoveragePage(after, newest_sequence, seen, candidates,
                    \E s \in seen : Bytes[s] > PageBytes, UnavailableLimit)

\* StorageTask takes the first history job and publishes the page into the
\* slot that still carries the job's id.
HistoryJob ==
  /\ queue # <<>> /\ queue' = Tail(queue)
  /\ \E unreadable \in {{}} \cup
          (IF CanFault("open") THEN {Segment(s) : s \in Retained} ELSE {}) :
     \E candidates \in Selections[Scanned(Head(queue).after, unreadable)] :
       LET page == readPage(Head(queue).after, unreadable, candidates) IN
       /\ slot' = IF Head(queue).live THEN [state |-> "ready", page |-> page]
                  ELSE slot
       /\ IF unreadable = {} THEN UNCHANGED budget ELSE Fault("open")
  /\ UNCHANGED <<job, observed, storageVars, deviceVars, resetVars, taskVars,
                 wireVars>>

\* The id of a slot that is emptied belongs to no slot any more.
ForgetJobs == [i \in DOMAIN queue |-> [queue[i] EXCEPT !.live = FALSE]]
\* Mutant: a page survives the reset that made it stale.
clearReadingHistoryResults_Mut == UNCHANGED <<slot, queue>>

clearReadingHistoryResults == slot' = Free /\ queue' = ForgetJobs

\* A published page expires after 15 s.  The task polls every 250 ms, so
\* this takes a heartbeat that keeps it away that long.
HistoryExpires ==
  /\ slot.state = "ready" /\ pc = "beat" /\ Fault("expiry")
  /\ slot' = Free
  /\ UNCHANGED <<job, queue, observed, storageVars, deviceVars, resetVars,
                 taskVars, wireVars>>

-----------------------------------------------------------------------------
\* The server, as the code uses it (external).

Covered(server) == {s \in Seqs : \/ s <= server.base
                                 \/ \E g \in Gens : <<s, g>> \in server.got
                                 \/ s \in server.gone}
Contiguous(S) == Max({n \in 0 .. MaxSeq : \A s \in 1 .. n : s \in S})
ServerAck(server) == Contiguous(Covered(server))
ServerMax(server) == Max(Covered(server) \cup {0})

\* A batch of another generation is refused; a sequence the server already
\* has is a duplicate.
Accept(server, b) ==
  IF b.gen # server.gen THEN server
  ELSE [server EXCEPT
          !.got = @ \cup {<<s, b.gen>> : s \in b.records},
          !.gone = @ \cup {s \in b.unavailable : s \notin Covered(server)}]

ServerAnswers ==
  /\ net.kind \in {"batch", "heartbeat"}
  /\ LET after == IF net.kind = "batch" THEN Accept(srv, net.body) ELSE srv IN
     /\ srv' = after
     /\ net' = IF net.kind = "batch" /\ net.body.gen # srv.gen
               THEN [kind |-> "failed"]
               ELSE [kind |-> "answer", ack |-> ServerAck(after),
                     max |-> ServerMax(after)]
  /\ UNCHANGED <<late, storageVars, deviceVars, resetVars, pageVars, taskVars,
                 budget>>

\* request() gives up (DNS, TLS, the 30 s limit, memory): the request was
\* processed, never arrives, or is still on its way.
RequestTimesOut ==
  /\ net.kind \in {"batch", "heartbeat"} /\ Fault("timeout")
  /\ \/ net.kind = "batch" /\ late = {} /\ late' = {net.body} /\ UNCHANGED srv
     \/ UNCHANGED <<late, srv>>
     \/ /\ net.kind = "batch" /\ srv' = Accept(srv, net.body)
        /\ UNCHANGED late
  /\ net' = [kind |-> "failed"]
  /\ UNCHANGED <<storageVars, deviceVars, resetVars, pageVars, taskVars>>

LateRequest ==
  /\ \E b \in late : srv' = Accept(srv, b)
  /\ late' = {}
  /\ UNCHANGED <<net, storageVars, deviceVars, resetVars, pageVars, taskVars,
                 budget>>

\* The server learns of a completed reset and follows its generation.
ServerAdopts ==
  /\ srv.gen # gen
  /\ srv' = [srv EXCEPT !.gen = gen, !.base = boundary]
  /\ UNCHANGED <<net, late, storageVars, deviceVars, resetVars, pageVars,
                 taskVars, budget>>

-----------------------------------------------------------------------------
\* tick(): one operation per tick.

Release == pc' = "idle" /\ who' = "push" /\ hold' = NoAnswer

\* The first tick that sees the reset gate drops the page, the first one
\* that sees it open again resumes.
ObserveGate ==
  /\ pc = "idle"
  /\ dataResetFrozen # observed
  /\ observed' = dataResetFrozen
  /\ IF dataResetFrozen
     THEN job' = "none" /\ clearReadingHistoryResults
     ELSE UNCHANGED <<job, slot, queue>>
  /\ UNCHANGED <<storageVars, deviceVars, resetVars, taskVars, wireVars,
                 budget>>

Observed == dataResetFrozen = observed

HeartbeatSend ==
  /\ pc = "idle" /\ Observed
  /\ pc' = "beat" /\ net' = [kind |-> "heartbeat"]
  /\ UNCHANGED <<who, hold, late, srv, storageVars, deviceVars,
                 resetVars, pageVars, budget>>

\* heartbeat(): the answer is classified against the cursors of that moment,
\* before the lease is asked for; the first look at the admission follows.
classifyAcknowledgement(current, answer) ==
  answer.ack < current.ack \/ answer.max < current.max
HeartbeatAnswered ==
  /\ pc = "beat" /\ net.kind \in {"answer", "failed"}
  /\ net' = Silence
  /\ IF net.kind = "failed" \/ resetAdmissionActive
     THEN Release
     ELSE /\ pc' = "looked" /\ who' = "heartbeat"
          /\ hold' = [ack |-> net.ack, max |-> net.max,
                      regressed |-> classifyAcknowledgement(cur, net)]
  /\ UNCHANGED <<late, srv, storageVars, deviceVars, resetVars, pageVars,
                 budget>>

\* pushReadings() is called when the card has a syncable record above the
\* cursor.
durable_reading_backlog == cur.ack < newest_syncable_sequence

\* Without the lease pushReadings drops its page, heartbeat its cursors.
Denied == Release /\ job' = IF who = "push" THEN "none" ELSE job

\* tryBeginReadingSync: look at the admission, take the lease, look again.
SyncLook ==
  /\ pc = "idle" /\ Observed /\ ~dataResetFrozen
  /\ durable_reading_backlog
  /\ IF resetAdmissionActive THEN Denied
     ELSE pc' = "looked" /\ UNCHANGED <<who, hold, job>>
  /\ UNCHANGED <<slot, queue, observed, storageVars, deviceVars, resetVars,
                 wireVars, budget>>

SyncLease ==
  /\ pc = "looked"
  /\ pc' = "leased"
  /\ UNCHANGED <<who, hold, storageVars, deviceVars, resetVars,
                 pageVars, wireVars, budget>>

\* Mutant: the lease is good without a second look.
SyncRecheck_Mut ==
  /\ pc = "leased"
  /\ pc' = "holding"
  /\ UNCHANGED <<who, hold, job, slot, queue, observed, storageVars, deviceVars,
                 resetVars, wireVars, budget>>

SyncRecheck ==
  /\ pc = "leased"
  /\ IF resetAdmissionActive THEN Denied
     ELSE pc' = "holding" /\ UNCHANGED <<who, hold, job>>
  /\ UNCHANGED <<slot, queue, observed, storageVars, deviceVars,
                 resetVars, wireVars, budget>>

readingSyncInFlight == pc \in {"leased", "holding", "posted"}

\* setServerAckSequence and setServerMaximumSeenSequence refuse to go back.
Raise(current, value) == IF value < current THEN current ELSE value

HeartbeatApply ==
  /\ pc = "holding" /\ who = "heartbeat"
  /\ cur' = IF hold.regressed \/ dataResetFrozen THEN cur
            ELSE [ack |-> Raise(cur.ack, hold.ack),
                  max |-> Raise(cur.max, hold.max)]
  /\ Release
  /\ UNCHANGED <<gen, boundary, storageVars, resetVars, pageVars,
                 wireVars, budget>>

\* pushReadings(), the part that asks for a page.
PushQueue ==
  /\ pc = "holding" /\ who = "push" /\ job = "none"
  /\ IF dataResetFrozen \/ Len(queue) >= QueueDepth
     THEN UNCHANGED <<job, slot, queue>>
     ELSE /\ job' = "held" /\ slot' = Pending
          /\ queue' = <<[after |-> cur.ack, live |-> TRUE]>> \o ForgetJobs
  /\ Release
  /\ UNCHANGED <<observed, storageVars, deviceVars, resetVars,
                 wireVars, budget>>

\* Mutant: the id of an expired page is polled for ever.
PushPoll_Mut ==
  /\ pc = "holding" /\ who = "push" /\ job = "held"
  /\ IF slot.state # "ready" \/ resetAdmissionActive
     THEN Release /\ UNCHANGED <<job, slot, net>>
     ELSE /\ job' = "none" /\ slot' = Free
          /\ pc' = "posted" /\ UNCHANGED <<who, hold>>
          /\ net' = [kind |-> "batch",
                     body |-> [gen |-> gen, records |-> slot.page.records,
                               unavailable |-> slot.page.unavailable]]
  /\ UNCHANGED <<queue, observed, late, srv, storageVars, deviceVars,
                 resetVars, budget>>

\* The part that polls it; a finished page becomes a request under the
\* generation of this moment.  A prepare that won after the page was
\* selected stops the POST.
PushPoll ==
  /\ pc = "holding" /\ who = "push" /\ job = "held"
  /\ IF dataResetFrozen \/ slot.state = "free"
     THEN /\ job' = "none" /\ Release
          /\ UNCHANGED <<slot, net>>
     ELSE IF slot.state = "pending"
     THEN Release /\ UNCHANGED <<job, slot, net>>
     ELSE /\ job' = "none" /\ slot' = Free
          /\ IF /\ slot.page.ok
                /\ slot.page.records # {} \/ slot.page.unavailable # {}
                /\ ~resetAdmissionActive
             THEN /\ pc' = "posted" /\ UNCHANGED <<who, hold>>
                  /\ net' = [kind |-> "batch",
                             body |-> [gen |-> gen,
                                       records |-> slot.page.records,
                                       unavailable |-> slot.page.unavailable]]
             ELSE Release /\ UNCHANGED net
  /\ UNCHANGED <<queue, observed, late, srv, storageVars, deviceVars,
                 resetVars, budget>>

\* Mutant: an accepted batch acknowledges everything stored so far.
PushAnswered_Mut ==
  /\ pc = "posted" /\ net.kind \in {"answer", "failed"}
  /\ cur' = IF net.kind = "answer" /\ ~resetAdmissionActive
            THEN [cur EXCEPT !.ack = Raise(@, newest_syncable_sequence)] ELSE cur
  /\ net' = Silence
  /\ Release
  /\ UNCHANGED <<gen, boundary, late, srv, storageVars, resetVars, pageVars,
                 budget>>

\* The answer moves the cursor unless a reset was admitted meanwhile.
PushAnswered ==
  /\ pc = "posted" /\ net.kind \in {"answer", "failed"}
  /\ cur' = IF /\ net.kind = "answer"
               /\ ~dataResetFrozen /\ ~resetAdmissionActive
               /\ net.ack > cur.ack /\ net.ack <= newest_syncable_sequence
            THEN [cur EXCEPT !.ack = net.ack] ELSE cur
  /\ net' = Silence
  /\ Release
  /\ UNCHANGED <<gen, boundary, late, srv, storageVars, resetVars,
                 pageVars, budget>>

-----------------------------------------------------------------------------
\* The data reset, as far as it meets the upload.

ResetAdmit ==
  /\ reset = "none" /\ gen < MaxGen
  /\ reset' = "admitted"
  /\ UNCHANGED <<evidence, storageVars, deviceVars, pageVars, taskVars,
                 wireVars, budget>>

\* applyGates(true) finished: configuration frozen, record writes disabled.
ResetFreeze ==
  /\ reset = "admitted"
  /\ reset' = "frozen"
  /\ UNCHANGED <<evidence, storageVars, deviceVars, pageVars, taskVars,
                 wireVars, budget>>

\* The prepare barrier is queued once no lease is held, runs on StorageTask
\* behind the history jobs and drops the pages read so far.
ResetBarrier ==
  /\ reset = "frozen" /\ ~readingSyncInFlight /\ queue = <<>>
  /\ reset' = "drained"
  /\ clearReadingHistoryResults
  /\ UNCHANGED <<evidence, job, observed, storageVars, deviceVars, taskVars,
                 wireVars, budget>>

ResetPrepared ==
  /\ reset = "drained" /\ ~readingSyncInFlight
  /\ reset' = "prepared"
  /\ evidence' = [ack |-> cur.ack, max |-> Max({cur.ack, cur.max})]
  /\ UNCHANGED <<storageVars, deviceVars, pageVars, taskVars, wireVars, budget>>

ResetCancel ==
  /\ reset \in {"frozen", "drained", "prepared"}
  /\ reset' = "none" /\ evidence' = NoCursor
  /\ UNCHANGED <<storageVars, deviceVars, pageVars, taskVars,
                 wireVars, budget>>

\* The commit: the cursors and the boundary move to the approved boundary,
\* the readings are cleared, the gates open in the next generation.
ResetCommit ==
  /\ reset = "prepared"
  /\ LET b == Max({next - 1, evidence.max}) IN
     /\ boundary' = b
     /\ cur' = [ack |-> b, max |-> b]
     /\ next' = b + 1
  /\ gen' = gen + 1
  /\ card' = [s \in Seqs |-> "none"] /\ kept' = {}
  /\ reset' = "none" /\ evidence' = NoCursor
  /\ clearReadingHistoryResults
  /\ UNCHANGED <<born, job, observed, taskVars, wireVars, budget>>

-----------------------------------------------------------------------------
\* Power loss: memory is gone; a reset that was only admitted is forgotten,
\* a durable one closes its gates again at boot.
Reboot ==
  /\ job' = "none" /\ slot' = Free /\ queue' = <<>> /\ observed' = FALSE
  /\ pc' = "idle" /\ who' = "push"
  /\ hold' = NoAnswer
  /\ net' = Silence
  /\ late' = IF net.kind = "batch" THEN {net.body} ELSE late
  /\ reset' = CASE reset = "admitted" -> "none"
                [] reset = "drained" -> "frozen"
                [] OTHER -> reset
  /\ UNCHANGED <<evidence, deviceVars, srv, born>>

PowerLoss ==
  /\ Fault("power")
  /\ Reboot
  /\ UNCHANGED <<card, next, kept>>

\* The card is exchanged for an empty one while the device is off, with or
\* without the removal having been prepared (which checkpoints the newest
\* sequence); boot starts above the durable floors.
ReplaceCard ==
  /\ Fault("swap") /\ reset = "none"
  /\ net.kind # "batch" /\ late = {}
  /\ ServerMax(srv) <= Max({cur.ack, cur.max})
  /\ Reboot
  /\ card' = [s \in Seqs |-> "none"] /\ kept' = {}
  /\ \E prepared \in {0, newest_sequence} :
       next' = Max({cur.ack, cur.max, prepared}) + 1

-----------------------------------------------------------------------------
Storage == appendRecord \/ RemoveSegment \/ HistoryJob \/ HistoryExpires
Server == ServerAnswers \/ RequestTimesOut \/ LateRequest \/ ServerAdopts
Push == PushQueue \/ PushPoll \/ PushAnswered
Heartbeat == HeartbeatSend \/ HeartbeatAnswered \/ HeartbeatApply
Lease == SyncLease \/ SyncRecheck
Reset == \/ ResetAdmit \/ ResetFreeze \/ ResetBarrier \/ ResetPrepared
         \/ ResetCancel \/ ResetCommit
Next == \/ Storage \/ Server \/ ObserveGate \/ Push \/ Heartbeat \/ SyncLook \/ Lease
        \/ Reset \/ PowerLoss \/ ReplaceCard

\* The tasks are scheduled, the server answers and follows a reset; a tick
\* that finds no heartbeat due pushes readings, and the next heartbeat is
\* due seconds after the last one.
TaskStep == Push \/ Lease \/ HeartbeatAnswered \/ HeartbeatApply
Fairness ==
  /\ WF_vars(HistoryJob) /\ WF_vars(ServerAnswers) /\ WF_vars(ServerAdopts)
  /\ WF_vars(ObserveGate) /\ WF_vars(TaskStep)
  /\ SF_vars(SyncLook)

Spec == Init /\ [][Next]_vars /\ Fairness

-----------------------------------------------------------------------------
\* What must hold.

\* A syncable reading the device still answers for (not cut off by a reset,
\* not taken away with a card) is at the server before the cursor passes it:
\* it is never skipped, declared unavailable or deleted undelivered.
DeliveredBeforeForgotten ==
  \A s \in kept : s <= cur.ack => \E g \in Gens : <<s, g>> \in srv.got

\* Every sequence the cursor has passed is accounted for at the server, or
\* lies below the boundary of a reset.
CursorBehindServer ==
  cur.ack <= boundary \/ cur.ack <= ServerAck(srv)

\* No reading reaches the server under another generation than the one it
\* was stored in, however late its page, its request or its answer is.
GenerationKept == \A p \in srv.got : born[p[1]] = p[2]

\* Once the reset has signed its evidence no upload is past its second look
\* (a provisional lease may come and go) and the cursors stay what was signed.
NoUploadBehindEvidence ==
  reset = "prepared" => /\ pc \notin {"holding", "posted"}
                        /\ cur.ack = evidence.ack
                        /\ Max({cur.ack, cur.max}) = evidence.max

\* The case in which the upload is known to stall: sequences above the
\* cursor went away with a card, and readPage answers "history_expired".
HoleBelowOldest ==
  cur.ack # 0 /\ oldest_sequence # 0 /\ cur.ack + 1 < oldest_sequence

\* While the gates are open the backlog is delivered, unless a hole precedes
\* the oldest retained reading.
BacklogDelivered ==
  []<>(~durable_reading_backlog \/ resetAdmissionActive \/ HoleBelowOldest)

\* docs: after a replacement the upload resumes; holes are declared.
BacklogDeliveredAfterSwap ==
  []<>(~durable_reading_backlog \/ resetAdmissionActive)
=============================================================================
