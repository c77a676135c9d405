---------------------- MODULE StorageCoordinatorProofs ----------------------
(***************************************************************************)
(* Proofs about StorageCoordinator, for every depth of the queues and      *)
(* pools, every number of intervals, events, resets and retention          *)
(* requests, and every set of faults: the fence of a prepared reset, the   *)
(* evidence it froze, and that no interval and no event is lost between    *)
(* the tasks, however they interleave.                                     *)
(*                                                                         *)
(* The fence rests on three things (FenceInv): the gate is closed from the *)
(* admission of a prepare to its end, one barrier at most is on its way    *)
(* and it is the current operation's once a barrier has been asked for     *)
(* (BarrierInv), and a producer that is past its second look at the gate   *)
(* is counted as in flight.                                                *)
(***************************************************************************)
EXTENDS StorageCoordinator, TLAPS

Barriers == {"prepare", "cleanup"}
InBarrier == {"quiesce", "drain", "publish"}
Messages == [type : {"record", "event"}, id : Nat]

AggPlaces == {"loop", "frozen", "stage", "staging", "mark", "resume", "take", "closed",
              "unfrozen", "enqueue", "count", "recheck", "send", "sent", "full", "drop"}

\* The places of AggregationTask between counting itself in and out.
Counted == {"staging", "recheck", "send", "sent", "full"}

\* The places where it runs enqueueRecord, and where it has a record in hand.
Enqueueing == {"enqueue", "count", "recheck", "send", "sent", "full", "drop"}
Handing == {"closed", "unfrozen"} \cup Enqueueing

AggRecord ==
  [pc : AggPlaces, partial : BOOLEAN, hand : Nat \cup {None}, boundary : Seq(Nat),
   observed : BOOLEAN, complete : BOOLEAN, paused : Nat, op : Nat]

TaskRecord ==
  [pc : {"loop", "control", "wait"} \cup InBarrier, pending : Nat \cup {None},
   gap : SUBSET Nat, held : Seq(Messages), cleanup : BOOLEAN, left : Nat,
   failed : BOOLEAN]

CardRecord == [stored : SUBSET Nat, noted : SUBSET Nat, events : SUBSET Nat,
               error : FaultKinds \cup {"none", "gap"}]

JournalRecord == [state : {"none", "staged", "assigned", "completed"}, op : Nat,
                  intervals : SUBSET Nat]

TallyRecord == [closed : Nat, refused : SUBSET Nat, gone : SUBSET Nat, events : Nat,
                shed : SUBSET Nat, retention : Nat]

\* The phases in which the gate is open.
OpenPhases == {"released", "freezing", "closing", "unfreezing", "ending"}

\* The reset coordinator's side: where the gates stand in each phase.
GateInv ==
  /\ gate \in [writes : BOOLEAN, frozen : BOOLEAN]
  /\ producer \in [active : BOOLEAN, quiesced : BOOLEAN, op : Nat]
  /\ generation \in Nat
  /\ reset \in [phase : Phases, purpose : {"none"} \cup Barriers, op : Nat]
  /\ gate.writes <=> reset.phase \in OpenPhases
  /\ reset.purpose = "prepare" => reset.phase = "preparing"
  /\ reset.purpose = "cleanup" => reset.phase = "committing"

\* The producers' side.
AggInv ==
  /\ agg \in AggRecord /\ samples \in Seq(Nat)
  /\ meter \in [pc : {"idle", "looked", "polling"}, gen : Nat, admitted : BOOLEAN]
  /\ agg.pc \in Counted => inFlight = 1
  /\ agg.pc \notin Counted => inFlight = 0
  /\ agg.pc \in Handing => agg.hand \in Nat
  /\ agg.pc \notin Handing => agg.hand = None
  /\ agg.pc \in {"take", "closed", "unfrozen"} => ~agg.observed
  /\ agg.pc = "resume" => agg.observed
  /\ agg.pc \in Enqueueing /\ agg.observed
       => agg.boundary # <<>> /\ agg.hand = Head(agg.boundary)

\* What is queued and stored.
StoreInv ==
  /\ queue \in Seq(Messages) /\ control \in Seq({"retention"} \cup Barriers)
  /\ retention \in {"none", "claimed", "queued"} /\ dropped \in SUBSET Nat
  /\ task \in TaskRecord /\ card \in CardRecord
  /\ barrier \in [queued : BOOLEAN, result : {"none", "ok", "failed"}]
  /\ journal \in JournalRecord /\ tally \in TallyRecord
  /\ task.left <= Len(queue) /\ (task.pc # "drain" => task.left = 0)

TypeInv == GateInv /\ AggInv /\ StoreInv
-----------------------------------------------------------------------------
(* Sequences                                                                *)

\* The identifiers of a queue that grows.
LEMMA IdsAppend ==
  ASSUME NEW s \in Seq(Messages), NEW m \in Messages, NEW type
  PROVE  Ids(Append(s, m), type) = Ids(s, type) \cup (IF m.type = type THEN {m.id} ELSE {})
<1>1. /\ DOMAIN Append(s, m) = 1 .. Len(s) + 1 /\ DOMAIN s = 1 .. Len(s)
      /\ \A k \in 1 .. Len(s) : Append(s, m)[k] = s[k]
      /\ Append(s, m)[Len(s) + 1] = m
  OBVIOUS
<1>. QED  BY <1>1 DEF Ids

\* The identifiers of a queue that is not empty: its head's and its tail's.
LEMMA IdsTail ==
  ASSUME NEW s \in Seq(Messages), s # <<>>, NEW type
  PROVE  /\ Ids(s, type) = Ids(Tail(s), type)
                             \cup (IF Head(s).type = type THEN {Head(s).id} ELSE {})
         /\ Tail(s) \in Seq(Messages) /\ Len(Tail(s)) = Len(s) - 1 /\ Head(s) \in Messages
<1>1. /\ DOMAIN Tail(s) = 1 .. Len(s) - 1 /\ DOMAIN s = 1 .. Len(s) /\ Len(s) \in Nat \ {0}
      /\ \A k \in 1 .. Len(s) - 1 : Tail(s)[k] = s[k + 1]
      /\ Head(s) = s[1]
  OBVIOUS
<1>2. Ids(Tail(s), type) \subseteq Ids(s, type)
  BY <1>1 DEF Ids
<1>3. Head(s).type = type => Head(s).id \in Ids(s, type)
  BY <1>1 DEF Ids
<1>4. ASSUME NEW x \in Ids(s, type)
      PROVE  x \in Ids(Tail(s), type) \/ (Head(s).type = type /\ x = Head(s).id)
  <2>1. PICK k \in DOMAIN s : s[k].type = type /\ x = s[k].id
    BY DEF Ids
  <2>2. CASE k = 1
    BY <1>1, <2>1, <2>2
  <2>3. CASE k # 1
    <3>1. k - 1 \in 1 .. Len(s) - 1 /\ (k - 1) + 1 = k
      BY <1>1, <2>3
    <3>2. Tail(s)[k - 1] = s[k]
      BY <1>1, <3>1
    <3>. QED  BY <1>1, <2>1, <3>1, <3>2 DEF Ids
  <2>. QED  BY <2>2, <2>3
<1>5. Tail(s) \in Seq(Messages) /\ Len(Tail(s)) = Len(s) - 1 /\ Head(s) \in Messages
  OBVIOUS
<1>. QED  BY <1>2, <1>3, <1>4, <1>5

\* What a sequence holds when it grows.
LEMMA RangeAppend ==
  ASSUME NEW S, NEW s \in Seq(S), NEW x \in S
  PROVE  Range(Append(s, x)) = Range(s) \cup {x} /\ Append(s, x) \in Seq(S)
<1>1. /\ DOMAIN Append(s, x) = 1 .. Len(s) + 1 /\ DOMAIN s = 1 .. Len(s)
      /\ \A k \in 1 .. Len(s) : Append(s, x)[k] = s[k]
      /\ Append(s, x)[Len(s) + 1] = x
  OBVIOUS
<1>. QED  BY <1>1 DEF Range

\* What a sequence holds when its first element leaves.
LEMMA RangeTail ==
  ASSUME NEW S, NEW s \in Seq(S), s # <<>>
  PROVE  Range(s) = Range(Tail(s)) \cup {Head(s)} /\ Tail(s) \in Seq(S) /\ Head(s) \in S
<1>1. /\ DOMAIN Tail(s) = 1 .. Len(s) - 1 /\ DOMAIN s = 1 .. Len(s) /\ Len(s) \in Nat \ {0}
      /\ \A k \in 1 .. Len(s) - 1 : Tail(s)[k] = s[k + 1]
      /\ Head(s) = s[1]
  OBVIOUS
<1>2. Range(Tail(s)) \cup {Head(s)} \subseteq Range(s)
  BY <1>1 DEF Range
<1>3. ASSUME NEW x \in Range(s) PROVE x \in Range(Tail(s)) \/ x = Head(s)
  <2>1. PICK k \in DOMAIN s : x = s[k]
    BY DEF Range
  <2>2. CASE k = 1
    BY <1>1, <2>1, <2>2
  <2>3. CASE k # 1
    <3>1. k - 1 \in 1 .. Len(s) - 1 /\ (k - 1) + 1 = k
      BY <1>1, <2>3
    <3>2. Tail(s)[k - 1] = s[k]
      BY <1>1, <3>1
    <3>. QED  BY <1>1, <2>1, <3>1, <3>2 DEF Range
  <2>. QED  BY <2>2, <2>3
<1>4. Tail(s) \in Seq(S) /\ Head(s) \in S
  OBVIOUS
<1>. QED  BY <1>2, <1>3, <1>4

\* An empty queue holds no identifiers.
LEMMA IdsEmpty ==
  ASSUME NEW type
  PROVE  Ids(<<>>, type) = {} /\ Range(<<>>) = {}
  BY DEF Ids, Range

\* The ids of messages are numbers.
LEMMA IdsNat ==
  ASSUME NEW s \in Seq(Messages), NEW type
  PROVE  Ids(s, type) \subseteq Nat
<1>1. \A k \in DOMAIN s : s[k] \in Messages
  OBVIOUS
<1>2. \A m \in Messages : m.id \in Nat
  BY DEF Messages
<1>. QED  BY <1>1, <1>2 DEF Ids

-----------------------------------------------------------------------------
(* Types                                                                    *)

\* The other producers: events and retention requests.
Requests == enqueueEvent \/ queueRetention \/ sendRetention

\* What the steps of a task leave to the others.
LEMMA Frames ==
  /\ Meter => UNCHANGED <<gate, producer, generation, reset, agg, inFlight, queue, control,
                          retention, dropped, task, card, barrier, journal, tally>>
  /\ Aggregation => UNCHANGED <<gate, generation, reset, meter, control, retention, task, card,
                                barrier>>
  /\ StorageTask => UNCHANGED <<gate, producer, generation, reset, meter, agg, samples,
                                inFlight>>
  /\ ResetCoordinator => UNCHANGED <<meter, agg, samples, inFlight, queue, retention, dropped,
                                     task, card, journal, tally>>
  /\ Requests => UNCHANGED <<gate, producer, generation, reset, meter, agg, samples, inFlight,
                             dropped, task, card, barrier, journal>>
<1>. USE DEF gateVars, taskVars, aggVars
<1>1. Meter => UNCHANGED <<gate, producer, generation, reset, agg, inFlight, queue, control,
                           retention, dropped, task, card, barrier, journal, tally>>
  BY DEF Meter, MeterLook, MeterPoll, MeterSend, meterRest
<1>2. Aggregation => UNCHANGED <<gate, generation, reset, meter, control, retention, task, card,
                                 barrier>>
  BY DEF Aggregation, AggLoop, AggDrain, AggStageBegin, AggStageEnd, AggMark,
     AggResume, AggIdle,
     AggReject, AggAccept, AggRetain, AggLookAtGate, EnqueueLook, EnqueueCount, EnqueueRecheck,
     EnqueueSend, EnqueueDone, EnqueueFull, recordDroppedInterval, aggRest, enqueueRest
<1>3. StorageTask => UNCHANGED <<gate, producer, generation, reset, meter, agg, samples,
                                 inFlight>>
  BY DEF StorageTask, AppendHeldEvent, applyRetention, HeldEventWait,
     RetryPending, RetryWait,
     ReceiveRecord, ReceiveEvent, BarrierReceive, BarrierBusy, BarrierPrepare, BarrierPurge,
     BarrierRecord, BarrierEvent, BarrierCompleteDrain, BarrierClear, BarrierPublish, taskRest,
     loopRest
<1>4. ResetCoordinator => UNCHANGED <<meter, agg, samples, inFlight, queue, retention, dropped,
                                      task, card, journal, tally>>
  BY DEF ResetCoordinator, beginDataResetProducerBarrier, Freeze, CloseGate,
     Admit,
     processPendingPrepare, queueDataResetBarrier, PrepareResult, requestCancel, Commit,
     CleanupResult, OpenGate, Unfreeze, endDataResetProducerBarrier, resetRest
<1>5. Requests => UNCHANGED <<gate, producer, generation, reset, meter, agg, samples, inFlight,
                              dropped, task, card, barrier, journal>>
  BY DEF Requests, enqueueEvent, queueRetention, sendRetention, requestRest
<1>. QED  BY <1>1, <1>2, <1>3, <1>4, <1>5

\* A step belongs to one of the tasks.
LEMMA NextCases ==
  [Next]_vars <=> \/ Meter \/ Aggregation \/ StorageTask \/ ResetCoordinator \/ Requests
                  \/ UNCHANGED vars
  BY DEF Next, Requests

\* Nothing has been measured.
LEMMA TypeInit == Init => TypeInv
<1>. SUFFICES ASSUME Init PROVE TypeInv
  OBVIOUS
<1>1. GateInv
  BY DEF Init, GateInv, Phases, OpenPhases, Barriers
<1>2. AggInv
  BY DEF Init, AggInv, AggRecord, AggPlaces, Counted, Enqueueing, Handing
<1>3. task \in TaskRecord
  BY DEF Init, TaskRecord, InBarrier
<1>4. card \in CardRecord /\ journal \in JournalRecord /\ tally \in TallyRecord
  BY DEF Init, CardRecord, JournalRecord, TallyRecord
<1>5. StoreInv
  BY <1>3, <1>4 DEF Init, StoreInv
<1>. QED  BY <1>1, <1>2, <1>5 DEF TypeInv

\* The fields of the tasks.
LEMMA Fields ==
  ASSUME TypeInv
  PROVE  /\ agg.pc \in AggPlaces /\ agg.hand \in Nat \cup {None} /\ agg.boundary \in Seq(Nat)
         /\ agg.partial \in BOOLEAN /\ agg.observed \in BOOLEAN /\ agg.complete \in BOOLEAN
         /\ agg.paused \in Nat /\ agg.op \in Nat
         /\ task.pc \in {"loop", "control", "wait"} \cup InBarrier
         /\ task.pending \in Nat \cup {None} /\ task.gap \in SUBSET Nat
         /\ task.held \in Seq(Messages) /\ task.cleanup \in BOOLEAN /\ task.left \in Nat
         /\ task.failed \in BOOLEAN
         /\ card.stored \in SUBSET Nat /\ card.noted \in SUBSET Nat /\ card.events \in SUBSET Nat
         /\ journal.intervals \in SUBSET Nat /\ journal.op \in Nat
         /\ tally.closed \in Nat /\ tally.refused \in SUBSET Nat /\ tally.gone \in SUBSET Nat
         /\ tally.events \in Nat /\ tally.shed \in SUBSET Nat /\ tally.retention \in Nat
<1>1. agg \in AggRecord /\ task \in TaskRecord /\ card \in CardRecord
      /\ journal \in JournalRecord /\ tally \in TallyRecord
  BY DEF TypeInv, AggInv, StoreInv
<1>2. /\ agg.pc \in AggPlaces /\ agg.hand \in Nat \cup {None} /\ agg.boundary \in Seq(Nat)
      /\ agg.partial \in BOOLEAN /\ agg.observed \in BOOLEAN /\ agg.complete \in BOOLEAN
      /\ agg.paused \in Nat /\ agg.op \in Nat
  BY <1>1 DEF AggRecord
<1>3. /\ task.pc \in {"loop", "control", "wait"} \cup InBarrier
      /\ task.pending \in Nat \cup {None} /\ task.gap \in SUBSET Nat
      /\ task.held \in Seq(Messages) /\ task.cleanup \in BOOLEAN /\ task.left \in Nat
      /\ task.failed \in BOOLEAN
  BY <1>1 DEF TaskRecord
<1>4. /\ card.stored \in SUBSET Nat /\ card.noted \in SUBSET Nat /\ card.events \in SUBSET Nat
      /\ journal.intervals \in SUBSET Nat /\ journal.op \in Nat
      /\ tally.closed \in Nat /\ tally.refused \in SUBSET Nat /\ tally.gone \in SUBSET Nat
      /\ tally.events \in Nat /\ tally.shed \in SUBSET Nat /\ tally.retention \in Nat
  BY <1>1 DEF CardRecord, JournalRecord, TallyRecord
<1>. QED  BY <1>2, <1>3, <1>4

\* The reset coordinator moves the gates with its phases.
LEMMA GateStep ==
  ASSUME TypeInv, [Next]_vars
  PROVE  GateInv'
<1>0. GateInv
  BY DEF TypeInv
<1>1. CASE UNCHANGED <<gate, producer, generation, reset>>
  BY <1>0, <1>1 DEF GateInv
<1>2. CASE Aggregation
  <2>1. UNCHANGED <<gate, generation, reset>>
    BY <1>2, Frames
  <2>2. producer' = producer \/ producer' = [producer EXCEPT !.quiesced = @ \/ producer.active]
    BY <1>2 DEF Aggregation, AggLoop, AggDrain, AggStageBegin, AggStageEnd,
       AggMark, AggResume,
       AggIdle, AggReject, AggAccept, AggRetain, AggLookAtGate, EnqueueLook, EnqueueCount,
       EnqueueRecheck, EnqueueSend, EnqueueDone, EnqueueFull, recordDroppedInterval, enqueueRest
  <2>. QED  BY <1>0, <2>1, <2>2 DEF GateInv
<1>3. CASE ResetCoordinator
  <2>n. \A n \in Nat : n + 1 \in Nat
    OBVIOUS
  <2>o. reset.op \in Nat /\ generation \in Nat /\ reset.op + 1 \in Nat /\ generation + 1 \in Nat
    BY <1>0, <2>n DEF GateInv
  <2>. USE DEF Phases, OpenPhases, Barriers, GateInv, ResetGoto
  <2>1. CASE beginDataResetProducerBarrier
    BY <1>0, <2>o, <2>1 DEF beginDataResetProducerBarrier
  <2>2. CASE Freeze
    BY <1>0, <2>2 DEF Freeze
  <2>3. CASE CloseGate
    <3>1. /\ gate' = [gate EXCEPT !.writes = FALSE] /\ reset' = [reset EXCEPT !.phase = "admitting"]
          /\ reset.phase = "closing" /\ UNCHANGED <<producer, generation>>
      BY <2>3 DEF CloseGate
    <3>2. gate' \in [writes : BOOLEAN, frozen : BOOLEAN] /\ ~gate'.writes
      BY <1>0, <3>1
    <3>. QED  BY <1>0, <3>1, <3>2
  <2>4. CASE Admit
    BY <1>0, <2>4 DEF Admit
  <2>5. CASE processPendingPrepare
    BY <1>0, <2>5 DEF processPendingPrepare
  <2>6. CASE queueDataResetBarrier
    BY <1>0, <2>6 DEF queueDataResetBarrier
  <2>7. CASE PrepareResult
    <3>1. PICK p \in {"prepared", "preparing"} :
             reset' = [reset EXCEPT !.purpose = "none", !.phase = p]
      BY <2>7 DEF PrepareResult
    <3>2. reset.phase = "preparing" /\ UNCHANGED <<gate, producer, generation>>
      BY <2>7 DEF PrepareResult
    <3>. QED  BY <1>0, <3>1, <3>2
  <2>8. CASE requestCancel
    <3>1. /\ reset' = [reset EXCEPT !.phase = "opening", !.purpose = "none"]
          /\ reset.phase \in {"preparing", "prepared"} /\ UNCHANGED <<gate, producer, generation>>
      BY <2>8 DEF requestCancel
    <3>. QED  BY <1>0, <3>1
  <2>9. CASE Commit
    BY <1>0, <2>o, <2>9 DEF Commit
  <2>10. CASE CleanupResult
    <3>1. PICK p \in {"opening", "committing"} :
             reset' = [reset EXCEPT !.purpose = "none", !.phase = p]
      BY <2>10 DEF CleanupResult
    <3>2. reset.phase = "committing" /\ UNCHANGED <<gate, producer, generation>>
      BY <2>10 DEF CleanupResult
    <3>. QED  BY <1>0, <3>1, <3>2
  <2>11. CASE OpenGate
    BY <1>0, <2>11 DEF OpenGate
  <2>12. CASE Unfreeze
    <3>1. reset.phase = "unfreezing" /\ UNCHANGED <<producer, generation>>
      BY <2>12 DEF Unfreeze
    <3>2. CASE gate' = [gate EXCEPT !.frozen = FALSE] /\ reset' = [reset EXCEPT !.phase = "ending"]
      BY <1>0, <3>1, <3>2
    <3>3. CASE gate' = [gate EXCEPT !.writes = FALSE] /\ reset' = [reset EXCEPT !.phase = "opening"]
      <4>1. gate' \in [writes : BOOLEAN, frozen : BOOLEAN] /\ ~gate'.writes
        BY <1>0, <3>3
      <4>. QED  BY <1>0, <3>1, <3>3, <4>1
    <3>. QED  BY <2>12, <3>2, <3>3 DEF Unfreeze
  <2>13. CASE endDataResetProducerBarrier
    BY <1>0, <2>13 DEF endDataResetProducerBarrier
  <2>. QED
    BY <1>3, <2>1, <2>2, <2>3, <2>4, <2>5, <2>6, <2>7, <2>8, <2>9, <2>10,
       <2>11, <2>12, <2>13
    DEF ResetCoordinator
<1>. QED  BY <1>1, <1>2, <1>3, NextCases, Frames DEF vars

\* AggregationTask's locals, wherever it is.
LEMMA AggStep ==
  ASSUME TypeInv, [Next]_vars
  PROVE  AggInv'
<1>0. AggInv /\ generation \in Nat /\ producer.op \in Nat /\ tally.closed \in Nat
  BY DEF TypeInv, GateInv, StoreInv, TallyRecord
<1>1. CASE UNCHANGED <<agg, samples, meter, inFlight>>
  BY <1>0, <1>1 DEF AggInv
<1>2. CASE Meter
  <2>1. UNCHANGED <<agg, inFlight>>
    BY <1>2, Frames
  <2>2. samples' \in Seq(Nat)
    <3>1. samples \in Seq(Nat) /\ meter.gen \in Nat
      BY <1>0 DEF AggInv
    <3>2. samples' = samples \/ samples' = Append(samples, meter.gen)
      BY <1>2 DEF Meter, MeterLook, MeterPoll, MeterSend
    <3>. QED  BY <3>1, <3>2
  <2>3. meter' \in [pc : {"idle", "looked", "polling"}, gen : Nat, admitted : BOOLEAN]
    <3>1. CASE MeterLook
      BY <1>0, <3>1 DEF AggInv, MeterLook
    <3>2. CASE MeterPoll
      BY <1>0, <3>2 DEF MeterPoll
    <3>3. CASE MeterSend
      BY <3>3 DEF MeterSend
    <3>. QED  BY <1>2, <3>1, <3>2, <3>3 DEF Meter
  <2>. QED  BY <1>0, <2>1, <2>2, <2>3 DEF AggInv
<1>3. CASE Aggregation
  <2>1. UNCHANGED meter
    BY <1>3, Frames
  <2>2. samples' \in Seq(Nat)
    <3>1. samples \in Seq(Nat)
      BY <1>0 DEF AggInv
    <3>2. \/ samples' = samples \/ samples' = <<>>
          \/ (samples # <<>> /\ samples' = Tail(samples))
      BY <1>3 DEF Aggregation, AggLoop, AggDrain, AggStageBegin, AggStageEnd,
         AggMark, AggResume,
         AggIdle, AggReject, AggAccept, AggRetain, AggLookAtGate, EnqueueLook, EnqueueCount,
         EnqueueRecheck, EnqueueSend, EnqueueDone, EnqueueFull, recordDroppedInterval, enqueueRest
    <3>3. CASE samples # <<>> /\ samples' = Tail(samples)
      BY <3>1, <3>3, RangeTail
    <3>4. CASE samples' = <<>>
      BY <3>4
    <3>. QED  BY <3>1, <3>2, <3>3, <3>4, Zenon
  <2>c. tally.closed + 1 \in Nat
    BY <1>0
  <2>n. 0 + 1 = 1 /\ 1 - 1 = 0
    OBVIOUS
  <2>r. agg \in AggRecord
    BY <1>0 DEF AggInv
  <2>. USE DEF Counted, Enqueueing, Handing, AggGoto, Refused
  <2>3. CASE AggLoop
    <3>1. agg.pc = "loop" /\ UNCHANGED inFlight
      BY <2>3 DEF AggLoop
    <3>2. /\ agg' \in AggRecord /\ agg'.hand = agg.hand
          /\ \/ agg'.pc \in {"frozen", "resume"} /\ agg'.observed
             \/ agg'.pc = "take" /\ ~agg'.observed
      <4>1. CASE gate.frozen
        <5>1. PICK c \in BOOLEAN : c = (agg.observed /\ agg.complete)
          OBVIOUS
        <5>2. PICK n \in Nat : n = (IF agg.observed THEN agg.paused ELSE generation)
          BY <1>0, <2>r DEF AggRecord
        <5>3. agg' = [agg EXCEPT !.pc = "frozen", !.observed = TRUE, !.complete = c, !.paused = n]
          BY <2>3, <4>1, <5>1, <5>2 DEF AggLoop
        <5>. QED  BY <2>r, <5>3 DEF AggRecord, AggPlaces
      <4>2. CASE ~gate.frozen
        <5>1. agg' = [agg EXCEPT !.pc = IF agg.observed THEN "resume" ELSE "take"]
          BY <2>3, <4>2 DEF AggLoop
        <5>. QED  BY <2>r, <5>1 DEF AggRecord, AggPlaces
      <4>. QED  BY <4>1, <4>2
    <3>. QED  BY <1>0, <2>1, <2>2, <3>1, <3>2 DEF AggInv
  <2>4. CASE AggDrain
    <3>1. agg.pc = "frozen" /\ UNCHANGED inFlight
      BY <2>4 DEF AggDrain
    <3>2. PICK b \in Seq(Nat) : b = Append(agg.boundary, tally.closed + 1)
      <4>1. agg.boundary \in Seq(Nat)
        BY <2>r DEF AggRecord
      <4>2. Append(agg.boundary, tally.closed + 1) \in Seq(Nat)
        BY <2>c, <4>1, RangeAppend
      <4>. QED  BY <4>2, Zenon
    <3>3. \/ \E p \in {"loop", "mark", "stage"} : agg' = [agg EXCEPT !.pc = p]
          \/ agg' = [agg EXCEPT !.pc = "loop", !.partial = TRUE]
          \/ agg' = [agg EXCEPT !.pc = "loop", !.partial = FALSE, !.boundary = b]
      BY <2>4, <3>2 DEF AggDrain
    <3>4. /\ agg' \in AggRecord /\ agg'.hand = agg.hand /\ agg'.pc \in {"loop", "mark", "stage"}
      BY <2>r, <3>3 DEF AggRecord, AggPlaces
    <3>. QED  BY <1>0, <2>1, <2>2, <3>1, <3>4 DEF AggInv
  <2>5. CASE AggStageBegin
    <3>1. agg.pc = "stage" /\ inFlight = 0
      BY <1>0, <2>5 DEF AggInv, AggStageBegin
    <3>2. \/ agg' = [agg EXCEPT !.pc = "staging", !.op = producer.op] /\ inFlight' = 1
          \/ agg' = [agg EXCEPT !.pc = "loop"] /\ inFlight' = 0
      BY <2>5, <2>n, <3>1 DEF AggStageBegin
    <3>3. /\ agg' \in AggRecord /\ agg'.hand = agg.hand
          /\ \/ agg'.pc = "staging" /\ inFlight' = 1
             \/ agg'.pc = "loop" /\ inFlight' = 0
      BY <1>0, <2>r, <3>2 DEF AggRecord, AggPlaces
    <3>. QED  BY <1>0, <2>1, <2>2, <3>1, <3>3 DEF AggInv
  <2>6. CASE AggStageEnd
    <3>1. agg.pc = "staging" /\ inFlight = 1 /\ inFlight' = inFlight - 1
      BY <1>0, <2>6 DEF AggInv, AggStageEnd
    <3>2. \/ agg' = [agg EXCEPT !.pc = "mark", !.boundary = <<>>, !.op = 0]
          \/ agg' = [agg EXCEPT !.pc = "loop", !.op = 0]
      BY <2>6 DEF AggStageEnd
    <3>3. inFlight' = 0 /\ <<>> \in Seq(Nat) /\ 0 \in Nat
      BY <2>n, <3>1
    <3>4. agg' \in AggRecord /\ agg'.hand = agg.hand /\ agg'.pc \in {"mark", "loop"}
      BY <2>r, <3>2, <3>3 DEF AggRecord, AggPlaces
    <3>. QED  BY <1>0, <2>1, <2>2, <3>1, <3>3, <3>4 DEF AggInv
  <2>7. CASE AggMark
    <3>1. agg.pc = "mark" /\ agg' = [agg EXCEPT !.pc = "loop", !.complete = TRUE]
          /\ UNCHANGED inFlight
      BY <2>7 DEF AggMark
    <3>2. agg' \in AggRecord /\ agg'.hand = agg.hand /\ agg'.pc = "loop"
      BY <2>r, <3>1 DEF AggRecord, AggPlaces
    <3>. QED  BY <1>0, <2>1, <2>2, <3>1, <3>2 DEF AggInv
  <2>8. CASE AggResume
    <3>1. agg.pc = "resume" /\ UNCHANGED inFlight
      BY <2>8 DEF AggResume
    <3>2. CASE agg.boundary = <<>>
      <4>1. PICK b \in BOOLEAN : b = (agg.partial /\ generation = agg.paused /\ ~agg.complete)
        OBVIOUS
      <4>2. agg' = [agg EXCEPT !.pc = "take", !.observed = FALSE, !.complete = FALSE,
                      !.partial = b]
        BY <2>8, <3>2, <4>1 DEF AggResume
      <4>3. agg' \in AggRecord /\ agg'.hand = agg.hand /\ agg'.pc = "take" /\ ~agg'.observed
        BY <2>r, <4>2 DEF AggRecord, AggPlaces
      <4>. QED  BY <1>0, <2>1, <2>2, <3>1, <4>3 DEF AggInv
    <3>3. CASE agg' = [agg EXCEPT !.pc = "loop"]
      <4>1. agg' \in AggRecord /\ agg'.hand = agg.hand /\ agg'.pc = "loop"
        BY <2>r, <3>3 DEF AggRecord, AggPlaces
      <4>. QED  BY <1>0, <2>1, <2>2, <3>1, <4>1 DEF AggInv
    <3>4. CASE /\ agg.boundary # <<>>
               /\ agg' = [agg EXCEPT !.pc = "enqueue", !.hand = Head(agg.boundary)]
      <4>1. agg.boundary \in Seq(Nat)
        BY <2>r DEF AggRecord
      <4>2. PICK h \in Nat : h = Head(agg.boundary)
        BY <3>4, <4>1, RangeTail
      <4>3. agg' = [agg EXCEPT !.pc = "enqueue", !.hand = h]
        BY <3>4, <4>2
      <4>4. /\ agg' \in AggRecord /\ agg'.hand = h /\ agg'.pc = "enqueue"
            /\ agg'.boundary = agg.boundary
        BY <2>r, <4>3 DEF AggRecord, AggPlaces
      <4>. QED  BY <1>0, <2>1, <2>2, <3>1, <3>4, <4>2, <4>4 DEF AggInv
    <3>. QED  BY <2>8, <3>2, <3>3, <3>4 DEF AggResume
  <2>9. CASE AggIdle
    <3>1. agg.pc = "take" /\ agg' = [agg EXCEPT !.pc = "loop"] /\ UNCHANGED inFlight
      BY <2>9 DEF AggIdle
    <3>2. agg' \in AggRecord /\ agg'.hand = agg.hand /\ agg'.pc = "loop"
      BY <2>r, <3>1 DEF AggRecord, AggPlaces
    <3>. QED  BY <1>0, <2>1, <2>2, <3>1, <3>2 DEF AggInv
  <2>10. CASE AggReject
    <3>1. /\ agg.pc = "take" /\ agg' = [agg EXCEPT !.pc = "loop", !.partial = FALSE]
          /\ UNCHANGED inFlight
      BY <2>10 DEF AggReject
    <3>2. agg' \in AggRecord /\ agg'.hand = agg.hand /\ agg'.pc = "loop"
      BY <2>r, <3>1 DEF AggRecord, AggPlaces
    <3>. QED  BY <1>0, <2>1, <2>2, <3>1, <3>2 DEF AggInv
  <2>11. CASE AggAccept
    <3>1. agg.pc = "take" /\ UNCHANGED inFlight
      BY <2>11 DEF AggAccept
    <3>2. PICK n \in Nat : n = tally.closed + 1
      BY <2>c
    <3>3. \/ agg' = [agg EXCEPT !.pc = "loop", !.partial = TRUE]
          \/ agg' = [agg EXCEPT !.pc = "closed", !.partial = FALSE, !.hand = n]
      BY <2>11, <3>2 DEF AggAccept
    <3>4. /\ agg' \in AggRecord /\ agg'.observed = agg.observed
          /\ \/ agg'.pc = "loop" /\ agg'.hand = agg.hand
             \/ agg'.pc = "closed" /\ agg'.hand \in Nat
      BY <2>r, <3>3 DEF AggRecord, AggPlaces
    <3>. QED  BY <1>0, <2>1, <2>2, <3>1, <3>4 DEF AggInv
  <2>12. CASE AggRetain
    <3>1. agg.pc \in {"closed", "unfrozen"} /\ UNCHANGED inFlight
      BY <2>12 DEF AggRetain
    <3>2. agg.boundary \in Seq(Nat) /\ agg.hand \in Nat
      BY <1>0, <2>r, <3>1 DEF AggRecord, AggInv
    <3>3. PICK b \in Seq(Nat) : b = Append(agg.boundary, agg.hand)
      <4>1. Append(agg.boundary, agg.hand) \in Seq(Nat)
        BY <3>2, RangeAppend
      <4>. QED  BY <4>1, Zenon
    <3>4. \/ agg' = [agg EXCEPT !.pc = "loop", !.hand = None, !.boundary = b,
                       !.paused = generation]
          \/ agg' = [agg EXCEPT !.pc = "loop", !.hand = None, !.paused = generation]
      BY <2>12, <3>3 DEF AggRetain
    <3>5. agg' \in AggRecord /\ agg'.hand = None /\ agg'.pc = "loop"
      BY <1>0, <2>r, <3>4 DEF AggRecord, AggPlaces
    <3>. QED  BY <1>0, <2>1, <2>2, <3>1, <3>5 DEF AggInv
  <2>13. CASE AggLookAtGate
    <3>1. /\ agg.pc \in {"closed", "unfrozen"} /\ UNCHANGED inFlight
          /\ \E p \in {"unfrozen", "enqueue"} : agg' = [agg EXCEPT !.pc = p]
      BY <2>13 DEF AggLookAtGate
    <3>2. /\ agg' \in AggRecord /\ agg'.hand = agg.hand /\ agg'.pc \in {"unfrozen", "enqueue"}
          /\ agg'.observed = agg.observed
      BY <2>r, <3>1 DEF AggRecord, AggPlaces
    <3>. QED  BY <1>0, <2>1, <2>2, <3>1, <3>2 DEF AggInv
  <2>14. CASE EnqueueLook
    <3>1. /\ agg.pc = "enqueue" /\ UNCHANGED inFlight
          /\ \/ agg' = [agg EXCEPT !.pc = "count"]
             \/ agg' = [agg EXCEPT !.pc = "loop", !.hand = None]
      BY <2>14 DEF EnqueueLook
    <3>2. /\ agg' \in AggRecord /\ agg'.observed = agg.observed /\ agg'.boundary = agg.boundary
          /\ \/ agg'.pc = "count" /\ agg'.hand = agg.hand
             \/ agg'.pc = "loop" /\ agg'.hand = None
      BY <2>r, <3>1 DEF AggRecord, AggPlaces
    <3>. QED  BY <1>0, <2>1, <2>2, <3>1, <3>2 DEF AggInv
  <2>15. CASE EnqueueCount
    <3>1. agg.pc = "count" /\ inFlight = 0
      BY <1>0, <2>15 DEF AggInv, EnqueueCount
    <3>2. agg' = [agg EXCEPT !.pc = "recheck"] /\ inFlight' = 1
      BY <2>15, <2>n, <3>1 DEF EnqueueCount
    <3>3. /\ agg' \in AggRecord /\ agg'.observed = agg.observed /\ agg'.boundary = agg.boundary
          /\ agg'.hand = agg.hand /\ agg'.pc = "recheck"
      BY <2>r, <3>2 DEF AggRecord, AggPlaces
    <3>. QED  BY <1>0, <2>1, <2>2, <3>1, <3>2, <3>3 DEF AggInv
  <2>16. CASE EnqueueRecheck
    <3>1. agg.pc = "recheck" /\ inFlight = 1
      BY <1>0, <2>16 DEF AggInv, EnqueueRecheck
    <3>2. \/ agg' = [agg EXCEPT !.pc = "send"] /\ inFlight' = 1
          \/ agg' = [agg EXCEPT !.pc = "loop", !.hand = None] /\ inFlight' = 0
      BY <2>16, <2>n, <3>1 DEF EnqueueRecheck
    <3>3. /\ agg' \in AggRecord /\ agg'.observed = agg.observed /\ agg'.boundary = agg.boundary
          /\ \/ agg'.pc = "send" /\ agg'.hand = agg.hand /\ inFlight' = 1
             \/ agg'.pc = "loop" /\ agg'.hand = None /\ inFlight' = 0
      BY <2>r, <3>2 DEF AggRecord, AggPlaces
    <3>. QED  BY <1>0, <2>1, <2>2, <3>1, <3>3 DEF AggInv
  <2>17. CASE EnqueueSend
    <3>1. /\ agg.pc = "send" /\ UNCHANGED inFlight
          /\ \E p \in {"sent", "full"} : agg' = [agg EXCEPT !.pc = p]
      BY <2>17 DEF EnqueueSend
    <3>2. /\ agg' \in AggRecord /\ agg'.observed = agg.observed /\ agg'.boundary = agg.boundary
          /\ agg'.hand = agg.hand /\ agg'.pc \in {"sent", "full"}
      BY <2>r, <3>1 DEF AggRecord, AggPlaces
    <3>. QED  BY <1>0, <2>1, <2>2, <3>1, <3>2 DEF AggInv
  <2>18. CASE EnqueueDone
    <3>1. agg.pc = "sent" /\ inFlight = 1 /\ inFlight' = inFlight - 1
      BY <1>0, <2>18 DEF AggInv, EnqueueDone
    <3>2. inFlight' = 0
      BY <2>n, <3>1
    <3>3. CASE agg.observed
      <4>1. agg.boundary # <<>> /\ agg.boundary \in Seq(Nat)
        BY <1>0, <2>r, <3>1, <3>3 DEF AggInv, AggRecord
      <4>2. PICK b \in Seq(Nat) : b = Tail(agg.boundary)
        BY <4>1, RangeTail
      <4>3. agg' = [agg EXCEPT !.hand = None, !.pc = "resume", !.boundary = b]
        BY <2>18, <3>3, <4>2 DEF EnqueueDone
      <4>4. agg' \in AggRecord /\ agg'.hand = None /\ agg'.pc = "resume" /\ agg'.observed
        BY <2>r, <3>3, <4>3 DEF AggRecord, AggPlaces
      <4>. QED  BY <1>0, <2>1, <2>2, <3>2, <4>4 DEF AggInv
    <3>4. CASE ~agg.observed
      <4>1. agg' = [agg EXCEPT !.hand = None, !.pc = "loop", !.boundary = @]
        BY <2>18, <3>4 DEF EnqueueDone
      <4>2. agg' \in AggRecord /\ agg'.hand = None /\ agg'.pc = "loop"
        BY <2>r, <4>1 DEF AggRecord, AggPlaces
      <4>. QED  BY <1>0, <2>1, <2>2, <3>2, <4>2 DEF AggInv
    <3>. QED  BY <3>3, <3>4
  <2>19. CASE EnqueueFull
    <3>1. agg.pc = "full" /\ inFlight = 1 /\ inFlight' = inFlight - 1
      BY <1>0, <2>19 DEF AggInv, EnqueueFull
    <3>2. agg' = [agg EXCEPT !.pc = "drop"] /\ inFlight' = 0
      BY <2>19, <2>n, <3>1 DEF EnqueueFull
    <3>3. /\ agg' \in AggRecord /\ agg'.observed = agg.observed /\ agg'.boundary = agg.boundary
          /\ agg'.hand = agg.hand /\ agg'.pc = "drop"
      BY <2>r, <3>2 DEF AggRecord, AggPlaces
    <3>. QED  BY <1>0, <2>1, <2>2, <3>1, <3>2, <3>3 DEF AggInv
  <2>20. CASE recordDroppedInterval
    <3>1. /\ agg.pc = "drop" /\ agg' = [agg EXCEPT !.pc = "loop", !.hand = None]
          /\ UNCHANGED inFlight
      BY <2>20 DEF recordDroppedInterval
    <3>2. agg' \in AggRecord /\ agg'.hand = None /\ agg'.pc = "loop"
      BY <2>r, <3>1 DEF AggRecord, AggPlaces
    <3>. QED  BY <1>0, <2>1, <2>2, <3>1, <3>2 DEF AggInv
  <2>. QED
    BY <1>3, <2>3, <2>4, <2>5, <2>6, <2>7, <2>8, <2>9, <2>10, <2>11, <2>12,
       <2>13, <2>14, <2>15,
       <2>16, <2>17, <2>18, <2>19, <2>20
    DEF Aggregation
<1>. QED  BY <1>1, <1>2, <1>3, NextCases, Frames DEF vars

\* What can happen to the write queue: a record is added behind the second look
\* at the gate, an event is added, or the head is taken by StorageTask.
LEMMA QueueCases ==
  ASSUME TypeInv, [Next]_vars
  PROVE  \/ queue' = queue
         \/ EnqueueSend /\ queue' = Append(queue, Record(agg.hand)) /\ agg.hand \in Nat
         \/ enqueueEvent /\ queue' = Append(queue, Event(tally.events + 1))
         \/ /\ ReceiveRecord \/ ReceiveEvent \/ BarrierRecord \/ BarrierEvent
            /\ queue # <<>> /\ queue' = Tail(queue)
<1>1. CASE Meter \/ ResetCoordinator \/ UNCHANGED vars
  BY <1>1, Frames DEF vars
<1>2. CASE Aggregation
  <2>1. queue' = queue \/ (EnqueueSend /\ queue' = Append(queue, Record(agg.hand)))
    BY <1>2 DEF Aggregation, AggLoop, AggDrain, AggStageBegin, AggStageEnd,
       AggMark, AggResume,
       AggIdle, AggReject, AggAccept, AggRetain, AggLookAtGate, EnqueueLook, EnqueueCount,
       EnqueueRecheck, EnqueueSend, EnqueueDone, EnqueueFull, recordDroppedInterval, enqueueRest
  <2>2. EnqueueSend => agg.hand \in Nat
    BY DEF EnqueueSend, TypeInv, AggInv, Handing, Enqueueing
  <2>. QED  BY <2>1, <2>2
<1>3. CASE Requests
  BY <1>3 DEF Requests, enqueueEvent, queueRetention, sendRetention
<1>4. CASE StorageTask
  <2>1. \/ queue' = queue
        \/ (ReceiveRecord \/ ReceiveEvent \/ BarrierRecord \/ BarrierEvent) /\ queue' = Tail(queue)
    BY <1>4 DEF StorageTask, AppendHeldEvent, applyRetention, HeldEventWait,
       RetryPending, RetryWait,
       ReceiveRecord, ReceiveEvent, BarrierReceive, BarrierBusy, BarrierPrepare, BarrierPurge,
       BarrierRecord, BarrierEvent, BarrierCompleteDrain, BarrierClear, BarrierPublish
  <2>2. ReceiveRecord \/ ReceiveEvent => queue # <<>>
    BY DEF ReceiveRecord, ReceiveEvent
  <2>3. BarrierRecord \/ BarrierEvent => queue # <<>>
    <3>1. queue \in Seq(Messages) /\ task.left <= Len(queue) /\ task.left \in Nat
      BY Fields DEF TypeInv, StoreInv
    <3>2. BarrierRecord \/ BarrierEvent => task.left > 0
      BY DEF BarrierRecord, BarrierEvent
    <3>. QED  BY <3>1, <3>2
  <2>. QED  BY <2>1, <2>2, <2>3
<1>. QED  BY <1>1, <1>2, <1>3, <1>4, NextCases

\* What can happen to the control queue.
LEMMA ControlCases ==
  ASSUME [Next]_vars
  PROVE  \/ control' = control /\ UNCHANGED retention
         \/ control' = control /\ (queueRetention \/ sendRetention)
         \/ sendRetention /\ control' = Append(control, "retention") /\ retention' = "queued"
         \/ sendRetention /\ control' = <<"retention">> \o control /\ retention' = "queued"
         \/ /\ queueDataResetBarrier /\ UNCHANGED retention
            /\ \E kind \in Barriers : control' = Append(control, kind)
         \/ applyRetention /\ control # <<>> /\ control' = Tail(control) /\ retention' = "none"
         \/ BarrierReceive /\ control # <<>> /\ control' = Tail(control) /\ UNCHANGED retention
<1>1. CASE Meter \/ Aggregation \/ UNCHANGED vars
  BY <1>1, Frames DEF vars
<1>2. CASE Requests
  BY <1>2 DEF Requests, enqueueEvent, queueRetention, sendRetention
<1>3. CASE StorageTask
  BY <1>3 DEF StorageTask, AppendHeldEvent, applyRetention, HeldEventWait,
     RetryPending, RetryWait,
     ReceiveRecord, ReceiveEvent, BarrierReceive, BarrierBusy, BarrierPrepare, BarrierPurge,
     BarrierRecord, BarrierEvent, BarrierCompleteDrain, BarrierClear, BarrierPublish, loopRest,
     TakesControl
<1>4. CASE ResetCoordinator
  <2>1. UNCHANGED retention
    BY <1>4, Frames
  <2>2. control' = control \/ (queueDataResetBarrier
                                 /\ \E kind \in Barriers : control' = Append(control, kind))
    BY <1>4 DEF ResetCoordinator, beginDataResetProducerBarrier, Freeze,
       CloseGate, Admit,
       processPendingPrepare, queueDataResetBarrier, PrepareResult, requestCancel, Commit,
       CleanupResult, OpenGate, Unfreeze, endDataResetProducerBarrier, Barriers
  <2>. QED  BY <2>1, <2>2
<1>. QED  BY <1>1, <1>2, <1>3, <1>4, NextCases

\* The queues hold messages of their kinds.
LEMMA QueueStep ==
  ASSUME TypeInv, [Next]_vars
  PROVE  /\ queue' \in Seq(Messages) /\ control' \in Seq({"retention"} \cup Barriers)
         /\ retention' \in {"none", "claimed", "queued"}
<1>0. /\ queue \in Seq(Messages) /\ control \in Seq({"retention"} \cup Barriers)
      /\ retention \in {"none", "claimed", "queued"} /\ tally.events + 1 \in Nat
  BY Fields DEF TypeInv, StoreInv
<1>1. queue' \in Seq(Messages)
  <2>1. CASE queue' = queue
    BY <1>0, <2>1
  <2>2. CASE queue' = Append(queue, Record(agg.hand)) /\ agg.hand \in Nat
    <3>1. Record(agg.hand) \in Messages
      BY <2>2 DEF Record, Messages
    <3>. QED  BY <1>0, <2>2, <3>1
  <2>3. CASE queue' = Append(queue, Event(tally.events + 1))
    <3>1. Event(tally.events + 1) \in Messages
      BY <1>0 DEF Event, Messages
    <3>. QED  BY <1>0, <2>3, <3>1
  <2>4. CASE queue # <<>> /\ queue' = Tail(queue)
    BY <1>0, <2>4, IdsTail
  <2>. QED  BY <2>1, <2>2, <2>3, <2>4, QueueCases
<1>2. control' \in Seq({"retention"} \cup Barriers) /\ retention' \in {"none", "claimed", "queued"}
  <2>1. CASE UNCHANGED <<control, retention>>
    BY <1>0, <2>1
  <2>2. CASE control' = control /\ (queueRetention \/ sendRetention)
    BY <1>0, <2>2 DEF queueRetention, sendRetention
  <2>3. CASE control' = Append(control, "retention") /\ retention' = "queued"
    BY <1>0, <2>3
  <2>4. CASE control' = <<"retention">> \o control /\ retention' = "queued"
    <3>1. <<"retention">> \in Seq({"retention"} \cup Barriers)
      OBVIOUS
    <3>. QED  BY <1>0, <2>4, <3>1
  <2>5. CASE (\E kind \in Barriers : control' = Append(control, kind)) /\ UNCHANGED retention
    BY <1>0, <2>5
  <2>6. CASE control # <<>> /\ control' = Tail(control) /\ retention' \in {"none", retention}
    BY <1>0, <2>6
  <2>. QED  BY <2>1, <2>2, <2>3, <2>4, <2>5, <2>6, ControlCases
<1>. QED  BY <1>1, <1>2

\* An outcome is a success or a fault.
LEMMA OutcomeKinds ==
  ASSUME NEW kinds
  PROVE  Outcomes(kinds) \subseteq {"ok"} \cup (kinds \cap FaultKinds)
  BY CoordinatorAssumption DEF Outcomes

\* StorageTask's locals after a step of its loop.
LEMMA LoopTask ==
  ASSUME TypeInv,
         \/ AppendHeldEvent \/ applyRetention \/ HeldEventWait \/ RetryPending
         \/ RetryWait \/ ReceiveRecord \/ ReceiveEvent
  PROVE  task' \in TaskRecord /\ task'.left = 0 /\ task'.pc \notin InBarrier
<1>0. /\ task \in TaskRecord /\ queue \in Seq(Messages) /\ dropped \in SUBSET Nat
      /\ task.held \in Seq(Messages) /\ task.gap \in SUBSET Nat
      /\ (task.pc # "drain" => task.left = 0)
  BY Fields DEF TypeInv, StoreInv
<1>a. AtControl => task.pc \in {"loop", "control"}
  BY DEF AtControl
<1>q. queue # <<>> => Head(queue) \in Messages /\ Head(queue).id \in Nat
  BY <1>0, IdsTail DEF Messages
<1>h. queue # <<>> => Append(task.held, Head(queue)) \in Seq(Messages)
  BY <1>0, <1>q
<1>. USE DEF TaskRecord, InBarrier
<1>1. CASE AppendHeldEvent
  <2>1. task.pc = "loop" /\ task.held # <<>>
    BY <1>1 DEF AppendHeldEvent
  <2>2. Tail(task.held) \in Seq(Messages)
    BY <1>0, <2>1, IdsTail
  <2>3. \/ task' = [task EXCEPT !.pc = "control", !.held = Tail(@)]
        \/ task' = [task EXCEPT !.pc = "control"]
    BY <1>1 DEF AppendHeldEvent
  <2>. QED  BY <1>0, <2>1, <2>2, <2>3
<1>2. CASE applyRetention
  BY <1>0, <1>a, <1>2 DEF applyRetention
<1>3. CASE HeldEventWait
  BY <1>0, <1>3 DEF HeldEventWait
<1>4. CASE RetryPending
  <2>1. task.pc \in {"loop", "control"}
    BY <1>4, <1>a DEF RetryPending, AtRecords
  <2>2. PICK g \in SUBSET Nat : g = task.gap \cup dropped
    BY <1>0
  <2>3. \/ task' = [task EXCEPT !.pc = "wait", !.gap = g]
        \/ task' = [task EXCEPT !.pc = "loop", !.gap = {}, !.pending = None]
        \/ task' = [task EXCEPT !.pc = "wait", !.gap = {}]
    BY <1>4, <2>2 DEF RetryPending
  <2>. QED  BY <1>0, <2>1, <2>2, <2>3
<1>5. CASE RetryWait
  BY <1>0, <1>5 DEF RetryWait
<1>6. CASE ReceiveRecord
  <2>1. task.pc \in {"loop", "control"} /\ queue # <<>>
    BY <1>6, <1>a DEF ReceiveRecord, AtRecords
  <2>2. PICK i \in Nat : i = Head(queue).id
    BY <1>q, <2>1
  <2>3. task' = [task EXCEPT !.pc = "loop", !.pending = i]
    BY <1>6, <2>2 DEF ReceiveRecord
  <2>. QED  BY <1>0, <2>1, <2>2, <2>3
<1>7. CASE ReceiveEvent
  <2>1. task.pc \in {"loop", "control"} /\ queue # <<>>
    BY <1>7, <1>a DEF ReceiveEvent, AtRecords
  <2>2. PICK h \in Seq(Messages) : h = Append(task.held, Head(queue))
    BY <1>h, <2>1
  <2>3. \/ task' = [task EXCEPT !.pc = "loop", !.held = h]
        \/ task' = [task EXCEPT !.pc = "loop"]
    BY <1>7, <2>2 DEF ReceiveEvent
  <2>. QED  BY <1>0, <2>1, <2>2, <2>3
<1>. QED  BY <1>1, <1>2, <1>3, <1>4, <1>5, <1>6, <1>7

\* StorageTask's locals after a step of the barrier.
LEMMA BarrierTask ==
  ASSUME TypeInv,
         \/ BarrierReceive \/ BarrierBusy \/ BarrierPrepare \/ BarrierPurge \/ BarrierRecord
         \/ BarrierEvent \/ BarrierCompleteDrain \/ BarrierClear \/ BarrierPublish
  PROVE  /\ task' \in TaskRecord /\ (task'.pc # "drain" => task'.left = 0)
         /\ task'.left <= Len(queue')
<1>0. /\ task \in TaskRecord /\ queue \in Seq(Messages) /\ dropped \in SUBSET Nat
      /\ task.held \in Seq(Messages) /\ task.gap \in SUBSET Nat
      /\ (task.pc # "drain" => task.left = 0) /\ task.left <= Len(queue)
      /\ task.left \in Nat /\ Len(queue) \in Nat
  BY Fields DEF TypeInv, StoreInv
<1>q. queue # <<>> => /\ Head(queue) \in Messages /\ Head(queue).id \in Nat
                      /\ Tail(queue) \in Seq(Messages) /\ Len(Tail(queue)) = Len(queue) - 1
  BY <1>0, IdsTail DEF Messages
<1>z. \A n \in Nat : 0 <= n
  OBVIOUS
<1>h. queue # <<>> => Append(task.held, Head(queue)) \in Seq(Messages)
  BY <1>0, <1>q
<1>. USE DEF TaskRecord, InBarrier
<1>1. CASE BarrierReceive
  <2>1. PICK c \in BOOLEAN : c = (Head(control) = "cleanup")
    OBVIOUS
  <2>2. task' = [task EXCEPT !.pc = "quiesce", !.failed = FALSE, !.left = 0, !.cleanup = c]
        /\ queue' = queue
    BY <1>1, <2>1 DEF BarrierReceive
  <2>3. task' \in TaskRecord /\ task'.left = 0
    BY <1>0, <2>2
  <2>. QED  BY <1>0, <1>z, <2>2, <2>3
<1>2. CASE BarrierBusy
  BY <1>0, <1>2 DEF BarrierBusy
<1>3. CASE BarrierPrepare
  <2>1. task.left = 0 /\ queue' = queue
    BY <1>0, <1>3 DEF BarrierPrepare
  <2>2. PICK g \in SUBSET Nat : g = task.gap \cup dropped
    BY <1>0
  <2>3. PICK n \in Nat : n = Len(queue)
    BY <1>0
  <2>4. PICK f \in BOOLEAN : f = (task.held # <<>>)
    OBVIOUS
  <2>5. \/ task' = [task EXCEPT !.pc = "publish", !.gap = g, !.failed = TRUE]
        \/ task' = [task EXCEPT !.pc = "drain", !.gap = {}, !.pending = None, !.left = n,
                      !.failed = f]
        \/ task' = [task EXCEPT !.pc = "publish", !.gap = {}, !.failed = TRUE]
    BY <1>3, <2>2, <2>3, <2>4 DEF BarrierPrepare
  <2>6. /\ task' \in TaskRecord /\ (task'.pc # "drain" => task'.left = 0)
        /\ task'.left \in {0, n}
    BY <1>0, <2>1, <2>2, <2>3, <2>4, <2>5
  <2>. QED  BY <1>0, <1>z, <2>1, <2>3, <2>6
<1>4. CASE BarrierPurge
  <2>1. PICK n \in Nat : n = Len(queue)
    BY <1>0
  <2>2. /\ task' = [task EXCEPT !.pc = "drain", !.pending = None, !.gap = {}, !.left = n]
        /\ queue' = queue
    BY <1>4, <2>1 DEF BarrierPurge
  <2>3. task' \in TaskRecord /\ task'.pc = "drain" /\ task'.left = n
    BY <1>0, <2>1, <2>2
  <2>. QED  BY <2>1, <2>2, <2>3
<1>5. CASE BarrierRecord
  <2>1. task.pc = "drain" /\ task.left > 0 /\ queue' = Tail(queue)
    BY <1>5 DEF BarrierRecord
  <2>2. /\ queue # <<>> /\ task.left - 1 \in Nat /\ task.left - 1 <= Len(Tail(queue))
        /\ 0 <= Len(Tail(queue))
    BY <1>0, <1>q, <2>1
  <2>3. PICK n \in Nat : n = task.left - 1
    BY <2>2
  <2>4. PICK i \in Nat : i = Head(queue).id
    BY <1>q, <2>2
  <2>5. \/ task' = [task EXCEPT !.left = n]
        \/ task' = [task EXCEPT !.pc = "publish", !.failed = TRUE, !.left = 0, !.pending = i]
    BY <1>5, <2>3, <2>4 DEF BarrierRecord
  <2>6. /\ task' \in TaskRecord /\ (task'.pc # "drain" => task'.left = 0)
        /\ task'.left \in {0, n}
    <3>1. CASE task' = [task EXCEPT !.left = n]
      BY <1>0, <2>1, <2>3, <3>1
    <3>2. CASE task' = [task EXCEPT !.pc = "publish", !.failed = TRUE, !.left = 0, !.pending = i]
      BY <1>0, <2>1, <2>4, <3>2
    <3>. QED  BY <2>5, <3>1, <3>2
  <2>. QED  BY <2>1, <2>2, <2>3, <2>6
<1>6. CASE BarrierEvent
  <2>1. task.pc = "drain" /\ task.left > 0 /\ queue' = Tail(queue)
    BY <1>6 DEF BarrierEvent
  <2>2. /\ queue # <<>> /\ task.left - 1 \in Nat /\ task.left - 1 <= Len(Tail(queue))
        /\ 0 <= Len(Tail(queue))
    BY <1>0, <1>q, <2>1
  <2>3. PICK n \in Nat : n = task.left - 1
    BY <2>2
  <2>4. PICK h \in Seq(Messages) : h = Append(task.held, Head(queue))
    BY <1>h, <2>2
  <2>5. PICK f \in BOOLEAN : f = (task.failed \/ ~task.cleanup)
    OBVIOUS
  <2>6. PICK l \in {0, n} : l = (IF task.cleanup THEN n ELSE 0)
    OBVIOUS
  <2>7. \/ task' = [task EXCEPT !.left = n]
        \/ task' = [task EXCEPT !.held = h, !.failed = f, !.left = l]
    BY <1>6, <2>3, <2>4, <2>5, <2>6 DEF BarrierEvent, KeepEvent
  <2>8. /\ task' \in TaskRecord /\ task'.pc = "drain" /\ task'.left \in {0, n}
    <3>1. CASE task' = [task EXCEPT !.left = n]
      BY <1>0, <2>1, <2>3, <3>1
    <3>2. CASE task' = [task EXCEPT !.held = h, !.failed = f, !.left = l]
      <4>1. l \in Nat
        BY <2>3, <2>6
      <4>. QED  BY <1>0, <2>1, <2>4, <2>5, <2>6, <3>2, <4>1
    <3>. QED  BY <2>7, <3>1, <3>2
  <2>. QED  BY <2>1, <2>2, <2>3, <2>8
<1>7. CASE BarrierCompleteDrain
  <2>1. task.left = 0 /\ queue' = queue
    BY <1>7 DEF BarrierCompleteDrain
  <2>2. \/ task' = [task EXCEPT !.pc = "publish"]
        \/ task' = [task EXCEPT !.pc = "publish", !.failed = TRUE]
    BY <1>7 DEF BarrierCompleteDrain
  <2>. QED  BY <1>0, <2>1, <2>2
<1>8. CASE BarrierClear
  <2>1. task.left = 0 /\ queue' = queue
    BY <1>8 DEF BarrierClear
  <2>2. \/ task' = [task EXCEPT !.pc = "publish", !.held = <<>>]
        \/ task' = [task EXCEPT !.pc = "publish", !.failed = TRUE]
    BY <1>8 DEF BarrierClear
  <2>3. <<>> \in Seq(Messages)
    OBVIOUS
  <2>. QED  BY <1>0, <2>1, <2>2, <2>3
<1>9. CASE BarrierPublish
  <2>1. task' = [task EXCEPT !.pc = "loop", !.cleanup = FALSE, !.failed = FALSE, !.left = 0]
        /\ queue' = queue
    BY <1>9 DEF BarrierPublish
  <2>2. task' \in TaskRecord /\ task'.left = 0
    BY <1>0, <2>1
  <2>. QED  BY <1>0, <1>z, <2>1, <2>2
<1>. QED  BY <1>1, <1>2, <1>3, <1>4, <1>5, <1>6, <1>7, <1>8, <1>9

-----------------------------------------------------------------------------
(* What each step of StorageTask does                                       *)

\* The shapes a step of StorageTask starts from.
LEMMA TaskShapes ==
  ASSUME TypeInv
  PROVE  /\ task \in TaskRecord /\ card \in CardRecord /\ tally \in TallyRecord
         /\ journal \in JournalRecord /\ dropped \in SUBSET Nat /\ queue \in Seq(Messages)
         /\ queue # <<>> => /\ Head(queue) \in Messages /\ Head(queue).id \in Nat
                            /\ Tail(queue) \in Seq(Messages)
         /\ task.held # <<>> => /\ Head(task.held) \in Messages /\ Head(task.held).id \in Nat
                                /\ Tail(task.held) \in Seq(Messages)
<1>1. /\ task \in TaskRecord /\ card \in CardRecord /\ tally \in TallyRecord
      /\ journal \in JournalRecord /\ dropped \in SUBSET Nat /\ queue \in Seq(Messages)
      /\ task.held \in Seq(Messages)
  BY Fields DEF TypeInv, StoreInv
<1>2. \A m \in Messages : m.id \in Nat
  BY DEF Messages
<1>. QED  BY <1>1, <1>2, IdsTail

\* The oldest held event is written or stays.
LEMMA HeldEventEffect ==
  ASSUME TypeInv, AppendHeldEvent
  PROVE  /\ task.pc = "loop" /\ task'.pc = "control" /\ task.held # <<>>
         /\ UNCHANGED <<task.pending, task.gap, task.cleanup, task.left, task.failed>>
         /\ UNCHANGED <<card.stored, card.noted>> /\ card' \in CardRecord
         /\ \/ task'.held = Tail(task.held) /\ card'.events = card.events \cup {Head(task.held).id}
            \/ UNCHANGED <<task.held, card.events>>
<1>. USE TaskShapes DEF TaskRecord, CardRecord
<1>1. task.pc = "loop" /\ task.held # <<>>
  BY DEF AppendHeldEvent
<1>2. \/ /\ task' = [task EXCEPT !.pc = "control", !.held = Tail(@)]
         /\ card' = [card EXCEPT !.events = @ \cup {Head(task.held).id}]
      \/ task' = [task EXCEPT !.pc = "control"] /\ card' = card
  BY DEF AppendHeldEvent
<1>3. CASE /\ task' = [task EXCEPT !.pc = "control", !.held = Tail(@)]
           /\ card' = [card EXCEPT !.events = @ \cup {Head(task.held).id}]
  <2>1. PICK i \in Nat : i = Head(task.held).id
    BY <1>1
  <2>2. /\ UNCHANGED <<card.stored, card.noted>> /\ card' \in CardRecord
        /\ card'.events = card.events \cup {i}
    BY <1>3, <2>1
  <2>3. /\ task'.pc = "control" /\ task'.held = Tail(task.held)
        /\ UNCHANGED <<task.pending, task.gap, task.cleanup, task.left, task.failed>>
    BY <1>3
  <2>. QED  BY <1>1, <2>1, <2>2, <2>3
<1>. QED  BY <1>1, <1>2, <1>3

\* Retention moves records from the card to what is gone, behind an open gate.
LEMMA RetentionEffect ==
  ASSUME TypeInv, applyRetention
  PROVE  /\ task.pc \in {"loop", "control"} /\ task'.pc = "loop" /\ tally' \in TallyRecord
         /\ UNCHANGED <<task.held, task.pending, task.gap, task.cleanup, task.left, task.failed>>
         /\ UNCHANGED <<card.noted, card.events>> /\ card' \in CardRecord
         /\ card.stored \subseteq card'.stored \cup tally'.gone /\ tally.gone \subseteq tally'.gone
         /\ UNCHANGED <<tally.closed, tally.refused, tally.events, tally.shed>>
         /\ ~gate.writes => UNCHANGED card
<1>. USE TaskShapes DEF TaskRecord, CardRecord, TallyRecord
<1>1. task.pc \in {"loop", "control"} /\ task' = [task EXCEPT !.pc = "loop"]
  BY DEF applyRetention, AtControl
<1>2. \/ UNCHANGED <<card, tally>>
      \/ /\ gate.writes
         /\ \E s \in SUBSET card.stored :
              /\ card' = [card EXCEPT !.stored = @ \ s, !.error = "none"]
              /\ tally' = [tally EXCEPT !.gone = @ \cup s]
  BY DEF applyRetention, StillEnabled
<1>3. /\ task'.pc = "loop"
      /\ UNCHANGED <<task.held, task.pending, task.gap, task.cleanup, task.left, task.failed>>
  BY <1>1
<1>4. ASSUME NEW s \in SUBSET card.stored, gate.writes,
             card' = [card EXCEPT !.stored = @ \ s, !.error = "none"],
             tally' = [tally EXCEPT !.gone = @ \cup s]
      PROVE  /\ tally' \in TallyRecord /\ card' \in CardRecord
             /\ UNCHANGED <<card.noted, card.events>>
             /\ card.stored \subseteq card'.stored \cup tally'.gone
             /\ tally.gone \subseteq tally'.gone
             /\ UNCHANGED <<tally.closed, tally.refused, tally.events, tally.shed>>
  <2>1. /\ card' \in CardRecord /\ card'.stored = card.stored \ s
        /\ UNCHANGED <<card.noted, card.events>>
    BY <1>4
  <2>2. /\ tally' \in TallyRecord /\ tally'.gone = tally.gone \cup s
        /\ UNCHANGED <<tally.closed, tally.refused, tally.events, tally.shed>>
    BY <1>4
  <2>. QED  BY <2>1, <2>2
<1>. QED  BY <1>1, <1>2, <1>3, <1>4

\* A wait changes nothing but the place.
LEMMA WaitEffect ==
  ASSUME TypeInv, HeldEventWait \/ RetryWait
  PROVE  /\ task.pc \notin InBarrier /\ task'.pc = "loop" /\ UNCHANGED card
         /\ UNCHANGED <<task.held, task.pending, task.gap, task.cleanup, task.left, task.failed>>
  BY TaskShapes DEF TaskRecord, HeldEventWait, RetryWait, InBarrier

\* What an append does to the card.
LEMMA AppendEffect ==
  ASSUME NEW c \in CardRecord, NEW i \in Nat, NEW outcome \in FaultKinds \cup {"ok"}
  PROVE  /\ Appended(c, i, outcome) \in CardRecord
         /\ Appended(c, i, outcome).noted = c.noted
         /\ Appended(c, i, outcome).events = c.events
         /\ c.stored \subseteq Appended(c, i, outcome).stored
         /\ outcome = "ok" => i \in Appended(c, i, outcome).stored
<1>1. CASE outcome = "ok"
  <2>1. Appended(c, i, outcome) = [c EXCEPT !.stored = @ \cup {i}, !.error = @]
    BY <1>1 DEF Appended, CardRecord
  <2>2. [c EXCEPT !.stored = @ \cup {i}, !.error = @] \in CardRecord
    BY DEF CardRecord
  <2>3. /\ Appended(c, i, outcome).noted = c.noted /\ Appended(c, i, outcome).events = c.events
        /\ Appended(c, i, outcome).stored = c.stored \cup {i}
    BY <2>1 DEF CardRecord
  <2>. QED  BY <2>1, <2>2, <2>3
<1>2. CASE outcome = "journal"
  <2>1. Appended(c, i, outcome) = [c EXCEPT !.stored = @ \cup {i}, !.error = outcome]
    BY <1>2 DEF Appended, CardRecord
  <2>2. outcome \in FaultKinds /\ outcome # "ok"
    BY <1>2 DEF FaultKinds
  <2>3. [c EXCEPT !.stored = @ \cup {i}, !.error = outcome] \in CardRecord
    BY <2>2 DEF CardRecord
  <2>4. /\ Appended(c, i, outcome).noted = c.noted /\ Appended(c, i, outcome).events = c.events
        /\ Appended(c, i, outcome).stored = c.stored \cup {i}
    BY <2>1 DEF CardRecord
  <2>. QED  BY <2>1, <2>2, <2>3, <2>4
<1>3. CASE outcome \notin {"ok", "journal"}
  <2>1. Appended(c, i, outcome) = [c EXCEPT !.stored = @, !.error = outcome]
    BY <1>3 DEF Appended, CardRecord
  <2>. QED  BY <1>3, <2>1 DEF CardRecord
<1>. QED  BY <1>1, <1>2, <1>3

\* What the reservation of unavailable intervals does to the card.
LEMMA NotedEffect ==
  ASSUME NEW c \in CardRecord, NEW gap \in SUBSET Nat, NEW outcome \in FaultKinds \cup {"ok"}
  PROVE  /\ Noted(c, gap, outcome) \in CardRecord
         /\ Noted(c, gap, outcome).stored = c.stored
         /\ Noted(c, gap, outcome).events = c.events
         /\ outcome = "ok" => Noted(c, gap, outcome).noted = c.noted \cup gap
         /\ outcome # "ok" => Noted(c, gap, outcome).noted = c.noted
<1>1. CASE outcome = "ok"
  <2>1. Noted(c, gap, outcome) = [c EXCEPT !.noted = @ \cup gap, !.error = "gap"]
    BY <1>1 DEF Noted, CardRecord
  <2>. QED  BY <1>1, <2>1 DEF CardRecord
<1>2. CASE outcome # "ok"
  <2>1. Noted(c, gap, outcome) = [c EXCEPT !.noted = @, !.error = outcome]
    BY <1>2 DEF Noted, CardRecord
  <2>. QED  BY <1>2, <2>1 DEF CardRecord
<1>. QED  BY <1>1, <1>2

\* The pending record and the gaps before it: what is not stored stays.
LEMMA RetryEffect ==
  ASSUME TypeInv, RetryPending
  PROVE  /\ task.pc \in {"loop", "control"} /\ task'.pc \in {"loop", "wait"} /\ dropped' = {}
         /\ UNCHANGED <<task.held, task.cleanup, task.left, task.failed>>
         /\ UNCHANGED card.events /\ card' \in CardRecord
         /\ card.stored \subseteq card'.stored
         /\ card.noted \cup task.gap \cup dropped \subseteq card'.noted \cup task'.gap
         /\ task'.pending = task.pending \/ task.pending \in card'.stored
<1>0. task \in TaskRecord /\ card \in CardRecord /\ dropped \in SUBSET Nat
      /\ task.pending \in Nat \cup {None} /\ task.gap \in SUBSET Nat
  BY TaskShapes, Fields
<1>1. task.pc \in {"loop", "control"} /\ dropped' = {} /\ task.pending \in Nat
  BY <1>0 DEF RetryPending, AtRecords, AtControl
<1>2. CASE \E outcome \in Faults \cap {"reserve", "io"} :
             /\ card' = Noted(card, {}, outcome)
             /\ task' = [task EXCEPT !.pc = "wait", !.gap = task.gap \cup dropped]
  <2>1. PICK outcome \in FaultKinds : card' = Noted(card, {}, outcome) /\ outcome # "ok"
    BY <1>2, CoordinatorAssumption
  <2>2. UNCHANGED <<card.stored, card.noted, card.events>> /\ card' \in CardRecord
    <3>1. outcome \in FaultKinds \cup {"ok"} /\ {} \in SUBSET Nat
      OBVIOUS
    <3>2. /\ Noted(card, {}, outcome) \in CardRecord
          /\ Noted(card, {}, outcome).stored = card.stored
          /\ Noted(card, {}, outcome).events = card.events
          /\ Noted(card, {}, outcome).noted = card.noted
      BY <1>0, <2>1, <3>1, NotedEffect
    <3>. QED  BY <2>1, <3>2
  <2>3. task'.gap = task.gap \cup dropped /\ task'.pc = "wait"
        /\ UNCHANGED <<task.held, task.cleanup, task.left, task.failed, task.pending>>
    BY <1>0, <1>2 DEF TaskRecord
  <2>. QED  BY <1>1, <2>2, <2>3
<1>3. CASE \E outcome \in AppendOutcomes(FALSE) :
             /\ card' = Appended(IF task.gap \cup dropped = {} THEN card
                                 ELSE Noted(card, task.gap \cup dropped, "ok"),
                                 task.pending, outcome)
             /\ task' = IF outcome = "ok"
                        THEN [task EXCEPT !.pc = "loop", !.gap = {}, !.pending = None]
                        ELSE [task EXCEPT !.pc = "wait", !.gap = {}]
  <2>1. PICK outcome \in FaultKinds \cup {"ok"} :
             /\ card' = Appended(IF task.gap \cup dropped = {} THEN card
                                 ELSE Noted(card, task.gap \cup dropped, "ok"),
                                 task.pending, outcome)
             /\ task' = IF outcome = "ok"
                        THEN [task EXCEPT !.pc = "loop", !.gap = {}, !.pending = None]
                        ELSE [task EXCEPT !.pc = "wait", !.gap = {}]
    BY <1>3, CoordinatorAssumption DEF AppendOutcomes, Outcomes
  <2>2. PICK c \in CardRecord : /\ card' = Appended(c, task.pending, outcome)
                                /\ c.stored = card.stored /\ c.events = card.events
                                /\ c.noted = card.noted \cup task.gap \cup dropped
    <3>1. CASE task.gap \cup dropped = {}
      BY <1>0, <2>1, <3>1
    <3>2. CASE task.gap \cup dropped # {}
      <4>1. PICK g \in SUBSET Nat : g = task.gap \cup dropped
        BY <1>0
      <4>2. PICK c \in CardRecord : c = Noted(card, g, "ok")
        BY <1>0, NotedEffect
      <4>3. c.stored = card.stored /\ c.events = card.events /\ c.noted = card.noted \cup g
        BY <1>0, <4>2, NotedEffect
      <4>. QED  BY <2>1, <3>2, <4>1, <4>2, <4>3
    <3>. QED  BY <3>1, <3>2
  <2>3. /\ card' \in CardRecord /\ UNCHANGED card.events /\ card.stored \subseteq card'.stored
        /\ card'.noted = card.noted \cup task.gap \cup dropped
        /\ outcome = "ok" => task.pending \in card'.stored
    <3>1. PICK i \in Nat : i = task.pending
      BY <1>1
    <3>2. /\ Appended(c, i, outcome) \in CardRecord
          /\ Appended(c, i, outcome).noted = c.noted
          /\ Appended(c, i, outcome).events = c.events
          /\ c.stored \subseteq Appended(c, i, outcome).stored
          /\ outcome = "ok" => i \in Appended(c, i, outcome).stored
      BY AppendEffect
    <3>. QED  BY <2>2, <3>1, <3>2
  <2>4. /\ task'.pc \in {"loop", "wait"} /\ (outcome # "ok" => task'.pending = task.pending)
        /\ UNCHANGED <<task.held, task.cleanup, task.left, task.failed>>
    BY <1>0, <2>1 DEF TaskRecord
  <2>. QED  BY <1>1, <2>3, <2>4
<1>. QED  BY <1>2, <1>3 DEF RetryPending

\* A record comes into StorageTask's hands.
LEMMA RecordEffect ==
  ASSUME TypeInv, ReceiveRecord
  PROVE  /\ task.pc \in {"loop", "control"} /\ task'.pc = "loop" /\ queue # <<>>
         /\ task.pending = None /\ task'.pending = Head(queue).id /\ Head(queue).type = "record"
         /\ UNCHANGED <<task.held, task.gap, task.cleanup, task.left, task.failed>>
  BY TaskShapes DEF TaskRecord, ReceiveRecord, AtRecords, AtControl

\* An event is written, held, or given up while the gate is open.
LEMMA EventEffect ==
  ASSUME TypeInv, ReceiveEvent
  PROVE  /\ task.pc \in {"loop", "control"} /\ task'.pc = "loop" /\ queue # <<>>
         /\ Head(queue).type = "event"
         /\ UNCHANGED <<task.pending, task.gap, task.cleanup, task.left, task.failed>>
         /\ UNCHANGED <<card.stored, card.noted>> /\ card' \in CardRecord
         /\ tally' \in TallyRecord
         /\ UNCHANGED <<tally.closed, tally.refused, tally.gone, tally.events>>
         /\ \/ /\ card'.events = card.events \cup {Head(queue).id}
               /\ UNCHANGED <<task.held, tally.shed>>
            \/ task'.held = Append(task.held, Head(queue)) /\ UNCHANGED <<card.events, tally.shed>>
            \/ /\ tally'.shed = tally.shed \cup {Head(queue).id}
               /\ UNCHANGED <<task.held, card.events>>
<1>. USE TaskShapes DEF TaskRecord
<1>1. /\ task.pc \in {"loop", "control"} /\ queue # <<>> /\ Head(queue).type = "event"
  BY DEF ReceiveEvent, AtRecords, AtControl
<1>2. PICK i \in Nat : i = Head(queue).id
  BY <1>1
<1>3. CASE /\ card' = [card EXCEPT !.events = @ \cup {i}] /\ task' = [task EXCEPT !.pc = "loop"]
           /\ UNCHANGED tally
  <2>1. /\ UNCHANGED <<card.stored, card.noted>> /\ card' \in CardRecord
        /\ card'.events = card.events \cup {i}
    BY <1>3 DEF CardRecord
  <2>. QED  BY <1>1, <1>2, <1>3, <2>1
<1>4. CASE /\ task' = [task EXCEPT !.pc = "loop", !.held = Append(@, Head(queue))]
           /\ UNCHANGED <<card, tally>>
  BY <1>1, <1>4
<1>5. CASE /\ task' = [task EXCEPT !.pc = "loop"] /\ UNCHANGED card
           /\ tally' = [tally EXCEPT !.shed = @ \cup {i}]
  <2>1. /\ UNCHANGED <<tally.closed, tally.refused, tally.gone, tally.events>>
        /\ tally' \in TallyRecord /\ tally'.shed = tally.shed \cup {i}
    BY <1>5 DEF TallyRecord
  <2>. QED  BY <1>1, <1>2, <1>5, <2>1
<1>. QED  BY <1>2, <1>3, <1>4, <1>5 DEF ReceiveEvent

\* The barrier's message is taken, and the kind of barrier with it.
LEMMA ReceiveEffect ==
  ASSUME TypeInv, BarrierReceive
  PROVE  /\ task.pc \in {"loop", "control"} /\ task'.pc = "quiesce" /\ control # <<>>
         /\ Head(control) \in Barriers /\ control' = Tail(control)
         /\ task'.cleanup <=> Head(control) = "cleanup"
         /\ UNCHANGED <<task.pending, task.gap, task.held>>
<1>1. task.pc \in {"loop", "control"} /\ control # <<>> /\ Head(control) \in Barriers
      /\ control' = Tail(control)
  BY DEF BarrierReceive, TakesControl, AtControl, Barriers
<1>2. task \in TaskRecord
  BY TaskShapes
<1>3. task' = [task EXCEPT !.pc = "quiesce", !.failed = FALSE, !.left = 0,
                !.cleanup = Head(control) = "cleanup"]
  BY DEF BarrierReceive
<1>4. /\ task'.pc = "quiesce" /\ task'.cleanup = (Head(control) = "cleanup")
      /\ UNCHANGED <<task.pending, task.gap, task.held>>
  BY <1>2, <1>3 DEF TaskRecord
<1>. QED  BY <1>1, <1>4

\* The barrier gives up on a producer that stays in flight.
LEMMA BusyEffect ==
  ASSUME TypeInv, BarrierBusy
  PROVE  /\ task.pc = "quiesce" /\ task'.pc = "publish" /\ task'.failed
         /\ UNCHANGED <<task.pending, task.gap, task.held, task.cleanup>>
  BY TaskShapes DEF TaskRecord, BarrierBusy

\* A prepare flushes the gaps and the pending record, or fails with both kept.
LEMMA PrepareEffect ==
  ASSUME TypeInv, BarrierPrepare
  PROVE  /\ task.pc = "quiesce" /\ inFlight = 0 /\ dropped' = {}
         /\ UNCHANGED <<task.held, task.cleanup>>
         /\ UNCHANGED card.events /\ card' \in CardRecord
         /\ card.stored \subseteq card'.stored
         /\ card.noted \cup task.gap \cup dropped \subseteq card'.noted \cup task'.gap
         /\ task'.pending = task.pending \/ task.pending \in card'.stored
         /\ \/ task'.pc = "publish" /\ task'.failed
            \/ /\ task'.pc = "drain" /\ task'.pending = None /\ task'.gap = {}
               /\ task'.left = Len(queue)
<1>0. task \in TaskRecord /\ card \in CardRecord /\ dropped \in SUBSET Nat
      /\ task.pending \in Nat \cup {None} /\ task.gap \in SUBSET Nat
  BY TaskShapes, Fields
<1>1. task.pc = "quiesce" /\ dropped' = {} /\ inFlight = 0
  BY DEF BarrierPrepare, ProducersQuiesced
<1>2. CASE \E outcome \in Faults \cap {"reserve", "io"} :
             /\ card' = Noted(card, {}, outcome)
             /\ task' = [task EXCEPT !.pc = "publish", !.gap = task.gap \cup dropped,
                           !.failed = TRUE]
  <2>1. PICK outcome \in FaultKinds : card' = Noted(card, {}, outcome) /\ outcome # "ok"
    BY <1>2, CoordinatorAssumption
  <2>2. UNCHANGED <<card.stored, card.noted, card.events>> /\ card' \in CardRecord
    <3>1. outcome \in FaultKinds \cup {"ok"} /\ {} \in SUBSET Nat
      OBVIOUS
    <3>2. /\ Noted(card, {}, outcome) \in CardRecord
          /\ Noted(card, {}, outcome).stored = card.stored
          /\ Noted(card, {}, outcome).events = card.events
          /\ Noted(card, {}, outcome).noted = card.noted
      BY <1>0, <2>1, <3>1, NotedEffect
    <3>. QED  BY <2>1, <3>2
  <2>3. /\ task'.gap = task.gap \cup dropped /\ task'.pc = "publish" /\ task'.failed
        /\ UNCHANGED <<task.held, task.cleanup, task.pending>>
    BY <1>0, <1>2 DEF TaskRecord
  <2>. QED  BY <1>1, <2>2, <2>3
<1>3. ASSUME NEW outcome \in AppendOutcomes(TRUE), NEW c, NEW flushed \in BOOLEAN,
             c = (IF task.gap \cup dropped = {} THEN card
                  ELSE Noted(card, task.gap \cup dropped, "ok")),
             flushed = (outcome = "ok" \/ task.pending = None),
             card' = (IF task.pending = None THEN c ELSE Appended(c, task.pending, outcome)),
             task' = IF flushed
                     THEN [task EXCEPT !.pc = "drain", !.gap = {}, !.pending = None,
                             !.left = Len(queue), !.failed = task.held # <<>>]
                     ELSE [task EXCEPT !.pc = "publish", !.gap = {}, !.failed = TRUE]
      PROVE  /\ UNCHANGED <<task.held, task.cleanup>>
             /\ UNCHANGED card.events /\ card' \in CardRecord
             /\ card.stored \subseteq card'.stored
             /\ card.noted \cup task.gap \cup dropped \subseteq card'.noted \cup task'.gap
             /\ task'.pending = task.pending \/ task.pending \in card'.stored
             /\ \/ task'.pc = "publish" /\ task'.failed
                \/ /\ task'.pc = "drain" /\ task'.pending = None /\ task'.gap = {}
                   /\ task'.left = Len(queue)
  <2>1. outcome \in FaultKinds \cup {"ok"}
    BY CoordinatorAssumption DEF AppendOutcomes, Outcomes
  <2>2. /\ c \in CardRecord /\ c.stored = card.stored /\ c.events = card.events
        /\ c.noted = card.noted \cup task.gap \cup dropped
    <3>1. CASE task.gap \cup dropped = {}
      BY <1>0, <1>3, <3>1
    <3>2. CASE task.gap \cup dropped # {}
      <4>1. PICK g \in SUBSET Nat : g = task.gap \cup dropped
        BY <1>0
      <4>2. /\ Noted(card, g, "ok") \in CardRecord /\ Noted(card, g, "ok").stored = card.stored
            /\ Noted(card, g, "ok").events = card.events
            /\ Noted(card, g, "ok").noted = card.noted \cup g
        BY <1>0, NotedEffect
      <4>3. c = Noted(card, g, "ok")
        BY <1>3, <3>2, <4>1
      <4>. QED  BY <4>1, <4>2, <4>3
    <3>. QED  BY <3>1, <3>2
  <2>3. /\ card' \in CardRecord /\ UNCHANGED card.events /\ card.stored \subseteq card'.stored
        /\ card'.noted = card.noted \cup task.gap \cup dropped
        /\ outcome = "ok" /\ task.pending # None => task.pending \in card'.stored
    <3>1. CASE task.pending = None
      BY <1>3, <2>2, <3>1
    <3>2. CASE task.pending # None
      <4>1. PICK i \in Nat : i = task.pending
        BY <1>0, <3>2
      <4>2. /\ Appended(c, i, outcome) \in CardRecord
            /\ Appended(c, i, outcome).noted = c.noted
            /\ Appended(c, i, outcome).events = c.events
            /\ c.stored \subseteq Appended(c, i, outcome).stored
            /\ outcome = "ok" => i \in Appended(c, i, outcome).stored
        BY <2>1, <2>2, AppendEffect
      <4>3. card' = Appended(c, i, outcome)
        BY <1>3, <3>2, <4>1
      <4>. QED  BY <2>2, <4>1, <4>2, <4>3
    <3>. QED  BY <3>1, <3>2
  <2>4. PICK f : f = (task.held # <<>>)
    OBVIOUS
  <2>5. CASE flushed
    <3>1. task' = [task EXCEPT !.pc = "drain", !.gap = {}, !.pending = None, !.left = Len(queue),
                     !.failed = f]
      BY <1>3, <2>4, <2>5
    <3>2. /\ task'.pc = "drain" /\ task'.pending = None /\ task'.gap = {}
          /\ task'.left = Len(queue) /\ UNCHANGED <<task.held, task.cleanup>>
      BY <1>0, <3>1 DEF TaskRecord
    <3>3. task'.pending = task.pending \/ task.pending \in card'.stored
      BY <1>3, <2>3, <2>5, <3>2
    <3>. QED  BY <2>3, <3>2, <3>3
  <2>6. CASE ~flushed
    <3>1. task' = [task EXCEPT !.pc = "publish", !.gap = {}, !.failed = TRUE]
      BY <1>3, <2>6
    <3>2. /\ task'.pc = "publish" /\ task'.failed
          /\ UNCHANGED <<task.held, task.cleanup, task.pending>>
      BY <1>0, <3>1 DEF TaskRecord
    <3>. QED  BY <2>3, <3>2
  <2>. QED  BY <2>5, <2>6
<1>. QED  BY <1>1, <1>2, <1>3 DEF BarrierPrepare

\* A cleanup forgets what StorageTask had in hand.
LEMMA PurgeEffect ==
  ASSUME TypeInv, BarrierPurge
  PROVE  /\ task.pc = "quiesce" /\ task'.pc = "drain" /\ task.cleanup /\ dropped' = {}
         /\ task'.pending = None /\ task'.gap = {} /\ UNCHANGED <<task.held, task.cleanup>>
         /\ tally' \in TallyRecord
         /\ tally'.gone = tally.gone \cup dropped \cup task.gap \cup ({task.pending} \ {None})
         /\ UNCHANGED <<tally.closed, tally.refused, tally.events, tally.shed>>
<1>0. task \in TaskRecord /\ tally \in TallyRecord /\ dropped \in SUBSET Nat
      /\ task.pending \in Nat \cup {None} /\ task.gap \in SUBSET Nat
  BY TaskShapes, Fields
<1>1. /\ task.pc = "quiesce" /\ task.cleanup /\ dropped' = {}
      /\ task' = [task EXCEPT !.pc = "drain", !.pending = None, !.gap = {}, !.left = Len(queue)]
  BY DEF BarrierPurge
<1>2. PICK g \in SUBSET Nat : g = dropped \cup task.gap \cup ({task.pending} \ {None})
  BY <1>0
<1>3. tally' = [tally EXCEPT !.gone = @ \cup g]
  <2>1. tally' = [tally EXCEPT !.gone = @ \cup dropped \cup task.gap
                                          \cup ({task.pending} \ {None})]
    BY DEF BarrierPurge
  <2>2. tally.gone \cup dropped \cup task.gap \cup ({task.pending} \ {None}) = tally.gone \cup g
    BY <1>2
  <2>. QED  BY <2>1, <2>2
<1>4. /\ tally' \in TallyRecord /\ tally'.gone = tally.gone \cup g
      /\ UNCHANGED <<tally.closed, tally.refused, tally.events, tally.shed>>
  BY <1>0, <1>3 DEF TallyRecord
<1>5. /\ task'.pc = "drain" /\ task'.pending = None /\ task'.gap = {}
      /\ UNCHANGED <<task.held, task.cleanup>>
  BY <1>0, <1>1 DEF TaskRecord
<1>. QED  BY <1>1, <1>2, <1>4, <1>5

\* A record of the snapshot is stored, discarded by a cleanup, or stays pending.
LEMMA FlushEffect ==
  ASSUME TypeInv, BarrierRecord
  PROVE  /\ task.pc = "drain" /\ task.left > 0 /\ queue # <<>> /\ Head(queue).type = "record"
         /\ UNCHANGED <<task.gap, task.held, task.cleanup>>
         /\ tally' \in TallyRecord /\ tally.gone \subseteq tally'.gone
         /\ UNCHANGED <<tally.closed, tally.refused, tally.events, tally.shed>>
         /\ card' \in CardRecord /\ card.stored \subseteq card'.stored
         /\ UNCHANGED <<card.noted, card.events>>
         /\ Head(queue).id \in card'.stored \cup tally'.gone \cup {task'.pending}
         /\ \/ /\ UNCHANGED <<task.pc, task.pending, task.failed>> /\ task'.left = task.left - 1
            \/ /\ task'.pc = "publish" /\ task'.failed /\ task'.pending = Head(queue).id
<1>0. /\ task \in TaskRecord /\ tally \in TallyRecord /\ card \in CardRecord
      /\ queue \in Seq(Messages) /\ task.left \in Nat /\ task.left <= Len(queue)
  BY TaskShapes, Fields DEF TypeInv, StoreInv
<1>1. task.pc = "drain" /\ task.left > 0 /\ Head(queue).type = "record"
  BY DEF BarrierRecord
<1>2. queue # <<>>
  BY <1>0, <1>1
<1>3. PICK i \in Nat : i = Head(queue).id
  BY <1>2, TaskShapes
<1>4. CASE task.cleanup
  <2>1. /\ tally' = [tally EXCEPT !.gone = @ \cup {i}] /\ UNCHANGED card
        /\ task' = [task EXCEPT !.left = @ - 1]
    BY <1>3, <1>4 DEF BarrierRecord
  <2>2. /\ tally' \in TallyRecord /\ tally'.gone = tally.gone \cup {i}
        /\ UNCHANGED <<tally.closed, tally.refused, tally.events, tally.shed>>
    BY <1>0, <2>1 DEF TallyRecord
  <2>3. /\ UNCHANGED <<task.gap, task.held, task.cleanup, task.pc, task.pending, task.failed>>
        /\ task'.left = task.left - 1
    BY <1>0, <2>1 DEF TaskRecord
  <2>. QED  BY <1>0, <1>1, <1>2, <1>3, <2>1, <2>2, <2>3
<1>5. CASE ~task.cleanup
  <2>1. PICK outcome \in AppendOutcomes(TRUE) :
               /\ card' = Appended(card, i, outcome)
               /\ task' = IF outcome = "ok" THEN [task EXCEPT !.left = @ - 1]
                          ELSE [task EXCEPT !.pc = "publish", !.failed = TRUE,
                                  !.left = 0, !.pending = i]
    BY <1>3, <1>5 DEF BarrierRecord
  <2>2. UNCHANGED tally
    BY <1>5 DEF BarrierRecord
  <2>3. outcome \in FaultKinds \cup {"ok"}
    BY CoordinatorAssumption DEF AppendOutcomes, Outcomes
  <2>4. /\ card' \in CardRecord /\ card.stored \subseteq card'.stored
        /\ UNCHANGED <<card.noted, card.events>>
        /\ outcome = "ok" => i \in card'.stored
    <3>1. /\ Appended(card, i, outcome) \in CardRecord
          /\ Appended(card, i, outcome).noted = card.noted
          /\ Appended(card, i, outcome).events = card.events
          /\ card.stored \subseteq Appended(card, i, outcome).stored
          /\ outcome = "ok" => i \in Appended(card, i, outcome).stored
      BY <1>0, <2>3, AppendEffect
    <3>. QED  BY <2>1, <3>1
  <2>5. CASE outcome = "ok"
    <3>1. /\ UNCHANGED <<task.gap, task.held, task.cleanup, task.pc, task.pending, task.failed>>
          /\ task'.left = task.left - 1
      BY <1>0, <2>1, <2>5 DEF TaskRecord
    <3>. QED  BY <1>0, <1>1, <1>2, <1>3, <2>2, <2>4, <2>5, <3>1
  <2>6. CASE outcome # "ok"
    <3>1. /\ UNCHANGED <<task.gap, task.held, task.cleanup>>
          /\ task'.pc = "publish" /\ task'.failed /\ task'.pending = i
      BY <1>0, <2>1, <2>6 DEF TaskRecord
    <3>. QED  BY <1>0, <1>1, <1>2, <1>3, <2>2, <2>4, <2>6, <3>1
  <2>. QED  BY <2>5, <2>6
<1>. QED  BY <1>4, <1>5

\* An event of the snapshot is written or held; a prepare fails on it.
LEMMA FlushEventEffect ==
  ASSUME TypeInv, BarrierEvent
  PROVE  /\ task.pc = "drain" /\ task'.pc = "drain" /\ task.left > 0 /\ queue # <<>>
         /\ Head(queue).type = "event" /\ UNCHANGED <<task.pending, task.gap, task.cleanup>>
         /\ card' \in CardRecord /\ UNCHANGED <<card.stored, card.noted>>
         /\ \/ /\ task'.left = task.left - 1 /\ UNCHANGED <<task.failed, task.held>>
               /\ card'.events = card.events \cup {Head(queue).id}
            \/ /\ task'.held = Append(task.held, Head(queue)) /\ UNCHANGED card
               /\ ~task.cleanup => task'.failed
<1>0. /\ task \in TaskRecord /\ card \in CardRecord
      /\ queue \in Seq(Messages) /\ task.left \in Nat /\ task.left <= Len(queue)
  BY TaskShapes, Fields DEF TypeInv, StoreInv
<1>1. task.pc = "drain" /\ task.left > 0 /\ Head(queue).type = "event"
  BY DEF BarrierEvent
<1>2. queue # <<>>
  BY <1>0, <1>1
<1>3. PICK i \in Nat : i = Head(queue).id
  BY <1>2, TaskShapes
<1>4. CASE /\ card' = [card EXCEPT !.events = @ \cup {i}]
           /\ task' = [task EXCEPT !.left = @ - 1]
  <2>1. /\ card' \in CardRecord /\ UNCHANGED <<card.stored, card.noted>>
        /\ card'.events = card.events \cup {i}
    BY <1>0, <1>4 DEF CardRecord
  <2>2. /\ UNCHANGED <<task.pc, task.pending, task.gap, task.cleanup, task.failed, task.held>>
        /\ task'.left = task.left - 1
    BY <1>0, <1>4 DEF TaskRecord
  <2>. QED  BY <1>1, <1>2, <1>3, <2>1, <2>2
<1>5. CASE /\ task' = [task EXCEPT !.held = Append(@, Head(queue)),
                         !.failed = @ \/ ~task.cleanup,
                         !.left = IF task.cleanup THEN @ - 1 ELSE 0]
           /\ UNCHANGED card
  <2>1. PICK l : l = (IF task.cleanup THEN task.left - 1 ELSE 0)
    OBVIOUS
  <2>2. PICK f \in BOOLEAN : f = (task.failed \/ ~task.cleanup)
    OBVIOUS
  <2>3. task' = [task EXCEPT !.held = Append(@, Head(queue)), !.failed = f, !.left = l]
    BY <1>5, <2>1, <2>2
  <2>4. /\ UNCHANGED <<task.pc, task.pending, task.gap, task.cleanup>>
        /\ task'.held = Append(task.held, Head(queue)) /\ task'.failed = f
    BY <1>0, <2>3 DEF TaskRecord
  <2>. QED  BY <1>0, <1>1, <1>2, <1>5, <2>2, <2>4
<1>. QED  BY <1>3, <1>4, <1>5 DEF BarrierEvent, KeepEvent

\* The drain journal lets go of its records only when they are on the card.
LEMMA DrainEffect ==
  ASSUME TypeInv, BarrierCompleteDrain
  PROVE  /\ task.pc = "drain" /\ task.left = 0 /\ ~task.cleanup /\ task'.pc = "publish"
         /\ UNCHANGED <<task.pending, task.gap, task.held, task.cleanup>>
         /\ ~task'.failed => ~task.failed
         /\ card' \in CardRecord /\ card.stored \subseteq card'.stored
         /\ UNCHANGED <<card.noted, card.events>> /\ journal' \in JournalRecord
         /\ JournalOwned \subseteq JournalOwned' \cup card'.stored
<1>0. task \in TaskRecord /\ card \in CardRecord /\ journal \in JournalRecord
  BY TaskShapes
<1>1. task.pc = "drain" /\ task.left = 0 /\ ~task.cleanup
  BY DEF BarrierCompleteDrain
<1>2. /\ task'.pc = "publish" /\ UNCHANGED <<task.pending, task.gap, task.held, task.cleanup>>
      /\ ~task'.failed => ~task.failed
  <2>1. \/ task' = [task EXCEPT !.pc = "publish"]
        \/ task' = [task EXCEPT !.pc = "publish", !.failed = TRUE]
    BY DEF BarrierCompleteDrain
  <2>. QED  BY <1>0, <2>1 DEF TaskRecord
<1>3. /\ \/ UNCHANGED card
         \/ \E s \in SUBSET journal.intervals, k \in FaultKinds :
              card' = [card EXCEPT !.stored = @ \cup s, !.error = k]
         \/ card' = [card EXCEPT !.stored = @ \cup journal.intervals]
      /\ \/ UNCHANGED journal
         \/ journal' = [journal EXCEPT !.state = "assigned"]
         \/ /\ journal' = [journal EXCEPT !.state = "completed"]
            /\ card' = [card EXCEPT !.stored = @ \cup journal.intervals]
      /\ journal' # journal => journal.state \in {"staged", "assigned"}
  BY CoordinatorAssumption DEF BarrierCompleteDrain, AssignedJournal
<1>4. /\ card' \in CardRecord /\ card.stored \subseteq card'.stored
      /\ UNCHANGED <<card.noted, card.events>>
  <2>1. journal.intervals \in SUBSET Nat
    BY Fields
  <2>2. CASE UNCHANGED card
    BY <1>0, <2>2
  <2>3. CASE card' = [card EXCEPT !.stored = @ \cup journal.intervals]
    BY <1>0, <2>1, <2>3 DEF CardRecord
  <2>4. CASE \E s \in SUBSET journal.intervals, k \in FaultKinds :
               card' = [card EXCEPT !.stored = @ \cup s, !.error = k]
    <3>1. PICK s \in SUBSET journal.intervals, k \in FaultKinds :
               card' = [card EXCEPT !.stored = @ \cup s, !.error = k]
      BY <2>4
    <3>2. s \in SUBSET Nat
      BY <2>1
    <3>. QED  BY <1>0, <3>1, <3>2 DEF CardRecord
  <2>. QED  BY <1>3, <2>2, <2>3, <2>4
<1>5. journal' \in JournalRecord
  BY <1>0, <1>3 DEF JournalRecord
<1>6. JournalOwned \subseteq JournalOwned' \cup card'.stored
  <2>1. CASE UNCHANGED journal
    BY <2>1 DEF JournalOwned
  <2>2. CASE journal' = [journal EXCEPT !.state = "assigned"]
    <3>1. journal'.state = "assigned" /\ journal'.intervals = journal.intervals
      BY <1>0, <2>2 DEF JournalRecord
    <3>. QED  BY <3>1 DEF JournalOwned
  <2>3. CASE card' = [card EXCEPT !.stored = @ \cup journal.intervals]
    <3>1. card'.stored = card.stored \cup journal.intervals
      BY <1>0, <2>3 DEF CardRecord
    <3>. QED  BY <3>1 DEF JournalOwned
  <2>. QED  BY <1>3, <2>1, <2>2, <2>3
<1>. QED  BY <1>1, <1>2, <1>4, <1>5, <1>6

\* A cleanup removes readings, and writes the events held meanwhile.
LEMMA ClearEffect ==
  ASSUME TypeInv, BarrierClear
  PROVE  /\ task.pc = "drain" /\ task.cleanup /\ task'.pc = "publish"
         /\ UNCHANGED <<task.pending, task.gap, task.cleanup>>
         /\ card' \in CardRecord /\ UNCHANGED card.noted /\ tally' \in TallyRecord
         /\ card.stored \subseteq card'.stored \cup tally'.gone /\ tally.gone \subseteq tally'.gone
         /\ UNCHANGED <<tally.closed, tally.refused, tally.events, tally.shed>>
         /\ \/ UNCHANGED <<task.held, card.events>>
            \/ /\ task'.held = <<>>
               /\ card'.events = card.events \cup Ids(task.held, "event")
<1>0. task \in TaskRecord /\ card \in CardRecord /\ tally \in TallyRecord
      /\ card.stored \in SUBSET Nat /\ Ids(task.held, "event") \in SUBSET Nat
  BY TaskShapes, Fields, IdsNat
<1>1. task.pc = "drain" /\ task.cleanup
  BY DEF BarrierClear
<1>2. CASE /\ task' = [task EXCEPT !.pc = "publish", !.held = <<>>]
           /\ card' = [card EXCEPT !.stored = {}, !.events = @ \cup Ids(task.held, "event")]
           /\ tally' = [tally EXCEPT !.gone = @ \cup card.stored]
  <2>1. /\ task'.pc = "publish" /\ task'.held = <<>>
        /\ UNCHANGED <<task.pending, task.gap, task.cleanup>>
    BY <1>0, <1>2 DEF TaskRecord
  <2>2. /\ card' \in CardRecord /\ UNCHANGED card.noted
        /\ card'.events = card.events \cup Ids(task.held, "event")
    BY <1>0, <1>2 DEF CardRecord
  <2>3. /\ tally' \in TallyRecord /\ tally'.gone = tally.gone \cup card.stored
        /\ UNCHANGED <<tally.closed, tally.refused, tally.events, tally.shed>>
    BY <1>0, <1>2 DEF TallyRecord
  <2>. QED  BY <1>1, <2>1, <2>2, <2>3
<1>3. ASSUME NEW some \in SUBSET card.stored,
             task' = [task EXCEPT !.pc = "publish", !.failed = TRUE],
             card' = [card EXCEPT !.stored = @ \ some],
             tally' = [tally EXCEPT !.gone = @ \cup some]
      PROVE  /\ task'.pc = "publish"
             /\ UNCHANGED <<task.held, task.pending, task.gap, task.cleanup>>
             /\ card' \in CardRecord /\ UNCHANGED <<card.noted, card.events>>
             /\ tally' \in TallyRecord /\ tally.gone \subseteq tally'.gone
             /\ card.stored \subseteq card'.stored \cup tally'.gone
             /\ UNCHANGED <<tally.closed, tally.refused, tally.events, tally.shed>>
  <2>1. /\ task'.pc = "publish" /\ UNCHANGED <<task.held, task.pending, task.gap, task.cleanup>>
    BY <1>0, <1>3 DEF TaskRecord
  <2>2. /\ card' \in CardRecord /\ UNCHANGED <<card.noted, card.events>>
        /\ card'.stored = card.stored \ some
    BY <1>0, <1>3 DEF CardRecord
  <2>3. /\ tally' \in TallyRecord /\ tally'.gone = tally.gone \cup some
        /\ UNCHANGED <<tally.closed, tally.refused, tally.events, tally.shed>>
    BY <1>0, <1>3 DEF TallyRecord
  <2>. QED  BY <2>1, <2>2, <2>3
<1>. QED  BY <1>1, <1>2, <1>3 DEF BarrierClear

\* The result is published and the marker cleared.
LEMMA PublishEffect ==
  ASSUME TypeInv, BarrierPublish
  PROVE  /\ task.pc = "publish" /\ task'.pc = "loop"
         /\ UNCHANGED <<task.pending, task.gap, task.held>>
         /\ ~barrier'.queued /\ (barrier'.result = "ok" => ~task.failed)
         /\ barrier' \in [queued : BOOLEAN, result : {"none", "ok", "failed"}]
<1>1. /\ task.pc = "publish"
      /\ task' = [task EXCEPT !.pc = "loop", !.cleanup = FALSE, !.failed = FALSE, !.left = 0]
      /\ barrier' = [queued |-> FALSE, result |-> IF task.failed THEN "failed" ELSE "ok"]
  BY DEF BarrierPublish
<1>2. task \in TaskRecord
  BY TaskShapes
<1>3. task'.pc = "loop" /\ UNCHANGED <<task.pending, task.gap, task.held>>
  BY <1>1, <1>2 DEF TaskRecord
<1>4. /\ ~barrier'.queued /\ (barrier'.result = "ok" => ~task.failed)
      /\ barrier' \in [queued : BOOLEAN, result : {"none", "ok", "failed"}]
  BY <1>1
<1>. QED  BY <1>1, <1>3, <1>4

\* What AggregationTask writes outside its locals.
LEMMA AggTallies ==
  ASSUME TypeInv, Aggregation
  PROVE  tally' \in TallyRecord /\ dropped' \in SUBSET Nat /\ journal' \in JournalRecord
<1>0. /\ tally \in TallyRecord /\ dropped \in SUBSET Nat /\ journal \in JournalRecord
      /\ tally.closed + 1 \in Nat /\ agg.boundary \in Seq(Nat) /\ agg.op \in Nat
  BY TaskShapes, Fields
<1>h. agg.pc \in Handing => agg.hand \in Nat
  BY DEF TypeInv, AggInv
<1>1. tally' \in TallyRecord
  <2>1. \/ tally' = tally
        \/ tally' = [tally EXCEPT !.closed = tally.closed + 1]
        \/ agg.pc \in Handing /\ tally' = [tally EXCEPT !.refused = @ \cup {agg.hand}]
    BY DEF Aggregation, AggLoop, AggDrain, AggStageBegin, AggStageEnd, AggMark,
       AggResume, AggIdle,
       AggReject, AggAccept, AggRetain, AggLookAtGate, EnqueueLook, EnqueueCount, EnqueueRecheck,
       EnqueueSend, EnqueueDone, EnqueueFull, recordDroppedInterval, Refused, Handing, Enqueueing
  <2>2. CASE tally' = [tally EXCEPT !.closed = tally.closed + 1]
    BY <1>0, <2>2 DEF TallyRecord
  <2>3. CASE agg.pc \in Handing /\ tally' = [tally EXCEPT !.refused = @ \cup {agg.hand}]
    <3>1. PICK h \in Nat : h = agg.hand
      BY <1>h, <2>3
    <3>2. tally' = [tally EXCEPT !.refused = @ \cup {h}]
      BY <2>3, <3>1
    <3>. QED  BY <1>0, <3>2 DEF TallyRecord
  <2>. QED  BY <1>0, <2>1, <2>2, <2>3
<1>2. dropped' \in SUBSET Nat
  <2>1. dropped' = dropped \/ (agg.pc \in Handing /\ dropped' = dropped \cup {agg.hand})
    BY DEF Aggregation, AggLoop, AggDrain, AggStageBegin, AggStageEnd, AggMark,
       AggResume, AggIdle,
       AggReject, AggAccept, AggRetain, AggLookAtGate, EnqueueLook, EnqueueCount, EnqueueRecheck,
       EnqueueSend, EnqueueDone, EnqueueFull, recordDroppedInterval, Handing, Enqueueing
  <2>. QED  BY <1>0, <1>h, <2>1
<1>3. journal' \in JournalRecord
  <2>1. \/ journal' = journal
        \/ journal' = [state |-> "staged", op |-> agg.op, intervals |-> Range(agg.boundary)]
    BY DEF Aggregation, AggLoop, AggDrain, AggStageBegin, AggStageEnd, AggMark,
       AggResume, AggIdle,
       AggReject, AggAccept, AggRetain, AggLookAtGate, EnqueueLook, EnqueueCount, EnqueueRecheck,
       EnqueueSend, EnqueueDone, EnqueueFull, recordDroppedInterval, enqueueRest
  <2>2. Range(agg.boundary) \subseteq Nat
    BY <1>0 DEF Range
  <2>. QED  BY <1>0, <2>1, <2>2 DEF JournalRecord
<1>. QED  BY <1>1, <1>2, <1>3

\* What StorageTask leaves in the queues, on the card and in the journal.
LEMMA TaskStep ==
  ASSUME TypeInv, StorageTask
  PROVE  /\ task' \in TaskRecord /\ card' \in CardRecord /\ tally' \in TallyRecord
         /\ journal' \in JournalRecord /\ dropped' \in SUBSET Nat
         /\ barrier' \in [queued : BOOLEAN, result : {"none", "ok", "failed"}]
         /\ task'.pc # "drain" => task'.left = 0
         /\ task'.left <= Len(queue')
<1>0. /\ task \in TaskRecord /\ card \in CardRecord /\ tally \in TallyRecord
      /\ journal \in JournalRecord /\ dropped \in SUBSET Nat
      /\ barrier \in [queued : BOOLEAN, result : {"none", "ok", "failed"}]
  BY DEF TypeInv, StoreInv
<1>q. queue' \in Seq(Messages)
  <2>1. [Next]_vars
    BY NextCases
  <2>. QED  BY <2>1, QueueStep
<1>z. 0 <= Len(queue')
  BY <1>q
<1>. USE <1>0
<1>1. CASE AppendHeldEvent
  BY <1>1, <1>z, LoopTask, HeldEventEffect DEF AppendHeldEvent, InBarrier
<1>2. CASE applyRetention
  BY <1>2, <1>z, LoopTask, RetentionEffect DEF applyRetention, InBarrier
<1>3. CASE HeldEventWait
  BY <1>3, <1>z, LoopTask, WaitEffect DEF HeldEventWait, InBarrier
<1>4. CASE RetryPending
  BY <1>4, <1>z, LoopTask, RetryEffect DEF RetryPending, InBarrier
<1>5. CASE RetryWait
  BY <1>5, <1>z, LoopTask, WaitEffect DEF RetryWait, InBarrier
<1>6. CASE ReceiveRecord
  BY <1>6, <1>z, LoopTask DEF ReceiveRecord, InBarrier
<1>7. CASE ReceiveEvent
  BY <1>7, <1>z, LoopTask, EventEffect DEF ReceiveEvent, InBarrier
<1>8. CASE BarrierReceive
  BY <1>8, BarrierTask DEF BarrierReceive
<1>9. CASE BarrierBusy
  BY <1>9, BarrierTask DEF BarrierBusy
<1>10. CASE BarrierPrepare
  BY <1>10, BarrierTask, PrepareEffect DEF BarrierPrepare
<1>11. CASE BarrierPurge
  BY <1>11, BarrierTask, PurgeEffect DEF BarrierPurge
<1>12. CASE BarrierRecord
  BY <1>12, BarrierTask, FlushEffect DEF BarrierRecord
<1>13. CASE BarrierEvent
  BY <1>13, BarrierTask, FlushEventEffect DEF BarrierEvent
<1>14. CASE BarrierCompleteDrain
  BY <1>14, BarrierTask, DrainEffect DEF BarrierCompleteDrain
<1>15. CASE BarrierClear
  BY <1>15, BarrierTask, ClearEffect DEF BarrierClear
<1>16. CASE BarrierPublish
  BY <1>16, BarrierTask, PublishEffect DEF BarrierPublish
<1>. QED
  BY <1>1, <1>2, <1>3, <1>4, <1>5, <1>6, <1>7, <1>8, <1>9, <1>10, <1>11, <1>12,
     <1>13, <1>14,
     <1>15, <1>16
  DEF StorageTask

\* The queues and the card keep their types.
LEMMA StoreStep ==
  ASSUME TypeInv, [Next]_vars
  PROVE  StoreInv'
<1>0. StoreInv
  BY DEF TypeInv
<1>q. /\ queue' \in Seq(Messages) /\ control' \in Seq({"retention"} \cup Barriers)
      /\ retention' \in {"none", "claimed", "queued"}
  BY QueueStep
<1>1. CASE StorageTask
  BY <1>1, <1>q, TaskStep DEF StoreInv
<1>2. CASE Meter \/ UNCHANGED vars
  <2>1. UNCHANGED <<queue, control, retention, dropped, task, card, barrier, journal, tally>>
    BY <1>2, Frames DEF vars
  <2>. QED  BY <1>0, <2>1 DEF StoreInv
<1>n. ~StorageTask => task' = task /\ card' = card
  BY NextCases, Frames DEF vars
<1>l. UNCHANGED task /\ ~StorageTask => task'.left <= Len(queue')
  <2>. SUFFICES ASSUME UNCHANGED task, ~StorageTask PROVE task'.left <= Len(queue')
    OBVIOUS
  <2>1. queue \in Seq(Messages) /\ task.left <= Len(queue) /\ task.left \in Nat
    BY <1>0, Fields DEF StoreInv
  <2>2. queue' = queue \/ \E m : queue' = Append(queue, m)
    BY QueueCases DEF StorageTask
  <2>3. Len(queue') >= Len(queue)
    BY <2>1, <2>2
  <2>. QED  BY <1>q, <2>1, <2>3
<1>3. CASE Aggregation /\ ~StorageTask
  BY <1>0, <1>3, <1>q, <1>l, Frames, AggTallies DEF StoreInv
<1>4. CASE ResetCoordinator /\ ~StorageTask
  <2>1. barrier' \in [queued : BOOLEAN, result : {"none", "ok", "failed"}]
    <3>1. barrier' = barrier \/ barrier' = [queued |-> TRUE, result |-> "none"]
      BY <1>4 DEF ResetCoordinator, beginDataResetProducerBarrier, Freeze,
         CloseGate, Admit,
         processPendingPrepare, queueDataResetBarrier, PrepareResult, requestCancel, Commit,
         CleanupResult, OpenGate, Unfreeze, endDataResetProducerBarrier
    <3>2. [queued |-> TRUE, result |-> "none"]
            \in [queued : BOOLEAN, result : {"none", "ok", "failed"}]
      OBVIOUS
    <3>3. barrier \in [queued : BOOLEAN, result : {"none", "ok", "failed"}]
      BY <1>0 DEF StoreInv
    <3>. QED  BY <3>1, <3>2, <3>3
  <2>. QED  BY <1>0, <1>4, <1>q, <1>l, <2>1, Frames DEF StoreInv
<1>5. CASE Requests /\ ~StorageTask
  <2>1. tally' \in TallyRecord
    <3>1. tally \in TallyRecord /\ tally.events + 1 \in Nat /\ tally.retention + 1 \in Nat
      BY Fields, TaskShapes
    <3>2. \/ tally' = tally \/ tally' = [tally EXCEPT !.events = tally.events + 1]
          \/ tally' = [tally EXCEPT !.retention = tally.retention + 1]
      BY <1>5 DEF Requests, enqueueEvent, queueRetention, sendRetention
    <3>. QED  BY <3>1, <3>2 DEF TallyRecord
  <2>. QED  BY <1>0, <1>5, <1>q, <1>l, <2>1, Frames DEF StoreInv
<1>. QED  BY <1>1, <1>2, <1>3, <1>4, <1>5, NextCases

\* The types and the places of the tasks.
LEMMA TypeStep ==
  ASSUME TypeInv, [Next]_vars
  PROVE  TypeInv'
  BY GateStep, AggStep, StoreStep DEF TypeInv

-----------------------------------------------------------------------------
(* One barrier at a time                                                    *)

\* At most one message of a control queue asks for a barrier.
OnlyOne(s) == \A j, k \in DOMAIN s : s[j] \in Barriers /\ s[k] \in Barriers => j = k

Asked == Range(control) \cap Barriers

\* One barrier at most is asked for or being worked on, its marker is set until
\* the result is published, none is left behind a prepared reset, and the one
\* the coordinator waits for is of the kind it asked for.
BarrierInv ==
  /\ OnlyOne(control)
  /\ task.pc \in InBarrier => barrier.queued /\ Asked = {}
  /\ Asked # {} => barrier.queued
  /\ barrier.queued => barrier.result = "none"
  /\ reset.phase = "prepared" => ~barrier.queued
  /\ reset.phase = "committing" => /\ task.pc \in InBarrier => task.cleanup
                                   /\ "prepare" \notin Asked
  /\ reset.purpose = "prepare" => /\ task.pc \in InBarrier => ~task.cleanup
                                  /\ "cleanup" \notin Asked

ControlKinds == {"retention"} \cup Barriers

\* A message joins a control queue.
LEMMA OnlyOneAppend ==
  ASSUME NEW s \in Seq(ControlKinds), NEW x \in ControlKinds, OnlyOne(s),
         x \in Barriers => Range(s) \cap Barriers = {}
  PROVE  OnlyOne(Append(s, x))
<1>1. /\ DOMAIN Append(s, x) = 1 .. Len(s) + 1 /\ DOMAIN s = 1 .. Len(s)
      /\ \A k \in 1 .. Len(s) : Append(s, x)[k] = s[k]
      /\ Append(s, x)[Len(s) + 1] = x
  OBVIOUS
<1>. SUFFICES ASSUME NEW j \in DOMAIN Append(s, x), NEW k \in DOMAIN Append(s, x),
                     Append(s, x)[j] \in Barriers, Append(s, x)[k] \in Barriers
              PROVE  j = k
  BY DEF OnlyOne
<1>2. \A i \in 1 .. Len(s) : s[i] \in Range(s)
  BY <1>1 DEF Range
<1>3. CASE x \in Barriers
  <2>1. j = Len(s) + 1 /\ k = Len(s) + 1
    BY <1>1, <1>2, <1>3
  <2>. QED  BY <2>1
<1>4. CASE x \notin Barriers
  <2>1. j \in DOMAIN s /\ k \in DOMAIN s
    BY <1>1, <1>4
  <2>. QED  BY <1>1, <2>1 DEF OnlyOne
<1>. QED  BY <1>3, <1>4

\* A retention request goes to the front of a control queue.
LEMMA OnlyOnePush ==
  ASSUME NEW s \in Seq(ControlKinds), OnlyOne(s)
  PROVE  /\ OnlyOne(<<"retention">> \o s)
         /\ Range(<<"retention">> \o s) = {"retention"} \cup Range(s)
<1>1. PICK t : t = <<"retention">> \o s
  OBVIOUS
<1>2. /\ DOMAIN t = 1 .. Len(s) + 1 /\ DOMAIN s = 1 .. Len(s) /\ Len(s) \in Nat
      /\ t[1] = "retention" /\ \A k \in 2 .. Len(s) + 1 : t[k] = s[k - 1]
  BY <1>1
<1>3. \A k \in 1 .. Len(s) : k + 1 \in 2 .. Len(s) + 1 /\ (k + 1) - 1 = k
  BY <1>2
<1>4. \A k \in 1 .. Len(s) + 1 : k = 1 \/ (k \in 2 .. Len(s) + 1 /\ k - 1 \in 1 .. Len(s))
  BY <1>2
<1>5. \A j, k \in 2 .. Len(s) + 1 : j - 1 = k - 1 => j = k
  BY <1>2
<1>6. "retention" \notin Barriers
  BY DEF Barriers
<1>7. OnlyOne(t)
  <2>. SUFFICES ASSUME NEW j \in DOMAIN t, NEW k \in DOMAIN t, t[j] \in Barriers, t[k] \in Barriers
                PROVE  j = k
    BY DEF OnlyOne
  <2>1. j \in 2 .. Len(s) + 1 /\ k \in 2 .. Len(s) + 1
    BY <1>2, <1>4, <1>6
  <2>2. j - 1 \in DOMAIN s /\ k - 1 \in DOMAIN s /\ t[j] = s[j - 1] /\ t[k] = s[k - 1]
    BY <1>2, <2>1
  <2>3. j - 1 = k - 1
    BY <2>2 DEF OnlyOne
  <2>. QED  BY <1>5, <2>1, <2>3
<1>8. Range(t) = {"retention"} \cup Range(s)
  <2>1. Range(t) \subseteq {"retention"} \cup Range(s)
    BY <1>2, <1>4 DEF Range
  <2>2. Range(s) \subseteq Range(t)
    <3>1. ASSUME NEW k \in DOMAIN s PROVE s[k] \in Range(t)
      <4>1. k + 1 \in DOMAIN t /\ t[k + 1] = s[k]
        BY <1>2, <1>3
      <4>. QED  BY <4>1 DEF Range
    <3>. QED  BY <3>1 DEF Range
  <2>3. "retention" \in Range(t)
    BY <1>2 DEF Range
  <2>. QED  BY <2>1, <2>2, <2>3
<1>. QED  BY <1>1, <1>7, <1>8

\* The first message leaves a control queue.
LEMMA OnlyOneTail ==
  ASSUME NEW s \in Seq(ControlKinds), s # <<>>, OnlyOne(s)
  PROVE  OnlyOne(Tail(s)) /\ (Head(s) \in Barriers => Range(Tail(s)) \cap Barriers = {})
<1>1. /\ DOMAIN Tail(s) = 1 .. Len(s) - 1 /\ DOMAIN s = 1 .. Len(s) /\ Len(s) \in Nat \ {0}
      /\ \A k \in 1 .. Len(s) - 1 : Tail(s)[k] = s[k + 1]
      /\ Head(s) = s[1]
  OBVIOUS
<1>2. \A k \in 1 .. Len(s) - 1 : k + 1 \in 1 .. Len(s) /\ k + 1 # 1
  BY <1>1
<1>3. \A j, k \in 1 .. Len(s) - 1 : j + 1 = k + 1 => j = k
  BY <1>1
<1>4. OnlyOne(Tail(s))
  BY <1>1, <1>2, <1>3 DEF OnlyOne
<1>5. ASSUME Head(s) \in Barriers, NEW x \in Range(Tail(s)), x \in Barriers PROVE FALSE
  <2>1. PICK k \in 1 .. Len(s) - 1 : x = s[k + 1]
    BY <1>1, <1>5 DEF Range
  <2>2. 1 \in DOMAIN s /\ k + 1 \in DOMAIN s
    BY <1>1, <1>2, <2>1
  <2>. QED  BY <1>1, <1>2, <1>5, <2>1, <2>2 DEF OnlyOne
<1>. QED  BY <1>4, <1>5

\* Steps of the loop that take no request.
Looping == AppendHeldEvent \/ HeldEventWait \/ RetryPending \/ RetryWait \/ ReceiveRecord
             \/ ReceiveEvent

\* Steps inside a barrier.
Inside == BarrierBusy \/ BarrierPrepare \/ BarrierPurge \/ BarrierRecord \/ BarrierEvent
            \/ BarrierCompleteDrain \/ BarrierClear

\* What StorageTask's steps do to requests and barriers.
LEMMA TaskCases ==
  ASSUME TypeInv, StorageTask
  PROVE  \/ Looping /\ task'.pc \notin InBarrier /\ UNCHANGED <<control, barrier, reset>>
         \/ applyRetention /\ task'.pc \notin InBarrier /\ UNCHANGED <<barrier, reset>>
         \/ BarrierReceive /\ UNCHANGED <<barrier, reset>>
         \/ /\ Inside /\ task.pc \in InBarrier /\ task'.pc \in InBarrier
            /\ UNCHANGED <<task.cleanup, control, barrier, reset>>
         \/ BarrierPublish /\ UNCHANGED <<control, reset>>
<1>0. UNCHANGED reset
  BY Frames
<1>1. CASE Looping
  <2>1. task'.pc \notin InBarrier
    BY <1>1, LoopTask DEF Looping
  <2>2. UNCHANGED <<control, barrier>>
    BY <1>1 DEF Looping, AppendHeldEvent, HeldEventWait, RetryPending,
       RetryWait, ReceiveRecord,
       ReceiveEvent
  <2>. QED  BY <1>0, <1>1, <2>1, <2>2
<1>2. CASE applyRetention
  <2>1. task'.pc \notin InBarrier
    BY <1>2, LoopTask
  <2>. QED  BY <1>0, <1>2, <2>1 DEF applyRetention
<1>3. CASE BarrierReceive
  BY <1>0, <1>3 DEF BarrierReceive
<1>4. CASE Inside
  <2>1. UNCHANGED <<control, barrier>>
    BY <1>4 DEF Inside, BarrierBusy, BarrierPrepare, BarrierPurge,
       BarrierRecord, BarrierEvent,
       BarrierCompleteDrain, BarrierClear
  <2>2. task.pc \in InBarrier /\ task'.pc \in InBarrier /\ UNCHANGED task.cleanup
    <3>. USE DEF InBarrier
    <3>1. CASE BarrierBusy
      BY <3>1, BusyEffect
    <3>2. CASE BarrierPrepare
      BY <3>2, PrepareEffect
    <3>3. CASE BarrierPurge
      BY <3>3, PurgeEffect
    <3>4. CASE BarrierRecord
      BY <3>4, FlushEffect
    <3>5. CASE BarrierEvent
      BY <3>5, FlushEventEffect
    <3>6. CASE BarrierCompleteDrain
      BY <3>6, DrainEffect
    <3>7. CASE BarrierClear
      BY <3>7, ClearEffect
    <3>. QED  BY <1>4, <3>1, <3>2, <3>3, <3>4, <3>5, <3>6, <3>7 DEF Inside
  <2>. QED  BY <1>0, <1>4, <2>1, <2>2
<1>5. CASE BarrierPublish
  BY <1>0, <1>5 DEF BarrierPublish
<1>. QED  BY <1>1, <1>2, <1>3, <1>4, <1>5 DEF StorageTask, Looping, Inside

\* What the reset coordinator's steps do to its phase, its purpose and the
\* barrier it asks for.
LEMMA ResetCases ==
  ASSUME TypeInv, ResetCoordinator
  PROVE  /\ UNCHANGED <<task, queue, agg>>
         /\ \/ /\ UNCHANGED <<reset.purpose, control, barrier>> /\ reset.purpose = "none"
               /\ reset'.phase \notin {"prepared", "committing"}
            \/ /\ Commit /\ UNCHANGED <<control, barrier>> /\ reset.phase = "prepared"
               /\ reset'.phase = "committing" /\ reset'.purpose = "none"
            \/ /\ UNCHANGED <<control, barrier>> /\ reset'.purpose = "none"
               /\ reset'.phase \in {"preparing", "opening"}
            \/ /\ UNCHANGED <<control, barrier>> /\ reset'.purpose = "none"
               /\ reset.phase = "committing" /\ reset'.phase = "committing"
            \/ /\ PrepareResult /\ UNCHANGED <<control, barrier>> /\ reset.purpose = "prepare"
               /\ barrier.result = "ok" /\ reset'.phase = "prepared" /\ reset'.purpose = "none"
            \/ /\ queueDataResetBarrier /\ reset.phase = "preparing" /\ ~barrier.queued
               /\ barrier' = [queued |-> TRUE, result |-> "none"]
               /\ control' = Append(control, "prepare") /\ reset'.purpose = "prepare"
               /\ reset'.phase = "preparing"
            \/ /\ queueDataResetBarrier /\ reset.phase = "committing" /\ ~barrier.queued
               /\ barrier' = [queued |-> TRUE, result |-> "none"]
               /\ control' = Append(control, "cleanup") /\ reset'.purpose = "cleanup"
               /\ reset'.phase = "committing"
<1>0. UNCHANGED <<task, queue, agg>>
  BY Frames
<1>1. /\ reset \in [phase : Phases, purpose : {"none"} \cup Barriers, op : Nat]
      /\ reset.purpose = "prepare" => reset.phase = "preparing"
      /\ reset.purpose = "cleanup" => reset.phase = "committing"
      /\ reset.purpose \in {"none", "prepare", "cleanup"}
  BY DEF TypeInv, GateInv, Barriers
<1>. USE DEF ResetGoto
<1>2. CASE beginDataResetProducerBarrier
  BY <1>0, <1>1, <1>2 DEF beginDataResetProducerBarrier
<1>3. CASE Freeze
  BY <1>0, <1>1, <1>3 DEF Freeze
<1>4. CASE CloseGate
  BY <1>0, <1>1, <1>4 DEF CloseGate
<1>5. CASE Admit
  BY <1>0, <1>1, <1>5 DEF Admit
<1>6. CASE processPendingPrepare
  BY <1>0, <1>1, <1>6 DEF processPendingPrepare
<1>7. CASE queueDataResetBarrier
  BY <1>0, <1>1, <1>7 DEF queueDataResetBarrier
<1>8. CASE PrepareResult
  <2>1. /\ reset.purpose = "prepare" /\ UNCHANGED <<control, barrier>>
        /\ \/ /\ barrier.result = "ok"
              /\ reset' = [reset EXCEPT !.purpose = "none", !.phase = "prepared"]
           \/ reset' = [reset EXCEPT !.purpose = "none", !.phase = "preparing"]
    BY <1>8 DEF PrepareResult
  <2>. QED  BY <1>0, <1>1, <1>8, <2>1
<1>9. CASE requestCancel
  BY <1>0, <1>1, <1>9 DEF requestCancel
<1>10. CASE Commit
  BY <1>0, <1>1, <1>10 DEF Commit
<1>11. CASE CleanupResult
  <2>1. /\ UNCHANGED <<control, barrier>> /\ reset.phase = "committing"
        /\ \/ reset' = [reset EXCEPT !.purpose = "none", !.phase = "opening"]
           \/ reset' = [reset EXCEPT !.purpose = "none", !.phase = "committing"]
    BY <1>11 DEF CleanupResult
  <2>. QED  BY <1>0, <1>1, <2>1
<1>12. CASE OpenGate
  BY <1>0, <1>1, <1>12 DEF OpenGate
<1>13. CASE Unfreeze
  BY <1>0, <1>1, <1>13 DEF Unfreeze
<1>14. CASE endDataResetProducerBarrier
  BY <1>0, <1>1, <1>14 DEF endDataResetProducerBarrier
<1>. QED
  BY <1>2, <1>3, <1>4, <1>5, <1>6, <1>7, <1>8, <1>9, <1>10, <1>11, <1>12,
     <1>13, <1>14
  DEF ResetCoordinator

\* No barrier has been asked for.
LEMMA BarrierInit == Init => BarrierInv
  BY DEF Init, BarrierInv, OnlyOne, Asked, Range, InBarrier, Barriers

\* A request is sent, taken or dropped without touching the barriers asked for.
LEMMA AskedSame ==
  ASSUME TypeInv, BarrierInv, [Next]_vars, sendRetention \/ applyRetention
  PROVE  OnlyOne(control') /\ Asked' = Asked
<1>0. control \in Seq(ControlKinds) /\ OnlyOne(control)
  BY DEF TypeInv, StoreInv, BarrierInv, ControlKinds
<1>r. "retention" \in ControlKinds /\ "retention" \notin Barriers
  BY DEF ControlKinds, Barriers
<1>1. CASE control' = control
  BY <1>0, <1>1 DEF Asked
<1>2. CASE control' = Append(control, "retention")
  <2>1. Range(control') = Range(control) \cup {"retention"} /\ OnlyOne(control')
    BY <1>0, <1>2, <1>r, RangeAppend, OnlyOneAppend
  <2>. QED  BY <1>r, <2>1 DEF Asked
<1>3. CASE control' = <<"retention">> \o control
  <2>1. Range(control') = {"retention"} \cup Range(control) /\ OnlyOne(control')
    BY <1>0, <1>3, OnlyOnePush
  <2>. QED  BY <1>r, <2>1 DEF Asked
<1>4. CASE control # <<>> /\ control' = Tail(control) /\ Head(control) = "retention"
  <2>1. Range(control) = Range(Tail(control)) \cup {Head(control)} /\ OnlyOne(Tail(control))
    BY <1>0, <1>4, RangeTail, OnlyOneTail
  <2>. QED  BY <1>4, <1>r, <2>1 DEF Asked
<1>5. sendRetention => \/ control' = control \/ control' = Append(control, "retention")
                       \/ control' = <<"retention">> \o control
  BY DEF sendRetention
<1>6. applyRetention => control # <<>> /\ control' = Tail(control) /\ Head(control) = "retention"
  BY DEF applyRetention, TakesControl
<1>. QED  BY <1>1, <1>2, <1>3, <1>4, <1>5, <1>6

\* No step asks for a second barrier, and none changes the kind of one.
LEMMA BarrierStep ==
  ASSUME TypeInv, BarrierInv, [Next]_vars
  PROVE  BarrierInv'
<1>0. control \in Seq(ControlKinds) /\ OnlyOne(control)
  BY DEF TypeInv, StoreInv, BarrierInv, ControlKinds
<1>1. CASE UNCHANGED <<control, task, barrier, reset>>
  BY <1>1 DEF BarrierInv, Asked
<1>2. CASE sendRetention
  <2>1. UNCHANGED <<task, barrier, reset>>
    BY <1>2, Frames DEF Requests
  <2>. QED  BY <1>2, <2>1, AskedSame DEF BarrierInv
<1>3. CASE Requests
  <2>1. CASE ~sendRetention
    <3>1. UNCHANGED <<control, task, barrier, reset>>
      BY <1>3, <2>1, Frames DEF Requests, enqueueEvent, queueRetention
    <3>. QED  BY <1>1, <3>1
  <2>. QED  BY <1>2, <2>1
<1>4. CASE StorageTask
  <2>1. CASE task'.pc \notin InBarrier /\ UNCHANGED <<control, barrier, reset>>
    BY <2>1 DEF BarrierInv, Asked
  <2>2. CASE applyRetention /\ task'.pc \notin InBarrier /\ UNCHANGED <<barrier, reset>>
    BY <2>2, AskedSame DEF BarrierInv
  <2>3. CASE BarrierReceive /\ UNCHANGED <<barrier, reset>>
    <3>1. /\ control # <<>> /\ Head(control) \in Barriers /\ control' = Tail(control)
          /\ task'.pc = "quiesce" /\ (task'.cleanup <=> Head(control) = "cleanup")
      BY <2>3, ReceiveEffect
    <3>2. Range(control) = Range(Tail(control)) \cup {Head(control)}
      BY <1>0, <3>1, RangeTail
    <3>3. OnlyOne(control') /\ Asked' = {} /\ Head(control) \in Asked
      BY <1>0, <3>1, <3>2, OnlyOneTail DEF Asked
    <3>4. Head(control) \in {"prepare", "cleanup"}
      BY <3>1 DEF Barriers
    <3>. QED  BY <2>3, <3>1, <3>3, <3>4 DEF BarrierInv, InBarrier
  <2>4. CASE /\ task.pc \in InBarrier /\ task'.pc \in InBarrier
             /\ UNCHANGED <<task.cleanup, control, barrier, reset>>
    BY <2>4 DEF BarrierInv, Asked
  <2>5. CASE BarrierPublish /\ UNCHANGED <<control, reset>>
    <3>1. task.pc \in InBarrier /\ task'.pc \notin InBarrier /\ ~barrier'.queued
      BY <2>5, PublishEffect DEF InBarrier
    <3>. QED  BY <2>5, <3>1 DEF BarrierInv, Asked
  <2>. QED  BY <1>4, <2>1, <2>2, <2>3, <2>4, <2>5, TaskCases
<1>5. CASE ResetCoordinator
  <2>0. UNCHANGED task
    BY <1>5, Frames
  <2>1. CASE /\ UNCHANGED <<control, barrier>> /\ reset'.purpose = "none"
             /\ reset'.phase \notin {"prepared", "committing"}
    BY <2>0, <2>1 DEF BarrierInv, Asked
  <2>2. CASE /\ UNCHANGED <<control, barrier>> /\ reset.phase = "prepared"
             /\ reset'.phase = "committing" /\ reset'.purpose = "none"
    BY <2>0, <2>2 DEF BarrierInv, Asked
  <2>3. CASE /\ UNCHANGED <<control, barrier>> /\ reset'.purpose = "none"
             /\ reset.phase = "committing" /\ reset'.phase = "committing"
    BY <2>0, <2>3 DEF BarrierInv, Asked
  <2>4. CASE /\ UNCHANGED <<control, barrier>> /\ barrier.result = "ok"
             /\ reset'.phase = "prepared" /\ reset'.purpose = "none"
    BY <2>0, <2>4 DEF BarrierInv, Asked
  <2>5. ASSUME NEW kind \in Barriers, ~barrier.queued,
               barrier' = [queued |-> TRUE, result |-> "none"], control' = Append(control, kind),
               reset'.purpose = kind, reset'.phase \in {"preparing", "committing"},
               kind = "prepare" <=> reset'.phase = "preparing"
        PROVE  BarrierInv'
    <3>1. Asked = {} /\ task.pc \notin InBarrier
      BY <2>5 DEF BarrierInv
    <3>2. kind \in ControlKinds
      BY DEF ControlKinds
    <3>3. Range(control') = Range(control) \cup {kind} /\ OnlyOne(control')
      BY <1>0, <2>5, <3>1, <3>2, RangeAppend, OnlyOneAppend DEF Asked
    <3>4. Asked' = {kind} /\ kind \in {"prepare", "cleanup"}
      BY <3>1, <3>3 DEF Asked, Barriers
    <3>. QED  BY <2>0, <2>5, <3>1, <3>3, <3>4 DEF BarrierInv
  <2>6. "prepare" \in Barriers /\ "cleanup" \in Barriers
    BY DEF Barriers
  <2>. QED  BY <1>5, <2>1, <2>2, <2>3, <2>4, <2>5, <2>6, ResetCases
<1>6. CASE Meter \/ Aggregation \/ UNCHANGED vars
  <2>1. UNCHANGED <<control, task, barrier, reset>>
    BY <1>6, Frames DEF vars
  <2>. QED  BY <1>1, <2>1
<1>. QED  BY <1>3, <1>4, <1>5, <1>6, NextCases

-----------------------------------------------------------------------------
(* The fence                                                                *)

NoSender == agg.pc \notin {"send", "sent", "full"}

\* Nothing that could become a reading is on its way to the card.
Flushed == /\ Ids(queue, "record") = {} /\ task.pending = None /\ task.gap = {}
           /\ NoSender

\* From the end of a successful prepare barrier to the end of the commit.
Fenced ==
  \/ reset.phase \in {"prepared", "committing"}
  \/ reset.purpose = "prepare" /\ task.pc = "publish" /\ ~task.failed
  \/ reset.purpose = "prepare" /\ barrier.result = "ok"

\* The records of the queue are within the snapshot the barrier is flushing.
Covered == \A k \in DOMAIN queue : queue[k].type = "record" => k <= task.left

\* A barrier that drains has nothing in hand; one that drains for a prepare
\* meets no producer, and unless it has failed it still has every queued
\* record before it; and behind the fence everything is flushed.
FenceInv ==
  /\ task.pc = "drain" => task.pending = None /\ task.gap = {}
  /\ reset.purpose = "prepare" /\ task.pc = "drain" => NoSender /\ (~task.failed => Covered)
  /\ Fenced => Flushed

\* No reset has been asked for.
LEMMA FenceInit == Init => FenceInv
  BY DEF Init, FenceInv, Fenced

\* While the gate is closed no producer gets past its second look, and the only
\* messages that join the queue are events.
LEMMA ClosedGate ==
  ASSUME TypeInv, [Next]_vars, ~gate.writes, NoSender
  PROVE  NoSender' /\ ~EnqueueSend
<1>1. CASE Aggregation
  <2>1. agg.pc \in {"send", "sent", "full"} \/ agg'.pc \notin {"send", "sent", "full"}
    <3>0. agg \in AggRecord
      BY DEF TypeInv, AggInv
    <3>. USE <3>0 DEF AggRecord, AggGoto, Refused
    <3>1. CASE AggLoop \/ AggStageBegin \/ AggStageEnd \/ AggMark \/ AggResume \/ AggIdle
      BY <3>1 DEF AggLoop, AggStageBegin, AggStageEnd, AggMark, AggResume,
         AggIdle
    <3>2. CASE AggDrain
      BY <3>2 DEF AggDrain
    <3>3. CASE AggReject \/ AggAccept \/ AggLookAtGate
      BY <3>3 DEF AggReject, AggAccept, AggLookAtGate
    <3>6. CASE AggRetain
      BY <3>6 DEF AggRetain
    <3>4. CASE EnqueueLook \/ EnqueueCount \/ EnqueueRecheck \/ recordDroppedInterval
      BY <3>4 DEF EnqueueLook, EnqueueCount, EnqueueRecheck,
         recordDroppedInterval
    <3>5. CASE EnqueueSend \/ EnqueueDone \/ EnqueueFull
      BY <3>5 DEF EnqueueSend, EnqueueDone, EnqueueFull
    <3>. QED  BY <1>1, <3>1, <3>2, <3>3, <3>4, <3>5, <3>6 DEF Aggregation
  <2>. QED  BY <2>1 DEF NoSender, EnqueueSend
<1>2. CASE UNCHANGED agg
  BY <1>2 DEF NoSender, EnqueueSend
<1>. QED  BY <1>1, <1>2, NextCases, Frames DEF vars

\* Behind the fence, and while a prepare barrier works, the gate is closed.
LEMMA FenceClosesGate ==
  ASSUME TypeInv, Fenced \/ reset.purpose = "prepare"
  PROVE  ~gate.writes
  BY DEF TypeInv, GateInv, Fenced, OpenPhases

\* A queue that loses its head or gets an event has no new record.
LEMMA NoNewRecord ==
  ASSUME TypeInv, [Next]_vars, ~EnqueueSend
  PROVE  Ids(queue', "record") \subseteq Ids(queue, "record")
<1>0. queue \in Seq(Messages) /\ tally.events + 1 \in Nat
  BY Fields, TaskShapes
<1>1. CASE queue' = queue
  BY <1>1
<1>2. CASE queue' = Append(queue, Event(tally.events + 1))
  <2>0. Event(tally.events + 1) \in Messages /\ Event(tally.events + 1).type = "event"
    BY <1>0 DEF Event, Messages
  <2>1. PICK m \in Messages : m = Event(tally.events + 1) /\ m.type = "event"
    BY <2>0
  <2>2. Ids(Append(queue, m), "record")
          = Ids(queue, "record") \cup (IF m.type = "record" THEN {m.id} ELSE {})
    BY <1>0, IdsAppend
  <2>. QED  BY <1>2, <2>1, <2>2
<1>3. CASE queue # <<>> /\ queue' = Tail(queue)
  BY <1>0, <1>3, IdsTail
<1>. QED  BY <1>1, <1>2, <1>3, QueueCases

\* An event behind the snapshot does not matter to it.
LEMMA CoveredAppend ==
  ASSUME TypeInv, Covered, UNCHANGED task, queue' = Append(queue, Event(tally.events + 1))
  PROVE  Covered'
<1>0. queue \in Seq(Messages)
  BY TaskShapes
<1>1. PICK m : m = Event(tally.events + 1) /\ m.type = "event"
  BY DEF Event
<1>2. /\ DOMAIN queue' = 1 .. Len(queue) + 1 /\ DOMAIN queue = 1 .. Len(queue)
      /\ \A k \in 1 .. Len(queue) : queue'[k] = queue[k]
      /\ queue'[Len(queue) + 1] = m
  BY <1>0, <1>1
<1>3. \A k \in 1 .. Len(queue) + 1 : k \in 1 .. Len(queue) \/ k = Len(queue) + 1
  BY <1>0
<1>. QED  BY <1>1, <1>2, <1>3 DEF Covered

\* The snapshot shrinks with the queue.
LEMMA CoveredTail ==
  ASSUME TypeInv, Covered, queue # <<>>, queue' = Tail(queue), task'.left = task.left - 1
  PROVE  Covered'
<1>0. queue \in Seq(Messages) /\ task.left \in Nat
  BY TaskShapes, Fields
<1>1. /\ DOMAIN queue' = 1 .. Len(queue) - 1 /\ DOMAIN queue = 1 .. Len(queue)
      /\ \A k \in 1 .. Len(queue) - 1 : queue'[k] = queue[k + 1]
  BY <1>0
<1>. SUFFICES ASSUME NEW k \in DOMAIN queue', queue'[k].type = "record" PROVE k <= task'.left
  BY DEF Covered
<1>2. k \in Nat /\ k + 1 \in DOMAIN queue /\ queue[k + 1].type = "record"
  <2>1. k \in 1 .. Len(queue) - 1
    BY <1>1
  <2>2. k \in Nat /\ k + 1 \in 1 .. Len(queue)
    BY <1>0, <2>1
  <2>. QED  BY <1>1, <2>1, <2>2
<1>3. k + 1 <= task.left
  BY <1>2 DEF Covered
<1>4. task'.left = task.left - 1
  OBVIOUS
<1>. QED  BY <1>0, <1>2, <1>3, <1>4

\* When the snapshot is used up no record is left.
LEMMA CoveredEmpty ==
  ASSUME TypeInv, Covered, task.left = 0
  PROVE  Ids(queue, "record") = {}
<1>0. queue \in Seq(Messages)
  BY TaskShapes
<1>1. \A k \in DOMAIN queue : ~(k <= 0)
  BY <1>0
<1>2. \A k \in DOMAIN queue : queue[k].type # "record"
  BY <1>1 DEF Covered
<1>. QED  BY <1>2 DEF Ids

\* The fence under the steps of StorageTask.
LEMMA FenceTask ==
  ASSUME TypeInv, BarrierInv, FenceInv, StorageTask
  PROVE  FenceInv'
<1>0. UNCHANGED <<reset, agg, gate>> /\ [Next]_vars
  BY Frames, NextCases
<1>s. NoSender' <=> NoSender
  BY <1>0 DEF NoSender
<1>a. ~EnqueueSend \/ agg.pc = "send"
  BY DEF EnqueueSend
<1>r. Ids(queue, "record") = {} /\ NoSender => Ids(queue', "record") = {}
  BY <1>0, <1>a, NoNewRecord DEF NoSender
<1>h. queue # <<>> /\ Head(queue).type = "record" => Ids(queue, "record") # {}
  BY TaskShapes, IdsTail
<1>1. ASSUME task'.pc \notin {"drain", "publish"}, UNCHANGED <<barrier>>,
             \/ task'.pending = task.pending
             \/ task.pending # None
             \/ queue # <<>> /\ Head(queue).type = "record",
             task'.gap = task.gap \/ task.pending # None
      PROVE  FenceInv'
  <2>. SUFFICES ASSUME Fenced' PROVE Flushed'
    BY <1>1 DEF FenceInv
  <2>1. Fenced
    BY <1>0, <1>1 DEF Fenced
  <2>2. Flushed
    BY <2>1 DEF FenceInv
  <2>. QED  BY <1>1, <1>s, <1>r, <1>h, <2>2 DEF Flushed
<1>2. CASE Looping /\ task'.pc \notin InBarrier /\ UNCHANGED barrier
  <2>. USE DEF InBarrier
  <2>1. CASE AppendHeldEvent
    BY <1>1, <1>2, <2>1, HeldEventEffect
  <2>2. CASE HeldEventWait \/ RetryWait
    BY <1>1, <1>2, <2>2, WaitEffect
  <2>3. CASE RetryPending
    <3>1. task.pending # None
      BY <2>3 DEF RetryPending
    <3>. QED  BY <1>1, <1>2, <3>1
  <2>4. CASE ReceiveRecord
    BY <1>1, <1>2, <2>4, RecordEffect
  <2>5. CASE ReceiveEvent
    BY <1>1, <1>2, <2>5, EventEffect
  <2>. QED  BY <1>2, <2>1, <2>2, <2>3, <2>4, <2>5 DEF Looping
<1>3. CASE applyRetention /\ task'.pc \notin InBarrier /\ UNCHANGED barrier
  BY <1>1, <1>3, RetentionEffect DEF InBarrier
<1>4. CASE BarrierReceive /\ UNCHANGED barrier
  BY <1>1, <1>4, ReceiveEffect
<1>5. CASE Inside /\ task.pc \in InBarrier /\ UNCHANGED barrier
  <2>0. /\ barrier'.result # "ok" /\ reset.phase # "prepared"
        /\ reset.phase = "committing" => task.cleanup
        /\ reset.purpose = "prepare" => ~task.cleanup
    BY <1>5 DEF BarrierInv
  <2>1. CASE BarrierBusy
    <3>1. task'.pc = "publish" /\ task'.failed /\ UNCHANGED <<task.pending, task.gap>>
      BY <2>1, BusyEffect
    <3>2. Fenced' => Fenced
      BY <1>0, <2>0, <3>1 DEF Fenced
    <3>. QED  BY <1>s, <1>r, <3>1, <3>2 DEF FenceInv, Flushed
  <2>2. CASE BarrierPrepare
    <3>0. ~task.cleanup
      BY <2>2 DEF BarrierPrepare
    <3>1. /\ inFlight = 0
          /\ \/ task'.pc = "publish" /\ task'.failed
             \/ /\ task'.pc = "drain" /\ task'.pending = None /\ task'.gap = {}
                /\ task'.left = Len(queue)
      BY <2>2, PrepareEffect
    <3>2. NoSender
      BY <3>1 DEF NoSender, TypeInv, AggInv, Counted
    <3>3. task'.pc = "drain" => Covered'
      <4>1. queue' = queue /\ queue \in Seq(Messages)
        BY <2>2, TaskShapes DEF BarrierPrepare
      <4>2. \A k \in DOMAIN queue : k <= Len(queue)
        BY <4>1
      <4>. QED  BY <3>1, <4>1, <4>2 DEF Covered
    <3>4. ~Fenced'
      BY <1>0, <2>0, <3>0, <3>1 DEF Fenced
    <3>. QED  BY <1>s, <3>1, <3>2, <3>3, <3>4 DEF FenceInv
  <2>3. CASE BarrierPurge
    <3>1. task.cleanup /\ task'.pc = "drain" /\ task'.pending = None /\ task'.gap = {}
      BY <2>3, PurgeEffect
    <3>2. Fenced' => Fenced
      BY <1>0, <2>0, <3>1 DEF Fenced
    <3>. QED  BY <1>0, <1>s, <1>r, <2>0, <3>1, <3>2 DEF FenceInv, Flushed
  <2>4. CASE BarrierRecord
    <3>1. /\ task.pc = "drain" /\ queue # <<>> /\ Head(queue).type = "record"
          /\ UNCHANGED task.gap
          /\ \/ UNCHANGED <<task.pc, task.pending, task.failed>> /\ task'.left = task.left - 1
             \/ task'.pc = "publish" /\ task'.failed
      BY <2>4, FlushEffect
    <3>2. ~Fenced'
      <4>1. Fenced' => reset.phase = "committing"
        BY <1>0, <2>0, <3>1 DEF Fenced
      <4>2. reset.phase = "committing" => Ids(queue, "record") = {}
        BY DEF FenceInv, Fenced, Flushed
      <4>. QED  BY <1>h, <3>1, <4>1, <4>2
    <3>3. Covered /\ task'.left = task.left - 1 => Covered'
      BY <2>4, <3>1, CoveredTail DEF BarrierRecord
    <3>. QED  BY <1>0, <1>s, <3>1, <3>2, <3>3 DEF FenceInv
  <2>5. CASE BarrierEvent
    <3>1. /\ task.pc = "drain" /\ task'.pc = "drain" /\ queue # <<>>
          /\ UNCHANGED <<task.pending, task.gap>>
          /\ \/ UNCHANGED task.failed /\ task'.left = task.left - 1
             \/ ~task.cleanup => task'.failed
      BY <2>5, FlushEventEffect
    <3>2. Fenced' => Fenced
      BY <1>0, <2>0, <3>1 DEF Fenced
    <3>3. Covered /\ task'.left = task.left - 1 => Covered'
      BY <2>5, <3>1, CoveredTail DEF BarrierEvent
    <3>. QED  BY <1>0, <1>s, <1>r, <2>0, <3>1, <3>2, <3>3 DEF FenceInv, Flushed
  <2>6. CASE BarrierCompleteDrain
    <3>1. /\ task.pc = "drain" /\ task.left = 0 /\ ~task.cleanup /\ task'.pc = "publish"
          /\ UNCHANGED <<task.pending, task.gap>> /\ (~task'.failed => ~task.failed)
      BY <2>6, DrainEffect
    <3>2. Fenced' => reset.purpose = "prepare" /\ ~task'.failed
      BY <1>0, <2>0, <3>1 DEF Fenced
    <3>3. Fenced' => Flushed
      BY <3>1, <3>2, CoveredEmpty DEF FenceInv, Flushed
    <3>. QED  BY <1>s, <1>r, <3>1, <3>3 DEF FenceInv, Flushed
  <2>7. CASE BarrierClear
    <3>1. /\ task.pc = "drain" /\ task.cleanup /\ task'.pc = "publish"
          /\ UNCHANGED <<task.pending, task.gap>>
      BY <2>7, ClearEffect
    <3>2. Fenced' => Fenced
      BY <1>0, <2>0, <3>1 DEF Fenced
    <3>. QED  BY <1>s, <1>r, <3>1, <3>2 DEF FenceInv, Flushed
  <2>. QED  BY <1>5, <2>1, <2>2, <2>3, <2>4, <2>5, <2>6, <2>7 DEF Inside
<1>6. CASE BarrierPublish
  <2>1. /\ task.pc = "publish" /\ task'.pc = "loop" /\ UNCHANGED <<task.pending, task.gap>>
        /\ barrier'.result = "ok" => ~task.failed
    BY <1>6, PublishEffect
  <2>2. Fenced' => Fenced
    BY <1>0, <2>1 DEF Fenced
  <2>. QED  BY <1>s, <1>r, <2>1, <2>2 DEF FenceInv, Flushed
<1>. QED  BY <1>2, <1>3, <1>4, <1>5, <1>6, TaskCases

\* Every step keeps the fence.
LEMMA FenceStep ==
  ASSUME TypeInv, BarrierInv, FenceInv, [Next]_vars
  PROVE  FenceInv'
<1>1. CASE StorageTask
  BY <1>1, FenceTask
<1>2. CASE (Aggregation \/ Requests) /\ ~StorageTask
  <2>1. UNCHANGED <<task, barrier, reset>>
    BY <1>2, Frames
  <2>2. Fenced' <=> Fenced
    BY <2>1 DEF Fenced
  <2>3. Fenced => Flushed'
    <3>. SUFFICES ASSUME Fenced PROVE Flushed'
      OBVIOUS
    <3>1. Flushed /\ ~gate.writes
      BY FenceClosesGate DEF FenceInv
    <3>2. NoSender' /\ Ids(queue', "record") \subseteq Ids(queue, "record")
      BY <3>1, ClosedGate, NoNewRecord DEF Flushed
    <3>. QED  BY <2>1, <3>1, <3>2 DEF Flushed
  <2>4. ASSUME reset.purpose = "prepare", task.pc = "drain" PROVE NoSender' /\ (Covered => Covered')
    <3>1. NoSender /\ ~gate.writes
      BY <2>4, FenceClosesGate DEF FenceInv
    <3>2. NoSender' /\ ~EnqueueSend
      BY <3>1, ClosedGate
    <3>3. CASE queue' = queue
      BY <2>1, <3>2, <3>3 DEF Covered
    <3>4. CASE queue' = Append(queue, Event(tally.events + 1))
      BY <2>1, <3>2, <3>4, CoveredAppend
    <3>. QED  BY <1>2, <3>2, <3>3, <3>4, QueueCases DEF StorageTask
  <2>. QED  BY <2>1, <2>2, <2>3, <2>4 DEF FenceInv
<1>3. CASE ResetCoordinator
  <2>0. UNCHANGED <<task, queue, agg>>
    BY <1>3, ResetCases
  <2>1. /\ Flushed' <=> Flushed
        /\ NoSender' <=> NoSender
        /\ Covered' <=> Covered
    BY <2>0 DEF Flushed, NoSender, Covered
  <2>2. CASE reset'.purpose # "prepare" /\ reset'.phase \notin {"prepared", "committing"}
    BY <2>0, <2>2 DEF FenceInv, Fenced
  <2>3. CASE reset'.purpose # "prepare" /\ Fenced
    BY <2>0, <2>1, <2>3 DEF FenceInv
  <2>4. CASE /\ reset'.purpose = "prepare" /\ reset'.phase = "preparing" /\ ~barrier.queued
             /\ barrier' = [queued |-> TRUE, result |-> "none"]
    <3>1. task.pc \notin {"drain", "publish"} /\ barrier'.result = "none"
      BY <2>4 DEF BarrierInv, InBarrier
    <3>. QED  BY <2>0, <2>4, <3>1 DEF FenceInv, Fenced
  <2>5. CASE reset.phase \in {"prepared", "committing"} /\ reset'.purpose # "prepare"
    BY <2>3, <2>5 DEF Fenced
  <2>6. CASE reset.purpose = "prepare" /\ barrier.result = "ok" /\ reset'.purpose # "prepare"
    BY <2>3, <2>6 DEF Fenced
  <2>. QED  BY <1>3, <2>2, <2>4, <2>5, <2>6, ResetCases
<1>4. CASE Meter \/ UNCHANGED vars
  <2>1. UNCHANGED <<task, queue, agg, reset, barrier>>
    BY <1>4, Frames DEF vars
  <2>. QED  BY <2>1 DEF FenceInv, Fenced, Flushed, NoSender, Covered
<1>. QED  BY <1>1, <1>2, <1>3, <1>4, NextCases

\* A prepared reset's evidence: only StorageTask writes the card, it has nothing
\* to store behind the fence, and retention finds the gate closed.
LEMMA EvidenceStep ==
  ASSUME TypeInv, BarrierInv, FenceInv, [Next]_vars, reset.phase = "prepared"
  PROVE  card'.stored = card.stored /\ card'.noted = card.noted
<1>1. CASE StorageTask
  <2>0. /\ task.pc \notin InBarrier /\ task.pending = None /\ ~gate.writes
        /\ ~(queue # <<>> /\ Head(queue).type = "record")
    <3>1. Fenced
      BY DEF Fenced
    <3>2. Flushed /\ ~gate.writes
      BY <3>1, FenceClosesGate DEF FenceInv
    <3>3. queue # <<>> /\ Head(queue).type = "record" => Ids(queue, "record") # {}
      BY TaskShapes, IdsTail
    <3>. QED  BY <3>2, <3>3 DEF BarrierInv, Flushed
  <2>1. CASE AppendHeldEvent
    BY <2>1, HeldEventEffect
  <2>2. CASE HeldEventWait \/ RetryWait
    BY <2>2, WaitEffect
  <2>3. CASE RetryPending
    BY <2>0, <2>3 DEF RetryPending
  <2>4. CASE ReceiveRecord
    BY <2>0, <2>4, RecordEffect
  <2>5. CASE ReceiveEvent
    BY <2>5, EventEffect
  <2>6. CASE applyRetention
    BY <2>0, <2>6, RetentionEffect
  <2>7. CASE BarrierReceive
    BY <2>7 DEF BarrierReceive
  <2>8. CASE BarrierPublish
    BY <2>0, <2>8, PublishEffect DEF InBarrier
  <2>. QED
    BY <1>1, <2>0, <2>1, <2>2, <2>3, <2>4, <2>5, <2>6, <2>7, <2>8, TaskCases
    DEF Looping
<1>2. CASE UNCHANGED card
  BY <1>2
<1>. QED  BY <1>1, <1>2, NextCases, Frames DEF vars
-----------------------------------------------------------------------------
(* Owners of intervals and events                                           *)

\* The owners of an interval other than AggregationTask.
Kept == Ids(queue, "record") \cup {task.pending} \cup card.stored \cup GapOwned
          \cup JournalOwned \cup tally.gone \cup tally.refused

\* StorageTask passes every interval on.
LEMMA TaskKeeps ==
  ASSUME TypeInv, FenceInv, StorageTask, NEW i \in Nat, i \in Kept
  PROVE  i \in Kept'
<1>q. queue \in Seq(Messages)
  BY TaskShapes
<1>n. i # None
  BY CoordinatorAssumption
<1>t. queue # <<>> => Ids(queue, "record")
         = Ids(Tail(queue), "record")
             \cup (IF Head(queue).type = "record" THEN {Head(queue).id} ELSE {})
  BY <1>q, IdsTail
<1>j. UNCHANGED journal => JournalOwned' = JournalOwned
  BY DEF JournalOwned
<1>. USE <1>n DEF Kept, GapOwned
<1>1. CASE AppendHeldEvent
  <2>1. UNCHANGED <<task.pending, task.gap, card.stored, card.noted>>
    BY <1>1, HeldEventEffect
  <2>. QED  BY <1>1, <1>j, <2>1 DEF AppendHeldEvent
<1>2. CASE applyRetention
  <2>1. /\ UNCHANGED <<task.pending, task.gap, card.noted, tally.refused>>
        /\ card.stored \subseteq card'.stored \cup tally'.gone /\ tally.gone \subseteq tally'.gone
    BY <1>2, RetentionEffect
  <2>. QED  BY <1>2, <1>j, <2>1 DEF applyRetention
<1>3. CASE HeldEventWait \/ RetryWait
  <2>1. UNCHANGED <<task.pending, task.gap, card>>
    BY <1>3, WaitEffect
  <2>. QED  BY <1>3, <1>j, <2>1 DEF HeldEventWait, RetryWait
<1>4. CASE RetryPending
  <2>1. /\ card.stored \subseteq card'.stored
        /\ card.noted \cup task.gap \cup dropped \subseteq card'.noted \cup task'.gap
        /\ task'.pending = task.pending \/ task.pending \in card'.stored
    BY <1>4, RetryEffect
  <2>2. UNCHANGED <<queue, journal, tally>>
    BY <1>4 DEF RetryPending
  <2>. QED  BY <1>j, <2>1, <2>2
<1>5. CASE ReceiveRecord
  <2>1. /\ queue # <<>> /\ Head(queue).type = "record" /\ task'.pending = Head(queue).id
        /\ task.pending = None /\ UNCHANGED task.gap
    BY <1>5, RecordEffect
  <2>2. queue' = Tail(queue) /\ UNCHANGED <<dropped, card, journal, tally>>
    BY <1>5 DEF ReceiveRecord
  <2>. QED  BY <1>j, <1>t, <2>1, <2>2
<1>6. CASE ReceiveEvent
  <2>1. /\ queue # <<>> /\ Head(queue).type = "event"
        /\ UNCHANGED <<task.pending, task.gap, card.stored, card.noted, tally.gone, tally.refused>>
    BY <1>6, EventEffect
  <2>2. queue' = Tail(queue) /\ UNCHANGED <<dropped, journal>>
    BY <1>6 DEF ReceiveEvent
  <2>. QED  BY <1>j, <1>t, <2>1, <2>2
<1>7. CASE BarrierReceive
  <2>1. UNCHANGED <<task.pending, task.gap>>
    BY <1>7, ReceiveEffect
  <2>. QED  BY <1>7, <1>j, <2>1 DEF BarrierReceive
<1>8. CASE BarrierBusy
  <2>1. UNCHANGED <<task.pending, task.gap>>
    BY <1>8, BusyEffect
  <2>. QED  BY <1>8, <1>j, <2>1 DEF BarrierBusy
<1>9. CASE BarrierPrepare
  <2>1. /\ card.stored \subseteq card'.stored
        /\ card.noted \cup task.gap \cup dropped \subseteq card'.noted \cup task'.gap
        /\ task'.pending = task.pending \/ task.pending \in card'.stored
    BY <1>9, PrepareEffect
  <2>2. UNCHANGED <<queue, journal, tally>>
    BY <1>9 DEF BarrierPrepare
  <2>. QED  BY <1>j, <2>1, <2>2
<1>10. CASE BarrierPurge
  <2>1. /\ tally'.gone = tally.gone \cup dropped \cup task.gap \cup ({task.pending} \ {None})
        /\ UNCHANGED tally.refused
    BY <1>10, PurgeEffect
  <2>2. UNCHANGED <<queue, journal, card>>
    BY <1>10 DEF BarrierPurge
  <2>. QED  BY <1>j, <2>1, <2>2
<1>11. CASE BarrierRecord
  <2>1. /\ task.pc = "drain" /\ queue # <<>> /\ UNCHANGED <<task.gap, tally.refused, card.noted>>
        /\ tally.gone \subseteq tally'.gone /\ card.stored \subseteq card'.stored
        /\ Head(queue).id \in card'.stored \cup tally'.gone \cup {task'.pending}
        /\ UNCHANGED task.pending \/ task'.pending = Head(queue).id
    BY <1>11, FlushEffect
  <2>2. queue' = Tail(queue) /\ UNCHANGED <<dropped, journal>>
    BY <1>11 DEF BarrierRecord
  <2>3. task.pending = None
    BY <2>1 DEF FenceInv
  <2>. QED  BY <1>j, <1>t, <2>1, <2>2, <2>3
<1>12. CASE BarrierEvent
  <2>1. /\ queue # <<>> /\ Head(queue).type = "event"
        /\ UNCHANGED <<task.pending, task.gap, card.stored, card.noted>>
    BY <1>12, FlushEventEffect
  <2>2. queue' = Tail(queue) /\ UNCHANGED <<dropped, journal, tally>>
    BY <1>12 DEF BarrierEvent
  <2>. QED  BY <1>j, <1>t, <2>1, <2>2
<1>13. CASE BarrierCompleteDrain
  <2>1. /\ UNCHANGED <<task.pending, task.gap, card.noted>> /\ card.stored \subseteq card'.stored
        /\ JournalOwned \subseteq JournalOwned' \cup card'.stored
    BY <1>13, DrainEffect
  <2>2. UNCHANGED <<queue, dropped, tally>>
    BY <1>13 DEF BarrierCompleteDrain
  <2>. QED  BY <2>1, <2>2
<1>14. CASE BarrierClear
  <2>1. /\ UNCHANGED <<task.pending, task.gap, card.noted, tally.refused>>
        /\ card.stored \subseteq card'.stored \cup tally'.gone /\ tally.gone \subseteq tally'.gone
    BY <1>14, ClearEffect
  <2>2. UNCHANGED <<queue, dropped, journal>>
    BY <1>14 DEF BarrierClear
  <2>. QED  BY <1>j, <2>1, <2>2
<1>15. CASE BarrierPublish
  <2>1. UNCHANGED <<task.pending, task.gap>>
    BY <1>15, PublishEffect
  <2>. QED  BY <1>15, <1>j, <2>1 DEF BarrierPublish
<1>. QED
  BY <1>1, <1>2, <1>3, <1>4, <1>5, <1>6, <1>7, <1>8, <1>9, <1>10, <1>11, <1>12,
     <1>13, <1>14,
     <1>15
  DEF StorageTask

\* What AggregationTask's steps do to the intervals it owns.
Mine == Range(agg.boundary) \cup {agg.hand}

\* AggregationTask passes on what it has in hand or retains, loses nothing of
\* the others, and has in hand or retains the interval it closes.
LEMMA AggKeeps ==
  ASSUME TypeInv, Aggregation, agg.pc = "sent" => agg.hand \in Kept
  PROVE  /\ \A i \in Nat : i \in Kept => i \in Kept'
         /\ \A i \in Nat : i \in Mine => i \in Mine' \cup Kept'
         /\ \/ tally'.closed = tally.closed
            \/ tally'.closed = tally.closed + 1 /\ tally'.closed \in Mine'
         /\ agg'.pc = "sent" => agg'.hand \in Kept'
<1>0. /\ agg \in AggRecord /\ tally \in TallyRecord /\ queue \in Seq(Messages)
      /\ agg.boundary \in Seq(Nat) /\ tally.closed \in Nat /\ tally.closed + 1 \in Nat
      /\ journal \in JournalRecord
  <2>1. agg \in AggRecord
    BY DEF TypeInv, AggInv
  <2>. QED  BY <2>1, TaskShapes, Fields
<1>h. /\ agg.pc \in Handing => agg.hand \in Nat
      /\ agg.pc \notin Handing => agg.hand = None
      /\ agg.pc \in Enqueueing /\ agg.observed
           => agg.boundary # <<>> /\ agg.hand = Head(agg.boundary)
      /\ agg.pc \in {"closed", "unfrozen"} => ~agg.observed
  BY DEF TypeInv, AggInv
<1>n. None \notin Nat
  BY CoordinatorAssumption
<1>f. UNCHANGED <<task, card>>
  BY Frames
<1>k. ASSUME UNCHANGED <<queue, dropped, journal>>,
             tally.gone \subseteq tally'.gone, tally.refused \subseteq tally'.refused
      PROVE  Kept \subseteq Kept'
  BY <1>f, <1>k DEF Kept, GapOwned, JournalOwned
<1>r. agg.boundary # <<>>
        => /\ Range(agg.boundary) = Range(Tail(agg.boundary)) \cup {Head(agg.boundary)}
           /\ Head(agg.boundary) \in Nat
  BY <1>0, RangeTail
<1>. USE <1>0, <1>n DEF Mine
<1>1. ASSUME agg.pc \notin {"sent"}, UNCHANGED <<queue, dropped, journal, tally>>,
             UNCHANGED <<agg.boundary>>, agg'.hand = agg.hand \/ agg.hand = None,
             agg'.pc # "sent"
      PROVE  /\ \A i \in Nat : i \in Kept => i \in Kept'
             /\ \A i \in Nat : i \in Mine => i \in Mine' \cup Kept'
             /\ tally'.closed = tally.closed
             /\ agg'.pc = "sent" => agg'.hand \in Kept'
  BY <1>1, <1>k
<1>. USE DEF AggRecord, AggGoto
<1>2. CASE AggLoop
  BY <1>1, <1>2 DEF AggLoop
<1>3. CASE AggStageBegin
  BY <1>1, <1>3 DEF AggStageBegin
<1>4. CASE AggMark
  BY <1>1, <1>4 DEF AggMark
<1>5. CASE AggResume
  <2>1. agg.hand = None
    BY <1>5, <1>h DEF AggResume, Handing, Enqueueing
  <2>2. UNCHANGED agg.boundary /\ agg'.pc # "sent"
    BY <1>5 DEF AggResume
  <2>. QED  BY <1>1, <1>5, <2>1, <2>2 DEF AggResume
<1>6. CASE AggIdle
  BY <1>1, <1>6 DEF AggIdle
<1>7. CASE AggReject
  BY <1>1, <1>7 DEF AggReject
<1>8. CASE AggLookAtGate
  BY <1>1, <1>8 DEF AggLookAtGate
<1>9. CASE EnqueueCount
  BY <1>1, <1>9 DEF EnqueueCount, enqueueRest
<1>10. CASE EnqueueFull
  BY <1>1, <1>10 DEF EnqueueFull, enqueueRest
<1>11. ASSUME agg.pc \in Handing, agg.pc # "sent", UNCHANGED <<queue, dropped, journal>>, Refused
       PROVE  /\ \A i \in Nat : i \in Kept => i \in Kept'
              /\ \A i \in Nat : i \in Mine => i \in Mine' \cup Kept'
              /\ tally'.closed = tally.closed
              /\ agg'.pc = "sent" => agg'.hand \in Kept'
  <2>1. agg'.pc = "loop" /\ UNCHANGED agg.boundary
    BY <1>11 DEF Refused
  <2>2. CASE agg.observed
    <3>1. UNCHANGED tally
      BY <1>11, <2>2 DEF Refused
    <3>2. agg.hand \in Range(agg.boundary)
      BY <1>11, <1>h, <1>r, <2>2 DEF Handing
    <3>. QED  BY <1>11, <1>k, <2>1, <3>1, <3>2
  <2>3. CASE ~agg.observed
    <3>1. /\ tally'.refused = tally.refused \cup {agg.hand}
          /\ UNCHANGED <<tally.gone, tally.closed>>
      BY <1>11, <2>3 DEF Refused, TallyRecord
    <3>2. agg.hand \in Kept' /\ Kept \subseteq Kept'
      BY <1>11, <1>k, <3>1 DEF Kept
    <3>. QED  BY <2>1, <3>1, <3>2
  <2>. QED  BY <2>2, <2>3
<1>12. CASE EnqueueLook
  <2>1. CASE Refused
    BY <1>11, <1>12, <2>1 DEF EnqueueLook, enqueueRest, Handing, Enqueueing
  <2>2. CASE ~Refused
    BY <1>1, <1>12, <2>2 DEF EnqueueLook, enqueueRest
  <2>. QED  BY <2>1, <2>2
<1>13. CASE EnqueueRecheck
  <2>1. CASE Refused
    BY <1>11, <1>13, <2>1 DEF EnqueueRecheck, enqueueRest, Handing, Enqueueing
  <2>2. CASE ~Refused
    BY <1>1, <1>13, <2>2 DEF EnqueueRecheck, enqueueRest
  <2>. QED  BY <2>1, <2>2
<1>14. CASE AggRetain
  <2>1. /\ agg.pc \in {"closed", "unfrozen"} /\ UNCHANGED <<queue, dropped, journal>>
    BY <1>14 DEF AggRetain
  <2>2. agg.hand \in Nat
    BY <1>h, <2>1 DEF Handing
  <2>3. CASE agg'.pc = "loop" /\ agg'.boundary = Append(agg.boundary, agg.hand) /\ UNCHANGED tally
    <3>1. Range(agg'.boundary) = Range(agg.boundary) \cup {agg.hand}
      BY <2>2, <2>3, RangeAppend
    <3>. QED  BY <1>k, <2>1, <2>3, <3>1
  <2>4. CASE /\ agg'.pc = "loop" /\ UNCHANGED agg.boundary
             /\ tally' = [tally EXCEPT !.refused = @ \cup {agg.hand}]
    <3>1. /\ tally'.refused = tally.refused \cup {agg.hand}
          /\ UNCHANGED <<tally.gone, tally.closed>>
      BY <2>4 DEF TallyRecord
    <3>2. agg.hand \in Kept' /\ Kept \subseteq Kept'
      BY <1>k, <2>1, <3>1 DEF Kept
    <3>. QED  BY <2>4, <3>1, <3>2
  <2>. QED  BY <1>14, <2>3, <2>4 DEF AggRetain
<1>15. CASE AggAccept
  <2>1. agg.pc = "take" /\ agg.hand = None /\ UNCHANGED <<queue, dropped, journal>>
    BY <1>15, <1>h DEF AggAccept, Handing, Enqueueing
  <2>2. CASE agg' = [agg EXCEPT !.pc = "loop", !.partial = TRUE] /\ UNCHANGED tally
    BY <1>1, <2>1, <2>2
  <2>3. CASE /\ agg' = [agg EXCEPT !.pc = "closed", !.partial = FALSE, !.hand = tally.closed + 1]
             /\ tally' = [tally EXCEPT !.closed = @ + 1]
    <3>1. agg'.hand = tally.closed + 1 /\ agg'.pc = "closed" /\ UNCHANGED agg.boundary
      BY <2>3
    <3>2. tally'.closed = tally.closed + 1 /\ UNCHANGED <<tally.gone, tally.refused>>
      BY <2>3 DEF TallyRecord
    <3>. QED  BY <1>k, <2>1, <3>1, <3>2
  <2>. QED  BY <1>15, <2>2, <2>3 DEF AggAccept
<1>16. CASE AggDrain
  <2>1. agg.pc = "frozen" /\ agg.hand = None /\ UNCHANGED <<queue, dropped, journal>>
    BY <1>16, <1>h DEF AggDrain, Handing, Enqueueing
  <2>2. CASE agg'.pc # "sent" /\ UNCHANGED <<tally, agg.boundary, agg.hand>>
    BY <1>1, <2>1, <2>2
  <2>3. CASE /\ agg' = [agg EXCEPT !.pc = "loop", !.partial = FALSE,
                          !.boundary = Append(@, tally.closed + 1)]
             /\ tally' = [tally EXCEPT !.closed = tally.closed + 1]
    <3>1. agg'.boundary = Append(agg.boundary, tally.closed + 1) /\ agg'.pc = "loop"
      BY <2>3
    <3>2. Range(agg'.boundary) = Range(agg.boundary) \cup {tally.closed + 1}
      <4>1. PICK n \in Nat : n = tally.closed + 1
        OBVIOUS
      <4>2. PICK s \in Seq(Nat) : s = agg.boundary
        OBVIOUS
      <4>3. Range(Append(s, n)) = Range(s) \cup {n}
        BY RangeAppend
      <4>. QED  BY <3>1, <4>1, <4>2, <4>3
    <3>3. tally'.closed = tally.closed + 1 /\ UNCHANGED <<tally.gone, tally.refused>>
      BY <2>3 DEF TallyRecord
    <3>. QED  BY <1>k, <2>1, <3>1, <3>2, <3>3
  <2>4. \/ \E p \in {"loop", "mark", "stage"} : agg' = [agg EXCEPT !.pc = p] /\ UNCHANGED tally
        \/ agg' = [agg EXCEPT !.pc = "loop", !.partial = TRUE] /\ UNCHANGED tally
        \/ /\ agg' = [agg EXCEPT !.pc = "loop", !.partial = FALSE,
                        !.boundary = Append(@, tally.closed + 1)]
           /\ tally' = [tally EXCEPT !.closed = tally.closed + 1]
    BY <1>16 DEF AggDrain
  <2>. QED  BY <2>2, <2>3, <2>4
<1>17. CASE AggStageEnd
  <2>1. agg.pc = "staging" /\ agg.hand = None /\ UNCHANGED <<queue, dropped, tally>>
    BY <1>17, <1>h DEF AggStageEnd, Handing, Enqueueing
  <2>2. CASE agg' = [agg EXCEPT !.pc = "loop", !.op = 0] /\ UNCHANGED journal
    BY <1>1, <2>1, <2>2
  <2>3. CASE /\ StageAllowed(agg.op, Range(agg.boundary))
             /\ journal' = [state |-> "staged", op |-> agg.op, intervals |-> Range(agg.boundary)]
             /\ agg' = [agg EXCEPT !.pc = "mark", !.boundary = <<>>, !.op = 0]
    <3>1. JournalOwned' = Range(agg.boundary) /\ agg'.pc = "mark"
      BY <2>3 DEF JournalOwned
    <3>2. JournalOwned \subseteq JournalOwned'
      BY <2>3, <3>1 DEF JournalOwned, StageAllowed
    <3>3. Kept \subseteq Kept' /\ Range(agg.boundary) \subseteq Kept'
      BY <1>f, <2>1, <3>1, <3>2 DEF Kept, GapOwned
    <3>. QED  BY <2>1, <3>1, <3>3
  <2>. QED  BY <1>17, <2>2, <2>3 DEF AggStageEnd
<1>18. CASE EnqueueSend
  <2>1. /\ agg.pc = "send" /\ UNCHANGED <<dropped, tally, journal>> /\ agg.hand \in Nat
    BY <1>18, <1>h DEF EnqueueSend, enqueueRest, Handing, Enqueueing
  <2>2. CASE agg' = [agg EXCEPT !.pc = "full"] /\ UNCHANGED queue
    BY <1>1, <2>1, <2>2
  <2>3. CASE queue' = Append(queue, Record(agg.hand)) /\ agg' = [agg EXCEPT !.pc = "sent"]
    <3>1. /\ Record(agg.hand) \in Messages /\ Record(agg.hand).type = "record"
          /\ Record(agg.hand).id = agg.hand
      BY <2>1 DEF Record, Messages
    <3>2. Ids(queue', "record") = Ids(queue, "record") \cup {agg.hand}
      BY <2>3, <3>1, IdsAppend
    <3>3. Kept \subseteq Kept' /\ agg.hand \in Kept'
      BY <1>f, <2>1, <3>2 DEF Kept, GapOwned, JournalOwned
    <3>4. UNCHANGED <<agg.hand, agg.boundary>>
      BY <2>3
    <3>. QED  BY <2>1, <3>3, <3>4
  <2>. QED  BY <1>18, <2>2, <2>3 DEF EnqueueSend
<1>19. CASE EnqueueDone
  <2>1. agg.pc = "sent" /\ UNCHANGED <<queue, dropped, tally, journal>>
    BY <1>19 DEF EnqueueDone, enqueueRest
  <2>2. Kept \subseteq Kept' /\ agg.hand \in Kept'
    BY <1>k, <2>1
  <2>3. agg'.pc # "sent"
    BY <1>19 DEF EnqueueDone
  <2>4. CASE agg.observed /\ agg'.boundary = Tail(agg.boundary)
    <3>1. Range(agg.boundary) = Range(agg'.boundary) \cup {agg.hand}
      BY <1>h, <1>r, <2>1, <2>4 DEF Enqueueing
    <3>. QED  BY <2>1, <2>2, <2>3, <3>1
  <2>5. CASE agg'.boundary = agg.boundary
    BY <2>1, <2>2, <2>3, <2>5
  <2>. QED  BY <1>19, <2>4, <2>5 DEF EnqueueDone
<1>20. CASE recordDroppedInterval
  <2>1. /\ agg.pc = "drop" /\ UNCHANGED <<queue, tally, journal>>
        /\ dropped' = dropped \cup {agg.hand}
    BY <1>20 DEF recordDroppedInterval, enqueueRest
  <2>2. Kept \subseteq Kept' /\ agg.hand \in Kept'
    BY <1>f, <2>1 DEF Kept, GapOwned, JournalOwned
  <2>3. UNCHANGED agg.boundary /\ agg'.pc = "loop"
    BY <1>20 DEF recordDroppedInterval
  <2>. QED  BY <2>1, <2>2, <2>3
<1>. QED
  BY <1>2, <1>3, <1>4, <1>5, <1>6, <1>7, <1>8, <1>9, <1>10, <1>12, <1>13,
     <1>14, <1>15, <1>16,
     <1>17, <1>18, <1>19, <1>20
  DEF Aggregation

\* Until AggregationTask has seen its send through, the record is elsewhere; and
\* every interval has an owner.
OwnInv == (agg.pc = "sent" => agg.hand \in Kept) /\ EveryIntervalOwned

\* No interval has been closed.
LEMMA OwnInit == Init => OwnInv
<1>. SUFFICES ASSUME Init PROVE OwnInv
  OBVIOUS
<1>1. tally.closed = 0 /\ agg.pc = "loop"
  BY DEF Init
<1>2. \A i \in 1 .. 0 : FALSE
  OBVIOUS
<1>. QED  BY <1>1, <1>2 DEF OwnInv, EveryIntervalOwned

\* The owners of an interval, as AggregationTask's and the others'.
LEMMA Owners ==
  EveryIntervalOwned <=> \A i \in 1 .. tally.closed : i \in Mine \cup Kept
  BY DEF EveryIntervalOwned, RecordOwned, Mine, Kept

\* No step takes an interval from its owner without giving it another.
LEMMA OwnStep ==
  ASSUME TypeInv, FenceInv, OwnInv, [Next]_vars
  PROVE  OwnInv'
<1>0. tally.closed \in Nat /\ \A i \in 1 .. tally.closed : i \in Mine \cup Kept
  BY Fields, Owners DEF OwnInv
<1>1. SUFFICES /\ \A i \in Nat : i \in Kept => i \in Kept'
               /\ \A i \in Nat : i \in Mine => i \in Mine' \cup Kept'
               /\ \/ tally'.closed = tally.closed
                  \/ tally'.closed = tally.closed + 1 /\ tally'.closed \in Mine'
               /\ agg'.pc = "sent" => agg'.hand \in Kept'
  <2>1. ASSUME NEW i \in 1 .. tally'.closed PROVE i \in Mine' \cup Kept'
    <3>1. i \in 1 .. tally.closed \/ (i = tally'.closed /\ tally'.closed # tally.closed)
      <4>1. PICK n \in Nat : n = tally.closed
        BY <1>0
      <4>2. PICK m : m = tally'.closed
        OBVIOUS
      <4>3. m = n \/ m = n + 1
        BY <1>1, <4>1, <4>2
      <4>4. i \in 1 .. m
        BY <2>1, <4>2
      <4>5. i \in 1 .. n \/ (i = m /\ m # n)
        BY <4>3, <4>4
      <4>. QED  BY <4>1, <4>2, <4>5
    <3>2. CASE i \in 1 .. tally.closed
      <4>1. i \in Nat
        BY <1>0, <3>2
      <4>. QED  BY <1>0, <1>1, <3>2, <4>1
    <3>. QED  BY <1>1, <3>1, <3>2
  <2>2. EveryIntervalOwned'
    BY <2>1 DEF EveryIntervalOwned, RecordOwned, Mine, Kept
  <2>. QED  BY <1>1, <2>2 DEF OwnInv
<1>2. CASE Aggregation
  BY <1>2, AggKeeps DEF OwnInv
<1>h. ASSUME agg.pc = "sent" PROVE agg.hand \in Nat
  BY <1>h DEF TypeInv, AggInv, Handing, Enqueueing
<1>3. CASE StorageTask
  <2>1. UNCHANGED agg /\ \A i \in Nat : i \in Kept => i \in Kept'
    BY <1>3, Frames, TaskKeeps
  <2>2. UNCHANGED tally.closed
    <3>1. CASE UNCHANGED tally
      BY <3>1
    <3>2. CASE applyRetention \/ ReceiveEvent \/ BarrierPurge \/ BarrierRecord \/ BarrierClear
      BY <3>2, RetentionEffect, EventEffect, PurgeEffect, FlushEffect,
         ClearEffect
    <3>. QED
      BY <1>3, <3>1, <3>2 DEF StorageTask, AppendHeldEvent, HeldEventWait,
         RetryPending, RetryWait,
         ReceiveRecord, BarrierReceive, BarrierBusy, BarrierPrepare, BarrierEvent,
         BarrierCompleteDrain, BarrierPublish
  <2>. QED  BY <1>h, <2>1, <2>2 DEF Mine, OwnInv
<1>4. CASE ~StorageTask /\ (Meter \/ ResetCoordinator \/ Requests \/ UNCHANGED vars) /\ ~EnqueueSend
  <2>1. UNCHANGED <<agg, task, card, journal, dropped>>
    BY <1>4, Frames DEF vars
  <2>2. UNCHANGED <<tally.closed, tally.gone, tally.refused>>
    <3>0. tally \in TallyRecord
      BY TaskShapes
    <3>1. CASE UNCHANGED tally
      BY <3>1
    <3>2. CASE Requests
      <4>1. \/ UNCHANGED tally \/ tally' = [tally EXCEPT !.events = @ + 1]
            \/ tally' = [tally EXCEPT !.retention = @ + 1]
        BY <3>2 DEF Requests, enqueueEvent, queueRetention, sendRetention
      <4>. QED  BY <3>0, <4>1 DEF TallyRecord
    <3>. QED  BY <1>4, <3>1, <3>2, Frames DEF vars
  <2>3. Ids(queue, "record") \subseteq Ids(queue', "record")
    <3>0. queue \in Seq(Messages) /\ Event(tally.events + 1) \in Messages
      <4>1. queue \in Seq(Messages) /\ tally.events + 1 \in Nat
        BY TaskShapes, Fields
      <4>. QED  BY <4>1 DEF Event, Messages
    <3>1. queue' = queue \/ queue' = Append(queue, Event(tally.events + 1))
      BY <1>4, QueueCases DEF StorageTask
    <3>2. Ids(queue, "record") \subseteq Ids(Append(queue, Event(tally.events + 1)), "record")
      BY <3>0, IdsAppend
    <3>. QED  BY <3>1, <3>2
  <2>4. Kept \subseteq Kept'
    BY <2>1, <2>2, <2>3 DEF Kept, GapOwned, JournalOwned
  <2>. QED  BY <2>1, <2>2, <2>4 DEF Mine, OwnInv
<1>5. EnqueueSend => Aggregation
  BY DEF Aggregation
<1>. QED  BY <1>2, <1>3, <1>4, <1>5, NextCases

\* An event's owners.
Told == Ids(queue, "event") \cup Ids(task.held, "event") \cup card.events \cup tally.shed

\* StorageTask passes every event on, to the card or to the held ones, and gives
\* one up only by counting it.
LEMMA TaskTells ==
  ASSUME TypeInv, StorageTask
  PROVE  Told \subseteq Told' /\ UNCHANGED tally.events
<1>0. queue \in Seq(Messages) /\ task.held \in Seq(Messages)
  BY TaskShapes, Fields
<1>q. queue # <<>> => /\ Head(queue) \in Messages
                      /\ Ids(queue, "event")
                           = Ids(Tail(queue), "event")
                               \cup (IF Head(queue).type = "event" THEN {Head(queue).id} ELSE {})
  BY <1>0, IdsTail
<1>a. queue # <<>> => Ids(Append(task.held, Head(queue)), "event")
         = Ids(task.held, "event")
             \cup (IF Head(queue).type = "event" THEN {Head(queue).id} ELSE {})
  BY <1>0, <1>q, IdsAppend
<1>. USE DEF Told
<1>1. CASE AppendHeldEvent
  <2>1. /\ task.held # <<>>
        /\ \/ task'.held = Tail(task.held) /\ card'.events = card.events \cup {Head(task.held).id}
           \/ UNCHANGED <<task.held, card.events>>
    BY <1>1, HeldEventEffect
  <2>2. UNCHANGED <<queue, tally>>
    BY <1>1 DEF AppendHeldEvent
  <2>3. Ids(task.held, "event") \subseteq Ids(Tail(task.held), "event") \cup {Head(task.held).id}
    BY <1>0, <2>1, IdsTail
  <2>. QED  BY <2>1, <2>2, <2>3
<1>2. CASE applyRetention
  <2>1. UNCHANGED <<task.held, card.events, tally.events, tally.shed>>
    BY <1>2, RetentionEffect
  <2>. QED  BY <1>2, <2>1 DEF applyRetention
<1>3. CASE HeldEventWait \/ RetryWait
  <2>1. UNCHANGED <<task.held, card>>
    BY <1>3, WaitEffect
  <2>. QED  BY <1>3, <2>1 DEF HeldEventWait, RetryWait
<1>4. CASE RetryPending
  <2>1. UNCHANGED <<task.held, card.events>>
    BY <1>4, RetryEffect
  <2>. QED  BY <1>4, <2>1 DEF RetryPending
<1>5. CASE ReceiveRecord
  <2>1. queue # <<>> /\ Head(queue).type = "record" /\ UNCHANGED task.held
    BY <1>5, RecordEffect
  <2>2. queue' = Tail(queue) /\ UNCHANGED <<card, tally>>
    BY <1>5 DEF ReceiveRecord
  <2>. QED  BY <1>q, <2>1, <2>2
<1>6. CASE ReceiveEvent
  <2>1. /\ queue # <<>> /\ Head(queue).type = "event" /\ UNCHANGED tally.events
        /\ \/ /\ card'.events = card.events \cup {Head(queue).id}
              /\ UNCHANGED <<task.held, tally.shed>>
           \/ task'.held = Append(task.held, Head(queue)) /\ UNCHANGED <<card.events, tally.shed>>
           \/ /\ tally'.shed = tally.shed \cup {Head(queue).id}
              /\ UNCHANGED <<task.held, card.events>>
    BY <1>6, EventEffect
  <2>2. queue' = Tail(queue)
    BY <1>6 DEF ReceiveEvent
  <2>. QED  BY <1>q, <1>a, <2>1, <2>2
<1>7. CASE BarrierReceive
  <2>1. UNCHANGED task.held
    BY <1>7, ReceiveEffect
  <2>. QED  BY <1>7, <2>1 DEF BarrierReceive
<1>8. CASE BarrierBusy
  <2>1. UNCHANGED task.held
    BY <1>8, BusyEffect
  <2>. QED  BY <1>8, <2>1 DEF BarrierBusy
<1>9. CASE BarrierPrepare
  <2>1. UNCHANGED <<task.held, card.events>>
    BY <1>9, PrepareEffect
  <2>. QED  BY <1>9, <2>1 DEF BarrierPrepare
<1>10. CASE BarrierPurge
  <2>1. UNCHANGED <<task.held, tally.events, tally.shed>>
    BY <1>10, PurgeEffect
  <2>. QED  BY <1>10, <2>1 DEF BarrierPurge
<1>11. CASE BarrierRecord
  <2>1. /\ queue # <<>> /\ Head(queue).type = "record"
        /\ UNCHANGED <<task.held, tally.events, tally.shed, card.events>>
    BY <1>11, FlushEffect
  <2>2. queue' = Tail(queue)
    BY <1>11 DEF BarrierRecord
  <2>. QED  BY <1>q, <2>1, <2>2
<1>12. CASE BarrierEvent
  <2>1. /\ queue # <<>> /\ Head(queue).type = "event"
        /\ \/ UNCHANGED task.held /\ card'.events = card.events \cup {Head(queue).id}
           \/ task'.held = Append(task.held, Head(queue)) /\ UNCHANGED card
    BY <1>12, FlushEventEffect
  <2>2. queue' = Tail(queue) /\ UNCHANGED tally
    BY <1>12 DEF BarrierEvent
  <2>. QED  BY <1>q, <1>a, <2>1, <2>2
<1>13. CASE BarrierCompleteDrain
  <2>1. UNCHANGED <<task.held, card.events>>
    BY <1>13, DrainEffect
  <2>. QED  BY <1>13, <2>1 DEF BarrierCompleteDrain
<1>14. CASE BarrierClear
  <2>1. /\ UNCHANGED <<tally.events, tally.shed>>
        /\ \/ UNCHANGED <<task.held, card.events>>
           \/ card'.events = card.events \cup Ids(task.held, "event")
    BY <1>14, ClearEffect
  <2>. QED  BY <1>14, <2>1 DEF BarrierClear
<1>15. CASE BarrierPublish
  <2>1. UNCHANGED task.held
    BY <1>15, PublishEffect
  <2>. QED  BY <1>15, <2>1 DEF BarrierPublish
<1>. QED
  BY <1>1, <1>2, <1>3, <1>4, <1>5, <1>6, <1>7, <1>8, <1>9, <1>10, <1>11, <1>12,
     <1>13, <1>14,
     <1>15
  DEF StorageTask

\* An accepted event has an owner from the step that accepts it.
LEMMA EventStep ==
  ASSUME TypeInv, EveryEventOwned, [Next]_vars
  PROVE  EveryEventOwned'
<1>0. /\ queue \in Seq(Messages) /\ tally \in TallyRecord /\ tally.events \in Nat
      /\ 1 .. tally.events \subseteq Told
  BY TaskShapes, Fields DEF EveryEventOwned, Told
<1>1. CASE Told \subseteq Told' /\ UNCHANGED tally.events
  BY <1>0, <1>1 DEF EveryEventOwned, Told
<1>2. CASE enqueueEvent
  <2>1. PICK n \in Nat : n = tally.events
    BY <1>0
  <2>2. /\ queue' = Append(queue, Event(n + 1)) /\ tally' = [tally EXCEPT !.events = n + 1]
        /\ UNCHANGED <<task, card>>
    BY <1>2, <2>1 DEF enqueueEvent, requestRest, taskVars
  <2>3. /\ Event(n + 1) \in Messages /\ Event(n + 1).type = "event" /\ Event(n + 1).id = n + 1
    BY DEF Event, Messages
  <2>4. Ids(queue', "event") = Ids(queue, "event") \cup {n + 1}
    BY <1>0, <2>2, <2>3, IdsAppend
  <2>5. tally'.events = n + 1 /\ UNCHANGED tally.shed
    BY <1>0, <2>2 DEF TallyRecord
  <2>6. \A i \in 1 .. n + 1 : i \in 1 .. n \/ i = n + 1
    OBVIOUS
  <2>7. Told' = Told \cup {n + 1}
    BY <2>2, <2>4, <2>5 DEF Told
  <2>8. 1 .. n + 1 \subseteq Told'
    BY <1>0, <2>1, <2>6, <2>7
  <2>. QED  BY <2>5, <2>8 DEF EveryEventOwned, Told
<1>3. CASE StorageTask
  BY <1>1, <1>3, TaskTells
<1>4. CASE ~StorageTask /\ ~enqueueEvent
  <2>1. UNCHANGED <<task, card>>
    BY <1>4, NextCases, Frames DEF vars
  <2>2. UNCHANGED <<tally.events, tally.shed>>
    <3>1. \/ UNCHANGED tally \/ tally' = [tally EXCEPT !.closed = tally.closed + 1]
          \/ tally' = [tally EXCEPT !.refused = @ \cup {agg.hand}]
          \/ tally' = [tally EXCEPT !.retention = @ + 1]
      <4>1. CASE Aggregation
        BY <4>1 DEF Aggregation, AggLoop, AggDrain, AggStageBegin, AggStageEnd,
           AggMark, AggResume,
           AggIdle, AggReject, AggAccept, AggRetain, AggLookAtGate, EnqueueLook, EnqueueCount,
           EnqueueRecheck, EnqueueSend, EnqueueDone, EnqueueFull, recordDroppedInterval, Refused
      <4>2. CASE Requests
        BY <1>4, <4>2 DEF Requests, queueRetention, sendRetention
      <4>. QED  BY <1>4, <4>1, <4>2, NextCases, Frames DEF vars
    <3>. QED  BY <1>0, <3>1 DEF TallyRecord
  <2>3. Ids(queue, "event") \subseteq Ids(queue', "event")
    <3>1. queue' = queue \/ (queue' = Append(queue, Record(agg.hand)) /\ agg.hand \in Nat)
      BY <1>4, QueueCases DEF StorageTask
    <3>2. CASE queue' = Append(queue, Record(agg.hand)) /\ agg.hand \in Nat
      <4>1. Record(agg.hand) \in Messages
        BY <3>2 DEF Record, Messages
      <4>. QED  BY <1>0, <3>2, <4>1, IdsAppend
    <3>. QED  BY <3>1, <3>2
  <2>. QED  BY <1>1, <2>1, <2>2, <2>3 DEF Told
<1>. QED  BY <1>2, <1>3, <1>4

-----------------------------------------------------------------------------
(* The theorems                                                             *)

\* What the four tasks keep between them, by induction over their steps.
Coordinated == TypeInv /\ BarrierInv /\ FenceInv /\ OwnInv /\ EveryEventOwned

\* Every reachable state has it.
THEOREM InductiveInvariant == Spec => []Coordinated
<1>1. Init => Coordinated
  <2>1. Init => EveryEventOwned
    <3>. SUFFICES ASSUME Init PROVE EveryEventOwned
      OBVIOUS
    <3>1. tally.events = 0
      BY DEF Init
    <3>2. 1 .. 0 = {}
      OBVIOUS
    <3>. QED  BY <3>1, <3>2 DEF EveryEventOwned
  <2>. QED  BY <2>1, TypeInit, BarrierInit, FenceInit, OwnInit DEF Coordinated
<1>2. Coordinated /\ [Next]_vars => Coordinated'
  BY TypeStep, BarrierStep, FenceStep, OwnStep, EventStep DEF Coordinated
<1>. QED  BY <1>1, <1>2, PTL DEF Spec

\* A prepared reset is fenced: whatever the depth of the queues and whichever
\* producer was between its two looks at the gate when it closed, no record is on
\* its way to the card until the gate opens.
THEOREM PreparedIsFenced == Spec => []FenceHolds
<1>1. Coordinated => FenceHolds
  BY DEF Coordinated, FenceInv, Fenced, Flushed, NoSender, FenceHolds
<1>. QED  BY <1>1, InductiveInvariant, PTL

\* The readings and gaps that a prepared reset has reported stay as they are:
\* neither retention nor a late record changes them.
THEOREM PreparedEvidenceFrozen == Spec => EvidenceFrozen
<1>1. Coordinated /\ [Next]_vars
        => [reset.phase = "prepared" /\ reset'.phase = "prepared"
              => card'.stored = card.stored /\ card'.noted = card.noted]_vars
  BY EvidenceStep DEF Coordinated
<1>. QED  BY <1>1, InductiveInvariant, PTL DEF Spec, EvidenceFrozen

\* However the tasks interleave and whatever fails, a closed interval is a record
\* somewhere, a counted gap, in the drain journal, deleted, or was refused.
THEOREM IntervalsAreOwned == Spec => []EveryIntervalOwned
<1>1. Coordinated => EveryIntervalOwned
  BY DEF Coordinated, OwnInv
<1>. QED  BY <1>1, InductiveInvariant, PTL

\* An accepted event is queued, held, on the card, or counted as given up; a
\* barrier never loses one.
THEOREM EventsAreOwned == Spec => []EveryEventOwned
<1>1. Coordinated => EveryEventOwned
  BY DEF Coordinated
<1>. QED  BY <1>1, InductiveInvariant, PTL

=============================================================================
