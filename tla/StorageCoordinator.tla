------------------------- MODULE StorageCoordinator --------------------------
(***************************************************************************)
(* How a closed interval reaches the card while a data reset may fence it  *)
(* off.  MeterTask samples, AggregationTask closes intervals and queues    *)
(* them, StorageTask owns the card, and the reset coordinator closes and   *)
(* reopens the gates and asks StorageTask for barriers.  The four run      *)
(* concurrently and meet only in atomics, two queues and the drain journal.*)
(*                                                                         *)
(* An interval is its number.  Every load and store of a gate that another *)
(* task can fall between is a step of its own; work on the card is one     *)
(* step, because StorageTask alone does it.  A counter of dropped intervals*)
(* is the set of them.  Power loss is the matter of the stores' modules.   *)
(***************************************************************************)
EXTENDS Naturals, Sequences, FiniteSets, Functions

CONSTANTS
  MaxInterval,  \* how many intervals are closed (a bound)
  QueueDepth,   \* OFFLINE_RECORD_QUEUE_DEPTH, also the record pool's size
  ControlDepth, \* the control queue's depth
  SampleDepth,  \* the sample queue's depth
  BoundarySize, \* how many records AggregationTask can retain at a gate
  MaxEvent,     \* how many events are recorded (a bound)
  EventPool,    \* kEventPoolCapacity
  MaxOperation, \* how many resets are requested (a bound)
  MaxRetention, \* how many retention requests are made (a bound)
  Faults,       \* what may go wrong
  None          \* no interval

FaultKinds == {"reserve", "io", "journal", "event", "freeze", "unfreeze",
               "stage", "reject", "timeout", "cleanup", "evidence"}

ASSUME CoordinatorAssumption ==
  /\ {MaxInterval, MaxEvent, MaxOperation, MaxRetention} \subseteq Nat
  /\ {QueueDepth, ControlDepth, SampleDepth, BoundarySize, EventPool}
       \subseteq Nat \ {0}
  /\ Faults \subseteq FaultKinds
  /\ None \notin Nat

VARIABLES
  gate,       \* record_writes_enabled_ and the configuration's reset freeze
  producer,   \* the producer barrier: active, quiesced and its operation
  generation, \* the configuration's data generation
  meter,      \* MeterTask: its next step and the poll it was admitted with
  samples,    \* sample_queue_: the generation of each sample
  agg,        \* AggregationTask: its next step and its locals
  inFlight,   \* record_enqueues_in_flight_
  queue,      \* write_queue_ with the pool slots its messages own
  control,    \* control_queue_
  retention,  \* retention_queued_: none, claimed, or queued
  dropped,    \* the intervals counted in dropped_record_intervals_
  task,       \* StorageTask: its next step and its locals
  card,       \* what is on the card, and SdStorage's last error
  barrier,    \* data_reset_barrier_queued_ and data_reset_result_
  journal,    \* NVS: the drain journal
  reset,      \* the reset coordinator
  tally       \* ghost: intervals closed, refused and gone; requests made

vars == <<gate, producer, generation, meter, samples, agg, inFlight, queue,
          control, retention, dropped, task, card, barrier, journal, reset,
          tally>>
aggVars == <<agg, samples, inFlight>>
gateVars == <<gate, producer, generation, reset>>
taskVars == <<task, card, barrier>>

Intervals == 1..MaxInterval
Events == 1..MaxEvent
Record(i) == [type |-> "record", id |-> i]
Event(e) == [type |-> "event", id |-> e]
Ids(s, type) == {s[k].id : k \in {j \in DOMAIN s : s[j].type = type}}

\* The outcomes of an operation that fails only if one of these faults may
\* happen.
Outcomes(kinds) == {"ok"} \cup (Faults \cap kinds)

Init ==
  /\ gate = [writes |-> TRUE, frozen |-> FALSE]
  /\ producer = [active |-> FALSE, quiesced |-> TRUE, op |-> 0]
  /\ generation = 0
  /\ meter = [pc |-> "idle", gen |-> 0, admitted |-> FALSE]
  /\ samples = <<>>
  /\ agg = [pc |-> "loop", partial |-> FALSE, hand |-> None,
            boundary |-> <<>>, observed |-> FALSE, complete |-> FALSE,
            paused |-> 0, op |-> 0]
  /\ inFlight = 0
  /\ queue = <<>> /\ control = <<>> /\ retention = "none" /\ dropped = {}
  /\ task = [pc |-> "loop", pending |-> None, gap |-> {}, held |-> <<>>,
             cleanup |-> FALSE, left |-> 0, failed |-> FALSE]
  /\ card = [stored |-> {}, noted |-> {}, events |-> {}, error |-> "none"]
  /\ barrier = [queued |-> FALSE, result |-> "none"]
  /\ journal = [state |-> "none", op |-> 0, intervals |-> {}]
  /\ reset = [phase |-> "released", purpose |-> "none", op |-> 0]
  /\ tally = [closed |-> 0, refused |-> {}, gone |-> {}, events |-> 0,
              shed |-> {}, retention |-> 0]

------------------------------------------------------------------------------
(* MeterTask.                                                              *)

meterRest == <<gateVars, agg, inFlight, queue, control, retention, dropped,
               taskVars, journal, tally>>

\* A bound: each sample may become an interval of its own.
SamplesLeft ==
  tally.closed + Len(samples) + (IF agg.partial THEN 1 ELSE 0) < MaxInterval

\* The freeze is looked at, then the poll is counted as in flight.
MeterLook ==
  /\ meter.pc = "idle" /\ ~gate.frozen /\ SamplesLeft
  /\ meter' = [meter EXCEPT !.pc = "looked"]
  /\ UNCHANGED <<samples, meterRest>>

\* sample_enqueues_in_flight_ counts the poll from here to its end.
MeterPoll ==
  /\ meter.pc = "looked"
  /\ meter' = [pc |-> "polling", gen |-> generation,
               admitted |-> ~gate.frozen]
  /\ UNCHANGED <<samples, meterRest>>

\* An admitted sample of the current generation is queued, frozen or not.
MeterSend ==
  /\ meter.pc = "polling"
  /\ samples' = IF /\ meter.admitted /\ meter.gen = generation
                   /\ Len(samples) < SampleDepth
                THEN Append(samples, meter.gen) ELSE samples
  /\ meter' = [pc |-> "idle", gen |-> 0, admitted |-> FALSE]
  /\ UNCHANGED meterRest

------------------------------------------------------------------------------
(* AggregationTask.                                                        *)

aggRest == <<gate, generation, reset, meter, control, retention, taskVars>>

AggGoto(pc) == agg' = [agg EXCEPT !.pc = pc]

\* The top of the loop tells the frozen branch, the resumption after a
\* freeze, and ordinary aggregation apart.
AggLoop ==
  /\ agg.pc = "loop"
  /\ agg' = IF gate.frozen
            THEN [agg EXCEPT !.pc = "frozen", !.observed = TRUE,
                    !.complete = agg.observed /\ @,
                    !.paused = IF agg.observed THEN @ ELSE generation]
            ELSE [agg EXCEPT !.pc = IF agg.observed THEN "resume" ELSE "take"]
  /\ UNCHANGED <<aggRest, producer, samples, inFlight, queue, dropped,
                 journal, tally>>

\* The frozen branch waits for a poll in flight, then empties the queue, and
\* closes what has accumulated into a boundary record.
AggDrain ==
  LET partial == agg.partial \/ agg.paused \in Range(samples)
      room == Len(agg.boundary) < BoundarySize
      id == tally.closed + 1
  IN
  /\ agg.pc = "frozen"
  /\ \/ /\ meter.pc = "polling"
        /\ AggGoto("loop") /\ UNCHANGED <<samples, tally>>
     \/ /\ meter.pc # "polling" /\ ~partial
        /\ samples' = <<>>
        /\ AggGoto(IF agg.boundary = <<>> THEN "mark" ELSE "stage")
        /\ UNCHANGED tally
     \/ /\ meter.pc # "polling" /\ partial /\ ~room
        /\ samples' = <<>>
        /\ agg' = [agg EXCEPT !.pc = "loop", !.partial = TRUE]
        /\ UNCHANGED tally
     \/ /\ meter.pc # "polling" /\ partial /\ room
        /\ samples' = <<>>
        /\ agg' = [agg EXCEPT !.pc = "loop", !.partial = FALSE,
                     !.boundary = Append(@, id)]
        /\ tally' = [tally EXCEPT !.closed = id]
  /\ UNCHANGED <<aggRest, producer, inFlight, queue, dropped, journal>>

\* stageRecordsForDataReset, up to its flash write: it counts itself as in
\* flight, looks at both gates again and takes the operation's name.
AggStageBegin ==
  /\ agg.pc = "stage"
  /\ IF producer.active /\ ~gate.writes
     THEN /\ agg' = [agg EXCEPT !.pc = "staging", !.op = producer.op]
          /\ inFlight' = inFlight + 1
     ELSE AggGoto("loop") /\ UNCHANGED inFlight
  /\ UNCHANGED <<aggRest, producer, samples, queue, dropped, journal, tally>>

\* validDrainRecordUpdate and the equality test before it: a batch is staged
\* where no journal is, over the finished one of another operation, or over
\* itself.
StageAllowed(op, intervals) ==
  \/ journal.state = "none"
  \/ journal.state = "completed" /\ journal.op # op
  \/ journal = [state |-> "staged", op |-> op, intervals |-> intervals]

\* The write of the batch, and what the task makes of its outcome.
AggStageEnd ==
  LET batch == Range(agg.boundary) IN
  /\ agg.pc = "staging"
  /\ inFlight' = inFlight - 1
  /\ \E outcome \in Outcomes({"stage"}) :
       IF outcome = "ok" /\ StageAllowed(agg.op, batch)
       THEN /\ journal' = [state |-> "staged", op |-> agg.op,
                           intervals |-> batch]
            /\ agg' = [agg EXCEPT !.pc = "mark", !.boundary = <<>>, !.op = 0]
       ELSE /\ agg' = [agg EXCEPT !.pc = "loop", !.op = 0]
            /\ UNCHANGED journal
  /\ UNCHANGED <<aggRest, producer, samples, queue, dropped, tally>>

\* markDataResetProducerQuiesced.
AggMark ==
  /\ agg.pc = "mark"
  /\ producer' = [producer EXCEPT !.quiesced = @ \/ producer.active]
  /\ agg' = [agg EXCEPT !.pc = "loop", !.complete = TRUE]
  /\ UNCHANGED <<aggRest, samples, inFlight, queue, dropped, journal, tally>>

\* After a freeze, a record still retained goes through the ordinary path
\* before the task takes samples again.
AggResume ==
  /\ agg.pc = "resume"
  /\ agg' =
       IF agg.boundary = <<>>
       THEN [agg EXCEPT !.pc = "take", !.observed = FALSE, !.complete = FALSE,
               !.partial = @ /\ generation = agg.paused /\ ~agg.complete]
       ELSE IF generation = agg.paused
            THEN [agg EXCEPT !.pc = "enqueue", !.hand = Head(agg.boundary)]
            ELSE [agg EXCEPT !.pc = "loop"]
  /\ UNCHANGED <<aggRest, producer, samples, inFlight, queue, dropped,
                 journal, tally>>

\* The receive of up to 250 ms that ends without a sample.
AggIdle ==
  /\ agg.pc = "take" /\ samples = <<>>
  /\ AggGoto("loop")
  /\ UNCHANGED <<aggRest, producer, samples, inFlight, queue, dropped,
                 journal, tally>>

\* sampleForGenerationAllowed decides on the sample.  A rejected one also
\* ends the interval it would have belonged to.
AggReject ==
  /\ agg.pc = "take" /\ samples # <<>>
  /\ gate.frozen \/ Head(samples) # generation
  /\ samples' = Tail(samples)
  /\ agg' = [agg EXCEPT !.pc = "loop", !.partial = FALSE]
  /\ UNCHANGED <<aggRest, producer, inFlight, queue, dropped, journal, tally>>

\* An accepted sample joins the interval, and may close it.
AggAccept ==
  /\ agg.pc = "take" /\ samples # <<>>
  /\ ~gate.frozen /\ Head(samples) = generation
  /\ samples' = Tail(samples)
  /\ \/ /\ agg' = [agg EXCEPT !.pc = "loop", !.partial = TRUE]
        /\ UNCHANGED tally
     \/ /\ agg' = [agg EXCEPT !.pc = "closed", !.partial = FALSE,
                     !.hand = tally.closed + 1]
        /\ tally' = [tally EXCEPT !.closed = @ + 1]
  /\ UNCHANGED <<aggRest, producer, inFlight, queue, dropped, journal>>

\* The closed record is retained when the freeze or the gate is seen; the
\* two are looked at one after the other.
AggRetain ==
  /\ \/ agg.pc = "closed" /\ gate.frozen
     \/ agg.pc = "unfrozen" /\ ~gate.writes
  /\ IF Len(agg.boundary) < BoundarySize
     THEN /\ agg' = [agg EXCEPT !.pc = "loop", !.hand = None,
                       !.boundary = Append(@, agg.hand),
                       !.paused = generation]
          /\ UNCHANGED tally
     ELSE /\ agg' = [agg EXCEPT !.pc = "loop", !.hand = None,
                       !.paused = generation]
          /\ tally' = [tally EXCEPT !.refused = @ \cup {agg.hand}]
  /\ UNCHANGED <<aggRest, producer, samples, inFlight, queue, dropped,
                 journal>>

AggLookAtGate ==
  /\ \/ agg.pc = "closed" /\ ~gate.frozen /\ AggGoto("unfrozen")
     \/ agg.pc = "unfrozen" /\ gate.writes /\ AggGoto("enqueue")
  /\ UNCHANGED <<aggRest, producer, samples, inFlight, queue, dropped,
                 journal, tally>>

------------------------------------------------------------------------------
(* enqueueRecord, as AggregationTask runs it.                              *)

\* Where the task goes when enqueueRecord returned false.  A record retained
\* at a gate is still in the boundary; a fresh one is gone.
Refused ==
  /\ agg' = [agg EXCEPT !.pc = "loop", !.hand = None]
  /\ tally' = IF agg.observed THEN tally
              ELSE [tally EXCEPT !.refused = @ \cup {agg.hand}]

enqueueRest == <<aggRest, producer, samples, journal>>

\* The first look at the gate.
EnqueueLook ==
  /\ agg.pc = "enqueue"
  /\ IF gate.writes THEN AggGoto("count") /\ UNCHANGED tally ELSE Refused
  /\ UNCHANGED <<enqueueRest, inFlight, queue, dropped>>

EnqueueCount ==
  /\ agg.pc = "count"
  /\ inFlight' = inFlight + 1
  /\ AggGoto("recheck")
  /\ UNCHANGED <<enqueueRest, queue, dropped, tally>>

\* Mutant of EnqueueRecheck: the gate is not looked at again.
EnqueueUnchecked ==
  /\ agg.pc = "recheck"
  /\ AggGoto("send")
  /\ UNCHANGED <<enqueueRest, inFlight, queue, dropped, tally>>

\* The second look, now that the barrier can see this producer.
EnqueueRecheck ==
  /\ agg.pc = "recheck"
  /\ IF gate.writes
     THEN AggGoto("send") /\ UNCHANGED <<inFlight, tally>>
     ELSE Refused /\ inFlight' = inFlight - 1
  /\ UNCHANGED <<enqueueRest, queue, dropped>>

\* A slot of the pool and a place in the queue, or neither.
EnqueueSend ==
  /\ agg.pc = "send"
  /\ IF Len(queue) < QueueDepth
     THEN queue' = Append(queue, Record(agg.hand)) /\ AggGoto("sent")
     ELSE AggGoto("full") /\ UNCHANGED queue
  /\ UNCHANGED <<enqueueRest, inFlight, dropped, tally>>

EnqueueDone ==
  /\ agg.pc = "sent"
  /\ inFlight' = inFlight - 1
  /\ agg' = [agg EXCEPT !.hand = None,
               !.pc = IF agg.observed THEN "resume" ELSE "loop",
               !.boundary = IF agg.observed THEN Tail(@) ELSE @]
  /\ UNCHANGED <<enqueueRest, queue, dropped, tally>>

\* The counter is released before the interval is counted as dropped.
EnqueueFull ==
  /\ agg.pc = "full"
  /\ inFlight' = inFlight - 1
  /\ AggGoto("drop")
  /\ UNCHANGED <<enqueueRest, queue, dropped, tally>>

\* Mutant of recordDroppedInterval: the interval is not counted.
dropSilently ==
  /\ agg.pc = "drop"
  /\ agg' = [agg EXCEPT !.pc = "loop", !.hand = None]
  /\ UNCHANGED <<enqueueRest, inFlight, queue, dropped, tally>>

recordDroppedInterval ==
  /\ agg.pc = "drop"
  /\ dropped' = dropped \cup {agg.hand}
  /\ agg' = [agg EXCEPT !.pc = "loop", !.hand = None]
  /\ UNCHANGED <<enqueueRest, inFlight, queue, tally>>

------------------------------------------------------------------------------
(* Other producers: events and control requests.                           *)

requestRest == <<gateVars, meter, aggVars, dropped, taskVars, journal>>

EventsOwned == Len(task.held) + Cardinality(Ids(queue, "event"))

\* enqueueEvent that finds a slot and a place; otherwise the event is only
\* counted.  The gate is not asked.
enqueueEvent ==
  /\ tally.events < MaxEvent
  /\ EventsOwned < EventPool /\ Len(queue) < QueueDepth
  /\ queue' = Append(queue, Event(tally.events + 1))
  /\ tally' = [tally EXCEPT !.events = @ + 1]
  /\ UNCHANGED <<requestRest, control, retention>>

\* queueRetention: the gate is looked at and the single request claimed; the
\* message follows, at either end of the queue.
queueRetention ==
  /\ tally.retention < MaxRetention
  /\ gate.writes /\ retention = "none"
  /\ retention' = "claimed"
  /\ tally' = [tally EXCEPT !.retention = @ + 1]
  /\ UNCHANGED <<requestRest, queue, control>>

sendRetention ==
  /\ retention = "claimed"
  /\ IF Len(control) < ControlDepth
     THEN /\ control' \in {Append(control, "retention"),
                           <<"retention">> \o control}
          /\ retention' = "queued"
     ELSE retention' = "none" /\ UNCHANGED control
  /\ UNCHANGED <<requestRest, queue, tally>>

------------------------------------------------------------------------------
(* StorageTask: the loop.                                                  *)

taskRest == <<gateVars, meter, aggVars>>
loopRest == <<taskRest, retention>>

\* What an append leaves on the card and as SdStorage's last error.  With the
\* fault "journal" the record is durable although the append fails; only an
\* append bound to a card reports that.
AppendOutcomes(bound) ==
  Outcomes({"reserve", "io"} \cup IF bound THEN {"journal"} ELSE {})

Appended(c, i, outcome) ==
  [c EXCEPT !.stored = IF outcome \in {"ok", "journal"} THEN @ \cup {i} ELSE @,
            !.error = IF outcome = "ok" THEN @ ELSE outcome]

\* reserveUnavailableIntervals for a set of dropped intervals.
Noted(c, gap, outcome) ==
  [c EXCEPT !.noted = IF outcome = "ok" THEN @ \cup gap ELSE @,
            !.error = IF outcome = "ok" THEN "gap" ELSE outcome]

\* Before anything else the loop tries to write the oldest held event.
AppendHeldEvent ==
  /\ task.pc = "loop" /\ task.held # <<>>
  /\ \E outcome \in Outcomes({"event"}) :
       IF outcome = "ok"
       THEN /\ card' = [card EXCEPT !.events = @ \cup {Head(task.held).id}]
            /\ task' = [task EXCEPT !.pc = "control", !.held = Tail(@)]
       ELSE task' = [task EXCEPT !.pc = "control"] /\ UNCHANGED card
  /\ UNCHANGED <<loopRest, queue, control, dropped, barrier, journal, tally>>

AtControl == task.pc = "control" \/ (task.pc = "loop" /\ task.held = <<>>)

\* Mutant of ControlAllowed: a pending record also holds back the barrier.
RecordsFirst ==
  \/ task.pending # None /\ card.error = "reserve"
  \/ task.held # <<>>
  \/ task.pending = None /\ queue = <<>>

\* control_allowed.
ControlAllowed ==
  \/ task.pending # None /\ card.error = "reserve"
  \/ task.held # <<>>
  \/ ~gate.writes /\ barrier.queued
  \/ task.pending = None /\ queue = <<>>

TakesControl == ControlAllowed /\ control # <<>>

\* Mutant of StillEnabled: the gate is asked only when a request is queued.
NeverAsked == TRUE

\* The gate as StorageTask finds it when it takes a request.
StillEnabled == gate.writes

\* A retention request removes old records unless the gate has closed since.
applyRetention ==
  /\ AtControl /\ TakesControl /\ Head(control) = "retention"
  /\ control' = Tail(control) /\ retention' = "none"
  /\ task' = [task EXCEPT !.pc = "loop"]
  /\ \/ ~StillEnabled /\ UNCHANGED <<card, tally>>
     \/ /\ StillEnabled
        /\ \E s \in SUBSET card.stored :
             /\ card' = [card EXCEPT !.stored = @ \ s, !.error = "none"]
             /\ tally' = [tally EXCEPT !.gone = @ \cup s]
  /\ UNCHANGED <<taskRest, queue, dropped, barrier, journal>>

\* With an event held and no control taken, nothing else is done.
HeldEventWait ==
  /\ task.pc = "control" /\ ~TakesControl /\ task.held # <<>>
  /\ task' = [task EXCEPT !.pc = "loop"]
  /\ UNCHANGED <<loopRest, queue, control, dropped, card, barrier, journal,
                 tally>>

AtRecords == AtControl /\ ~TakesControl /\ task.held = <<>>

\* The pending record's turn: the intervals dropped so far are reserved
\* first, then the record is appended.
RetryPending ==
  LET gap == task.gap \cup dropped IN
  /\ AtRecords /\ task.pending # None
  /\ dropped' = {}
  /\ \/ \E outcome \in Faults \cap {"reserve", "io"} :
          /\ gap # {}
          /\ card' = Noted(card, {}, outcome)
          /\ task' = [task EXCEPT !.pc = "wait", !.gap = gap]
     \/ \E outcome \in AppendOutcomes(FALSE) :
          /\ card' = Appended(IF gap = {} THEN card ELSE Noted(card, gap, "ok"),
                              task.pending, outcome)
          /\ task' = IF outcome = "ok"
                     THEN [task EXCEPT !.pc = "loop", !.gap = {},
                             !.pending = None]
                     ELSE [task EXCEPT !.pc = "wait", !.gap = {}]
  /\ UNCHANGED <<loopRest, queue, control, barrier, journal, tally>>

\* The delay after a failed attempt.
RetryWait ==
  /\ task.pc = "wait"
  /\ task' = [task EXCEPT !.pc = "loop"]
  /\ UNCHANGED <<loopRest, queue, control, dropped, card, barrier, journal,
                 tally>>

ReceiveRecord ==
  /\ AtRecords /\ task.pending = None
  /\ queue # <<>> /\ Head(queue).type = "record"
  /\ task' = [task EXCEPT !.pc = "loop", !.pending = Head(queue).id]
  /\ queue' = Tail(queue)
  /\ UNCHANGED <<loopRest, control, dropped, card, barrier, journal, tally>>

\* An event that cannot be written is held while the gate is closed, and
\* given up while it is open.
ReceiveEvent ==
  /\ AtRecords /\ task.pending = None
  /\ queue # <<>> /\ Head(queue).type = "event"
  /\ queue' = Tail(queue)
  /\ \E outcome \in Outcomes({"event"}) :
       \/ /\ outcome = "ok"
          /\ card' = [card EXCEPT !.events = @ \cup {Head(queue).id}]
          /\ task' = [task EXCEPT !.pc = "loop"] /\ UNCHANGED tally
       \/ /\ outcome # "ok" /\ ~gate.writes
          /\ task' = [task EXCEPT !.pc = "loop",
                        !.held = Append(@, Head(queue))]
          /\ UNCHANGED <<card, tally>>
       \/ /\ outcome # "ok" /\ gate.writes
          /\ task' = [task EXCEPT !.pc = "loop"] /\ UNCHANGED card
          /\ tally' = [tally EXCEPT !.shed = @ \cup {Head(queue).id}]
  /\ UNCHANGED <<loopRest, control, dropped, barrier, journal>>

------------------------------------------------------------------------------
(* StorageTask: the data reset barrier.                                    *)

\* The message carries whether this is the cleanup after a commit.
BarrierReceive ==
  /\ AtControl /\ TakesControl /\ Head(control) \in {"prepare", "cleanup"}
  /\ task' = [task EXCEPT !.pc = "quiesce", !.failed = FALSE, !.left = 0,
                !.cleanup = Head(control) = "cleanup"]
  /\ control' = Tail(control)
  /\ UNCHANGED <<loopRest, queue, dropped, card, barrier, journal, tally>>

\* producers_quiesced.
ProducersQuiesced == inFlight = 0

\* A producer is still in flight after 250 ms.
BarrierBusy ==
  /\ task.pc = "quiesce" /\ ~ProducersQuiesced /\ "timeout" \in Faults
  /\ task' = [task EXCEPT !.pc = "publish", !.failed = TRUE]
  /\ UNCHANGED <<loopRest, queue, control, dropped, card, barrier, journal,
                 tally>>

\* A prepare makes the dropped intervals durable, then the pending record,
\* and takes the length of the queue as what is left to flush.
BarrierPrepare ==
  LET gap == task.gap \cup dropped IN
  /\ task.pc = "quiesce" /\ ProducersQuiesced /\ ~task.cleanup
  /\ dropped' = {}
  /\ \/ \E outcome \in Faults \cap {"reserve", "io"} :
          /\ gap # {}
          /\ card' = Noted(card, {}, outcome)
          /\ task' = [task EXCEPT !.pc = "publish", !.gap = gap,
                        !.failed = TRUE]
     \/ \E outcome \in AppendOutcomes(TRUE) :
          LET c == IF gap = {} THEN card ELSE Noted(card, gap, "ok")
              flushed == outcome = "ok" \/ task.pending = None
          IN
          /\ card' = IF task.pending = None THEN c
                     ELSE Appended(c, task.pending, outcome)
          /\ task' = IF flushed
                     THEN [task EXCEPT !.pc = "drain", !.gap = {},
                             !.pending = None, !.left = Len(queue),
                             !.failed = task.held # <<>>]
                     ELSE [task EXCEPT !.pc = "publish", !.gap = {},
                             !.failed = TRUE]
  /\ UNCHANGED <<loopRest, queue, control, barrier, journal, tally>>

\* A cleanup forgets the pending record and the dropped intervals.
BarrierPurge ==
  /\ task.pc = "quiesce" /\ ProducersQuiesced /\ task.cleanup
  /\ tally' = [tally EXCEPT !.gone = @ \cup dropped \cup task.gap
                                       \cup ({task.pending} \ {None})]
  /\ dropped' = {}
  /\ task' = [task EXCEPT !.pc = "drain", !.pending = None, !.gap = {},
                !.left = Len(queue)]
  /\ UNCHANGED <<loopRest, queue, control, card, barrier, journal>>

\* One message of the snapshot.  A cleanup discards records; a prepare stores
\* them, and a record that cannot be stored stays pending.
BarrierRecord ==
  /\ task.pc = "drain" /\ task.left > 0 /\ Head(queue).type = "record"
  /\ queue' = Tail(queue)
  /\ IF task.cleanup
     THEN /\ tally' = [tally EXCEPT !.gone = @ \cup {Head(queue).id}]
          /\ task' = [task EXCEPT !.left = @ - 1]
          /\ UNCHANGED card
     ELSE /\ \E outcome \in AppendOutcomes(TRUE) :
               /\ card' = Appended(card, Head(queue).id, outcome)
               /\ task' = IF outcome = "ok" THEN [task EXCEPT !.left = @ - 1]
                          ELSE [task EXCEPT !.pc = "publish", !.failed = TRUE,
                                  !.left = 0, !.pending = Head(queue).id]
          /\ UNCHANGED tally
  /\ UNCHANGED <<loopRest, control, dropped, barrier, journal>>

\* Mutant of KeepEvent: an event that cannot be written is released.
ReleaseEvent(held, e) == held

\* Ownership of an event the barrier could not write.
KeepEvent(held, e) == Append(held, e)

\* An event that cannot be written is held; a prepare stops there, a cleanup
\* goes on so that every record behind it is discarded.
BarrierEvent ==
  /\ task.pc = "drain" /\ task.left > 0 /\ Head(queue).type = "event"
  /\ queue' = Tail(queue)
  /\ \E outcome \in Outcomes({"event"}) :
       IF outcome = "ok"
       THEN /\ card' = [card EXCEPT !.events = @ \cup {Head(queue).id}]
            /\ task' = [task EXCEPT !.left = @ - 1]
       ELSE /\ task' = [task EXCEPT !.held = KeepEvent(@, Head(queue)),
                          !.failed = @ \/ ~task.cleanup,
                          !.left = IF task.cleanup THEN @ - 1 ELSE 0]
            /\ UNCHANGED card
  /\ UNCHANGED <<loopRest, control, dropped, barrier, journal, tally>>

\* The drain journal once its records have been given sequences.
AssignedJournal == [journal EXCEPT !.state = "assigned"]

\* completeDataResetDrain.  Of an unfinished journal of this operation the
\* records are stored one by one, and the journal is completed when all are.
\* Without the assignment, a record or the completion the barrier fails and
\* the journal keeps them all; a failed scrub comes after the completion.
BarrierCompleteDrain ==
  LET unfinished == journal.state \in {"staged", "assigned"}
      own == unfinished /\ journal.op = producer.op
      foreign == unfinished /\ journal.op # producer.op
      all == [card EXCEPT !.stored = @ \cup journal.intervals]
      completed == [journal EXCEPT !.state = "completed"]
      fails == task' = [task EXCEPT !.pc = "publish", !.failed = TRUE]
  IN
  /\ task.pc = "drain" /\ task.left = 0 /\ ~task.cleanup
  /\ \/ (task.failed \/ foreign) /\ fails /\ UNCHANGED <<card, journal>>
     \/ /\ ~task.failed /\ ~unfinished
        /\ task' = [task EXCEPT !.pc = "publish"]
        /\ UNCHANGED <<card, journal>>
     \/ /\ ~task.failed /\ own
        /\ task' = [task EXCEPT !.pc = "publish"]
        /\ card' = all /\ journal' = completed
     \/ /\ ~task.failed /\ own /\ fails
        /\ \E outcome \in Faults \cap {"reserve", "io"},
              some \in SUBSET journal.intervals :
             card' = [card EXCEPT !.stored = @ \cup some, !.error = outcome]
        /\ journal' = AssignedJournal
     \/ /\ ~task.failed /\ own /\ fails /\ "stage" \in Faults
        /\ \/ UNCHANGED <<card, journal>>
           \/ card' = all /\ journal' \in {AssignedJournal, completed}
  /\ UNCHANGED <<loopRest, queue, control, dropped, barrier, tally>>

\* clearReadingDataForReset and the events held meanwhile.  A cleanup that
\* fails may have removed some of the readings.
BarrierClear ==
  /\ task.pc = "drain" /\ task.left = 0 /\ task.cleanup
  /\ \E outcome \in Outcomes({"cleanup"}) :
       IF outcome = "ok"
       THEN /\ task' = [task EXCEPT !.pc = "publish", !.held = <<>>]
            /\ card' = [card EXCEPT !.stored = {},
                          !.events = @ \cup Ids(task.held, "event")]
            /\ tally' = [tally EXCEPT !.gone = @ \cup card.stored]
       ELSE \E some \in SUBSET card.stored :
            /\ task' = [task EXCEPT !.pc = "publish", !.failed = TRUE]
            /\ card' = [card EXCEPT !.stored = @ \ some]
            /\ tally' = [tally EXCEPT !.gone = @ \cup some]
  /\ UNCHANGED <<loopRest, queue, control, dropped, barrier, journal>>

\* The result is published before the marker is cleared.
BarrierPublish ==
  /\ task.pc = "publish"
  /\ barrier' = [queued |-> FALSE,
                 result |-> IF task.failed THEN "failed" ELSE "ok"]
  /\ task' = [task EXCEPT !.pc = "loop", !.cleanup = FALSE, !.failed = FALSE,
                !.left = 0]
  /\ UNCHANGED <<loopRest, queue, control, dropped, card, journal, tally>>

------------------------------------------------------------------------------
(* The reset coordinator.                                                  *)

resetRest == <<meter, aggVars, queue, retention, dropped, task, card, journal,
               tally>>

ResetGoto(phase) == reset' = [reset EXCEPT !.phase = phase]

\* A prepare is accepted: admission is claimed and the producer barrier
\* begins.
beginDataResetProducerBarrier ==
  /\ reset.phase = "released" /\ reset.op < MaxOperation
  /\ reset' = [phase |-> "freezing", purpose |-> "none", op |-> reset.op + 1]
  /\ producer' = [active |-> TRUE, quiesced |-> FALSE, op |-> reset.op + 1]
  /\ UNCHANGED <<resetRest, gate, generation, control, barrier>>

\* setDataResetFreeze(true), which needs the configuration lock.
Freeze ==
  /\ reset.phase = "freezing"
  /\ \E outcome \in Outcomes({"freeze"}) :
       IF outcome = "ok"
       THEN /\ gate' = [gate EXCEPT !.frozen = TRUE]
            /\ ResetGoto("closing") /\ UNCHANGED producer
       ELSE /\ producer' = [producer EXCEPT !.active = FALSE, !.quiesced = TRUE]
            /\ ResetGoto("released") /\ UNCHANGED gate
  /\ UNCHANGED <<resetRest, generation, control, barrier>>

CloseGate ==
  /\ reset.phase = "closing"
  /\ gate' = [gate EXCEPT !.writes = FALSE]
  /\ ResetGoto("admitting")
  /\ UNCHANGED <<resetRest, producer, generation, control, barrier>>

\* With the gates closed, an update in progress or a full NVS still rejects
\* the prepare, and the gates are reopened.
Admit ==
  /\ reset.phase = "admitting"
  /\ \E outcome \in Outcomes({"reject"}) :
       ResetGoto(IF outcome = "ok" THEN "pending" ELSE "opening")
  /\ UNCHANGED <<resetRest, gate, producer, generation, control, barrier>>

Quiesced == producer.active /\ producer.quiesced

\* processPendingPrepare: the durable record follows the producer's word.
processPendingPrepare ==
  /\ reset.phase = "pending" /\ Quiesced
  /\ ResetGoto("preparing")
  /\ UNCHANGED <<resetRest, gate, producer, generation, control, barrier>>

\* queueDataResetBarrier, for the prepare and for the cleanup of a commit.
queueDataResetBarrier ==
  /\ \/ reset.phase = "preparing" /\ Quiesced
     \/ reset.phase = "committing"
  /\ reset.purpose = "none"
  /\ ~gate.writes /\ ~barrier.queued /\ Len(control) < ControlDepth
  /\ barrier' = [queued |-> TRUE, result |-> "none"]
  /\ LET kind == IF reset.phase = "preparing" THEN "prepare" ELSE "cleanup" IN
       /\ control' = Append(control, kind)
       /\ reset' = [reset EXCEPT !.purpose = kind]
  /\ UNCHANGED <<resetRest, gate, producer, generation>>

\* progressPreparing with a result.  A failure is retried, and so is a
\* success whose other evidence cannot be taken.
PrepareResult ==
  /\ reset.phase = "preparing" /\ reset.purpose = "prepare"
  /\ Quiesced /\ barrier.result # "none"
  /\ \E outcome \in Outcomes({"evidence"}) :
       reset' = [reset EXCEPT !.purpose = "none",
                   !.phase = IF barrier.result = "ok" /\ outcome = "ok"
                             THEN "prepared" ELSE "preparing"]
  /\ UNCHANGED <<resetRest, gate, producer, generation, control, barrier>>

\* dataResetDrainSafeToCancel.
dataResetDrainSafeToCancel ==
  Quiesced /\ journal.state \in {"none", "completed"}

\* requestCancel.  A barrier still in the queue is left there.
requestCancel ==
  /\ \/ reset.phase = "preparing" /\ dataResetDrainSafeToCancel
     \/ reset.phase = "prepared"
  /\ reset' = [reset EXCEPT !.phase = "opening", !.purpose = "none"]
  /\ UNCHANGED <<resetRest, gate, producer, generation, control, barrier>>

\* The commit up to the advanced cursors and generation.
Commit ==
  /\ reset.phase = "prepared"
  /\ ResetGoto("committing")
  /\ generation' = generation + 1
  /\ UNCHANGED <<resetRest, gate, producer, control, barrier>>

\* The result of a cleanup.  A failed one is replayed with a new barrier.
CleanupResult ==
  /\ reset.phase = "committing" /\ reset.purpose = "cleanup"
  /\ barrier.result # "none"
  /\ reset' = [reset EXCEPT !.purpose = "none",
                 !.phase = IF barrier.result = "ok" THEN "opening"
                           ELSE "committing"]
  /\ UNCHANGED <<resetRest, gate, producer, generation, control, barrier>>

OpenGate ==
  /\ reset.phase = "opening"
  /\ gate' = [gate EXCEPT !.writes = TRUE]
  /\ ResetGoto("unfreezing")
  /\ UNCHANGED <<resetRest, producer, generation, control, barrier>>

\* setDataResetFreeze(false); when it fails the gate is closed again.
Unfreeze ==
  /\ reset.phase = "unfreezing"
  /\ \E outcome \in Outcomes({"unfreeze"}) :
       IF outcome = "ok"
       THEN /\ gate' = [gate EXCEPT !.frozen = FALSE]
            /\ ResetGoto("ending")
       ELSE /\ gate' = [gate EXCEPT !.writes = FALSE]
            /\ ResetGoto("opening")
  /\ UNCHANGED <<resetRest, producer, generation, control, barrier>>

endDataResetProducerBarrier ==
  /\ reset.phase = "ending"
  /\ producer' = [producer EXCEPT !.active = FALSE, !.quiesced = TRUE]
  /\ ResetGoto("released")
  /\ UNCHANGED <<resetRest, gate, generation, control, barrier>>

------------------------------------------------------------------------------
Meter == MeterLook \/ MeterPoll \/ MeterSend

Aggregation ==
  \/ AggLoop \/ AggDrain \/ AggStageBegin \/ AggStageEnd \/ AggMark
  \/ AggResume \/ AggIdle \/ AggReject \/ AggAccept \/ AggRetain
  \/ AggLookAtGate \/ EnqueueLook \/ EnqueueCount \/ EnqueueRecheck
  \/ EnqueueSend \/ EnqueueDone \/ EnqueueFull \/ recordDroppedInterval

StorageTask ==
  \/ AppendHeldEvent \/ applyRetention \/ HeldEventWait \/ RetryPending
  \/ RetryWait \/ ReceiveRecord \/ ReceiveEvent \/ BarrierReceive \/ BarrierBusy
  \/ BarrierPrepare \/ BarrierPurge \/ BarrierRecord \/ BarrierEvent
  \/ BarrierCompleteDrain \/ BarrierClear \/ BarrierPublish

ResetCoordinator ==
  \/ beginDataResetProducerBarrier \/ Freeze \/ CloseGate \/ Admit
  \/ processPendingPrepare \/ queueDataResetBarrier \/ PrepareResult
  \/ requestCancel \/ Commit \/ CleanupResult \/ OpenGate \/ Unfreeze
  \/ endDataResetProducerBarrier

Next ==
  \/ Meter \/ Aggregation \/ StorageTask \/ ResetCoordinator
  \/ enqueueEvent \/ queueRetention \/ sendRetention

\* Both tasks are scheduled for ever; nothing is assumed of the card, of the
\* server's requests or of the other producers.
Fairness == WF_vars(StorageTask) /\ WF_vars(Aggregation)

Spec == Init /\ [][Next]_vars /\ Fairness

------------------------------------------------------------------------------
Phases == {"released", "freezing", "closing", "admitting", "pending",
           "preparing", "prepared", "committing", "opening", "unfreezing",
           "ending"}

\* The shape of the state, with the bounds of the queues and of the count of
\* producers in flight.
TypeOK ==
  /\ gate \in [writes : BOOLEAN, frozen : BOOLEAN]
  /\ producer \in [active : BOOLEAN, quiesced : BOOLEAN, op : 0..MaxOperation]
  /\ generation \in 0..MaxOperation
  /\ meter.pc \in {"idle", "looked", "polling"}
  /\ Len(samples) <= SampleDepth /\ Range(samples) \subseteq 0..MaxOperation
  /\ agg.partial \in BOOLEAN /\ agg.hand \in Intervals \cup {None}
  /\ Len(agg.boundary) <= BoundarySize
  /\ inFlight = IF agg.pc \in {"staging", "recheck", "send", "sent", "full"}
                THEN 1 ELSE 0
  /\ Len(queue) <= QueueDepth /\ Len(control) <= ControlDepth
  /\ (retention = "queued") = ("retention" \in Range(control))
  /\ task.pending \in Intervals \cup {None} /\ task.left \in 0..Len(queue)
  /\ EventsOwned <= EventPool
  /\ dropped \subseteq Intervals /\ card.stored \subseteq Intervals
  /\ barrier.queued \in BOOLEAN /\ barrier.result \in {"none", "ok", "failed"}
  /\ journal.state \in {"none", "staged", "assigned", "completed"}
  /\ reset.phase \in Phases /\ reset.purpose \in {"none", "prepare", "cleanup"}

\* Once a reset is prepared, and until its gate opens, no record is on its way
\* to the card: none in the write queue or in StorageTask's hands, no gap that
\* StorageTask has taken over, and no producer behind its second look at the
\* gate.  The evidence signed for the server stays the evidence.
FenceHolds ==
  reset.phase \in {"prepared", "committing"} =>
    /\ Ids(queue, "record") = {} /\ task.pending = None /\ task.gap = {}
    /\ agg.pc \notin {"send", "sent", "full"}

\* While a reset stays prepared, neither retention nor a late record changes
\* the readings the server is asked to approve for deletion.
EvidenceFrozen ==
  [][reset.phase = "prepared" /\ reset'.phase = "prepared"
       => card'.stored = card.stored /\ card'.noted = card.noted]_vars

JournalOwned == IF journal.state \in {"staged", "assigned"}
                THEN journal.intervals ELSE {}
GapOwned == dropped \cup task.gap \cup card.noted
RecordOwned == Range(agg.boundary) \cup Ids(queue, "record")
                 \cup {task.pending} \cup card.stored

\* Every closed interval is a record somewhere, a counted gap, in the drain
\* journal, deleted by retention or by a reset, or was refused outright at
\* the gate; however the four tasks interleave, none slips between owners.
EveryIntervalOwned ==
  \A i \in 1..tally.closed :
    i \in RecordOwned \cup GapOwned \cup JournalOwned \cup {agg.hand}
            \cup tally.gone \cup tally.refused

\* An event that was accepted is queued, held, or on the card, or it was given
\* up while the gate was open; a reset never discards one.
EveryEventOwned ==
  1..tally.events \subseteq
    Ids(queue, "event") \cup Ids(task.held, "event") \cup card.events
      \cup tally.shed

\* A barrier queued behind a closed gate is answered, or the gate is opened,
\* even if the card fails for ever with a record pending.
BarrierAnswered ==
  (barrier.queued /\ ~gate.writes) ~> (~barrier.queued \/ gate.writes)

\* What the meter has contributed to an interval is given up only with its
\* generation: a freeze closes the interval and keeps it.
AccumulatorSurvivesFreeze ==
  [][agg.partial /\ ~agg'.partial
       => tally'.closed > tally.closed \/ Head(samples) # generation]_vars

\* The gates are never reopened over a drain journal that still owns records.
ReopenedWithoutStagedDrain ==
  reset.phase = "released" => JournalOwned = {}

\* An interval that is kept as a record is not reported as unavailable too.
NoPhantomGap == GapOwned \cap RecordOwned = {}
=============================================================================
