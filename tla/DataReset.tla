------------------------------ MODULE DataReset ------------------------------
(***************************************************************************)
(* The data reset across power losses: DataResetCoordinator's operation    *)
(* record and its checkpoints, the three journals kept in NVS (drain,      *)
(* cleanup, events), the barrier work StorageTask does for it, and the     *)
(* boot that recovers all of these.                                        *)
(*                                                                         *)
(* An interval and an event are their numbers, a record on the card is an  *)
(* interval with its sequence, a stored file is one record.  The gates     *)
(* close and open in one step: StorageCoordinator looks inside.  Every     *)
(* durable write is one step, saved, lost or saved without a confirmation  *)
(* (AtomicConfigStore), and power may be lost between any two.  There is   *)
(* one card; reading it, its binding or the meter may fail.                *)
(***************************************************************************)
EXTENDS Naturals, Sequences, FiniteSets, FiniteSetsExt

CONSTANTS
  MaxOp,        \* how many operations the server requests (a bound)
  None,         \* no operation, record, journal or result
  MaxInterval,  \* how many intervals are measured (a bound)
  MaxEvent,     \* how many events are recorded (a bound)
  MaxOffset,    \* how often the meter's counter rolls over (a bound)
  MaxCrash,     \* how often power is lost (a bound)
  MaxFault      \* how many operations fail (a bound)

ASSUME ResetAssumption ==
  /\ {MaxOp, MaxInterval, MaxEvent, MaxOffset, MaxCrash, MaxFault} \subseteq Nat
  /\ None \notin Nat

Ops == 1..MaxOp

VARIABLES
  rec,     \* NVS: the operation's Record, or None
  drain,   \* NVS: the drain journal, or None
  plan,    \* NVS: the cleanup journal, or None
  events,  \* NVS: the event journal, or None
  cursor,  \* NVS: acknowledgement, generation, reset boundary, energy
  card,    \* the card: records, next sequence, events (how often each)
  phase,   \* "down", "boot", "up", or "halted" (begin() returned false)
  gate,    \* the gates, the producer barrier and the operation it is bound to
  coord,   \* the coordinator: record_, the pending requests, barrier_purpose_
  job,     \* StorageTask's barrier in progress
  result,  \* data_reset_result_, or None
  acc,     \* the intervals AggregationTask has open
  queued,  \* an event StorageTask owns and could not append, or 0
  tally    \* intervals and events begun, crashes, faults; ghost: handed over

vars == <<rec, drain, plan, events, cursor, card, phase, gate, coord, job,
          result, acc, queued, tally>>
nvs == <<rec, drain, plan, events, cursor>>
ram == <<gate, coord, job, result, acc, queued>>

(***************************************************************************)
(* DataResetPolicy: states, checkpoints and legal updates of the record.   *)
(***************************************************************************)
\* The order of the checkpoints; "None" is 0.
CommitAuthorized == 1
SequenceAdvanced == 2
CursorsAdvanced == 3
ReadingsCleared == 4
BaselineInstalled == 5
Verified == 6
Finished == 7

terminalState(r) == r.st \in {"Completed", "Cancelled"}
readingGateRequired_Mut(r) ==  \* forgets the operation that stopped
  r # None /\ ~terminalState(r) /\ r.st # "AttentionRequired"
readingGateRequired(r) == r # None /\ ~terminalState(r)
commitPointReached(r) == r.cp >= CommitAuthorized
resumeStateForCheckpoint(cp) == IF cp = 0 THEN "Prepared" ELSE "Committing"

validStateCheckpoint(st, cp) ==
  \/ st \in {"Preparing", "Prepared", "Cancelled"} /\ cp = 0
  \/ st = "Committing" /\ cp \in CommitAuthorized..Verified
  \/ st = "Completed" /\ cp = Finished
  \/ st = "AttentionRequired" /\ cp \in 0..Verified

canTransition(from, to, cp) ==
  /\ validStateCheckpoint(to, cp)
  /\ \/ from = to /\ from \notin {"Completed", "Cancelled"}
     \/ from = "Preparing" /\ to \in {"Prepared", "Cancelled"}
     \/ from = "Prepared" /\ to \in {"Committing", "Cancelled", "AttentionRequired"}
                          /\ (to = "Committing" => cp = CommitAuthorized)
                          /\ (to = "AttentionRequired" => cp = 0)
     \/ from = "Committing" /\ to \in {"Completed", "AttentionRequired"}
     \/ from = "AttentionRequired"
          /\ (to = resumeStateForCheckpoint(cp) \/ (to = "Cancelled" /\ cp = 0))

\* What the evidence of Prepared may say of the drained intervals.
validPreparedEvidence(r) ==
  r.added > 0 => /\ r.last = r.newest
                 /\ r.next = r.last + 1
                 /\ r.count >= r.added

\* Every field that a later record may not change.
PreparedEvidence(r) == <<r.newest, r.next, r.count, r.added, r.last, r.required>>

validRecordUpdate(cur, new) ==
  /\ new.st # "Preparing" /\ new.st # "Cancelled" => validPreparedEvidence(new)
  /\ IF cur = None THEN new.st = "Preparing"
     ELSE IF cur.op # new.op
     THEN /\ terminalState(cur) /\ new.st = "Preparing"
          /\ IF cur.st = "Completed" THEN new.target > cur.target
                                     ELSE new.target >= cur.target
     ELSE /\ cur.target = new.target
          /\ canTransition(cur.st, new.st, new.cp)
          /\ new.cp \in {cur.cp, cur.cp + 1}
          /\ cur.next # 0 => PreparedEvidence(cur) = PreparedEvidence(new)
          /\ cur.boundary # 0 => cur.boundary = new.boundary
          /\ new.deleted >= cur.deleted

validDrainRecordUpdate(cur, new) ==
  \/ cur = None
  \/ IF cur.op # new.op
     THEN cur.st = "Completed" /\ new.st = "Staged" /\ new.target >= cur.target
     ELSE \/ cur.st = "Staged" /\ new.st = "Assigned"
          \/ cur.st = "Assigned" /\ new.st = "Completed"

validCleanupRecordUpdate(cur, new) ==
  IF cur = None THEN new.st = "Planned"
  ELSE IF cur.op # new.op
  THEN cur.st = "Completed" /\ new.st = "Planned" /\ new.target > cur.target
  ELSE cur.st = "Planned" /\ new = [cur EXCEPT !.st = "Completed"]

validEventJournalRecordUpdate(cur, new) ==
  IF cur = None THEN new.st = "Staged"
  ELSE IF cur.op # new.op
  THEN cur.st = "Completed" /\ new.st = "Staged" /\ new.target > cur.target
  ELSE cur.st = "Staged" /\ new = [cur EXCEPT !.st = "Completed"]

(***************************************************************************)
(* One durable write: what NVS holds afterwards, whether the caller was    *)
(* told that it is there, and how many faults it took.                     *)
(***************************************************************************)
Written(cur, new, legal, spent) ==
  IF ~legal THEN {[nvs |-> cur, ok |-> FALSE, cost |-> spent]}
  ELSE {[nvs |-> new, ok |-> TRUE, cost |-> spent]} \cup
       IF tally.faults + spent < MaxFault
       THEN {[nvs |-> n, ok |-> FALSE, cost |-> spent + 1] : n \in {cur, new}}
       ELSE {}

\* An identical record is accepted as saved.
Saved(cur, new, spent) ==
  IF cur = new THEN {[nvs |-> cur, ok |-> TRUE, cost |-> spent]}
  ELSE Written(cur, new, validRecordUpdate(cur, new), spent)

\* A record that carries the clock or the meter is repeated with newer values,
\* in fields that may never change: it is refused, unless they still are the
\* same (the clock counts seconds, and stands at 0 until it is set).
SavedFresh(cur, new, spent) ==
  Saved(cur, new, spent)
    \cup Written(cur, new, cur # new /\ validRecordUpdate(cur, new), spent)

SavedDrain(new) ==
  IF drain = new THEN {[nvs |-> drain, ok |-> TRUE, cost |-> 0]}
  ELSE Written(drain, new, validDrainRecordUpdate(drain, new), 0)

SavedPlan(new) ==
  IF plan = new THEN {[nvs |-> plan, ok |-> TRUE, cost |-> 0]}
  ELSE Written(plan, new, validCleanupRecordUpdate(plan, new), 0)

SavedEvents(new) ==
  IF events = new THEN {[nvs |-> events, ok |-> TRUE, cost |-> 0]}
  ELSE Written(events, new, validEventJournalRecordUpdate(events, new), 0)

\* A check of the card or the meter that may fail for no fault of the model.
Checks == {TRUE} \cup {b \in {FALSE} : tally.faults < MaxFault}
Cost(ok) == IF ok THEN 0 ELSE 1
Spend(n) == tally' = [tally EXCEPT !.faults = @ + n]

Open == [closed |-> FALSE, quiet |-> TRUE, op |-> None, target |-> 0]
\* Claiming the admission anew starts a producer barrier bound to the
\* operation; a gate that is already closed keeps the barrier it has.
Close(op, target) ==
  IF gate.closed THEN gate
  ELSE [closed |-> TRUE, quiet |-> FALSE, op |-> op, target |-> target]

NoJob == [pc |-> "idle", op |-> None]
NoCoord == [rec |-> None, prepare |-> None, commit |-> 0, want |-> "none"]
Sequences_(rs) == {r.seq : r \in rs}
Newest(rs) == Max(Sequences_(rs) \cup {0})

Init ==
  /\ rec = None /\ drain = None /\ plan = None /\ events = None
  /\ cursor = [ack |-> 1, gen |-> 0, boundary |-> 0, offset |-> 0, base |-> 0]
  /\ card = [recs |-> {}, next |-> 2, events |-> [e \in 1..MaxEvent |-> 0]]
  /\ phase = "up"
  /\ gate = Open /\ coord = NoCoord /\ job = NoJob /\ result = None
  /\ acc = <<>> /\ queued = 0
  /\ tally = [intervals |-> 0, events |-> 0, crashes |-> 0, faults |-> 0,
              handed |-> {}]

-----------------------------------------------------------------------------
(* Ordinary work behind open gates.                                        *)

\* An interval is closed, queued and stored.
StoreInterval ==
  /\ phase = "up" /\ ~gate.closed /\ tally.intervals < MaxInterval
  /\ tally' = [tally EXCEPT !.intervals = @ + 1]
  /\ card' = [card EXCEPT !.next = @ + 1,
                          !.recs = @ \cup {[id |-> tally.intervals + 1,
                                            seq |-> card.next, gen |-> cursor.gen]}]
  /\ UNCHANGED <<nvs, phase, ram>>

\* AggregationTask has an interval open, or one that a boundary splits in two.
Accumulate ==
  /\ phase = "up" /\ ~gate.closed /\ acc = <<>>
  /\ \E n \in 1..2 :
       /\ tally.intervals + n <= MaxInterval
       /\ acc' = [k \in 1..n |-> tally.intervals + k]
       /\ tally' = [tally EXCEPT !.intervals = @ + n]
  /\ UNCHANGED <<nvs, card, phase, gate, coord, job, result, queued>>

\* The meter's counter rolls over: setEnergyOffsetWh.
RollOver ==
  /\ phase = "up" /\ ~gate.closed /\ cursor.offset < MaxOffset
  /\ cursor' = [cursor EXCEPT !.offset = @ + 1]
  /\ UNCHANGED <<rec, drain, plan, events, card, phase, ram, tally>>

\* An event reaches StorageTask while the card has no room for it.
QueueEvent ==
  /\ phase = "up" /\ queued = 0 /\ tally.events < MaxEvent
  /\ queued' = tally.events + 1
  /\ tally' = [tally EXCEPT !.events = @ + 1]
  /\ UNCHANGED <<nvs, card, phase, gate, coord, job, result, acc>>

\* A page of readings is uploaded and acknowledged under a lease that keeps a
\* reset from being prepared (ServerSync looks inside).
Acknowledge ==
  /\ phase = "up" /\ ~gate.closed /\ Newest(card.recs) > cursor.ack
  /\ cursor' = [cursor EXCEPT !.ack = Newest(card.recs)]
  /\ UNCHANGED <<rec, drain, plan, events, card, phase, ram, tally>>

-----------------------------------------------------------------------------
(* Prepare.                                                                *)

\* requestPrepare, accepted: replays and conflicts change nothing. The server
\* numbers its operations by UUIDs: it repeats one only until it is durable.
requestPrepare ==
  LET target == cursor.gen + 1
      r == coord.rec
      o == IF rec = None THEN 1 ELSE rec.op + 1
  IN /\ phase = "up" /\ coord.prepare = None /\ o \in Ops
     /\ r # None => /\ terminalState(r)
                    /\ r.st = "Completed" => target > r.target
     /\ coord' = [coord EXCEPT !.prepare = [op |-> o, target |-> target]]
     /\ gate' = Close(o, target)
     /\ UNCHANGED <<nvs, card, phase, job, result, acc, queued, tally>>

\* What a partial interval's journal says first.
StagedDrain(off) ==
  [op |-> gate.op, st |-> "Staged", target |-> gate.target, ids |-> acc,
   first |-> 0, offset |-> off]

\* AggregationTask meets the closed gate: it stages what it has open, or has
\* nothing to stage. A failed attempt is repeated with the same intervals.
StageDrain ==
  /\ phase = "up" /\ gate.closed /\ ~gate.quiet
  /\ IF acc = <<>>
     THEN /\ gate' = [gate EXCEPT !.quiet = TRUE]
          /\ UNCHANGED <<drain, acc, tally>>
     ELSE \E off \in {cursor.offset, cursor.offset + 1} :
          \E s \in SavedDrain(StagedDrain(off)) :
            /\ off <= MaxOffset
            /\ drain' = s.nvs
            /\ acc' = IF s.ok THEN <<>> ELSE acc
            /\ gate' = [gate EXCEPT !.quiet = s.ok]
            /\ tally' = [tally EXCEPT
                 !.faults = @ + s.cost,
                 !.handed = IF s.nvs # drain
                            THEN @ \cup {[id |-> acc[k], gen |-> cursor.gen] :
                                           k \in DOMAIN acc}
                            ELSE @]
  /\ UNCHANGED <<rec, plan, events, cursor, card, phase, coord, job, result,
                 queued>>

Preparing(p) ==
  [op |-> p.op, target |-> p.target, st |-> "Preparing", cp |-> 0,
   newest |-> 0, next |-> 0, count |-> 0, added |-> 0, last |-> 0,
   required |-> 0, boundary |-> 0, deleted |-> 0]

\* processPendingPrepare, and the same of a cancellation that meets a request
\* still held in RAM.
processPendingPrepare ==
  /\ phase = "up" /\ coord.prepare # None /\ gate.closed /\ gate.quiet
  /\ \E s \in SavedFresh(rec, Preparing(coord.prepare), 0) :
       /\ rec' = s.nvs
       /\ coord' = IF s.ok THEN [coord EXCEPT !.rec = Preparing(coord.prepare),
                                              !.prepare = None, !.want = "none"]
                           ELSE coord
       /\ Spend(s.cost)
  /\ UNCHANGED <<drain, plan, events, cursor, card, phase, gate, job, result,
                 acc, queued>>

\* progressPreparing and progressCommit: hand StorageTask a barrier.
queueDataResetBarrier ==
  /\ phase = "up" /\ coord.rec # None /\ coord.want = "none" /\ job.pc = "idle"
  /\ \/ /\ coord.rec.st = "Preparing" /\ gate.quiet
        /\ coord' = [coord EXCEPT !.want = "drain"]
        /\ job' = [pc |-> "drain", op |-> coord.rec.op]
     \/ /\ coord.rec.st = "Committing" /\ coord.rec.cp = CursorsAdvanced
        /\ coord' = [coord EXCEPT !.want = "clean"]
        /\ job' = [pc |-> "events", op |-> coord.rec.op]
  /\ result' = None
  /\ UNCHANGED <<nvs, card, phase, gate, acc, queued, tally>>

highestTrustedBoundary == Max({card.next - 1, Newest(card.recs), cursor.ack,
                               cursor.boundary})

Prepared(r) ==
  [r EXCEPT !.st = "Prepared", !.newest = Newest(card.recs),
            !.next = card.next, !.count = Cardinality(card.recs),
            !.added = result.added, !.last = result.last,
            !.required = highestTrustedBoundary]

Attention(r) == [r EXCEPT !.st = "AttentionRequired"]

\* progressPreparing with the answer of its barrier: install the energy
\* offset, capture the evidence and save it. A failed barrier, check or save
\* leaves Preparing, and the next tick asks again; a card that is no longer
\* the same after the save asks for attention.
progressPreparing ==
  /\ phase = "up" /\ coord.rec # None /\ coord.rec.st = "Preparing"
  /\ coord.want = "drain" /\ job.pc = "idle" /\ result # None
  /\ gate.quiet
  /\ result' = None
  /\ LET usable == result.ok /\ (result.added > 0 => result.offset >= cursor.offset)
         p == Prepared(coord.rec)
     IN /\ cursor' = IF usable /\ result.added > 0
                     THEN [cursor EXCEPT !.offset = result.offset] ELSE cursor
        /\ \E checked \in Checks :
             IF ~usable \/ ~checked
             THEN /\ rec' = rec /\ Spend(Cost(checked))
                  /\ coord' = [coord EXCEPT !.want = "none"]
             ELSE \E s \in SavedFresh(rec, p, 0) :
                    \/ /\ rec' = s.nvs /\ Spend(s.cost)
                       /\ coord' = [coord EXCEPT !.want = "none",
                                                 !.rec = IF s.ok THEN p ELSE @]
                    \/ /\ s.ok /\ tally.faults + s.cost < MaxFault
                       /\ \E a \in Saved(p, Attention(p), s.cost + 1) :
                            /\ rec' = a.nvs /\ Spend(a.cost)
                            /\ coord' = [coord EXCEPT !.want = "none",
                                 !.rec = IF a.ok THEN Attention(p) ELSE p]
  /\ UNCHANGED <<drain, plan, events, card, phase, gate, job, acc, queued>>

-----------------------------------------------------------------------------
(* Cancel.                                                                 *)

dataResetDrainSafeToCancel ==
  /\ gate.closed /\ gate.quiet
  /\ drain # None =>
       /\ drain.st = "Completed"
       /\ drain.op = coord.rec.op => /\ drain.target = coord.rec.target
                                     /\ drain.offset = cursor.offset

\* requestCancel of a durable operation. The gates open with the answer, or a
\* later tick opens them.
requestCancel ==
  LET r == coord.rec
      c == [r EXCEPT !.st = "Cancelled"]
  IN /\ phase = "up" /\ r # None /\ coord.commit = 0 /\ coord.prepare = None
     /\ r.st \in {"Preparing", "Prepared", "AttentionRequired"}
     /\ ~commitPointReached(r) /\ r.boundary = 0
     /\ r.st # "Prepared" => dataResetDrainSafeToCancel
     /\ \E s \in SavedFresh(rec, c, 0) :
          /\ rec' = s.nvs
          /\ IF s.ok
             THEN /\ coord' = [NoCoord EXCEPT !.rec = c]
                  /\ \E opened \in Checks :
                       /\ gate' = IF opened THEN Open ELSE gate
                       /\ Spend(s.cost + Cost(opened))
             ELSE UNCHANGED <<coord, gate>> /\ Spend(s.cost)
     /\ UNCHANGED <<drain, plan, events, cursor, card, phase, job, result, acc,
                    queued>>

\* tick: after a terminal decision the gates are released again and again
\* until they are open.
ReleaseGates ==
  /\ phase = "up" /\ coord.prepare = None /\ gate.closed
  /\ coord.rec # None => terminalState(coord.rec)
  /\ \E opened \in Checks : /\ gate' = IF opened THEN Open ELSE gate
                            /\ Spend(Cost(opened))
  /\ UNCHANGED <<nvs, card, phase, coord, job, result, acc, queued>>

-----------------------------------------------------------------------------
(* Commit.                                                                 *)

\* requestCommit: the first one latches the boundary, durably; a repetition
\* re-arms an operation that stopped.
requestCommit(b) ==
  LET r == coord.rec
      latched == [r EXCEPT !.boundary = b]
  IN /\ phase = "up" /\ r # None /\ coord.commit = 0 /\ b >= r.required
     /\ \/ /\ r.st = "Prepared" /\ r.boundary = 0
           /\ \E s \in Saved(rec, latched, 0) :
                /\ rec' = s.nvs
                /\ coord' = IF s.ok THEN [coord EXCEPT !.rec = latched, !.commit = b]
                                    ELSE coord
                /\ Spend(s.cost)
        \/ /\ r.boundary = b
           /\ r.st = "AttentionRequired" \/ r.st = "Prepared"
           /\ coord' = [coord EXCEPT !.commit = b]
           /\ UNCHANGED <<rec, tally>>
     /\ UNCHANGED <<drain, plan, events, cursor, card, phase, gate, job, result,
                    acc, queued>>

\* processPendingCommit: resume from AttentionRequired, or capture the
\* evidence once more and authorize. Evidence that has changed asks for
\* attention; a meter that does not answer leaves Prepared, with the commit to
\* be asked for again. From the authorization on nothing cancels.
processPendingCommit ==
  LET r == coord.rec
      resumed == [r EXCEPT !.st = resumeStateForCheckpoint(r.cp)]
      authorized == [r EXCEPT !.st = "Committing", !.cp = CommitAuthorized]
  IN /\ phase = "up" /\ coord.commit # 0
     /\ IF r.st = "AttentionRequired"
        THEN \E s \in Saved(rec, resumed, 0) :
               /\ rec' = s.nvs /\ Spend(s.cost)
               /\ coord' = IF ~s.ok THEN coord
                           ELSE [coord EXCEPT !.rec = resumed,
                                   !.commit = IF r.cp = 0 THEN @ ELSE 0]
        ELSE \/ \E s \in SavedFresh(rec, authorized, 0) :
                  /\ rec' = s.nvs /\ Spend(s.cost)
                  /\ coord' = IF s.ok THEN [coord EXCEPT !.rec = authorized, !.commit = 0]
                                      ELSE coord
             \/ /\ tally.faults < MaxFault
                /\ \E t \in {Attention(r), r} : \E s \in Saved(rec, t, 1) :
                     /\ rec' = s.nvs /\ Spend(s.cost)
                     /\ coord' = [coord EXCEPT !.rec = IF s.ok THEN t ELSE @,
                                               !.commit = 0]
     /\ UNCHANGED <<drain, plan, events, cursor, card, phase, gate, job, result,
                    acc, queued>>

\* Save the record of the next checkpoint; a save that fails, like a check
\* that fails, asks for attention instead.
Attended(cur, spent) ==
  {[nvs |-> s.nvs, rec |-> IF s.ok THEN Attention(coord.rec) ELSE coord.rec,
    cost |-> s.cost] : s \in Saved(cur, Attention(coord.rec), spent)}

\* The records of the last two checkpoints carry the meter and the clock.
Advanced(new) ==
  UNION {IF s.ok THEN {[nvs |-> s.nvs, rec |-> new, cost |-> s.cost]}
                 ELSE Attended(s.nvs, s.cost) :
           s \in IF new.cp >= Verified THEN SavedFresh(rec, new, 0)
                                       ELSE Saved(rec, new, 0)}

AdvanceTo(new) ==
  \E checked \in Checks :
  \E a \in IF checked THEN Advanced(new) ELSE Attended(rec, 1) :
    /\ rec' = a.nvs
    /\ coord' = [coord EXCEPT !.rec = a.rec, !.want = "none"]
    /\ Spend(a.cost)

AtCheckpoint(cp) == /\ phase = "up" /\ coord.rec # None
                    /\ coord.rec.st = "Committing" /\ coord.rec.cp = cp
                    /\ coord.commit = 0
Next_(r) == [r EXCEPT !.cp = @ + 1]

\* CommitAuthorized: StorageTask raises the card's sequence floor.
ReconcileSequence ==
  /\ AtCheckpoint(CommitAuthorized)
  /\ card.next <= coord.rec.boundary
  /\ card' = [card EXCEPT !.next = coord.rec.boundary + 1]
  /\ UNCHANGED <<nvs, phase, ram, tally>>

AdvanceSequence ==
  /\ AtCheckpoint(CommitAuthorized)
  /\ card.next > coord.rec.boundary
  /\ AdvanceTo(Next_(coord.rec))
  /\ UNCHANGED <<drain, plan, events, cursor, card, phase, gate, job, result,
                 acc, queued>>

\* SequenceAdvanced: acknowledgement, generation and boundary, one NVS write
\* each and in this order. A write that fails stops the sequence.
CursorsAfter(k) ==
  [cursor EXCEPT !.ack = IF k >= 1 THEN coord.rec.boundary ELSE @,
                 !.gen = IF k >= 2 THEN coord.rec.target ELSE @,
                 !.boundary = IF k >= 3 THEN coord.rec.boundary ELSE @]

AdvanceCursors ==
  /\ AtCheckpoint(SequenceAdvanced)
  /\ IF cursor.ack > coord.rec.boundary
     THEN /\ \E a \in Attended(rec, 0) : /\ rec' = a.nvs /\ Spend(a.cost)
                                         /\ coord' = [coord EXCEPT !.rec = a.rec]
          /\ UNCHANGED <<cursor, phase>>
     ELSE \/ /\ cursor' = CursorsAfter(3)
             /\ AdvanceTo(Next_(coord.rec))
             /\ UNCHANGED phase
          \/ /\ tally.faults < MaxFault
             /\ \E k \in 0..2 : cursor' = CursorsAfter(k)
             /\ \E a \in Attended(rec, 1) : /\ rec' = a.nvs /\ Spend(a.cost)
                                            /\ coord' = [coord EXCEPT !.rec = a.rec]
             /\ UNCHANGED phase
  /\ UNCHANGED <<drain, plan, events, card, gate, job, result, acc, queued>>

\* CursorsAdvanced: the counts of the cleanup journal replace those recorded,
\* and only then the checkpoint moves.
CleanupCounted ==
  /\ AtCheckpoint(CursorsAdvanced) /\ coord.want = "clean"
  /\ job.pc = "idle" /\ result # None /\ result.added # coord.rec.deleted
  /\ \E a \in Advanced([coord.rec EXCEPT !.deleted = result.added]) :
       /\ rec' = a.nvs /\ Spend(a.cost)
       /\ coord' = [coord EXCEPT !.rec = a.rec,
                      !.want = IF a.rec.st = "AttentionRequired" THEN "none" ELSE @]
       /\ result' = IF a.rec.st = "AttentionRequired" THEN None ELSE result
  /\ UNCHANGED <<drain, plan, events, cursor, card, phase, gate, job, acc,
                 queued>>

CleanupAnswered_Mut ==  \* a failed barrier stays the one that is waited for
  /\ AtCheckpoint(CursorsAdvanced) /\ coord.want = "clean"
  /\ job.pc = "idle" /\ result # None /\ result.added = coord.rec.deleted
  /\ \E a \in IF result.ok THEN Advanced(Next_(coord.rec)) ELSE Attended(rec, 0) :
       /\ rec' = a.nvs /\ Spend(a.cost)
       /\ coord' = [coord EXCEPT !.rec = a.rec]
  /\ result' = None
  /\ UNCHANGED <<drain, plan, events, cursor, card, phase, gate, job, acc, queued>>

CleanupAnswered ==
  /\ AtCheckpoint(CursorsAdvanced) /\ coord.want = "clean"
  /\ job.pc = "idle" /\ result # None /\ result.added = coord.rec.deleted
  /\ \E a \in IF result.ok THEN Advanced(Next_(coord.rec)) ELSE Attended(rec, 0) :
       /\ rec' = a.nvs /\ Spend(a.cost)
       /\ coord' = [coord EXCEPT !.rec = a.rec, !.want = "none"]
  /\ result' = None
  /\ UNCHANGED <<drain, plan, events, cursor, card, phase, gate, job, acc,
                 queued>>

InstallBaseline ==
  /\ AtCheckpoint(ReadingsCleared)
  /\ cursor' = [cursor EXCEPT !.base = coord.rec.target]
  /\ AdvanceTo(Next_(coord.rec))
  /\ UNCHANGED <<drain, plan, events, card, phase, gate, job, result, acc,
                 queued>>

\* BaselineInstalled: everything is looked at once more.
Verify ==
  LET good == /\ card.recs = {} /\ card.next > coord.rec.boundary
              /\ cursor.ack >= coord.rec.boundary
              /\ cursor.gen = coord.rec.target
              /\ cursor.boundary = coord.rec.boundary
              /\ cursor.base = coord.rec.target
  IN /\ AtCheckpoint(BaselineInstalled)
     /\ IF good THEN AdvanceTo(Next_(coord.rec))
        ELSE \E a \in Attended(rec, 0) : /\ rec' = a.nvs /\ Spend(a.cost)
                                         /\ coord' = [coord EXCEPT !.rec = a.rec]
     /\ UNCHANGED <<drain, plan, events, cursor, card, phase, gate, job, result,
                    acc, queued>>

Complete ==
  /\ AtCheckpoint(Verified)
  /\ AdvanceTo([Next_(coord.rec) EXCEPT !.st = "Completed"])
  /\ gate' = IF coord'.rec.st = "Completed" THEN Open ELSE gate
  /\ UNCHANGED <<drain, plan, events, cursor, card, phase, job, result, acc,
                 queued>>

progressCommit ==
  \/ ReconcileSequence \/ AdvanceSequence \/ AdvanceCursors \/ CleanupCounted
  \/ CleanupAnswered \/ InstallBaseline \/ Verify \/ Complete

-----------------------------------------------------------------------------
(* StorageTask: completeDataResetDrain, for a barrier and for the boot.    *)

Answer(ok, added, last, offset) ==
  /\ result' = [ok |-> ok, added |-> added, last |-> last, offset |-> offset]
  /\ job' = NoJob
Failed == Answer(FALSE, 0, 0, 0)
JobVars == <<rec, plan, events, cursor, phase, gate, coord, acc, queued>>

\* Load the journal. Completed evidence of an earlier operation is left
\* alone; an unfinished one of another operation is refused. A staged
\* interval is assigned the next sequences before it is appended.
DrainLoad ==
  /\ job.pc = "drain"
  /\ \E checked \in Checks :
       IF ~checked THEN Failed /\ UNCHANGED drain /\ Spend(1)
       ELSE IF drain = None \/ (drain.op # gate.op /\ drain.st = "Completed")
       THEN Answer(TRUE, 0, 0, 0) /\ UNCHANGED <<drain, tally>>
       ELSE IF drain.op # gate.op \/ drain.target # gate.target
       THEN Failed /\ UNCHANGED <<drain, tally>>
       ELSE IF drain.st = "Staged"
       THEN \E s \in SavedDrain([drain EXCEPT !.st = "Assigned",
                                              !.first = card.next]) :
              /\ drain' = s.nvs /\ Spend(s.cost)
              /\ IF s.ok THEN job' = [job EXCEPT !.pc = "append"] /\ UNCHANGED result
                         ELSE Failed
       ELSE /\ job' = [job EXCEPT !.pc = IF drain.st = "Assigned" THEN "append"
                                                                 ELSE "scrub"]
            /\ UNCHANGED <<drain, result, tally>>
  /\ UNCHANGED <<JobVars, card>>

\* The journal's intervals that are not yet on the card under their sequence.
containsDataResetDrainRecord(k) ==
  \E r \in card.recs : r.id = drain.ids[k] /\ r.seq = drain.first + k - 1
Missing_Mut ==  \* off by one: the last interval is not looked at
  {k \in 1..Len(drain.ids) - 1 : ~containsDataResetDrainRecord(k)}
Missing == {k \in DOMAIN drain.ids : ~containsDataResetDrainRecord(k)}

\* Append each interval that is not there; then the journal is completed.
DrainAppend ==
  /\ job.pc = "append"
  /\ IF Missing = {}
     THEN \E s \in SavedDrain([drain EXCEPT !.st = "Completed"]) :
            /\ drain' = s.nvs /\ Spend(s.cost)
            /\ IF s.ok THEN job' = [job EXCEPT !.pc = "scrub"] /\ UNCHANGED result
                       ELSE Failed
            /\ UNCHANGED card
     ELSE LET k == Min(Missing)
          IN \E stored \in Checks :
               /\ Spend(Cost(stored))
               /\ IF stored /\ card.next = drain.first + k - 1
                  THEN /\ card' = [card EXCEPT !.next = @ + 1,
                             !.recs = @ \cup {[id |-> drain.ids[k], seq |-> card.next,
                                               gen |-> cursor.gen]}]
                       /\ UNCHANGED <<job, result>>
                  ELSE Failed /\ UNCHANGED card
               /\ UNCHANGED drain
  /\ UNCHANGED JobVars

\* Erase the copies of the payload, then report the journal's range.
DrainScrub ==
  /\ job.pc = "scrub"
  /\ \E scrubbed \in Checks :
       /\ Spend(Cost(scrubbed))
       /\ IF scrubbed
          THEN Answer(TRUE, Len(drain.ids), drain.first + Len(drain.ids) - 1,
                      drain.offset)
          ELSE Failed
  /\ UNCHANGED <<JobVars, drain, card>>

-----------------------------------------------------------------------------
(* StorageTask: the cleanup barrier.                                       *)

\* Events that could not be appended are journalled before anything is
\* deleted; a journal of this operation is not extended.
CleanEvents ==
  LET mine == events # None /\ events.op = job.op
      new == [op |-> job.op, target |-> coord.rec.target, st |-> "Staged",
              event |-> queued]
  IN /\ job.pc = "events"
     /\ IF mine
        THEN job' = [job EXCEPT !.pc = "plan"] /\ UNCHANGED <<events, result, tally>>
        ELSE IF events # None /\ events.st # "Completed"
        THEN Failed /\ UNCHANGED <<events, tally>>
        ELSE \E s \in SavedEvents(new) :
               /\ events' = s.nvs /\ Spend(s.cost)
               /\ IF s.ok THEN job' = [job EXCEPT !.pc = "plan"] /\ UNCHANGED result
                          ELSE Failed
     /\ UNCHANGED <<rec, drain, plan, cursor, card, phase, gate, coord, acc,
                    queued>>

CleanPlan_Mut ==  \* every attempt plans anew
  /\ job.pc = "plan"
  /\ \E s \in Written(plan, [op |-> job.op, target |-> coord.rec.target, st |-> "Planned",
                            files |-> Cardinality(card.recs)], TRUE, 0) :
       /\ plan' = s.nvs /\ Spend(s.cost)
       /\ IF s.ok THEN job' = [job EXCEPT !.pc = "delete"] /\ UNCHANGED result
                  ELSE Failed
  /\ UNCHANGED <<rec, drain, events, cursor, card, phase, gate, coord, acc, queued>>

\* The inventory is journalled before the first file is deleted; a later
\* attempt must find no more than that.
CleanPlan ==
  LET found == Cardinality(card.recs)
      mine == plan # None /\ plan.op = job.op
      new == [op |-> job.op, target |-> coord.rec.target, st |-> "Planned",
              files |-> found]
  IN /\ job.pc = "plan"
     /\ IF mine
        THEN /\ IF found > plan.files \/ (plan.st = "Completed" /\ found > 0)
                THEN Failed
                ELSE job' = [job EXCEPT !.pc = "delete"] /\ UNCHANGED result
             /\ UNCHANGED <<plan, tally>>
        ELSE IF plan # None /\ plan.st # "Completed"
        THEN Failed /\ UNCHANGED <<plan, tally>>
        ELSE \E s \in SavedPlan(new) :
               /\ plan' = s.nvs /\ Spend(s.cost)
               /\ IF s.ok THEN job' = [job EXCEPT !.pc = "delete"] /\ UNCHANGED result
                          ELSE Failed
     /\ UNCHANGED <<rec, drain, events, cursor, card, phase, gate, coord, acc,
                    queued>>

\* What the barrier reports once the plan is known.
FailedCounted == Answer(FALSE, plan.files, 0, 0)

Undeleted_Mut == {r \in card.recs : r.seq < Newest(card.recs)}  \* off by one
\* The files that are still to be deleted.
Undeleted == card.recs

CleanDelete ==
  /\ job.pc = "delete"
  /\ IF Undeleted # {}
     THEN \E deleted \in Checks :
            /\ Spend(Cost(deleted)) /\ UNCHANGED plan
            /\ IF deleted
               THEN /\ \E r \in Undeleted : card' = [card EXCEPT !.recs = @ \ {r}]
                    /\ UNCHANGED <<job, result>>
               ELSE FailedCounted /\ UNCHANGED card
     ELSE \E s \in SavedPlan([plan EXCEPT !.st = "Completed"]) :
            /\ plan' = s.nvs /\ Spend(s.cost) /\ UNCHANGED card
            /\ IF s.ok THEN job' = [job EXCEPT !.pc = "flush"] /\ UNCHANGED result
                       ELSE FailedCounted
  /\ UNCHANGED <<rec, drain, events, cursor, phase, gate, coord, acc, queued>>

owed_Mut(n) == FALSE  \* the journal is completed without its event
\* The journalled event is on the card n times.
owed(n) == events.st = "Staged" /\ events.event # 0 /\ card.events[events.event] = n

\* Append a journalled event that is not on the card, complete the event
\* journal, and give up the copy in RAM. An event found twice is refused.
CleanFlush ==
  LET e == events.event
  IN /\ job.pc = "flush"
     /\ IF owed(2) THEN FailedCounted /\ UNCHANGED <<events, queued, card, tally>>
        ELSE IF owed(0)
        THEN \E stored \in Checks :
               /\ Spend(Cost(stored)) /\ UNCHANGED <<events, queued>>
               /\ IF stored
                  THEN /\ card' = [card EXCEPT !.events[e] = @ + 1]
                       /\ UNCHANGED <<job, result>>
                  ELSE FailedCounted /\ UNCHANGED card
        ELSE \E s \in SavedEvents([events EXCEPT !.st = "Completed"]) :
               /\ events' = s.nvs /\ Spend(s.cost) /\ UNCHANGED card
               /\ IF s.ok THEN Answer(TRUE, plan.files, 0, 0) ELSE FailedCounted
               /\ queued' = IF s.ok /\ queued = e THEN 0 ELSE queued
     /\ UNCHANGED <<rec, drain, plan, cursor, phase, gate, coord, acc>>

\* Outside a barrier an owned event is appended as soon as there is room.
AppendQueued ==
  /\ phase = "up" /\ job.pc = "idle" /\ queued # 0
  /\ card' = [card EXCEPT !.events[queued] = @ + 1]
  /\ queued' = 0
  /\ UNCHANGED <<nvs, phase, gate, coord, job, result, acc, tally>>

-----------------------------------------------------------------------------
(* Power loss and boot.                                                    *)

\* Power may also be lost between two of the cursor writes.
PowerLoss ==
  /\ phase \in {"up", "boot"} /\ tally.crashes < MaxCrash
  /\ phase' = "down"
  /\ tally' = [tally EXCEPT !.crashes = @ + 1]
  /\ IF AtCheckpoint(SequenceAdvanced) /\ cursor.ack <= coord.rec.boundary
     THEN \E k \in 0..3 : cursor' = CursorsAfter(k)
     ELSE UNCHANGED cursor
  /\ gate' = Open /\ coord' = NoCoord /\ job' = NoJob /\ result' = None
  /\ acc' = <<>> /\ queued' = 0
  /\ UNCHANGED <<rec, drain, plan, events, card>>

\* A halted device is switched off and on again.
PowerCycle ==
  /\ phase = "halted" /\ phase' = "down"
  /\ UNCHANGED <<nvs, card, ram, tally>>

\* DataResetCoordinator::begin: a latched commit is taken up again, and the
\* gates stay closed while the record is not terminal.
Begin ==
  LET resumes == /\ rec # None /\ rec.cp = 0 /\ rec.boundary # 0
                 /\ rec.st \in {"Prepared", "AttentionRequired"}
  IN \E bound \in Checks :
       /\ phase' = "up"
       /\ coord' = [NoCoord EXCEPT !.rec = rec,
                                   !.commit = IF resumes THEN rec.boundary ELSE 0]
       /\ gate' = IF readingGateRequired(rec)
                     \/ (rec # None /\ rec.st = "Completed" /\ ~bound)
                  THEN [closed |-> TRUE, quiet |-> FALSE, op |-> rec.op,
                        target |-> rec.target]
                  ELSE Open
       /\ Spend(Cost(bound))

Owned == /\ readingGateRequired(rec)
         /\ drain.op = rec.op /\ drain.target = rec.target

OrphanBinding_Mut == [Open EXCEPT !.op = drain.op]  \* without the generation
\* recoverOrphanedDataResetDrain binds the barrier to the journal's operation.
OrphanBinding == [Open EXCEPT !.op = drain.op, !.target = drain.target]

\* Application::begin up to the drain journal: the sequence floor of the
\* card, and whose journal this is.
Boot ==
  /\ phase = "down"
  /\ card' = [card EXCEPT !.next = Max({@, cursor.ack + 1, cursor.boundary + 1,
                                        IF rec = None THEN 1 ELSE rec.boundary + 1})]
  /\ IF \/ drain = None
        \/ Owned
        \/ drain.st = "Completed" /\ drain.target = cursor.gen
     THEN Begin /\ UNCHANGED job
     ELSE IF drain.target = cursor.gen + 1
     THEN /\ phase' = "boot"
          /\ job' = [pc |-> "drain", op |-> drain.op]
          /\ gate' = OrphanBinding
          /\ UNCHANGED <<coord, tally>>
     ELSE /\ phase' = "halted"
          /\ UNCHANGED <<coord, gate, job, tally>>
  /\ UNCHANGED <<nvs, result, acc, queued>>

\* The orphaned interval is stored: its energy offset is installed, unless
\* the offset has moved on.
BootDrained ==
  /\ phase = "boot" /\ job.pc = "idle" /\ result # None
  /\ result' = None
  /\ IF result.ok /\ result.offset >= cursor.offset
     THEN cursor' = [cursor EXCEPT !.offset = result.offset] /\ Begin
     ELSE phase' = "halted" /\ gate' = Open /\ UNCHANGED <<cursor, coord, tally>>
  /\ UNCHANGED <<rec, drain, plan, events, card, job, acc, queued>>

-----------------------------------------------------------------------------
Storage == DrainLoad \/ DrainAppend \/ DrainScrub \/ CleanEvents \/ CleanPlan
           \/ CleanDelete \/ CleanFlush
Tick == processPendingPrepare \/ queueDataResetBarrier \/ progressPreparing
        \/ processPendingCommit \/ progressCommit \/ ReleaseGates
Power == Boot \/ BootDrained

Next ==
  \/ StoreInterval \/ Accumulate \/ RollOver \/ QueueEvent
  \/ Acknowledge
  \/ requestPrepare
  \/ \E extra \in 0..1 : coord.rec # None /\ requestCommit(coord.rec.required + extra)
  \/ requestCancel \/ StageDrain \/ AppendQueued
  \/ Tick \/ Storage \/ Power \/ PowerLoss \/ PowerCycle

\* StorageTask, the maintenance task that ticks and AggregationTask run for
\* ever, and a device that lost power gets it back.
Fairness == /\ WF_vars(Tick) /\ WF_vars(Storage) /\ WF_vars(StageDrain)
            /\ WF_vars(Power)

Spec == Init /\ [][Next]_vars /\ Fairness

-----------------------------------------------------------------------------
(* Properties.                                                             *)

RecordType == [op : Ops, target : Nat, st : {"Preparing", "Prepared",
                 "Committing", "Completed", "Cancelled", "AttentionRequired"},
               cp : 0..Finished, newest : Nat, next : Nat, count : Nat,
               added : 0..2, last : Nat, required : Nat, boundary : Nat,
               deleted : Nat]
DrainType == [op : Ops, st : {"Staged", "Assigned", "Completed"}, target : Nat,
              ids : Seq(Nat), first : Nat, offset : Nat]
PlanType == [op : Ops, target : Nat, st : {"Planned", "Completed"}, files : Nat]
EventType == [op : Ops, target : Nat, st : {"Staged", "Completed"},
              event : 0..MaxEvent]
RequestType == [op : Ops, target : Nat]
AnswerType == [ok : BOOLEAN, added : Nat, last : Nat, offset : Nat]

\* None is told apart from every value it stands in for.
ASSUME NoneAssumption ==
  /\ None \notin RecordType /\ None \notin DrainType /\ None \notin PlanType
  /\ None \notin EventType /\ None \notin RequestType /\ None \notin AnswerType

CursorType == [ack : Nat, gen : Nat, boundary : Nat, offset : Nat, base : Nat]
StoredType == [id : Nat, seq : Nat, gen : Nat]
CardType == [recs : SUBSET StoredType, next : Nat, events : [1..MaxEvent -> Nat]]
GateType == {g \in [closed : BOOLEAN, quiet : BOOLEAN, op : Ops \cup {None},
                     target : Nat] : g.closed => g.op \in Ops}
CoordType == [rec : RecordType \cup {None}, prepare : RequestType \cup {None},
              commit : Nat, want : {"none", "drain", "clean"}]
JobType == [pc : {"idle", "drain", "append", "scrub", "events", "plan", "delete",
                  "flush"},
            op : Ops \cup {None}]
TallyType == [intervals : Nat, events : 0..MaxEvent, crashes : Nat, faults : Nat,
              handed : SUBSET [id : Nat, gen : Nat]]

\* The durable record and the one in RAM are well formed and at a checkpoint
\* their state allows, the journals, the gates and the barrier are well
\* formed, and a journal holds one or two intervals.
TypeOK ==
  /\ rec \in RecordType \cup {None} /\ drain \in DrainType \cup {None}
  /\ plan \in PlanType \cup {None} /\ events \in EventType \cup {None}
  /\ cursor \in CursorType /\ card \in CardType /\ IsFiniteSet(card.recs)
  /\ phase \in {"down", "boot", "up", "halted"}
  /\ gate \in GateType /\ coord \in CoordType /\ job \in JobType
  /\ result \in AnswerType \cup {None} /\ acc \in Seq(Nat) /\ Len(acc) <= 2
  /\ queued \in 0..MaxEvent /\ tally \in TallyType
  /\ \A r \in {rec, coord.rec} \ {None} : validStateCheckpoint(r.st, r.cp)
  /\ drain # None => Len(drain.ids) \in 1..2

\* An interval whose drain was staged is on the card exactly once or in a
\* journal that is not completed, until its generation is reset: power lost
\* between assigning, appending and completing neither loses nor repeats it.
DrainedExactlyOnce ==
  /\ \A r, s \in card.recs : r.id = s.id => r = s
  /\ \A h \in tally.handed : h.gen = cursor.gen =>
       \/ \E r \in card.recs : r.id = h.id
       \/ /\ drain # None /\ drain.st # "Completed"
          /\ \E k \in DOMAIN drain.ids : drain.ids[k] = h.id

\* A reading of an earlier generation is on the card only while an authorized
\* reset is being carried out, and a reading of the current generation lies
\* above the boundary that reset approved.
GenerationsSeparated ==
  \A r \in card.recs :
    /\ r.gen < cursor.gen =>
         /\ rec # None /\ ~terminalState(rec)
         /\ rec.cp \in {SequenceAdvanced, CursorsAdvanced}
    /\ r.gen = cursor.gen => r.seq > cursor.boundary

\* Once the record says Completed the whole reset has happened, and the
\* number of deleted files is the number counted at Prepared, whatever
\* attempts, power losses and failures came in between.
CompletedIsWhole ==
  rec # None /\ rec.st = "Completed" =>
    /\ cursor.gen = rec.target /\ cursor.boundary = rec.boundary
    /\ cursor.ack >= rec.boundary /\ cursor.base = rec.target
    /\ card.next > rec.boundary /\ rec.boundary >= rec.required
    /\ rec.deleted = rec.count

\* An event that the reset took over is never lost: when its journal is
\* completed, it is on the card.
EventsPreserved ==
  events # None /\ events.event # 0 /\ events.st = "Completed" =>
    card.events[events.event] > 0

\* Boot stops only because of a completed journal that no longer fits the
\* generation or the energy offset, or because of a failed operation: an
\* interval still to be stored never stops it.
UnfinishedDrainBoots ==
  phase = "halted" /\ tally.faults = 0 => drain.st = "Completed"

Recorded(states) == rec # None /\ rec.st \in states
Unconfirmed == /\ coord.rec # None /\ rec # None /\ coord.rec.cp < rec.cp
               /\ rec.cp \in {CommitAuthorized, Verified, Finished}

\* An authorized reset ends and the device measures again, also when it is
\* found completed after a restart, unless it stopped for attention, the server
\* has opened the next operation, the boot refuses the drain journal, or a
\* record with the clock or the meter in it is durable although the coordinator
\* was told that it is not: every repetition may be refused until a restart,
\* after which the reset must end.
AuthorizedEnds ==
  Recorded({"Committing", "Completed"})
    ~> \/ phase = "up" /\ ~gate.closed
       \/ Recorded({"AttentionRequired", "Preparing", "Prepared", "Cancelled"})
       \/ phase = "halted" \/ coord.prepare # None
       \/ phase = "up" /\ Unconfirmed

\* The abstract phase of a record.
Outcome(r) ==
  IF r = None THEN "idle"
  ELSE IF r.st = "Completed" THEN "completed"
  ELSE IF r.st = "Cancelled" THEN "cancelled"
  ELSE IF commitPointReached(r) THEN "authorized" ELSE "open"

Transaction == INSTANCE ResetTransaction WITH
  op <- IF rec = None THEN None ELSE rec.op, NoOp <- None,
  phase <- Outcome(rec),
  generation <- cursor.gen,
  readings <- {r.id : r \in card.recs}

\* The coordinator with its journals, its checkpoints and the boot implements the
\* abstract reset transaction: one outcome, and readings leave the card only then.
ImplementsTransaction == Transaction!Spec

\* docs/API.md on a power loss: "boot recovery resumes the first incomplete
\* durable checkpoint while keeping reading gates closed".
BootResumes == phase = "halted" /\ tally.faults = 0 => ~readingGateRequired(rec)

\* DataResetEventStore.h on a preserved event: "A unique source identity must
\* occur exactly once on the card."
EventOnCardOnce == \A e \in 1..MaxEvent : card.events[e] <= 1
=============================================================================
