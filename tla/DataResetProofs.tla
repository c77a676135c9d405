-------------------------- MODULE DataResetProofs ----------------------------
(***************************************************************************)
(* Proofs about DataReset, for every number of operations, intervals,      *)
(* events, power losses and failing operations: the type invariant,        *)
(* DrainedExactlyOnce, GenerationsSeparated, CompletedIsWhole,             *)
(* EventsPreserved and UnfinishedDrainBoots, and that the coordinator with *)
(* its journals implements ResetTransaction.                               *)
(*                                                                         *)
(* A record is saved, lost or saved unconfirmed, so the durable record and *)
(* the one in RAM may differ: RelationInv says by how much, RecordsInv     *)
(* what each of the two promises about the card, the cursors and the       *)
(* journals at its checkpoint.  GateInv and JobInv say who may be at work  *)
(* at that checkpoint, PendingInv and HandedInv where a staged interval is. *)
(***************************************************************************)
EXTENDS DataReset, TLAPS, FiniteSetTheorems, SequenceTheorems,
        WellFoundedInduction

DrainSteps == {"drain", "append", "scrub"}
CleanSteps == {"events", "plan", "delete", "flush"}

\* No reset is under way by this record; its evidence has been captured.
Final(r) == r = None \/ terminalState(r)
Pinned(r) == ~Final(r) /\ r.st # "Preparing"
\* A drain journal with intervals that are still to be stored.
Pending(d) == d # None /\ d.st # "Completed"
\* The cleanup journal is the record's.
Planned(p, r) == p # None /\ p.op = r.op

\* The number of files recorded for Prepared is the number planned, or found.
Counted(r, ca, p) == IF Planned(p, r) THEN p.files = r.count
                                      ELSE Cardinality(ca.recs) = r.count

\* What a record promises at its checkpoint about the cursors, the card, the
\* cleanup journal, the drain journal and the intervals handed over.
Held(r, cu, ca, p, d, ha) ==
  /\ r.st \in {"Preparing", "Cancelled"} => r.boundary = 0
  /\ r.st = "Preparing" => r.deleted = 0
  /\ r.boundary # 0 => r.boundary >= r.required
  /\ r.cp >= CommitAuthorized => r.boundary # 0
  /\ r.cp >= SequenceAdvanced => ca.next > r.boundary
  /\ r.cp >= CursorsAdvanced =>
       cu.gen = r.target /\ cu.boundary = r.boundary /\ cu.ack >= r.boundary
  /\ r.cp >= ReadingsCleared => r.deleted = r.count
  /\ r.cp >= BaselineInstalled => cu.base = r.target
  /\ ~Final(r) =>
       /\ r.target = cu.gen + 1 \/ (r.cp >= SequenceAdvanced /\ r.target = cu.gen)
       /\ r.cp >= ReadingsCleared => ca.recs = {}
       /\ r.target = cu.gen => /\ \A x \in ca.recs : x.gen < cu.gen
                               /\ \A x \in ha : x.gen < cu.gen
  /\ Pinned(r) =>
       r.deleted \in {0, r.count} /\ ~Pending(d) /\ Counted(r, ca, p)

HeldNow(r) == Held(r, cursor, card, plan, drain, tally.handed)

\* Both records keep their promises.
RecordsInv == /\ rec # None => HeldNow(rec)
              /\ coord.rec # None => HeldNow(coord.rec)

\* The durable record r is the one in RAM or one unconfirmed save ahead of it.
Related(c, r) ==
  /\ r # None /\ r.op = c.op /\ r.target = c.target
  /\ r.cp = c.cp \/ r.cp = c.cp + 1
  /\ c.boundary = 0 => r.cp = 0
  /\ c.boundary # 0 => r.boundary = c.boundary
  /\ terminalState(c) => r = c

RelationInv ==
  phase = "up" =>
    /\ coord.prepare # None => rec = coord.rec \/ rec = Preparing(coord.prepare)
    /\ coord.prepare = None =>
         IF coord.rec = None THEN rec = None ELSE Related(coord.rec, rec)

\* What is in RAM before the coordinator has begun, and why a boot stops.
PhaseInv ==
  /\ phase # "up" => coord = NoCoord /\ acc = <<>>
  /\ phase \in {"down", "halted"} => job.pc = "idle" /\ result = None
  /\ phase = "boot" =>
       /\ drain # None /\ gate.op = drain.op /\ gate.target = drain.target
       /\ job.pc \in DrainSteps \cup {"idle"}
       /\ result # None /\ result.ok => drain.st = "Completed"
       /\ result # None /\ ~result.ok => tally.faults > 0
  /\ phase = "halted" =>
       drain # None /\ (tally.faults = 0 => drain.st = "Completed")

\* Who holds the gates, and what is pending behind them.
GateInv ==
  /\ phase = "up" /\ ~gate.closed => coord.prepare = None /\ Final(coord.rec)
  /\ coord.prepare # None =>
       /\ gate.closed /\ Final(coord.rec)
       /\ coord.prepare.target = cursor.gen + 1
       /\ coord.rec # None => coord.prepare.op > coord.rec.op
  /\ coord.commit # 0 => /\ coord.rec # None
                         /\ coord.rec.st \in {"Prepared", "AttentionRequired"}
                         /\ coord.rec.boundary = coord.commit
  /\ acc # <<>> => /\ Final(coord.rec)
                   /\ gate.closed => /\ coord.prepare # None /\ ~gate.quiet
                                     /\ gate.target = cursor.gen + 1

\* The barrier in progress belongs to the operation that asked for it.
JobInv ==
  /\ coord.want = "drain" => coord.rec # None /\ coord.rec.st = "Preparing"
  /\ coord.want = "clean" => /\ coord.rec # None /\ coord.rec.st = "Committing"
                             /\ coord.rec.cp = CursorsAdvanced
                             /\ job.pc \in CleanSteps \cup {"idle"}
  /\ job.pc \in CleanSteps => coord.want = "clean" /\ job.op = coord.rec.op
  /\ job.pc \in {"plan", "delete", "flush"} => events # None
  /\ job.pc \in {"delete", "flush"} => plan # None /\ plan.op = job.op
  /\ job.pc = "flush" => card.recs = {}
  /\ job.pc = "append" => drain # None /\ drain.st = "Assigned"
  /\ job.pc = "scrub" => drain # None
  /\ job.pc = "scrub" /\ (coord.want = "drain" \/ phase = "boot") => ~Pending(drain)

\* What an answer says that the coordinator waits for.
ResultInv ==
  result # None =>
    /\ coord.want = "drain" =>
         result.added <= 2 /\ (result.ok => ~Pending(drain))
    /\ coord.want = "clean" =>
         /\ result.ok \/ result.added # 0 =>
              Planned(plan, coord.rec) /\ result.added = plan.files
         /\ result.ok => card.recs = {}

\* A cleanup journal is that of an earlier operation, or of one that has come
\* as far as its cleanup.
PlanInv ==
  plan # None =>
    /\ rec # None /\ plan.op <= rec.op
    /\ plan.op = rec.op => rec.cp >= CursorsAdvanced
    /\ coord.rec # None /\ plan.op = coord.rec.op => coord.rec.cp >= CursorsAdvanced

\* Every stored record is below the next sequence, and is there once.
CardInv ==
  /\ \A r \in card.recs : r.id <= tally.intervals /\ r.seq < card.next
  /\ \A r, s \in card.recs : r.id = s.id => r = s
  /\ card.next > cursor.ack /\ card.next > cursor.boundary

\* No generation is ahead of the cursor, and one behind it is being reset.
GenInv ==
  /\ \A x \in card.recs :
       /\ x.gen <= cursor.gen
       /\ x.gen < cursor.gen =>
            rec # None /\ ~terminalState(rec) /\ rec.target = cursor.gen
       /\ x.gen = cursor.gen => x.seq > cursor.boundary
  /\ \A x \in tally.handed : x.gen <= cursor.gen

Distinct(ids) == \A j, k \in DOMAIN ids : ids[j] = ids[k] => j = k
Measured(ids) == \A k \in DOMAIN ids : ids[k] <= tally.intervals

\* Open intervals are new, or already in the journal of their own operation.
AccInv ==
  acc # <<>> =>
    /\ Distinct(acc) /\ Measured(acc)
    /\ \/ /\ ~Pending(drain)
          /\ \A r \in card.recs : \A k \in DOMAIN acc : r.id # acc[k]
       \/ gate.closed /\ drain # None /\ drain.op = gate.op /\ drain.ids = acc

\* An unfinished journal is that of the next generation and keeps the gates
\* closed; what is stored of it lies at its sequences, the rest fits behind.
PendingInv ==
  Pending(drain) =>
    /\ drain.target = cursor.gen + 1
    /\ phase = "up" => gate.closed /\ (coord.prepare # None \/ ~Final(coord.rec))
    /\ Distinct(drain.ids) /\ Measured(drain.ids)
    /\ \A r \in card.recs : \A k \in DOMAIN drain.ids :
         r.id = drain.ids[k] => drain.st = "Assigned" /\ r.seq = drain.first + k - 1
    /\ drain.st = "Assigned" =>
         /\ drain.first <= card.next
         /\ \A k \in Missing : card.next <= drain.first + k - 1

\* What was handed over in this generation is on the card or in the journal.
HandedInv ==
  \A h \in tally.handed : h.gen = cursor.gen =>
    \/ \E r \in card.recs : r.id = h.id
    \/ Pending(drain) /\ \E k \in DOMAIN drain.ids : drain.ids[k] = h.id

\* A completed event journal has its event on the card.
EventInv == EventsPreserved

ResetInv == /\ TypeOK /\ RecordsInv /\ RelationInv /\ PhaseInv /\ GateInv
            /\ JobInv /\ ResultInv /\ PlanInv /\ CardInv /\ GenInv
            /\ AccInv /\ PendingInv /\ HandedInv /\ EventInv

-----------------------------------------------------------------------------
(* Numbers                                                                 *)

\* A set of numbers has a least one.
LEMMA LeastNatural ==
  ASSUME NEW S \in SUBSET Nat, S # {}
  PROVE  \E m \in S : \A s \in S : m <= s
<1>. DEFINE R == OpToRel(<, Nat)
<1>1. IsWellFoundedOn(R, Nat)
  BY NatLessThanWellFounded
<1>2. PICK x \in S : \A y \in S : ~(<<y, x>> \in R)
  BY <1>1, WFMin
<1>3. \A y \in Nat : y < x => <<y, x>> \in R
  BY DEF OpToRel
<1>. HIDE DEF R
<1>4. \A y \in S : ~(y < x)
  BY <1>2, <1>3
<1>. QED  BY <1>4

\* Max returns the largest member of a bounded set of numbers.
LEMMA MaxIsLargest ==
  ASSUME NEW bound \in Nat, NEW S \in SUBSET (0 .. bound), S # {}
  PROVE  Max(S) \in S /\ \A s \in S : s <= Max(S)
<1>0. S \in SUBSET Nat /\ \A s \in S : s <= bound
  OBVIOUS
<1>. DEFINE T == {n \in Nat : \E s \in S : n + s = bound}
<1>1. T # {}
  <2>1. PICK s \in S : TRUE
    OBVIOUS
  <2>2. bound - s \in T
    BY <1>0, <2>1
  <2>. QED  BY <2>2
<1>2. PICK n \in T : \A x \in T : n <= x
  BY <1>1, LeastNatural
<1>3. PICK m \in S : n + m = bound
  BY <1>2
<1>4. ASSUME NEW s \in S PROVE m >= s
  <2>1. bound - s \in T
    BY <1>0
  <2>2. n <= bound - s /\ n \in Nat /\ m \in Nat /\ s \in Nat
    BY <1>0, <1>2, <1>3, <2>1
  <2>. QED  BY <1>0, <1>3, <2>2
<1>5. Max(S) \in S /\ \A s \in S : Max(S) >= s
  BY <1>4 DEF Max
<1>. QED  BY <1>0, <1>5

\* The largest of four numbers.
LEMMA MaxOfFour ==
  ASSUME NEW a \in Int, NEW b \in Int, NEW c \in Int, NEW d \in Int
  PROVE  /\ Max({a, b, c, d}) \in {a, b, c, d}
         /\ Max({a, b, c, d}) >= a /\ Max({a, b, c, d}) >= b
         /\ Max({a, b, c, d}) >= c /\ Max({a, b, c, d}) >= d
<1>1. \E x \in {a, b, c, d} : \A y \in {a, b, c, d} : x >= y
  <2>1. PICK x \in {a, b} : x >= a /\ x >= b
    OBVIOUS
  <2>2. PICK y \in {c, d} : y >= c /\ y >= d
    OBVIOUS
  <2>. QED  BY <2>1, <2>2
<1>2. /\ Max({a, b, c, d}) \in {a, b, c, d}
      /\ \A y \in {a, b, c, d} : Max({a, b, c, d}) >= y
  BY <1>1 DEF Max
<1>. QED  BY <1>2

\* The newest sequence on the card is a number below the next one.
LEMMA NewestBelowNext ==
  ASSUME card \in CardType, CardInv, cursor \in CursorType
  PROVE  Newest(card.recs) \in Nat /\ Newest(card.recs) < card.next
<1>1. card.next \in Nat /\ card.next > 0
  BY DEF CardType, CursorType, CardInv
<1>2. Sequences_(card.recs) \cup {0} \in SUBSET (0..(card.next - 1))
  <2>1. ASSUME NEW r \in card.recs PROVE r.seq \in 0..(card.next - 1)
    BY <1>1, <2>1 DEF CardType, StoredType, CardInv
  <2>. QED  BY <1>1, <2>1 DEF Sequences_
<1>3. card.next - 1 \in Nat /\ Sequences_(card.recs) \cup {0} # {}
  BY <1>1
<1>4. Max(Sequences_(card.recs) \cup {0}) \in Sequences_(card.recs) \cup {0}
  BY ONLY <1>2, <1>3, MaxIsLargest
<1>5. Newest(card.recs) \in 0..(card.next - 1)
  BY <1>2, <1>4 DEF Newest
<1>. QED  BY <1>1, <1>5

-----------------------------------------------------------------------------
(* Durable writes                                                          *)

\* A write leaves the old or the new value, the new one when it is confirmed
\* or when it is legal; a legal write that is not confirmed costs a fault.
LEMMA WrittenOutcome ==
  ASSUME NEW cur, NEW new, NEW legal \in BOOLEAN, NEW spent \in Nat,
         NEW s \in Written(cur, new, legal, spent)
  PROVE  /\ s.ok \in BOOLEAN /\ s.cost \in Nat /\ s.cost >= spent
         /\ s.nvs = cur \/ s.nvs = new
         /\ s.ok => s.nvs = new
         /\ s.nvs # cur => legal
         /\ ~s.ok /\ legal => s.cost > spent
<1>1. CASE ~legal
  <2>1. s = [nvs |-> cur, ok |-> FALSE, cost |-> spent]
    BY <1>1 DEF Written
  <2>. QED  BY <1>1, <2>1
<1>2. CASE legal
  <2>1. CASE s = [nvs |-> new, ok |-> TRUE, cost |-> spent]
    BY <1>2, <2>1
  <2>2. CASE \E n \in {cur, new} : s = [nvs |-> n, ok |-> FALSE, cost |-> spent + 1]
    BY <1>2, <2>2
  <2>. QED  BY <1>2, <2>1, <2>2 DEF Written
<1>. QED  BY <1>1, <1>2

\* The same of a record of the operation.
LEMMA SavedOutcome ==
  ASSUME NEW cur, NEW new, NEW spent \in Nat, NEW s,
         \/ s \in Saved(cur, new, spent)
         \/ s \in SavedFresh(cur, new, spent)
  PROVE  /\ s.ok \in BOOLEAN /\ s.cost \in Nat /\ s.cost >= spent
         /\ s.nvs = cur \/ s.nvs = new
         /\ s.ok => s.nvs = new
         /\ s.nvs # cur => validRecordUpdate(cur, new)
<1>. DEFINE valid == validRecordUpdate(cur, new)
            fresh == cur # new /\ validRecordUpdate(cur, new)
<1>1. valid \in BOOLEAN /\ fresh \in BOOLEAN
  BY DEF validRecordUpdate
<1>2. \/ s = [nvs |-> cur, ok |-> TRUE, cost |-> spent] /\ cur = new
      \/ s \in Written(cur, new, valid, spent)
      \/ s \in Written(cur, new, fresh, spent)
  BY DEF Saved, SavedFresh
<1>3. CASE s = [nvs |-> cur, ok |-> TRUE, cost |-> spent] /\ cur = new
  BY <1>3
<1>4. CASE s \in Written(cur, new, valid, spent)
  <2>. HIDE DEF valid
  <2>1. /\ s.ok \in BOOLEAN /\ s.cost \in Nat /\ s.cost >= spent
        /\ s.nvs = cur \/ s.nvs = new
        /\ s.ok => s.nvs = new
        /\ s.nvs # cur => valid
    BY <1>1, <1>4, WrittenOutcome
  <2>. QED  BY <2>1 DEF valid
<1>5. CASE s \in Written(cur, new, fresh, spent)
  <2>. HIDE DEF fresh
  <2>1. /\ s.ok \in BOOLEAN /\ s.cost \in Nat /\ s.cost >= spent
        /\ s.nvs = cur \/ s.nvs = new
        /\ s.ok => s.nvs = new
        /\ s.nvs # cur => fresh
    BY <1>1, <1>5, WrittenOutcome
  <2>. QED  BY <2>1 DEF fresh
<1>. QED  BY <1>2, <1>3, <1>4, <1>5

\* The same of the drain journal.
LEMMA SavedDrainOutcome ==
  ASSUME NEW new, NEW s \in SavedDrain(new)
  PROVE  /\ s.ok \in BOOLEAN /\ s.cost \in Nat
         /\ s.nvs = drain \/ s.nvs = new
         /\ s.ok => s.nvs = new
         /\ s.nvs # drain => validDrainRecordUpdate(drain, new)
         /\ ~s.ok /\ validDrainRecordUpdate(drain, new) => s.cost > 0
<1>1. CASE drain = new
  <2>1. s = [nvs |-> drain, ok |-> TRUE, cost |-> 0]
    BY <1>1 DEF SavedDrain
  <2>. QED  BY <1>1, <2>1
<1>2. CASE drain # new
  <2>1. s \in Written(drain, new, validDrainRecordUpdate(drain, new), 0)
    BY <1>2 DEF SavedDrain
  <2>2. validDrainRecordUpdate(drain, new) \in BOOLEAN
    BY DEF validDrainRecordUpdate
  <2>. QED  BY <2>1, <2>2, WrittenOutcome
<1>. QED  BY <1>1, <1>2

\* The same of the cleanup journal.
LEMMA SavedPlanOutcome ==
  ASSUME NEW new, NEW s \in SavedPlan(new)
  PROVE  /\ s.ok \in BOOLEAN /\ s.cost \in Nat
         /\ s.nvs = plan \/ s.nvs = new
         /\ s.ok => s.nvs = new
<1>1. CASE plan = new
  <2>1. s = [nvs |-> plan, ok |-> TRUE, cost |-> 0]
    BY <1>1 DEF SavedPlan
  <2>. QED  BY <1>1, <2>1
<1>2. CASE plan # new
  <2>1. s \in Written(plan, new, validCleanupRecordUpdate(plan, new), 0)
    BY <1>2 DEF SavedPlan
  <2>2. validCleanupRecordUpdate(plan, new) \in BOOLEAN
    BY DEF validCleanupRecordUpdate
  <2>. QED  BY <2>1, <2>2, WrittenOutcome
<1>. QED  BY <1>1, <1>2

\* The same of the event journal.
LEMMA SavedEventsOutcome ==
  ASSUME NEW new, NEW s \in SavedEvents(new)
  PROVE  /\ s.ok \in BOOLEAN /\ s.cost \in Nat
         /\ s.nvs = events \/ s.nvs = new
         /\ s.ok => s.nvs = new
<1>1. CASE events = new
  <2>1. s = [nvs |-> events, ok |-> TRUE, cost |-> 0]
    BY <1>1 DEF SavedEvents
  <2>. QED  BY <1>1, <2>1
<1>2. CASE events # new
  <2>1. s \in Written(events, new, validEventJournalRecordUpdate(events, new), 0)
    BY <1>2 DEF SavedEvents
  <2>2. validEventJournalRecordUpdate(events, new) \in BOOLEAN
    BY DEF validEventJournalRecordUpdate
  <2>. QED  BY <2>1, <2>2, WrittenOutcome
<1>. QED  BY <1>1, <1>2

\* A legal update, or none.
Updates_(cur, new) == new = cur \/ validRecordUpdate(cur, new)

\* Asking for attention leaves the record, or both records agree on it.
LEMMA AttendedOutcome ==
  ASSUME NEW cur, NEW spent \in Nat, NEW a \in Attended(cur, spent)
  PROVE  /\ a.cost \in Nat /\ a.cost >= spent
         /\ \/ a.rec = Attention(coord.rec) /\ a.nvs = Attention(coord.rec)
            \/ a.rec = coord.rec /\ (a.nvs = cur \/ a.nvs = Attention(coord.rec))
         /\ Updates_(cur, a.nvs)
<1>1. PICK s \in Saved(cur, Attention(coord.rec), spent) :
        a = [nvs |-> s.nvs,
             rec |-> IF s.ok THEN Attention(coord.rec) ELSE coord.rec,
             cost |-> s.cost]
  BY DEF Attended
<1>. HIDE DEF Attention
<1>2. /\ s.ok \in BOOLEAN /\ s.cost \in Nat /\ s.cost >= spent
      /\ s.nvs = cur \/ s.nvs = Attention(coord.rec)
      /\ s.ok => s.nvs = Attention(coord.rec)
      /\ s.nvs # cur => validRecordUpdate(cur, Attention(coord.rec))
  BY <1>1, SavedOutcome
<1>. QED  BY <1>1, <1>2 DEF Updates_

\* A step from the record in RAM to new, or to a request for attention.
Stepped(new, a) ==
  \/ a.rec = new /\ a.nvs = new
  \/ a.rec = Attention(coord.rec) /\ a.nvs = Attention(coord.rec)
  \/ a.rec = coord.rec /\ (a.nvs = rec \/ a.nvs = new \/ a.nvs = Attention(coord.rec))

\* Advancing steps, by one legal update or by two: new and then attention.
LEMMA AdvancedOutcome ==
  ASSUME NEW new, NEW a \in Advanced(new)
  PROVE  /\ a.cost \in Nat /\ Stepped(new, a)
         /\ \E m : Updates_(rec, m) /\ (m = rec \/ m = new) /\ Updates_(m, a.nvs)
<1>1. PICK s : /\ s \in Saved(rec, new, 0) \/ s \in SavedFresh(rec, new, 0)
               /\ a \in IF s.ok THEN {[nvs |-> s.nvs, rec |-> new, cost |-> s.cost]}
                                ELSE Attended(s.nvs, s.cost)
  BY DEF Advanced
<1>2. /\ s.ok \in BOOLEAN /\ s.cost \in Nat
      /\ s.nvs = rec \/ s.nvs = new
      /\ s.ok => s.nvs = new
      /\ s.nvs # rec => validRecordUpdate(rec, new)
  BY <1>1, SavedOutcome
<1>3. Updates_(rec, s.nvs)
  BY <1>2 DEF Updates_
<1>4. CASE s.ok
  BY <1>1, <1>2, <1>3, <1>4 DEF Stepped, Updates_
<1>5. CASE ~s.ok
  <2>1. a \in Attended(s.nvs, s.cost)
    BY <1>1, <1>5
  <2>2. /\ a.cost \in Nat
        /\ \/ a.rec = Attention(coord.rec) /\ a.nvs = Attention(coord.rec)
           \/ a.rec = coord.rec /\ (a.nvs = s.nvs \/ a.nvs = Attention(coord.rec))
        /\ Updates_(s.nvs, a.nvs)
    BY <1>2, <2>1, AttendedOutcome
  <2>. QED  BY <1>2, <1>3, <2>2 DEF Stepped
<1>. QED  BY <1>2, <1>4, <1>5

-----------------------------------------------------------------------------
(* The records that follow a record                                        *)

\* A well-formed record that keeps its promises.
Good(r, cu, ca, p, d, ha) ==
  /\ r \in RecordType /\ validStateCheckpoint(r.st, r.cp)
  /\ Held(r, cu, ca, p, d, ha)

\* A record is not None.
LEMMA RecordIsSome == ASSUME NEW r \in RecordType PROVE r # None
  BY NoneAssumption

\* The order of the checkpoints in numbers.
LEMMA Checkpoints ==
  /\ CommitAuthorized = 1 /\ SequenceAdvanced = 2 /\ CursorsAdvanced = 3
  /\ ReadingsCleared = 4 /\ BaselineInstalled = 5 /\ Verified = 6 /\ Finished = 7
  BY DEF CommitAuthorized, SequenceAdvanced, CursorsAdvanced, ReadingsCleared,
         BaselineInstalled, Verified, Finished

\* A request for attention keeps the promises of the record it stops.
LEMMA AttentionHolds ==
  ASSUME NEW cu \in CursorType, NEW ca \in CardType, NEW p, NEW d, NEW ha,
         NEW c, Good(c, cu, ca, p, d, ha), c.st \in {"Prepared", "Committing"}
  PROVE  Good(Attention(c), cu, ca, p, d, ha) /\ Related(c, Attention(c))
<1>. DEFINE n == Attention(c)
<1>1. /\ n \in RecordType /\ c \in RecordType
      /\ n.op = c.op /\ n.target = c.target /\ n.st = "AttentionRequired"
      /\ n.cp = c.cp /\ n.count = c.count /\ n.required = c.required
      /\ n.boundary = c.boundary /\ n.deleted = c.deleted
  BY DEF Good, Attention, RecordType
<1>2. n # None /\ c # None
  BY <1>1, RecordIsSome
<1>. HIDE DEF n
<1>3. validStateCheckpoint(n.st, n.cp)
  BY <1>1, Checkpoints DEF Good, validStateCheckpoint
<1>4. ~terminalState(n) /\ ~terminalState(c)
  BY <1>1 DEF terminalState
<1>5. Held(n, cu, ca, p, d, ha)
  BY <1>1, <1>2, <1>4, Checkpoints DEF Good, Held, Final, Pinned, Counted,
     Planned
<1>6. Related(c, n)
  BY <1>1, <1>2, <1>4, Checkpoints DEF Good, Held, Related, RecordType
<1>. QED  BY <1>1, <1>3, <1>5, <1>6 DEF Good, n

\* The next checkpoint, given what has been done to reach it.
LEMMA NextHolds ==
  ASSUME NEW cu \in CursorType, NEW ca \in CardType, NEW p, NEW d, NEW ha,
         NEW c, Good(c, cu, ca, p, d, ha), c.st = "Committing",
         c.cp # Verified,
         c.cp = CommitAuthorized => ca.next > c.boundary,
         c.cp = SequenceAdvanced =>
           cu.gen = c.target /\ cu.boundary = c.boundary /\ cu.ack >= c.boundary,
         c.cp = CursorsAdvanced => c.deleted = c.count /\ ca.recs = {},
         c.cp = ReadingsCleared => cu.base = c.target
  PROVE  Good(Next_(c), cu, ca, p, d, ha) /\ Related(c, Next_(c))
<1>. DEFINE n == Next_(c)
<1>0. c \in RecordType /\ c.cp \in 1..5
  BY Checkpoints DEF Good, validStateCheckpoint
<1>1. /\ n \in RecordType
      /\ n.op = c.op /\ n.target = c.target /\ n.st = "Committing"
      /\ n.cp = c.cp + 1 /\ n.count = c.count /\ n.required = c.required
      /\ n.boundary = c.boundary /\ n.deleted = c.deleted
  BY <1>0, Checkpoints DEF Next_, RecordType
<1>2. n # None /\ c # None
  BY <1>0, <1>1, RecordIsSome
<1>. HIDE DEF n
<1>3. validStateCheckpoint(n.st, n.cp)
  BY <1>0, <1>1, Checkpoints DEF validStateCheckpoint
<1>4. ~terminalState(n) /\ ~terminalState(c)
  BY <1>1 DEF terminalState
<1>5. Held(n, cu, ca, p, d, ha)
  BY <1>0, <1>1, <1>2, <1>4, Checkpoints
  DEF Good, Held, Final, Pinned, Counted, Planned
<1>6. Related(c, n)
  BY <1>0, <1>1, <1>2, <1>4, Checkpoints DEF Good, Held, Related, RecordType
<1>. QED  BY <1>1, <1>3, <1>5, <1>6 DEF Good, n

\* The completed record.
CompletedOf(c) == [Next_(c) EXCEPT !.st = "Completed"]

\* A verified reset may be called completed.
LEMMA CompletedHolds ==
  ASSUME NEW cu \in CursorType, NEW ca \in CardType, NEW p, NEW d, NEW ha,
         NEW c, Good(c, cu, ca, p, d, ha), c.st = "Committing", c.cp = Verified
  PROVE  /\ Good(CompletedOf(c), cu, ca, p, d, ha) /\ Related(c, CompletedOf(c))
         /\ CompletedOf(c).st = "Completed" /\ ca.recs = {}
<1>. DEFINE n == CompletedOf(c)
<1>0. c \in RecordType /\ c.cp = 6
  BY Checkpoints DEF Good
<1>1. /\ n \in RecordType
      /\ n.op = c.op /\ n.target = c.target /\ n.st = "Completed"
      /\ n.cp = 7 /\ n.count = c.count /\ n.required = c.required
      /\ n.boundary = c.boundary /\ n.deleted = c.deleted
  <2>. DEFINE m == Next_(c)
  <2>1. /\ m \in RecordType
        /\ m.op = c.op /\ m.target = c.target
        /\ m.cp = 7 /\ m.count = c.count /\ m.required = c.required
        /\ m.boundary = c.boundary /\ m.deleted = c.deleted
    BY <1>0, Checkpoints DEF Next_, RecordType
  <2>2. n = [m EXCEPT !.st = "Completed"]
    BY DEF CompletedOf
  <2>. HIDE DEF m, n
  <2>. QED  BY <2>1, <2>2 DEF RecordType
<1>2. n # None /\ c # None
  BY <1>0, <1>1, RecordIsSome
<1>. HIDE DEF n
<1>3. validStateCheckpoint(n.st, n.cp)
  BY <1>0, <1>1, Checkpoints DEF validStateCheckpoint
<1>4. terminalState(n) /\ ~terminalState(c)
  BY <1>1 DEF terminalState
<1>5. Held(n, cu, ca, p, d, ha) /\ ca.recs = {}
  BY <1>0, <1>1, <1>2, <1>4, Checkpoints
  DEF Good, Held, Final, Pinned, Counted, Planned
<1>6. Related(c, n)
  BY <1>0, <1>1, <1>2, <1>4, Checkpoints DEF Good, Held, Related, RecordType
<1>. QED  BY <1>1, <1>3, <1>5, <1>6 DEF Good, n

\* The record with the number of deleted files.
DeletedOf(c, n) == [c EXCEPT !.deleted = n]

\* The count of the plan, or none, may be recorded as deleted.
LEMMA DeletedHolds ==
  ASSUME NEW cu \in CursorType, NEW ca \in CardType, NEW p, NEW d, NEW ha,
         NEW c, Good(c, cu, ca, p, d, ha), c.st = "Committing",
         c.cp = CursorsAdvanced, NEW del \in Nat, del \in {0, c.count}
  PROVE  Good(DeletedOf(c, del), cu, ca, p, d, ha) /\ Related(c, DeletedOf(c, del))
<1>. DEFINE n == DeletedOf(c, del)
<1>0. c \in RecordType /\ c.cp = 3
  BY Checkpoints DEF Good
<1>1. /\ n \in RecordType
      /\ n.op = c.op /\ n.target = c.target /\ n.st = "Committing"
      /\ n.cp = 3 /\ n.count = c.count /\ n.required = c.required
      /\ n.boundary = c.boundary /\ n.deleted = del
  BY <1>0, Checkpoints DEF DeletedOf, RecordType
<1>2. n # None /\ c # None
  BY <1>0, <1>1, RecordIsSome
<1>. HIDE DEF n
<1>3. validStateCheckpoint(n.st, n.cp)
  BY <1>0, <1>1, Checkpoints DEF validStateCheckpoint
<1>4. ~terminalState(n) /\ ~terminalState(c)
  BY <1>1 DEF terminalState
<1>5. Held(n, cu, ca, p, d, ha)
  BY <1>0, <1>1, <1>2, <1>4, Checkpoints
  DEF Good, Held, Final, Pinned, Counted, Planned
<1>6. Related(c, n)
  BY <1>0, <1>1, <1>2, <1>4, Checkpoints DEF Good, Held, Related, RecordType
<1>. QED  BY <1>1, <1>3, <1>5, <1>6 DEF Good, n

\* The record with its commit authorized.
AuthorizedOf(c) == [c EXCEPT !.st = "Committing", !.cp = CommitAuthorized]

\* A prepared record with an approved boundary may be authorized.
LEMMA AuthorizedHolds ==
  ASSUME NEW cu \in CursorType, NEW ca \in CardType, NEW p, NEW d, NEW ha,
         NEW c, Good(c, cu, ca, p, d, ha), c.st = "Prepared", c.boundary # 0
  PROVE  Good(AuthorizedOf(c), cu, ca, p, d, ha) /\ Related(c, AuthorizedOf(c))
<1>. DEFINE n == AuthorizedOf(c)
<1>0. c \in RecordType /\ c.cp = 0
  BY Checkpoints DEF Good, validStateCheckpoint
<1>1. /\ n \in RecordType
      /\ n.op = c.op /\ n.target = c.target /\ n.st = "Committing"
      /\ n.cp = 1 /\ n.count = c.count /\ n.required = c.required
      /\ n.boundary = c.boundary /\ n.deleted = c.deleted
  <2>. DEFINE m == [c EXCEPT !.st = "Committing"]
  <2>1. /\ m \in RecordType
        /\ m.op = c.op /\ m.target = c.target /\ m.st = "Committing"
        /\ m.count = c.count /\ m.required = c.required
        /\ m.boundary = c.boundary /\ m.deleted = c.deleted
    BY <1>0 DEF RecordType
  <2>2. n = [m EXCEPT !.cp = 1]
    BY <1>0, Checkpoints DEF AuthorizedOf, RecordType
  <2>. HIDE DEF m, n
  <2>. QED  BY <2>1, <2>2, Checkpoints DEF RecordType
<1>2. n # None /\ c # None
  BY <1>0, <1>1, RecordIsSome
<1>. HIDE DEF n
<1>3. validStateCheckpoint(n.st, n.cp)
  BY <1>0, <1>1, Checkpoints DEF validStateCheckpoint
<1>4. ~terminalState(n) /\ ~terminalState(c)
  BY <1>1 DEF terminalState
<1>5. Held(n, cu, ca, p, d, ha)
  BY <1>0, <1>1, <1>2, <1>4, Checkpoints
  DEF Good, Held, Final, Pinned, Counted, Planned
<1>6. Related(c, n)
  BY <1>0, <1>1, <1>2, <1>4, Checkpoints DEF Good, Held, Related, RecordType
<1>. QED  BY <1>1, <1>3, <1>5, <1>6 DEF Good, n

\* The record that takes up again what had stopped.
ResumedOf(c) == [c EXCEPT !.st = resumeStateForCheckpoint(c.cp)]

\* An operation that stopped may be resumed.
LEMMA ResumedHolds ==
  ASSUME NEW cu \in CursorType, NEW ca \in CardType, NEW p, NEW d, NEW ha,
         NEW c, Good(c, cu, ca, p, d, ha), c.st = "AttentionRequired"
  PROVE  /\ Good(ResumedOf(c), cu, ca, p, d, ha) /\ Related(c, ResumedOf(c))
         /\ ResumedOf(c).boundary = c.boundary
         /\ c.cp = 0 => ResumedOf(c).st = "Prepared"
<1>. DEFINE n == ResumedOf(c)
<1>0. c \in RecordType /\ c.cp \in 0..6
  BY Checkpoints DEF Good, validStateCheckpoint
<1>1. /\ n \in RecordType
      /\ n.op = c.op /\ n.target = c.target
      /\ n.st = IF c.cp = 0 THEN "Prepared" ELSE "Committing"
      /\ n.cp = c.cp /\ n.count = c.count /\ n.required = c.required
      /\ n.boundary = c.boundary /\ n.deleted = c.deleted
  BY <1>0, Checkpoints DEF ResumedOf, resumeStateForCheckpoint, RecordType
<1>2. n # None /\ c # None
  BY <1>0, <1>1, RecordIsSome
<1>. HIDE DEF n
<1>3. validStateCheckpoint(n.st, n.cp)
  BY <1>0, <1>1, Checkpoints DEF validStateCheckpoint
<1>4. ~terminalState(n) /\ ~terminalState(c)
  BY <1>1 DEF terminalState
<1>5. Held(n, cu, ca, p, d, ha)
  BY <1>0, <1>1, <1>2, <1>4, Checkpoints
  DEF Good, Held, Final, Pinned, Counted, Planned
<1>6. Related(c, n)
  BY <1>0, <1>1, <1>2, <1>4, Checkpoints DEF Good, Held, Related, RecordType
<1>. QED  BY <1>1, <1>3, <1>5, <1>6 DEF Good, n

\* The record with the boundary that the server approved.
LatchedOf(c, b) == [c EXCEPT !.boundary = b]

\* A boundary that covers what is required may be latched.
LEMMA LatchedHolds ==
  ASSUME NEW cu \in CursorType, NEW ca \in CardType, NEW p, NEW d, NEW ha,
         NEW c, Good(c, cu, ca, p, d, ha), c.st = "Prepared", c.boundary = 0,
         NEW b \in Nat, b >= c.required
  PROVE  /\ Good(LatchedOf(c, b), cu, ca, p, d, ha) /\ Related(c, LatchedOf(c, b))
         /\ LatchedOf(c, b).boundary = b /\ LatchedOf(c, b).st = "Prepared"
<1>. DEFINE n == LatchedOf(c, b)
<1>0. c \in RecordType /\ c.cp = 0
  BY Checkpoints DEF Good, validStateCheckpoint
<1>1. /\ n \in RecordType
      /\ n.op = c.op /\ n.target = c.target /\ n.st = "Prepared"
      /\ n.cp = 0 /\ n.count = c.count /\ n.required = c.required
      /\ n.boundary = b /\ n.deleted = c.deleted
  BY <1>0, Checkpoints DEF LatchedOf, RecordType
<1>2. n # None /\ c # None
  BY <1>0, <1>1, RecordIsSome
<1>. HIDE DEF n
<1>3. validStateCheckpoint(n.st, n.cp)
  BY <1>0, <1>1, Checkpoints DEF validStateCheckpoint
<1>4. ~terminalState(n) /\ ~terminalState(c)
  BY <1>1 DEF terminalState
<1>5. Held(n, cu, ca, p, d, ha)
  BY <1>0, <1>1, <1>2, <1>4, Checkpoints
  DEF Good, Held, Final, Pinned, Counted, Planned
<1>6. Related(c, n)
  BY <1>0, <1>1, <1>2, <1>4, Checkpoints DEF Good, Held, Related, RecordType
<1>. QED  BY <1>1, <1>3, <1>5, <1>6 DEF Good, n

\* The cancelled record.
CancelledOf(c) == [c EXCEPT !.st = "Cancelled"]

\* An operation without an approved boundary may be cancelled.
LEMMA CancelledHolds ==
  ASSUME NEW cu \in CursorType, NEW ca \in CardType, NEW p, NEW d, NEW ha,
         NEW c, Good(c, cu, ca, p, d, ha), ~terminalState(c), c.boundary = 0
  PROVE  /\ Good(CancelledOf(c), cu, ca, p, d, ha) /\ Related(c, CancelledOf(c))
         /\ terminalState(CancelledOf(c))
<1>. DEFINE n == CancelledOf(c)
<1>0. c \in RecordType /\ c.cp = 0
  BY Checkpoints DEF Good, Held, RecordType
<1>1. /\ n \in RecordType
      /\ n.op = c.op /\ n.target = c.target /\ n.st = "Cancelled"
      /\ n.cp = 0 /\ n.count = c.count /\ n.required = c.required
      /\ n.boundary = 0 /\ n.deleted = c.deleted
  BY <1>0, Checkpoints DEF CancelledOf, RecordType
<1>2. n # None /\ c # None
  BY <1>0, <1>1, RecordIsSome
<1>. HIDE DEF n
<1>3. validStateCheckpoint(n.st, n.cp)
  BY <1>0, <1>1, Checkpoints DEF validStateCheckpoint
<1>4. terminalState(n) /\ ~terminalState(c)
  BY <1>1 DEF terminalState
<1>5. Held(n, cu, ca, p, d, ha)
  BY <1>0, <1>1, <1>2, <1>4, Checkpoints
  DEF Good, Held, Final, Pinned, Counted, Planned
<1>6. Related(c, n)
  BY <1>0, <1>1, <1>2, <1>4, Checkpoints DEF Good, Held, Related, RecordType
<1>. QED  BY <1>1, <1>3, <1>4, <1>5, <1>6 DEF Good, n

\* The first record of a requested operation.
LEMMA PreparingHolds ==
  ASSUME NEW cu \in CursorType, NEW ca \in CardType, NEW p, NEW d, NEW ha,
         NEW q \in RequestType, q.target = cu.gen + 1
  PROVE  /\ Good(Preparing(q), cu, ca, p, d, ha)
         /\ Preparing(q).st = "Preparing" /\ Preparing(q).op = q.op
         /\ Preparing(q).cp = 0 /\ Preparing(q).target = q.target
<1>. DEFINE n == Preparing(q)
<1>1. /\ n \in RecordType
      /\ n.op = q.op /\ n.target = q.target /\ n.st = "Preparing" /\ n.cp = 0
      /\ n.boundary = 0 /\ n.deleted = 0
  BY Checkpoints DEF Preparing, RecordType, RequestType
<1>2. n # None
  BY <1>1, RecordIsSome
<1>. HIDE DEF n
<1>3. validStateCheckpoint(n.st, n.cp)
  BY <1>1, Checkpoints DEF validStateCheckpoint
<1>5. Held(n, cu, ca, p, d, ha)
  BY <1>1, <1>2, Checkpoints
  DEF Held, Final, Pinned, Counted, Planned, CursorType
<1>. QED  BY <1>1, <1>3, <1>5 DEF Good, n

-----------------------------------------------------------------------------
(* What a step of the coordinator keeps                                    *)

\* A record is well formed and keeps its promises, before and after a step.
GoodNow(r) == Good(r, cursor, card, plan, drain, tally.handed)
GoodNext(r) == Good(r, cursor', card', plan', drain', tally'.handed)

\* Only faults are counted.
Tallied == /\ tally' \in TallyType /\ tally'.intervals = tally.intervals
           /\ tally'.handed = tally.handed /\ tally'.faults >= tally.faults

\* Spending faults changes nothing else.
LEMMA SpendTallies ==
  ASSUME tally \in TallyType, NEW n \in Nat, Spend(n)
  PROVE  Tallied /\ tally'.faults = tally.faults + n
  BY DEF Spend, Tallied, TallyType

\* Nothing spent is nothing changed.
LEMMA SameTally ==
  ASSUME tally \in TallyType, UNCHANGED tally
  PROVE  Tallied
  BY DEF Tallied, TallyType

\* Open gates are well formed.
LEMMA OpenType ==
  /\ Open \in GateType /\ Open.closed = FALSE /\ Open.quiet = TRUE
  /\ Open.op = None /\ Open.target = 0
<1>1. None \in Ops \cup {None} /\ 0 \in Nat /\ TRUE \in BOOLEAN /\ FALSE \in BOOLEAN
  OBVIOUS
<1>. QED  BY <1>1 DEF Open, GateType

\* While an operation is under way the gates are closed, no interval is open
\* and the two records are related.
LEMMA ActiveFacts ==
  ASSUME ResetInv, phase = "up", coord.rec # None, ~terminalState(coord.rec)
  PROVE  /\ gate.closed /\ coord.prepare = None /\ acc = <<>>
         /\ Related(coord.rec, rec) /\ Related(coord.rec, coord.rec)
         /\ GoodNow(coord.rec) /\ GoodNow(rec)
<1>1. coord.rec \in RecordType /\ coord \in CoordType
  BY DEF ResetInv, TypeOK, CoordType
<1>2. coord.prepare = None /\ acc = <<>> /\ gate.closed
  BY DEF ResetInv, GateInv, Final
<1>3. Related(coord.rec, rec)
  BY <1>2 DEF ResetInv, RelationInv
<1>4. rec \in RecordType
  BY <1>3 DEF ResetInv, TypeOK, Related
<1>5. validStateCheckpoint(coord.rec.st, coord.rec.cp)
      /\ validStateCheckpoint(rec.st, rec.cp)
  BY <1>1, <1>4, RecordIsSome DEF ResetInv, TypeOK
<1>6. GoodNow(coord.rec) /\ GoodNow(rec)
  BY <1>1, <1>4, <1>5, RecordIsSome DEF ResetInv, RecordsInv, GoodNow, Good,
     HeldNow
<1>7. Related(coord.rec, coord.rec)
  BY <1>1, <1>6, RecordIsSome, Checkpoints
  DEF Related, GoodNow, Good, Held, RecordType
<1>. QED  BY <1>2, <1>3, <1>6, <1>7

\* The coordinator has saved n, lost it, or saved it unconfirmed.
Wrote(n) == \/ coord'.rec = n /\ rec' = n
            \/ coord'.rec = coord.rec /\ (rec' = rec \/ rec' = n)

\* The record in RAM may be m and the durable one n, one of them ahead.
Moved(m, n) == /\ rec' = rec \/ rec' = n
               /\ coord'.rec = coord.rec \/ coord'.rec = m
               /\ Related(coord'.rec, rec')

\* The coordinator's other fields after a step, with an operation under way.
CoordKept ==
  /\ coord' = [rec |-> coord'.rec, prepare |-> None, commit |-> coord'.commit,
               want |-> coord'.want]
  /\ coord'.commit \in Nat /\ coord'.want \in {"none", "drain", "clean"}
  /\ coord'.commit # 0 => /\ coord'.rec.st \in {"Prepared", "AttentionRequired"}
                          /\ coord'.rec.boundary = coord'.commit
  /\ \/ coord'.want = "none" /\ job.pc \notin CleanSteps
     \/ /\ coord'.want = coord.want
        /\ coord'.rec.st = coord.rec.st /\ coord'.rec.cp = coord.rec.cp
  /\ result' = result \/ result' = None
  /\ gate' = gate \/ (gate' = Open /\ terminalState(coord'.rec))

\* What a step of the coordinator leaves alone.
CoordFrame ==
  /\ UNCHANGED <<drain, plan, events, card, phase, job, acc, queued>>
  /\ cursor' \in CursorType /\ Tallied

\* A good record that follows the one in RAM may be written: what the records
\* say of each other, of the gates, of the barrier and of the plan is kept.
LEMMA WriteKeepsRecords ==
  ASSUME ResetInv, phase = "up", coord.rec # None, ~terminalState(coord.rec),
         NEW m, NEW n, Moved(m, n), CoordFrame, CoordKept,
         GoodNext(coord.rec), GoodNext(rec), GoodNext(m), GoodNext(n),
         Related(coord.rec, m), Related(coord.rec, n)
  PROVE  /\ TypeOK' /\ RecordsInv' /\ RelationInv'
         /\ GoodNext(coord'.rec) /\ GoodNext(rec')
         /\ coord'.rec # None /\ rec' # None
         /\ rec'.target = coord.rec.target /\ rec'.op = rec.op
         /\ rec' = rec \/ rec' = n
         /\ coord'.rec = coord.rec \/ coord'.rec = m
<1>1. Related(coord.rec, rec) /\ Related(coord.rec, coord.rec)
  BY ActiveFacts
<1>2. /\ rec' = rec \/ rec' = n
      /\ coord'.rec = coord.rec \/ coord'.rec = m
      /\ GoodNext(coord'.rec) /\ GoodNext(rec')
  BY DEF Moved
<1>3. /\ coord'.rec \in RecordType /\ rec' \in RecordType
      /\ coord'.rec # None /\ rec' # None
  BY <1>2, RecordIsSome DEF GoodNext, Good
<1>4. RecordsInv'
  BY <1>2, <1>3 DEF RecordsInv, GoodNext, Good, HeldNow
<1>5. rec'.target = coord.rec.target /\ rec'.op = rec.op /\ rec'.op = coord.rec.op
  BY <1>1, <1>2 DEF Related
<1>7. Related(coord'.rec, rec')
  BY DEF Moved
<1>8. RelationInv'
  <2>1. coord'.prepare = None
    BY DEF CoordKept
  <2>. QED  BY <1>3, <1>7, <2>1 DEF RelationInv
<1>9. TypeOK'
  <2>1. coord' \in CoordType
    <3>1. coord'.rec \in RecordType \cup {None} /\ None \in RequestType \cup {None}
      BY <1>3
    <3>2. /\ coord' = [rec |-> coord'.rec, prepare |-> None,
                       commit |-> coord'.commit, want |-> coord'.want]
          /\ coord'.commit \in Nat /\ coord'.want \in {"none", "drain", "clean"}
      BY DEF CoordKept
    <3>. QED  BY <3>1, <3>2 DEF CoordType
  <2>2. gate' \in GateType
    BY OpenType DEF CoordKept, CoordFrame, ResetInv, TypeOK
  <2>3. result' \in AnswerType \cup {None}
    BY DEF CoordKept, ResetInv, TypeOK
  <2>4. \A r \in {rec', coord'.rec} \ {None} : validStateCheckpoint(r.st, r.cp)
    BY <1>2 DEF GoodNext, Good
  <2>5. /\ drain' \in DrainType \cup {None} /\ plan' \in PlanType \cup {None}
        /\ events' \in EventType \cup {None} /\ card' \in CardType
        /\ IsFiniteSet(card'.recs) /\ phase' \in {"down", "boot", "up", "halted"}
        /\ job' \in JobType /\ acc' \in Seq(Nat) /\ Len(acc') <= 2
        /\ queued' \in 0..MaxEvent
        /\ drain' # None => Len(drain'.ids) \in 1..2
    BY DEF CoordFrame, ResetInv, TypeOK
  <2>6. cursor' \in CursorType /\ tally' \in TallyType
    BY DEF CoordFrame, Tallied
  <2>. QED  BY <1>3, <2>1, <2>2, <2>3, <2>4, <2>5, <2>6 DEF TypeOK
<1>. QED  BY <1>2, <1>3, <1>4, <1>5, <1>8, <1>9

\* The same of the gates, the barrier, its answer and the plan.
LEMMA WriteKeepsGates ==
  ASSUME ResetInv, phase = "up", coord.rec # None, ~terminalState(coord.rec),
         NEW m, NEW n, Moved(m, n), CoordFrame, CoordKept,
         GoodNext(coord.rec), GoodNext(rec), GoodNext(m), GoodNext(n),
         Related(coord.rec, m), Related(coord.rec, n)
  PROVE  /\ PhaseInv' /\ GateInv' /\ JobInv' /\ ResultInv' /\ PlanInv'
         /\ AccInv' /\ EventInv'
<1>1. /\ gate.closed /\ coord.prepare = None /\ acc = <<>>
      /\ Related(coord.rec, rec) /\ Related(coord.rec, coord.rec)
      /\ GoodNow(coord.rec) /\ GoodNow(rec)
  BY ActiveFacts
<1>2. /\ coord'.rec # None /\ rec' # None /\ rec'.op = rec.op
      /\ rec' = rec \/ rec' = n
      /\ coord'.rec = coord.rec \/ coord'.rec = m
      /\ RelationInv' /\ TypeOK'
  BY WriteKeepsRecords
<1>3. /\ coord'.prepare = None /\ phase' = "up" /\ acc' = <<>>
      /\ coord'.rec.op = coord.rec.op
      /\ coord.rec.op = rec.op
  <2>1. coord'.prepare = None
    BY DEF CoordKept
  <2>2. phase' = "up" /\ acc' = <<>>
    BY <1>1 DEF CoordFrame
  <2>. QED  BY <1>1, <1>2, <2>1, <2>2 DEF Related
<1>4. PhaseInv'
  BY <1>3 DEF PhaseInv
<1>5. GateInv'
  <2>1. ~gate'.closed => terminalState(coord'.rec)
    BY <1>1 DEF CoordKept
  <2>2. coord'.commit # 0 => /\ coord'.rec.st \in {"Prepared", "AttentionRequired"}
                             /\ coord'.rec.boundary = coord'.commit
    BY DEF CoordKept
  <2>. QED  BY <1>2, <1>3, <2>1, <2>2 DEF GateInv, Final
<1>6. \/ coord'.want = "none" /\ job.pc \notin CleanSteps
      \/ /\ coord'.want = coord.want
         /\ coord'.rec.st = coord.rec.st /\ coord'.rec.cp = coord.rec.cp
  BY DEF CoordKept
<1>7. JobInv'
  <2>1. UNCHANGED <<job, drain, plan, events, card, phase>>
    BY DEF CoordFrame
  <2>2. JobInv
    BY DEF ResetInv
  <2>3. CASE coord'.want = "none" /\ job.pc \notin CleanSteps
    BY <1>2, <2>1, <2>2, <2>3 DEF JobInv, CleanSteps
  <2>4. CASE /\ coord'.want = coord.want
             /\ coord'.rec.st = coord.rec.st /\ coord'.rec.cp = coord.rec.cp
    BY <1>2, <1>3, <2>1, <2>2, <2>4 DEF JobInv
  <2>. QED  BY <1>6, <2>3, <2>4
<1>8. ResultInv'
  <2>1. UNCHANGED <<drain, plan, card>> /\ (result' = result \/ result' = None)
    BY DEF CoordFrame, CoordKept
  <2>2. CASE result' = result /\ coord'.want = coord.want
    BY <1>3, <2>1, <2>2 DEF ResetInv, ResultInv, Planned
  <2>3. CASE result' = None \/ coord'.want = "none"
    BY <2>1, <2>3 DEF ResultInv
  <2>. QED  BY <1>6, <2>1, <2>2, <2>3
<1>9. PlanInv'
  <2>1. UNCHANGED plan /\ PlanInv
    BY DEF CoordFrame, ResetInv
  <2>2. /\ coord'.rec.cp >= coord.rec.cp /\ rec'.cp >= coord.rec.cp
        /\ coord.rec.cp \in Nat /\ rec'.cp \in Nat /\ coord'.rec.cp \in Nat
    <3>1. /\ coord.rec \in RecordType /\ rec \in RecordType
          /\ m \in RecordType /\ n \in RecordType
      BY <1>1 DEF GoodNow, GoodNext, Good
    <3>2. coord.rec.cp \in 0..7 /\ rec.cp \in 0..7 /\ m.cp \in 0..7 /\ n.cp \in 0..7
      BY <3>1, Checkpoints DEF RecordType
    <3>3. rec.cp >= coord.rec.cp /\ m.cp >= coord.rec.cp /\ n.cp >= coord.rec.cp
      BY <1>1, <3>2 DEF Related
    <3>. QED  BY <1>2, <3>2, <3>3
  <2>3. plan # None /\ plan.op = rec.op => coord.rec.cp >= 3
    BY <1>3, <2>1, Checkpoints DEF PlanInv
  <2>. QED  BY <1>2, <1>3, <2>1, <2>2, <2>3, Checkpoints DEF PlanInv
<1>10. AccInv' /\ EventInv'
  BY <1>3 DEF AccInv, EventInv, EventsPreserved, CoordFrame, ResetInv
<1>. QED  BY <1>4, <1>5, <1>7, <1>8, <1>9, <1>10

\* The same of the card, the generations and the journal, when the cursors
\* stay and a final record is only written with nothing left to do.
LEMMA WriteKeepsCard ==
  ASSUME ResetInv, phase = "up", coord.rec # None, ~terminalState(coord.rec),
         NEW m, NEW n, Moved(m, n), CoordFrame, CoordKept,
         GoodNext(coord.rec), GoodNext(rec), GoodNext(m), GoodNext(n),
         Related(coord.rec, m), Related(coord.rec, n),
         cursor'.ack = cursor.ack, cursor'.gen = cursor.gen,
         cursor'.boundary = cursor.boundary,
         terminalState(m) \/ terminalState(n) =>
           /\ ~Pending(drain)
           /\ card.recs = {} \/ coord.rec.target = cursor.gen + 1
  PROVE  CardInv' /\ GenInv' /\ PendingInv' /\ HandedInv'
<1>1. /\ coord'.rec # None /\ rec' # None /\ rec'.target = coord.rec.target
      /\ rec' = rec \/ rec' = n
      /\ coord'.rec = coord.rec \/ coord'.rec = m
  BY WriteKeepsRecords
<1>2. /\ gate.closed /\ Related(coord.rec, rec)
      /\ cursor.gen \in Nat
  BY ActiveFacts DEF ResetInv, TypeOK, CursorType
<1>3. /\ UNCHANGED <<drain, card, phase, acc>> /\ tally'.handed = tally.handed
      /\ tally'.intervals = tally.intervals
  BY DEF CoordFrame, Tallied
<1>4. CardInv' /\ HandedInv'
  BY <1>3 DEF ResetInv, CardInv, HandedInv, Pending
<1>5. GenInv'
  <2>1. ASSUME NEW x \in card.recs, x.gen < cursor.gen
        PROVE  ~terminalState(rec') /\ rec'.target = cursor.gen
    <3>1. rec # None /\ ~terminalState(rec) /\ rec.target = cursor.gen
      BY <2>1 DEF ResetInv, GenInv
    <3>2. coord.rec.target = cursor.gen /\ cursor.gen # cursor.gen + 1
      BY <1>2, <3>1 DEF Related
    <3>3. ~terminalState(n)
      BY <2>1, <3>2
    <3>. QED  BY <1>1, <3>1, <3>2, <3>3
  <2>. QED  BY <1>1, <1>3, <2>1 DEF ResetInv, GenInv
<1>6. PendingInv'
  <2>1. SUFFICES ASSUME Pending(drain') PROVE PendingInv'
    BY DEF PendingInv
  <2>2. Pending(drain) /\ ~terminalState(coord'.rec)
    BY <1>1, <1>3, <2>1
  <2>3. gate' = gate
    BY <2>2 DEF CoordKept
  <2>4. PendingInv
    BY DEF ResetInv
  <2>5. Missing' = Missing
    BY <1>3 DEF Missing, containsDataResetDrainRecord
  <2>6. Measured(drain.ids)' <=> Measured(drain.ids)
    BY <1>3 DEF Measured
  <2>. QED  BY <1>1, <1>2, <1>3, <2>2, <2>3, <2>4, <2>5, <2>6
            DEF PendingInv, Final, Pending
<1>. QED  BY <1>4, <1>5, <1>6

\* No cursor moves but the energy offset.
SameCursors == /\ cursor'.ack = cursor.ack /\ cursor'.gen = cursor.gen
               /\ cursor'.boundary = cursor.boundary /\ cursor'.base = cursor.base

\* The environment of the promises is unchanged.
LEMMA SameEnvironment ==
  ASSUME NEW r, SameCursors, UNCHANGED <<card, plan, drain>>, Tallied, GoodNow(r)
  PROVE  GoodNext(r)
  BY DEF GoodNow, GoodNext, Good, Held, SameCursors, Tallied

\* A record written is one that RAM and NVS may both move to.
LEMMA WroteMoves ==
  ASSUME NEW n, Wrote(n), GoodNext(n), Related(coord.rec, rec), Related(coord.rec, n)
  PROVE  Moved(n, n)
<1>1. Related(n, n)
  BY RecordIsSome, Checkpoints DEF Related, GoodNext, Good, Held, RecordType
<1>. QED  BY <1>1 DEF Wrote, Moved

\* Moving to good records that follow the one in RAM keeps the invariant.
LEMMA MovedStep ==
  ASSUME ResetInv, phase = "up", coord.rec # None, ~terminalState(coord.rec),
         NEW m, NEW n, Moved(m, n), CoordFrame, CoordKept,
         GoodNow(m), GoodNow(n), Related(coord.rec, m), Related(coord.rec, n),
         SameCursors,
         terminalState(m) \/ terminalState(n) =>
           /\ ~Pending(drain)
           /\ card.recs = {} \/ coord.rec.target = cursor.gen + 1
  PROVE  ResetInv'
<1>1. GoodNow(coord.rec) /\ GoodNow(rec)
  BY ActiveFacts
<1>2. GoodNext(coord.rec) /\ GoodNext(rec) /\ GoodNext(m) /\ GoodNext(n)
  BY <1>1, SameEnvironment DEF CoordFrame
<1>3. TypeOK' /\ RecordsInv' /\ RelationInv'
  BY <1>2, WriteKeepsRecords
<1>4. /\ PhaseInv' /\ GateInv' /\ JobInv' /\ ResultInv' /\ PlanInv'
      /\ AccInv' /\ EventInv'
  BY <1>2, WriteKeepsGates
<1>5. CardInv' /\ GenInv' /\ PendingInv' /\ HandedInv'
  BY <1>2, WriteKeepsCard DEF SameCursors
<1>. QED  BY <1>3, <1>4, <1>5 DEF ResetInv

\* Writing a good record that follows the one in RAM keeps the invariant.
LEMMA WriteStep ==
  ASSUME ResetInv, phase = "up", coord.rec # None, ~terminalState(coord.rec),
         NEW n, Wrote(n), CoordFrame, CoordKept,
         GoodNow(n), Related(coord.rec, n), SameCursors,
         terminalState(n) =>
           /\ ~Pending(drain)
           /\ card.recs = {} \/ coord.rec.target = cursor.gen + 1
  PROVE  ResetInv'
<1>1. Related(coord.rec, rec)
  BY ActiveFacts
<1>2. GoodNext(n)
  BY SameEnvironment DEF CoordFrame
<1>3. Moved(n, n)
  BY <1>1, <1>2, WroteMoves
<1>. QED  BY <1>3, MovedStep

\* A step to n, or to a request for attention, from a record being carried out.
LEMMA MoveStep ==
  ASSUME ResetInv, phase = "up", coord.rec # None,
         coord.rec.st \in {"Prepared", "Committing"},
         NEW n, Wrote(n) \/ Wrote(Attention(coord.rec)), CoordFrame, CoordKept,
         GoodNow(n), Related(coord.rec, n), SameCursors,
         terminalState(n) => card.recs = {}
  PROVE  ResetInv'
<1>1. ~terminalState(coord.rec)
  BY DEF terminalState
<1>2. GoodNow(coord.rec)
  BY <1>1, ActiveFacts
<1>3. ~Pending(drain)
  BY <1>1, <1>2 DEF GoodNow, Good, Held, Pinned, Final
<1>4. cursor \in CursorType /\ card \in CardType
  BY DEF ResetInv, TypeOK
<1>5. GoodNow(Attention(coord.rec)) /\ Related(coord.rec, Attention(coord.rec))
  BY <1>2, <1>4, AttentionHolds DEF GoodNow
<1>6. ~terminalState(Attention(coord.rec))
  BY <1>2 DEF GoodNow, Good, Attention, terminalState, RecordType
<1>7. CASE Wrote(n)
  BY <1>1, <1>3, <1>7, WriteStep
<1>8. CASE Wrote(Attention(coord.rec))
  <2>. HIDE DEF Attention
  <2>. QED  BY <1>1, <1>5, <1>6, <1>8, WriteStep
<1>. QED  BY <1>7, <1>8

-----------------------------------------------------------------------------
(* The coordinator's saves                                                 *)

\* The coordinator is well formed, field by field.
LEMMA CoordFields ==
  ASSUME ResetInv
  PROVE  /\ coord \in CoordType /\ coord.commit \in Nat
         /\ coord.want \in {"none", "drain", "clean"}
         /\ coord.rec # None => coord.rec \in RecordType
         /\ coord.prepare # None => coord.prepare \in RequestType
         /\ coord = [rec |-> coord.rec, prepare |-> coord.prepare,
                     commit |-> coord.commit, want |-> coord.want]
<1>1. coord \in CoordType
  BY DEF ResetInv, TypeOK
<1>. QED  BY <1>1 DEF CoordType

\* A fault budget that is checked costs a number of faults.
LEMMA CostIsNatural == ASSUME NEW ok \in Checks PROVE ok \in BOOLEAN /\ Cost(ok) \in Nat
  BY DEF Checks, Cost

\* A cleanup is asked for at its own checkpoint.
LEMMA CleanAtCleanup ==
  ASSUME ResetInv, job.pc \in CleanSteps \/ coord.want = "clean"
  PROVE  /\ coord.rec # None /\ coord.rec.st = "Committing" /\ coord.rec.cp = 3
         /\ phase = "up" /\ ~terminalState(coord.rec) /\ coord.want = "clean"
         /\ coord.commit = 0
<1>1. coord.want = "clean"
  BY DEF ResetInv, JobInv
<1>2. coord.rec # None /\ coord.rec.st = "Committing" /\ coord.rec.cp = 3
  BY <1>1, Checkpoints DEF ResetInv, JobInv
<1>3. phase = "up"
  BY <1>1 DEF ResetInv, PhaseInv, NoCoord
<1>. QED  BY <1>1, <1>2, <1>3 DEF ResetInv, GateInv, terminalState

\* requestCancel keeps the invariant.
LEMMA CancelStep == ASSUME ResetInv, requestCancel PROVE ResetInv'
<1>. DEFINE c == CancelledOf(coord.rec)
<1>1. /\ phase = "up" /\ coord.rec # None /\ coord.commit = 0
      /\ coord.prepare = None /\ coord.rec.boundary = 0
      /\ coord.rec.st \in {"Preparing", "Prepared", "AttentionRequired"}
      /\ coord.rec.st # "Prepared" => dataResetDrainSafeToCancel
      /\ UNCHANGED <<drain, plan, events, cursor, card, phase, job, result, acc,
                     queued>>
  BY DEF requestCancel
<1>2. PICK s \in SavedFresh(rec, c, 0) :
        /\ rec' = s.nvs
        /\ IF s.ok
           THEN /\ coord' = [NoCoord EXCEPT !.rec = c]
                /\ \E opened \in Checks :
                     /\ gate' = IF opened THEN Open ELSE gate
                     /\ Spend(s.cost + Cost(opened))
           ELSE UNCHANGED <<coord, gate>> /\ Spend(s.cost)
  BY DEF requestCancel, CancelledOf
<1>3. ~terminalState(coord.rec) /\ job.pc \notin CleanSteps
  BY <1>1, CleanAtCleanup DEF terminalState
<1>4. GoodNow(coord.rec)
  BY <1>1, <1>3, ActiveFacts
<1>5. cursor \in CursorType /\ card \in CardType /\ tally \in TallyType
  BY DEF ResetInv, TypeOK
<1>6. GoodNow(c) /\ Related(coord.rec, c) /\ terminalState(c)
  BY <1>1, <1>3, <1>4, <1>5, CancelledHolds DEF GoodNow
<1>7. ~Pending(drain)
  <2>1. CASE Pinned(coord.rec)
    BY <1>4, <2>1 DEF GoodNow, Good, Held
  <2>2. CASE ~Pinned(coord.rec)
    BY <1>1, <1>3, <2>2 DEF Pinned, Final, dataResetDrainSafeToCancel, Pending
  <2>. QED  BY <2>1, <2>2
<1>8. coord.rec.target = cursor.gen + 1
  BY <1>1, <1>3, <1>4, Checkpoints DEF GoodNow, Good, Held, Final, RecordType
<1>. HIDE DEF c
<1>9. /\ s.ok \in BOOLEAN /\ s.cost \in Nat
      /\ s.nvs = rec \/ s.nvs = c
      /\ s.ok => s.nvs = c
  BY <1>2, SavedOutcome
<1>10. CASE s.ok
  <2>1. /\ coord' = [rec |-> c, prepare |-> None, commit |-> 0, want |-> "none"]
    BY <1>2, <1>10 DEF NoCoord
  <2>2. PICK opened \in Checks : /\ gate' = IF opened THEN Open ELSE gate
                                 /\ Spend(s.cost + Cost(opened))
    BY <1>2, <1>10
  <2>3. Tallied
    BY <1>5, <1>9, <2>2, CostIsNatural, SpendTallies
  <2>4. /\ coord'.rec = c /\ coord'.prepare = None /\ coord'.commit = 0
        /\ coord'.want = "none"
    BY <2>1
  <2>5. CoordKept
    BY <1>1, <1>3, <1>6, <2>1, <2>2, <2>4 DEF CoordKept
  <2>6. CoordFrame /\ Wrote(c) /\ SameCursors
    BY <1>1, <1>2, <1>5, <1>9, <1>10, <2>3, <2>4 DEF CoordFrame, Wrote,
       SameCursors
  <2>. QED  BY <1>1, <1>3, <1>6, <1>7, <1>8, <2>5, <2>6, WriteStep
<1>11. CASE ~s.ok
  <2>1. UNCHANGED <<coord, gate>> /\ Spend(s.cost)
    BY <1>2, <1>11
  <2>2. Tallied
    BY <1>5, <1>9, <2>1, SpendTallies
  <2>3. CoordKept
    BY <1>1, <1>3, <2>1, CoordFields DEF CoordKept
  <2>4. CoordFrame /\ Wrote(c) /\ SameCursors
    BY <1>1, <1>2, <1>5, <1>9, <2>1, <2>2 DEF CoordFrame, Wrote, SameCursors
  <2>. QED  BY <1>1, <1>3, <1>6, <1>7, <1>8, <2>3, <2>4, WriteStep
<1>. QED  BY <1>9, <1>10, <1>11

\* What a step of Stepped writes.
LEMMA SteppedWrites ==
  ASSUME NEW new, NEW a, Stepped(new, a), rec' = a.nvs, coord'.rec = a.rec
  PROVE  Wrote(new) \/ Wrote(Attention(coord.rec))
  BY DEF Stepped, Wrote

\* What asking for attention writes.
LEMMA AttendedWrites ==
  ASSUME ResetInv, NEW spent \in Nat, NEW a \in Attended(rec, spent), rec' = a.nvs,
         coord'.rec = a.rec, Spend(a.cost)
  PROVE  Wrote(Attention(coord.rec)) /\ Tallied
<1>. HIDE DEF Attention
<1>1. /\ a.cost \in Nat
      /\ \/ a.rec = Attention(coord.rec) /\ a.nvs = Attention(coord.rec)
         \/ a.rec = coord.rec /\ (a.nvs = rec \/ a.nvs = Attention(coord.rec))
  BY AttendedOutcome
<1>2. Tallied
  BY <1>1, SpendTallies DEF ResetInv, TypeOK
<1>. QED  BY <1>1, <1>2 DEF Wrote

\* What an advance writes.
LEMMA AdvanceToWrites ==
  ASSUME ResetInv, NEW new, AdvanceTo(new)
  PROVE  /\ Wrote(new) \/ Wrote(Attention(coord.rec))
         /\ Tallied
         /\ coord' = [rec |-> coord'.rec, prepare |-> coord.prepare,
                      commit |-> coord.commit, want |-> "none"]
<1>1. PICK checked \in Checks :
      \E a \in IF checked THEN Advanced(new) ELSE Attended(rec, 1) :
        /\ rec' = a.nvs
        /\ coord' = [coord EXCEPT !.rec = a.rec, !.want = "none"]
        /\ Spend(a.cost)
  BY DEF AdvanceTo
<1>2. PICK a \in IF checked THEN Advanced(new) ELSE Attended(rec, 1) :
        /\ rec' = a.nvs
        /\ coord' = [coord EXCEPT !.rec = a.rec, !.want = "none"]
        /\ Spend(a.cost)
  BY <1>1
<1>3. /\ coord'.rec = a.rec
      /\ coord' = [rec |-> coord'.rec, prepare |-> coord.prepare,
                   commit |-> coord.commit, want |-> "none"]
  BY <1>2, CoordFields
<1>4. checked \in BOOLEAN
  BY <1>1, CostIsNatural
<1>5. CASE checked
  <2>1. a.cost \in Nat /\ Stepped(new, a)
    BY <1>2, <1>5, AdvancedOutcome
  <2>2. Tallied
    BY <1>2, <2>1, SpendTallies DEF ResetInv, TypeOK
  <2>. QED  BY <1>2, <1>3, <2>1, <2>2, SteppedWrites
<1>6. CASE ~checked
  BY <1>2, <1>3, <1>6, AttendedWrites
<1>. QED  BY <1>3, <1>4, <1>5, <1>6

\* At a checkpoint of the commit the record in RAM is good.
LEMMA CheckpointFacts ==
  ASSUME ResetInv, NEW cp, AtCheckpoint(cp)
  PROVE  /\ phase = "up" /\ coord.rec # None /\ coord.rec.st = "Committing"
         /\ coord.rec.cp = cp /\ coord.commit = 0 /\ ~terminalState(coord.rec)
         /\ coord.prepare = None /\ GoodNow(coord.rec) /\ ~Pending(drain)
         /\ cursor \in CursorType /\ card \in CardType /\ tally \in TallyType
         /\ job.pc \in CleanSteps => cp = 3
<1>1. /\ phase = "up" /\ coord.rec # None /\ coord.rec.st = "Committing"
      /\ coord.rec.cp = cp /\ coord.commit = 0
  BY DEF AtCheckpoint
<1>2. ~terminalState(coord.rec)
  BY <1>1 DEF terminalState
<1>3. coord.prepare = None /\ GoodNow(coord.rec)
  BY <1>1, <1>2, ActiveFacts
<1>4. ~Pending(drain)
  BY <1>1, <1>2, <1>3 DEF GoodNow, Good, Held, Pinned, Final
<1>. QED  BY <1>1, <1>2, <1>3, <1>4, CleanAtCleanup DEF ResetInv, TypeOK

\* An advance to a good record keeps the invariant.
LEMMA AdvanceStep ==
  ASSUME ResetInv, NEW cp, AtCheckpoint(cp), NEW n, AdvanceTo(n),
         job.pc \notin CleanSteps, GoodNow(n), Related(coord.rec, n),
         terminalState(n) => card.recs = {},
         UNCHANGED <<drain, plan, events, cursor, card, phase, job, acc, queued>>,
         result' = result \/ result' = None,
         gate' = gate \/ (gate' = Open /\ terminalState(coord'.rec))
  PROVE  ResetInv'
<1>1. /\ Wrote(n) \/ Wrote(Attention(coord.rec))
      /\ Tallied
      /\ coord' = [rec |-> coord'.rec, prepare |-> coord.prepare,
                   commit |-> coord.commit, want |-> "none"]
  BY AdvanceToWrites
<1>2. /\ phase = "up" /\ coord.rec # None /\ coord.rec.st = "Committing"
      /\ coord.commit = 0 /\ coord.prepare = None /\ cursor \in CursorType
  BY CheckpointFacts
<1>3. coord'.commit = 0 /\ coord'.want = "none"
  BY <1>1, <1>2
<1>4. CoordKept
  BY <1>1, <1>2, <1>3 DEF CoordKept
<1>5. CoordFrame /\ SameCursors
  BY <1>1, <1>2 DEF CoordFrame, SameCursors
<1>. QED  BY <1>1, <1>2, <1>4, <1>5, MoveStep

\* AdvanceSequence keeps the invariant.
LEMMA AdvanceSequenceStep == ASSUME ResetInv, AdvanceSequence PROVE ResetInv'
<1>1. /\ AtCheckpoint(1) /\ card.next > coord.rec.boundary
      /\ AdvanceTo(Next_(coord.rec))
      /\ UNCHANGED <<drain, plan, events, cursor, card, phase, gate, job, result,
                     acc, queued>>
  BY Checkpoints DEF AdvanceSequence
<1>2. /\ coord.rec.st = "Committing" /\ coord.rec.cp = 1 /\ GoodNow(coord.rec)
      /\ cursor \in CursorType /\ card \in CardType /\ job.pc \notin CleanSteps
  BY <1>1, CheckpointFacts
<1>3. GoodNow(Next_(coord.rec)) /\ Related(coord.rec, Next_(coord.rec))
  BY <1>1, <1>2, NextHolds, Checkpoints DEF GoodNow
<1>4. ~terminalState(Next_(coord.rec))
  BY <1>2 DEF GoodNow, Good, Next_, terminalState, RecordType
<1>. HIDE DEF Next_
<1>. QED  BY <1>1, <1>2, <1>3, <1>4, AdvanceStep

\* Complete keeps the invariant.
LEMMA CompleteStep == ASSUME ResetInv, Complete PROVE ResetInv'
<1>1. /\ AtCheckpoint(6) /\ AdvanceTo(CompletedOf(coord.rec))
      /\ gate' = IF coord'.rec.st = "Completed" THEN Open ELSE gate
      /\ UNCHANGED <<drain, plan, events, cursor, card, phase, job, result,
                     acc, queued>>
  BY Checkpoints DEF Complete, CompletedOf
<1>2. /\ coord.rec.st = "Committing" /\ coord.rec.cp = 6 /\ GoodNow(coord.rec)
      /\ cursor \in CursorType /\ card \in CardType /\ job.pc \notin CleanSteps
  BY <1>1, CheckpointFacts
<1>3. /\ GoodNow(CompletedOf(coord.rec)) /\ Related(coord.rec, CompletedOf(coord.rec))
      /\ card.recs = {}
  BY <1>2, CompletedHolds, Checkpoints DEF GoodNow
<1>4. gate' = gate \/ (gate' = Open /\ terminalState(coord'.rec))
  BY <1>1 DEF terminalState
<1>. HIDE DEF CompletedOf
<1>. QED  BY <1>1, <1>2, <1>3, <1>4, AdvanceStep

\* Asking for attention at a checkpoint keeps the invariant.
LEMMA AttentionStep ==
  ASSUME ResetInv, NEW cp, AtCheckpoint(cp), NEW spent \in Nat,
         NEW a \in Attended(rec, spent), rec' = a.nvs, Spend(a.cost),
         coord' = [coord EXCEPT !.rec = a.rec] \/
         (coord' = [coord EXCEPT !.rec = a.rec, !.want = "none"]),
         cp # 3 \/ coord'.want = "none", job.pc \notin CleanSteps,
         UNCHANGED <<drain, plan, events, cursor, card, phase, gate, job, acc,
                     queued>>,
         result' = result \/ result' = None
  PROVE  ResetInv'
<1>1. /\ phase = "up" /\ coord.rec # None /\ coord.rec.st = "Committing"
      /\ coord.rec.cp = cp /\ coord.commit = 0 /\ coord.prepare = None
      /\ GoodNow(coord.rec) /\ cursor \in CursorType /\ card \in CardType
      /\ ~terminalState(coord.rec)
  BY CheckpointFacts
<1>2. /\ coord'.rec = a.rec
      /\ coord' = [rec |-> coord'.rec, prepare |-> None, commit |-> 0,
                   want |-> coord'.want]
      /\ coord'.want = "none" \/ coord'.want = coord.want
  BY <1>1, CoordFields
<1>3. Wrote(Attention(coord.rec)) /\ Tallied
  BY <1>2, AttendedWrites
<1>4. coord'.want = "none"
  BY <1>1, <1>2, CleanAtCleanup, CoordFields DEF ResetInv, JobInv
<1>5. coord'.commit = 0
  BY <1>2
<1>6. CoordKept
  BY <1>2, <1>4, <1>5 DEF CoordKept
<1>7. CoordFrame /\ SameCursors
  BY <1>1, <1>3 DEF CoordFrame, SameCursors
<1>8. GoodNow(Attention(coord.rec)) /\ Related(coord.rec, Attention(coord.rec))
  BY <1>1, AttentionHolds DEF GoodNow
<1>9. ~terminalState(Attention(coord.rec))
  BY <1>1 DEF GoodNow, Good, Attention, terminalState, RecordType
<1>. HIDE DEF Attention
<1>. QED  BY <1>1, <1>3, <1>6, <1>7, <1>8, <1>9, MoveStep

\* Verify keeps the invariant.
LEMMA VerifyStep == ASSUME ResetInv, Verify PROVE ResetInv'
<1>1. /\ AtCheckpoint(5)
      /\ UNCHANGED <<drain, plan, events, cursor, card, phase, gate, job, result,
                     acc, queued>>
  BY Checkpoints DEF Verify
<1>2. /\ coord.rec.st = "Committing" /\ coord.rec.cp = 5 /\ GoodNow(coord.rec)
      /\ cursor \in CursorType /\ card \in CardType /\ job.pc \notin CleanSteps
  BY <1>1, CheckpointFacts
<1>3. CASE AdvanceTo(Next_(coord.rec))
  <2>1. GoodNow(Next_(coord.rec)) /\ Related(coord.rec, Next_(coord.rec))
    BY <1>1, <1>2, NextHolds, Checkpoints DEF GoodNow
  <2>2. ~terminalState(Next_(coord.rec))
    BY <1>2 DEF GoodNow, Good, Next_, terminalState, RecordType
  <2>. HIDE DEF Next_
  <2>. QED  BY <1>1, <1>2, <1>3, <2>1, <2>2, AdvanceStep
<1>4. CASE \E a \in Attended(rec, 0) : /\ rec' = a.nvs /\ Spend(a.cost)
                                       /\ coord' = [coord EXCEPT !.rec = a.rec]
  <2>1. PICK a \in Attended(rec, 0) : /\ rec' = a.nvs /\ Spend(a.cost)
                                      /\ coord' = [coord EXCEPT !.rec = a.rec]
    BY <1>4
  <2>2. 0 \in Nat /\ 5 # 3
    OBVIOUS
  <2>. QED  BY <1>1, <1>2, <2>1, <2>2, AttentionStep
<1>. QED  BY <1>3, <1>4 DEF Verify

\* CleanupCounted keeps the invariant.
LEMMA CleanupCountedStep == ASSUME ResetInv, CleanupCounted PROVE ResetInv'
<1>. DEFINE n == DeletedOf(coord.rec, result.added)
<1>1. /\ AtCheckpoint(3) /\ coord.want = "clean" /\ job.pc = "idle" /\ result # None
      /\ UNCHANGED <<drain, plan, events, cursor, card, phase, gate, job, acc,
                     queued>>
  BY Checkpoints DEF CleanupCounted
<1>2. PICK a \in Advanced(n) :
        /\ rec' = a.nvs /\ Spend(a.cost)
        /\ coord' = [coord EXCEPT !.rec = a.rec,
                       !.want = IF a.rec.st = "AttentionRequired" THEN "none" ELSE @]
        /\ result' = IF a.rec.st = "AttentionRequired" THEN None ELSE result
  BY DEF CleanupCounted, DeletedOf
<1>3. /\ phase = "up" /\ coord.rec # None /\ coord.rec.st = "Committing"
      /\ coord.rec.cp = 3 /\ coord.commit = 0 /\ coord.prepare = None
      /\ GoodNow(coord.rec) /\ cursor \in CursorType /\ card \in CardType
      /\ ~terminalState(coord.rec) /\ tally \in TallyType
  BY <1>1, CheckpointFacts
<1>4. result.added \in Nat /\ result.added \in {0, coord.rec.count}
  <2>1. result.added \in Nat
    BY <1>1 DEF ResetInv, TypeOK, AnswerType
  <2>2. result.added # 0 => Planned(plan, coord.rec) /\ result.added = plan.files
    BY <1>1 DEF ResetInv, ResultInv
  <2>3. Counted(coord.rec, card, plan)
    BY <1>3 DEF GoodNow, Good, Held, Pinned, Final
  <2>. QED  BY <2>1, <2>2, <2>3 DEF Counted
<1>5. GoodNow(n) /\ Related(coord.rec, n)
  BY <1>3, <1>4, DeletedHolds, Checkpoints DEF GoodNow
<1>6. n.st = "Committing" /\ n.cp = 3
  BY <1>3 DEF DeletedOf, GoodNow, Good, RecordType
<1>7. ~terminalState(n)
  BY <1>6 DEF terminalState
<1>. HIDE DEF n, Attention
<1>8. a.cost \in Nat /\ Stepped(n, a)
  BY <1>2, AdvancedOutcome
<1>9. Tallied
  BY <1>2, <1>3, <1>8, SpendTallies
<1>10. /\ coord'.rec = a.rec
       /\ coord' = [rec |-> coord'.rec, prepare |-> None, commit |-> 0,
                    want |-> coord'.want]
       /\ coord'.want = IF a.rec.st = "AttentionRequired" THEN "none" ELSE coord.want
  BY <1>2, <1>3, CoordFields
<1>11. Wrote(n) \/ Wrote(Attention(coord.rec))
  BY <1>2, <1>8, <1>10, SteppedWrites
<1>12. Attention(coord.rec).st = "AttentionRequired"
  BY <1>3 DEF GoodNow, Good, Attention, RecordType
<1>13. coord'.rec.st # "AttentionRequired" =>
         coord'.rec.st = coord.rec.st /\ coord'.rec.cp = coord.rec.cp
  BY <1>3, <1>6, <1>8, <1>10, <1>12 DEF Stepped
<1>14. coord'.commit = 0 /\ coord'.want \in {"none", "drain", "clean"}
  BY <1>10, CoordFields
<1>15. CoordKept
  BY <1>1, <1>2, <1>10, <1>13, <1>14 DEF CoordKept, CleanSteps
<1>16. CoordFrame /\ SameCursors
  BY <1>1, <1>3, <1>9 DEF CoordFrame, SameCursors
<1>. QED  BY <1>3, <1>5, <1>7, <1>11, <1>15, <1>16, MoveStep

\* CleanupAnswered keeps the invariant.
LEMMA CleanupAnsweredStep == ASSUME ResetInv, CleanupAnswered PROVE ResetInv'
<1>1. /\ AtCheckpoint(3) /\ coord.want = "clean" /\ job.pc = "idle" /\ result # None
      /\ result.added = coord.rec.deleted /\ result' = None
      /\ UNCHANGED <<drain, plan, events, cursor, card, phase, gate, job, acc,
                     queued>>
  BY Checkpoints DEF CleanupAnswered
<1>2. PICK a \in IF result.ok THEN Advanced(Next_(coord.rec)) ELSE Attended(rec, 0) :
        /\ rec' = a.nvs /\ Spend(a.cost)
        /\ coord' = [coord EXCEPT !.rec = a.rec, !.want = "none"]
  BY DEF CleanupAnswered
<1>3. /\ phase = "up" /\ coord.rec # None /\ coord.rec.st = "Committing"
      /\ coord.rec.cp = 3 /\ coord.commit = 0 /\ coord.prepare = None
      /\ GoodNow(coord.rec) /\ cursor \in CursorType /\ card \in CardType
      /\ ~terminalState(coord.rec) /\ tally \in TallyType
  BY <1>1, CheckpointFacts
<1>4. job.pc \notin CleanSteps /\ result.ok \in BOOLEAN
  BY <1>1 DEF CleanSteps, ResetInv, TypeOK, AnswerType
<1>5. /\ coord'.rec = a.rec /\ coord'.want = "none" /\ coord'.commit = 0
      /\ coord' = [rec |-> coord'.rec, prepare |-> None, commit |-> 0,
                   want |-> "none"]
  BY <1>2, <1>3, CoordFields
<1>6. CASE result.ok
  <2>1. card.recs = {} /\ coord.rec.deleted = coord.rec.count
    <3>1. /\ Planned(plan, coord.rec) /\ result.added = plan.files /\ card.recs = {}
      BY <1>1, <1>6 DEF ResetInv, ResultInv
    <3>2. Counted(coord.rec, card, plan)
      BY <1>3 DEF GoodNow, Good, Held, Pinned, Final
    <3>. QED  BY <1>1, <3>1, <3>2 DEF Counted
  <2>2. GoodNow(Next_(coord.rec)) /\ Related(coord.rec, Next_(coord.rec))
    BY <1>3, <2>1, NextHolds, Checkpoints DEF GoodNow
  <2>3. ~terminalState(Next_(coord.rec))
    BY <1>3 DEF GoodNow, Good, Next_, terminalState, RecordType
  <2>. HIDE DEF Next_, Attention
  <2>4. a.cost \in Nat /\ Stepped(Next_(coord.rec), a)
    BY <1>2, <1>6, AdvancedOutcome
  <2>5. Tallied
    BY <1>2, <1>3, <2>4, SpendTallies
  <2>6. Wrote(Next_(coord.rec)) \/ Wrote(Attention(coord.rec))
    BY <1>2, <1>5, <2>4, SteppedWrites
  <2>7. CoordKept
    BY <1>1, <1>4, <1>5 DEF CoordKept
  <2>8. CoordFrame /\ SameCursors
    BY <1>1, <1>3, <2>5 DEF CoordFrame, SameCursors
  <2>. QED  BY <1>3, <2>2, <2>3, <2>6, <2>7, <2>8, MoveStep
<1>7. CASE ~result.ok
  <2>1. a \in Attended(rec, 0) /\ 0 \in Nat
    BY <1>2, <1>7
  <2>. QED  BY <1>1, <1>2, <1>4, <1>5, <2>1, AttentionStep
<1>. QED  BY <1>4, <1>6, <1>7

\* requestCommit keeps the invariant.
LEMMA CommitRequestStep ==
  ASSUME ResetInv, NEW b \in Nat, requestCommit(b) PROVE ResetInv'
<1>. DEFINE n == LatchedOf(coord.rec, b)
<1>1. /\ phase = "up" /\ coord.rec # None /\ coord.commit = 0 /\ b >= coord.rec.required
      /\ coord.rec.st \in {"Prepared", "AttentionRequired"}
      /\ UNCHANGED <<drain, plan, events, cursor, card, phase, gate, job, result,
                     acc, queued>>
  BY DEF requestCommit
<1>2. ~terminalState(coord.rec) /\ job.pc \notin CleanSteps
  BY <1>1, CleanAtCleanup DEF terminalState
<1>3. /\ coord.prepare = None /\ GoodNow(coord.rec) /\ Related(coord.rec, coord.rec)
      /\ cursor \in CursorType /\ card \in CardType /\ tally \in TallyType
  BY <1>1, <1>2, ActiveFacts DEF ResetInv, TypeOK
<1>4. CASE /\ coord.rec.st = "Prepared" /\ coord.rec.boundary = 0
           /\ \E s \in Saved(rec, n, 0) :
                /\ rec' = s.nvs
                /\ coord' = IF s.ok THEN [coord EXCEPT !.rec = n, !.commit = b]
                                    ELSE coord
                /\ Spend(s.cost)
  <2>1. PICK s \in Saved(rec, n, 0) :
          /\ rec' = s.nvs
          /\ coord' = IF s.ok THEN [coord EXCEPT !.rec = n, !.commit = b] ELSE coord
          /\ Spend(s.cost)
    BY <1>4
  <2>2. /\ GoodNow(n) /\ Related(coord.rec, n)
        /\ n.boundary = b /\ n.st = "Prepared"
    BY <1>1, <1>3, <1>4, LatchedHolds DEF GoodNow
  <2>3. n.cp = coord.rec.cp
    BY <1>3 DEF GoodNow, Good, LatchedOf, RecordType
  <2>. HIDE DEF n
  <2>4. /\ s.ok \in BOOLEAN /\ s.cost \in Nat
        /\ s.nvs = rec \/ s.nvs = n
        /\ s.ok => s.nvs = n
    BY <2>1, SavedOutcome
  <2>5. Tallied
    BY <1>3, <2>1, <2>4, SpendTallies
  <2>6. /\ coord'.rec = IF s.ok THEN n ELSE coord.rec
        /\ coord'.commit = IF s.ok THEN b ELSE 0
        /\ coord'.want = coord.want
        /\ coord' = [rec |-> coord'.rec, prepare |-> None, commit |-> coord'.commit,
                     want |-> coord'.want]
    BY <1>1, <1>3, <2>1, <2>4, CoordFields
  <2>7. CoordKept
    BY <1>1, <1>4, <2>2, <2>3, <2>4, <2>6, CoordFields DEF CoordKept
  <2>8. CoordFrame /\ SameCursors /\ Wrote(n)
    BY <1>1, <1>3, <2>1, <2>4, <2>5, <2>6 DEF CoordFrame, SameCursors, Wrote
  <2>9. ~terminalState(n)
    BY <2>2 DEF terminalState
  <2>. QED  BY <1>1, <1>2, <2>2, <2>7, <2>8, <2>9, WriteStep
<1>5. CASE /\ coord.rec.boundary = b
           /\ coord' = [coord EXCEPT !.commit = b]
           /\ UNCHANGED <<rec, tally>>
  <2>1. /\ coord'.rec = coord.rec /\ coord'.commit = b /\ coord'.want = coord.want
        /\ coord' = [rec |-> coord'.rec, prepare |-> None, commit |-> coord'.commit,
                     want |-> coord'.want]
    BY <1>3, <1>5, CoordFields
  <2>2. CoordKept
    BY <1>1, <1>5, <2>1, CoordFields DEF CoordKept
  <2>3. CoordFrame /\ SameCursors /\ Wrote(coord.rec)
    BY <1>1, <1>3, <1>5, <2>1, SameTally DEF CoordFrame, SameCursors, Wrote
  <2>. QED  BY <1>1, <1>2, <1>3, <2>2, <2>3, WriteStep
<1>. QED  BY <1>4, <1>5 DEF requestCommit, LatchedOf

\* processPendingCommit keeps the invariant.
LEMMA PendingCommitStep == ASSUME ResetInv, processPendingCommit PROVE ResetInv'
<1>1. /\ phase = "up" /\ coord.commit # 0
      /\ UNCHANGED <<drain, plan, events, cursor, card, phase, gate, job, result,
                     acc, queued>>
  BY DEF processPendingCommit
<1>2. /\ coord.rec # None /\ coord.rec.st \in {"Prepared", "AttentionRequired"}
      /\ coord.rec.boundary = coord.commit
  BY <1>1 DEF ResetInv, GateInv
<1>3. ~terminalState(coord.rec) /\ job.pc \notin CleanSteps /\ coord.want = "none"
  BY <1>2, CleanAtCleanup, CoordFields DEF terminalState, ResetInv, JobInv
<1>4. /\ coord.prepare = None /\ GoodNow(coord.rec)
      /\ cursor \in CursorType /\ card \in CardType /\ tally \in TallyType
  BY <1>1, <1>2, <1>3, ActiveFacts DEF ResetInv, TypeOK
<1>5. CASE coord.rec.st = "AttentionRequired"
  <2>. DEFINE n == ResumedOf(coord.rec)
  <2>1. PICK s \in Saved(rec, n, 0) :
          /\ rec' = s.nvs /\ Spend(s.cost)
          /\ coord' = IF ~s.ok THEN coord
                      ELSE [coord EXCEPT !.rec = n,
                              !.commit = IF coord.rec.cp = 0 THEN @ ELSE 0]
    BY <1>5 DEF processPendingCommit, ResumedOf
  <2>2. /\ GoodNow(n) /\ Related(coord.rec, n)
        /\ n.boundary = coord.rec.boundary
        /\ coord.rec.cp = 0 => n.st = "Prepared"
    BY <1>4, <1>5, ResumedHolds DEF GoodNow
  <2>3. ~terminalState(n)
    BY <1>4 DEF GoodNow, Good, ResumedOf, resumeStateForCheckpoint,
       terminalState,
                RecordType
  <2>. HIDE DEF n
  <2>4. /\ s.ok \in BOOLEAN /\ s.cost \in Nat
        /\ s.nvs = rec \/ s.nvs = n
        /\ s.ok => s.nvs = n
    BY <2>1, SavedOutcome
  <2>5. Tallied
    BY <1>4, <2>1, <2>4, SpendTallies
  <2>6. /\ coord'.rec = IF s.ok THEN n ELSE coord.rec
        /\ coord'.commit = IF s.ok /\ coord.rec.cp # 0 THEN 0 ELSE coord.commit
        /\ coord'.want = "none"
        /\ coord' = [rec |-> coord'.rec, prepare |-> None, commit |-> coord'.commit,
                     want |-> coord'.want]
    BY <1>3, <1>4, <2>1, <2>4, CoordFields
  <2>7. CoordKept
    BY <1>1, <1>2, <1>3, <2>2, <2>4, <2>6, CoordFields DEF CoordKept
  <2>8. CoordFrame /\ SameCursors /\ Wrote(n)
    BY <1>1, <1>4, <2>1, <2>4, <2>5, <2>6 DEF CoordFrame, SameCursors, Wrote
  <2>. QED  BY <1>1, <1>2, <1>3, <2>2, <2>3, <2>7, <2>8, WriteStep
<1>6. CASE coord.rec.st = "Prepared"
  <2>. DEFINE n == AuthorizedOf(coord.rec)
  <2>1. GoodNow(n) /\ Related(coord.rec, n)
    BY <1>1, <1>2, <1>4, <1>6, AuthorizedHolds DEF GoodNow
  <2>2. ~terminalState(n)
    BY <1>4 DEF GoodNow, Good, AuthorizedOf, terminalState, RecordType
  <2>3. PICK t \in {n, Attention(coord.rec), coord.rec}, spent \in {0, 1} :
          \E s : /\ s \in Saved(rec, t, spent) \/ s \in SavedFresh(rec, t, spent)
                 /\ rec' = s.nvs /\ Spend(s.cost)
                 /\ \/ coord' = [coord EXCEPT !.rec = t, !.commit = 0] /\ s.ok
                    \/ coord' = [coord EXCEPT !.rec = @, !.commit = 0] /\ ~s.ok
                    \/ coord' = coord /\ ~s.ok
    <3>. HIDE DEF Attention
    <3>1. CASE \E s \in SavedFresh(rec, n, 0) :
                 /\ rec' = s.nvs /\ Spend(s.cost)
                 /\ coord' = IF s.ok THEN [coord EXCEPT !.rec = n, !.commit = 0]
                                     ELSE coord
      <4>. HIDE DEF n, Spend, SavedFresh
      <4>. QED  BY <3>1
    <3>2. CASE \E t \in {Attention(coord.rec), coord.rec} :
               \E s \in Saved(rec, t, 1) :
                 /\ rec' = s.nvs /\ Spend(s.cost)
                 /\ coord' = [coord EXCEPT !.rec = IF s.ok THEN t ELSE @, !.commit = 0]
      <4>. HIDE DEF n, Spend, Saved
      <4>. QED  BY <3>2
    <3>. QED  BY <1>6, <3>1, <3>2 DEF processPendingCommit, AuthorizedOf
  <2>4. PICK s : /\ s \in Saved(rec, t, spent) \/ s \in SavedFresh(rec, t, spent)
                 /\ rec' = s.nvs /\ Spend(s.cost)
                 /\ \/ coord' = [coord EXCEPT !.rec = t, !.commit = 0] /\ s.ok
                    \/ coord' = [coord EXCEPT !.rec = @, !.commit = 0] /\ ~s.ok
                    \/ coord' = coord /\ ~s.ok
    BY <2>3
  <2>5. spent \in Nat
    BY <2>3
  <2>. HIDE DEF n, Attention
  <2>6. /\ s.ok \in BOOLEAN /\ s.cost \in Nat
        /\ s.nvs = rec \/ s.nvs = t
        /\ s.ok => s.nvs = t
    BY <2>4, <2>5, SavedOutcome
  <2>7. Tallied
    BY <1>4, <2>4, <2>6, SpendTallies
  <2>8. /\ coord'.rec = IF s.ok THEN t ELSE coord.rec
        /\ coord'.commit = 0 \/ (coord'.commit = coord.commit /\ ~s.ok)
        /\ coord'.want = "none"
        /\ coord' = [rec |-> coord'.rec, prepare |-> None, commit |-> coord'.commit,
                     want |-> coord'.want]
    BY <1>3, <1>4, <2>4, <2>6, CoordFields
  <2>9. CoordKept
    BY <1>1, <1>2, <1>3, <2>6, <2>8, CoordFields DEF CoordKept
  <2>10. CoordFrame /\ SameCursors /\ Wrote(t)
    BY <1>1, <1>4, <2>4, <2>6, <2>7, <2>8 DEF CoordFrame, SameCursors, Wrote
  <2>11. CASE t \in {n, Attention(coord.rec)}
    BY <1>1, <1>2, <1>6, <2>1, <2>2, <2>9, <2>10, <2>11, MoveStep
  <2>12. CASE t = coord.rec
    <3>1. Related(coord.rec, coord.rec)
      BY <1>1, <1>2, <1>3, ActiveFacts
    <3>. QED  BY <1>1, <1>2, <1>3, <1>4, <2>9, <2>10, <2>12, <3>1, WriteStep
  <2>. QED  BY <2>3, <2>11, <2>12
<1>. QED  BY <1>2, <1>5, <1>6

\* The cursors after k of their three writes: both records keep their
\* promises, and what is of the old generation stays below the new one.
LEMMA CursorsHold ==
  ASSUME ResetInv, AtCheckpoint(2), cursor.ack <= coord.rec.boundary,
         NEW k \in 0..3, NEW cu, cu = CursorsAfter(k)
  PROVE  /\ cu \in CursorType
         /\ Good(coord.rec, cu, card, plan, drain, tally.handed)
         /\ Good(rec, cu, card, plan, drain, tally.handed)
         /\ card.next > cu.ack /\ card.next > cu.boundary
         /\ \A x \in card.recs : x.gen <= cu.gen
         /\ \A x \in tally.handed : x.gen <= cu.gen
         /\ \/ cu.gen = cursor.gen /\ cu.boundary = cursor.boundary
            \/ /\ cu.gen = coord.rec.target
               /\ \A x \in card.recs : x.gen < cu.gen
               /\ \A x \in tally.handed : x.gen < cu.gen
         /\ k = 3 => /\ cu.gen = coord.rec.target /\ cu.ack = coord.rec.boundary
                     /\ cu.boundary = coord.rec.boundary
         /\ rec # None /\ ~terminalState(rec) /\ rec.target = coord.rec.target
<1>. DEFINE c == coord.rec
<1>1. /\ phase = "up" /\ c # None /\ c.st = "Committing"
      /\ c.cp = 2 /\ ~terminalState(c) /\ GoodNow(c) /\ ~Pending(drain)
      /\ cursor \in CursorType /\ card \in CardType
  BY CheckpointFacts
<1>2. GoodNow(rec) /\ Related(c, rec)
  BY <1>1, ActiveFacts
<1>3. /\ c \in RecordType /\ rec \in RecordType /\ rec # None
      /\ c.boundary \in Nat /\ c.target \in Nat
  BY <1>1, <1>2, RecordIsSome DEF GoodNow, Good, RecordType
<1>4. /\ cu \in CursorType
      /\ cu.ack = IF k >= 1 THEN c.boundary ELSE cursor.ack
      /\ cu.gen = IF k >= 2 THEN c.target ELSE cursor.gen
      /\ cu.boundary = IF k >= 3 THEN c.boundary ELSE cursor.boundary
      /\ cu.base = cursor.base
  <2>1. cu = [ack |-> IF k >= 1 THEN c.boundary ELSE cursor.ack,
              gen |-> IF k >= 2 THEN c.target ELSE cursor.gen,
              boundary |-> IF k >= 3 THEN c.boundary ELSE cursor.boundary,
              offset |-> cursor.offset, base |-> cursor.base]
    BY <1>1 DEF CursorsAfter, CursorType
  <2>. HIDE DEF c
  <2>. QED  BY <1>1, <1>3, <2>1 DEF CursorType
<1>5. Held(c, cursor, card, plan, drain, tally.handed)
      /\ Held(rec, cursor, card, plan, drain, tally.handed)
      /\ validStateCheckpoint(rec.st, rec.cp) /\ validStateCheckpoint(c.st, c.cp)
  BY <1>1, <1>2 DEF GoodNow, Good
<1>. HIDE DEF c
<1>6. /\ c.boundary # 0 /\ card.next > c.boundary
      /\ c.target = cursor.gen + 1 \/ c.target = cursor.gen
      /\ c.target = cursor.gen => /\ \A x \in card.recs : x.gen < cursor.gen
                                  /\ \A x \in tally.handed : x.gen < cursor.gen
  BY <1>1, <1>5, Checkpoints DEF Held, Final
<1>7. /\ rec.boundary = c.boundary /\ rec.target = c.target
      /\ rec.cp \in {2, 3} /\ rec.st \in {"Committing", "AttentionRequired"}
  <2>1. rec.boundary = c.boundary /\ rec.target = c.target /\ rec.cp \in {2, 3}
    BY <1>1, <1>2, <1>6 DEF Related
  <2>. QED  BY <1>5, <2>1, Checkpoints DEF validStateCheckpoint
<1>8. ~terminalState(rec)
  BY <1>7 DEF terminalState
<1>9. /\ \A x \in card.recs : x.gen <= cursor.gen /\ x.gen \in Nat
      /\ \A x \in tally.handed : x.gen <= cursor.gen /\ x.gen \in Nat
      /\ card.next > cursor.ack /\ card.next > cursor.boundary
      /\ cursor.gen \in Nat
  BY DEF ResetInv, GenInv, CardInv, TypeOK, CardType, StoredType, TallyType,
         CursorType
<1>10. \/ cu.gen = cursor.gen /\ cu.boundary = cursor.boundary
       \/ /\ cu.gen = c.target
          /\ \A x \in card.recs : x.gen < cu.gen
          /\ \A x \in tally.handed : x.gen < cu.gen
  BY <1>4, <1>6, <1>9
<1>11. /\ \A x \in card.recs : x.gen <= cu.gen
       /\ \A x \in tally.handed : x.gen <= cu.gen
  BY <1>4, <1>6, <1>9
<1>12. /\ \A x \in card.recs : c.target = cu.gen => x.gen < cu.gen
       /\ \A x \in tally.handed : c.target = cu.gen => x.gen < cu.gen
  BY <1>4, <1>6, <1>9
<1>13. Held(c, cu, card, plan, drain, tally.handed)
  BY <1>1, <1>4, <1>5, <1>6, <1>12, Checkpoints DEF Held, Final, Pinned
<1>14. rec.cp = 3 => /\ cu.gen = rec.target /\ cu.boundary = rec.boundary
                     /\ cu.ack >= rec.boundary
  BY <1>3, <1>4, <1>5, <1>7, Checkpoints DEF Held
<1>15. Held(rec, cu, card, plan, drain, tally.handed)
  BY <1>3, <1>4, <1>5, <1>6, <1>7, <1>8, <1>12, <1>14, Checkpoints
  DEF Held, Final, Pinned
<1>16. card.next > cu.ack /\ card.next > cu.boundary
  BY <1>4, <1>6, <1>9
<1>. QED
  BY <1>3, <1>4, <1>5, <1>7, <1>8, <1>10, <1>11, <1>13, <1>15, <1>16 DEF Good,
     c

\* A step to n or to attention that may move the cursors, except for what the
\* card, the generations and the journal say.
LEMMA MoveKeeps ==
  ASSUME ResetInv, phase = "up", coord.rec # None, coord.rec.st = "Committing",
         NEW n, Wrote(n) \/ Wrote(Attention(coord.rec)), CoordFrame, CoordKept,
         GoodNext(coord.rec), GoodNext(rec), GoodNext(n), Related(coord.rec, n),
         ~terminalState(n)
  PROVE  /\ TypeOK' /\ RecordsInv' /\ RelationInv'
         /\ PhaseInv' /\ GateInv' /\ JobInv' /\ ResultInv' /\ PlanInv'
         /\ AccInv' /\ EventInv'
         /\ rec' # None /\ rec'.target = coord.rec.target
         /\ ~terminalState(rec) => ~terminalState(rec')
         /\ cursor'.ack = cursor.ack /\ cursor'.gen = cursor.gen
            /\ cursor'.boundary = cursor.boundary => ResetInv'
<1>1. ~terminalState(coord.rec) /\ cursor' \in CursorType /\ card' \in CardType
  BY DEF terminalState, CoordFrame, ResetInv, TypeOK
<1>2. GoodNext(Attention(coord.rec)) /\ Related(coord.rec, Attention(coord.rec))
  BY <1>1, AttentionHolds DEF GoodNext
<1>3. ~terminalState(Attention(coord.rec))
  BY DEF GoodNext, Good, Attention, terminalState, RecordType
<1>. HIDE DEF Attention
<1>4. PICK m : /\ Wrote(m) /\ GoodNext(m) /\ Related(coord.rec, m)
               /\ ~terminalState(m)
  BY <1>2, <1>3
<1>5. Moved(m, m) /\ GoodNext(m) /\ Related(coord.rec, m) /\ ~terminalState(m)
  BY <1>1, <1>4, ActiveFacts, WroteMoves
<1>6. /\ TypeOK' /\ RecordsInv' /\ RelationInv'
      /\ rec' # None /\ rec'.target = coord.rec.target
      /\ rec' = rec \/ rec' = m
  BY <1>1, <1>5, WriteKeepsRecords
<1>7. /\ PhaseInv' /\ GateInv' /\ JobInv' /\ ResultInv' /\ PlanInv'
      /\ AccInv' /\ EventInv'
  BY <1>1, <1>5, WriteKeepsGates
<1>8. ASSUME cursor'.ack = cursor.ack, cursor'.gen = cursor.gen,
             cursor'.boundary = cursor.boundary
      PROVE  CardInv' /\ GenInv' /\ PendingInv' /\ HandedInv'
  BY <1>1, <1>5, <1>8, WriteKeepsCard
<1>9. ~terminalState(rec) => ~terminalState(rec')
  BY <1>4, <1>6
<1>10. /\ cursor'.ack = cursor.ack /\ cursor'.gen = cursor.gen
         /\ cursor'.boundary = cursor.boundary => ResetInv'
  BY <1>6, <1>7, <1>8 DEF ResetInv
<1>. QED  BY <1>6, <1>7, <1>9, <1>10

\* InstallBaseline keeps the invariant.
LEMMA InstallBaselineStep == ASSUME ResetInv, InstallBaseline PROVE ResetInv'
<1>1. /\ AtCheckpoint(4) /\ cursor' = [cursor EXCEPT !.base = coord.rec.target]
      /\ AdvanceTo(Next_(coord.rec))
      /\ UNCHANGED <<drain, plan, events, card, phase, gate, job, result, acc,
                     queued>>
  BY Checkpoints DEF InstallBaseline
<1>2. /\ phase = "up" /\ coord.rec # None /\ coord.rec.st = "Committing"
      /\ coord.rec.cp = 4 /\ coord.commit = 0 /\ coord.prepare = None
      /\ GoodNow(coord.rec) /\ cursor \in CursorType /\ card \in CardType
      /\ ~terminalState(coord.rec) /\ job.pc \notin CleanSteps
  BY <1>1, CheckpointFacts
<1>3. GoodNow(rec) /\ Related(coord.rec, rec)
  BY <1>2, ActiveFacts
<1>4. coord.rec \in RecordType /\ coord.rec.target \in Nat
  BY <1>2 DEF GoodNow, Good, RecordType
<1>5. /\ cursor' \in CursorType /\ cursor'.base = coord.rec.target
      /\ cursor'.ack = cursor.ack /\ cursor'.gen = cursor.gen
      /\ cursor'.boundary = cursor.boundary
  BY <1>1, <1>2, <1>4 DEF CursorType
<1>6. /\ Wrote(Next_(coord.rec)) \/ Wrote(Attention(coord.rec))
      /\ Tallied
      /\ coord' = [rec |-> coord'.rec, prepare |-> coord.prepare,
                   commit |-> coord.commit, want |-> "none"]
  BY <1>1, AdvanceToWrites
<1>7. GoodNext(coord.rec) /\ GoodNext(rec)
  <2>1. rec.target = coord.rec.target
    BY <1>3 DEF Related
  <2>. QED  BY <1>1, <1>2, <1>3, <1>5, <1>6, <2>1
            DEF GoodNow, GoodNext, Good, Held, Tallied
<1>8. GoodNext(Next_(coord.rec)) /\ Related(coord.rec, Next_(coord.rec))
  <2>1. card' \in CardType /\ GoodNext(coord.rec)
    BY <1>1, <1>2, <1>7
  <2>. HIDE DEF Next_
  <2>. QED  BY <1>2, <1>5, <2>1, NextHolds, Checkpoints DEF GoodNext
<1>9. ~terminalState(Next_(coord.rec))
  BY <1>2 DEF GoodNow, Good, Next_, terminalState, RecordType
<1>10. coord'.commit = 0 /\ coord'.want = "none"
  BY <1>2, <1>6
<1>11. CoordKept
  BY <1>1, <1>2, <1>6, <1>10 DEF CoordKept
<1>12. CoordFrame
  BY <1>1, <1>5, <1>6 DEF CoordFrame
<1>. HIDE DEF Next_, Attention
<1>. QED  BY <1>2, <1>5, <1>6, <1>7, <1>8, <1>9, <1>11, <1>12, MoveKeeps

\* AdvanceCursors keeps the invariant: however many of its writes were made.
LEMMA AdvanceCursorsStep == ASSUME ResetInv, AdvanceCursors PROVE ResetInv'
<1>1. /\ AtCheckpoint(2)
      /\ UNCHANGED <<drain, plan, events, card, phase, gate, job, result, acc,
                     queued>>
  BY Checkpoints DEF AdvanceCursors
<1>2. /\ phase = "up" /\ coord.rec # None /\ coord.rec.st = "Committing"
      /\ coord.rec.cp = 2 /\ coord.commit = 0 /\ coord.prepare = None
      /\ GoodNow(coord.rec) /\ cursor \in CursorType /\ card \in CardType
      /\ ~terminalState(coord.rec) /\ job.pc \notin CleanSteps /\ ~Pending(drain)
  BY <1>1, CheckpointFacts
<1>3. coord.want = "none"
  BY <1>2, Checkpoints, CoordFields DEF ResetInv, JobInv
<1>4. CASE cursor.ack > coord.rec.boundary
  <2>1. PICK a \in Attended(rec, 0) : /\ rec' = a.nvs /\ Spend(a.cost)
                                      /\ coord' = [coord EXCEPT !.rec = a.rec]
    BY <1>4 DEF AdvanceCursors
  <2>2. 0 \in Nat /\ 2 # 3 /\ UNCHANGED cursor
    BY <1>4 DEF AdvanceCursors
  <2>. QED  BY <1>1, <1>2, <2>1, <2>2, AttentionStep
<1>5. CASE ~(cursor.ack > coord.rec.boundary)
  <2>1. cursor.ack <= coord.rec.boundary
    BY <1>2, <1>5 DEF GoodNow, Good, RecordType, CursorType
  <2>2. PICK k \in 0..3 :
          /\ cursor' = CursorsAfter(k)
          /\ \/ k = 3 /\ AdvanceTo(Next_(coord.rec))
             \/ \E a \in Attended(rec, 1) : /\ rec' = a.nvs /\ Spend(a.cost)
                                            /\ coord' = [coord EXCEPT !.rec = a.rec]
    <3>1. 3 \in 0..3 /\ 0..2 \subseteq 0..3
      OBVIOUS
    <3>. HIDE DEF CursorsAfter, AdvanceTo, Next_
    <3>. QED  BY <1>5, <3>1 DEF AdvanceCursors
  <2>3. /\ Tallied
        /\ (k = 3 /\ Wrote(Next_(coord.rec))) \/ Wrote(Attention(coord.rec))
        /\ coord' = [rec |-> coord'.rec, prepare |-> None, commit |-> 0,
                     want |-> "none"]
    <3>1. CASE k = 3 /\ AdvanceTo(Next_(coord.rec))
      <4>. HIDE DEF Next_
      <4>. QED  BY <1>2, <3>1, AdvanceToWrites
    <3>2. CASE \E a \in Attended(rec, 1) : /\ rec' = a.nvs /\ Spend(a.cost)
                                           /\ coord' = [coord EXCEPT !.rec = a.rec]
      <4>1. PICK a \in Attended(rec, 1) : /\ rec' = a.nvs /\ Spend(a.cost)
                                          /\ coord' = [coord EXCEPT !.rec = a.rec]
        BY <3>2
      <4>2. /\ coord'.rec = a.rec
            /\ coord' = [rec |-> coord'.rec, prepare |-> None, commit |-> 0,
                         want |-> "none"]
        BY <1>2, <1>3, <4>1, CoordFields
      <4>3. 1 \in Nat
        OBVIOUS
      <4>. QED  BY <4>1, <4>2, <4>3, AttendedWrites
    <3>. QED  BY <2>2, <3>1, <3>2
  <2>4. /\ cursor' \in CursorType
        /\ Good(coord.rec, cursor', card, plan, drain, tally.handed)
        /\ Good(rec, cursor', card, plan, drain, tally.handed)
        /\ card.next > cursor'.ack /\ card.next > cursor'.boundary
        /\ \A x \in card.recs : x.gen <= cursor'.gen
        /\ \A x \in tally.handed : x.gen <= cursor'.gen
        /\ \/ cursor'.gen = cursor.gen /\ cursor'.boundary = cursor.boundary
           \/ /\ cursor'.gen = coord.rec.target
              /\ \A x \in card.recs : x.gen < cursor'.gen
              /\ \A x \in tally.handed : x.gen < cursor'.gen
        /\ k = 3 => /\ cursor'.gen = coord.rec.target
                    /\ cursor'.ack = coord.rec.boundary
                    /\ cursor'.boundary = coord.rec.boundary
        /\ rec # None /\ ~terminalState(rec) /\ rec.target = coord.rec.target
    BY <1>1, <2>1, <2>2, CursorsHold
  <2>5. GoodNext(coord.rec) /\ GoodNext(rec)
    BY <1>1, <2>3, <2>4 DEF GoodNext, Tallied
  <2>6. PICK n : /\ Wrote(n) \/ Wrote(Attention(coord.rec))
                 /\ GoodNext(n) /\ Related(coord.rec, n) /\ ~terminalState(n)
    <3>1. card' \in CardType /\ cursor' \in CursorType
      BY <1>1, <1>2, <2>4
    <3>2. CASE k = 3 /\ Wrote(Next_(coord.rec))
      <4>1. cursor'.ack >= coord.rec.boundary
        BY <2>4, <3>2 DEF CursorType
      <4>2. GoodNext(Next_(coord.rec)) /\ Related(coord.rec, Next_(coord.rec))
        <5>. HIDE DEF Next_
        <5>. QED  BY <1>2, <2>4, <2>5, <3>1, <3>2, <4>1, NextHolds, Checkpoints
                  DEF GoodNext
      <4>3. ~terminalState(Next_(coord.rec))
        BY <1>2 DEF GoodNow, Good, Next_, terminalState, RecordType
      <4>. QED  BY <3>2, <4>2, <4>3
    <3>3. CASE Wrote(Attention(coord.rec))
      <4>1. /\ GoodNext(Attention(coord.rec))
            /\ Related(coord.rec, Attention(coord.rec))
        BY <1>2, <2>5, <3>1, AttentionHolds DEF GoodNext
      <4>2. ~terminalState(Attention(coord.rec))
        BY <1>2 DEF GoodNow, Good, Attention, terminalState, RecordType
      <4>. QED  BY <3>3, <4>1, <4>2
    <3>. QED  BY <2>3, <3>2, <3>3
  <2>7. CoordKept
    <3>1. coord'.commit = 0 /\ coord'.want = "none"
      BY <2>3
    <3>. QED  BY <1>1, <1>2, <2>3, <3>1 DEF CoordKept
  <2>8. CoordFrame
    BY <1>1, <2>3, <2>4 DEF CoordFrame
  <2>9. /\ TypeOK' /\ RecordsInv' /\ RelationInv'
        /\ PhaseInv' /\ GateInv' /\ JobInv' /\ ResultInv' /\ PlanInv'
        /\ AccInv' /\ EventInv'
        /\ rec' # None /\ rec'.target = coord.rec.target
        /\ ~terminalState(rec')
    <3>. HIDE DEF Attention
    <3>. QED  BY <1>2, <2>4, <2>5, <2>6, <2>7, <2>8, MoveKeeps
  <2>10. /\ UNCHANGED <<card, drain>> /\ tally'.handed = tally.handed
         /\ tally'.intervals = tally.intervals
    BY <1>1, <2>3 DEF Tallied
  <2>11. CardInv'
    BY <2>4, <2>10 DEF ResetInv, CardInv
  <2>12. GenInv'
    <3>1. CASE cursor'.gen = cursor.gen /\ cursor'.boundary = cursor.boundary
      BY <2>4, <2>9, <2>10, <3>1 DEF ResetInv, GenInv
    <3>2. CASE /\ cursor'.gen = coord.rec.target
               /\ \A x \in card.recs : x.gen < cursor'.gen
               /\ \A x \in tally.handed : x.gen < cursor'.gen
      <4>1. \A x \in card.recs : x.gen \in Nat
        BY <1>2 DEF CardType, StoredType
      <4>. QED  BY <2>4, <2>9, <2>10, <3>2, <4>1 DEF GenInv, CursorType
    <3>. QED  BY <2>4, <3>1, <3>2
  <2>13. PendingInv'
    BY <1>2, <2>10 DEF PendingInv
  <2>14. HandedInv'
    <3>1. CASE cursor'.gen = cursor.gen
      BY <2>10, <3>1 DEF ResetInv, HandedInv, Pending
    <3>2. CASE \A x \in tally.handed : x.gen < cursor'.gen
      <4>1. \A x \in tally.handed : x.gen \in Nat
        BY DEF ResetInv, TypeOK, TallyType
      <4>. QED  BY <2>4, <2>10, <3>2, <4>1 DEF HandedInv, CursorType
    <3>. QED  BY <2>4, <3>1, <3>2
  <2>. QED  BY <2>9, <2>11, <2>12, <2>13, <2>14 DEF ResetInv
<1>. QED  BY <1>4, <1>5

\* The evidence captured for Prepared is what a prepared record promises.
LEMMA PreparedHolds ==
  ASSUME ResetInv, coord.rec # None, coord.rec.st = "Preparing",
         GoodNow(coord.rec), GoodNow(rec), Related(coord.rec, rec),
         result # None, result.added <= 2, ~Pending(drain)
  PROVE  /\ GoodNow(Prepared(coord.rec)) /\ Related(coord.rec, Prepared(coord.rec))
         /\ ~terminalState(Prepared(coord.rec))
<1>. DEFINE c == coord.rec
            n == Prepared(c)
<1>1. /\ c \in RecordType /\ validStateCheckpoint(c.st, c.cp)
      /\ Held(c, cursor, card, plan, drain, tally.handed)
  BY DEF GoodNow, Good
<1>2. /\ result.added \in 0..2 /\ result.last \in Nat
      /\ card.next \in Nat /\ cursor.ack \in Nat /\ cursor.boundary \in Nat
      /\ cursor.gen \in Nat /\ card \in CardType /\ cursor \in CursorType
  <2>1. card \in CardType /\ cursor \in CursorType /\ result \in AnswerType
    BY DEF ResetInv, TypeOK
  <2>2. result.added \in 0..2 /\ result.last \in Nat
    BY <2>1 DEF AnswerType
  <2>. QED  BY <2>1, <2>2 DEF CardType, CursorType
<1>3. Newest(card.recs) \in Nat /\ Newest(card.recs) < card.next
  BY <1>2, NewestBelowNext DEF ResetInv
<1>4. highestTrustedBoundary \in Nat
  <2>1. card.next - 1 \in Nat
    BY <1>2, <1>3
  <2>2. ASSUME NEW a \in Nat, NEW b \in Nat, NEW e \in Nat, NEW f \in Nat
        PROVE  Max({a, b, e, f}) \in Nat
    <3>1. a \in Int /\ b \in Int /\ e \in Int /\ f \in Int
      OBVIOUS
    <3>2. Max({a, b, e, f}) \in {a, b, e, f}
      BY <3>1, MaxOfFour
    <3>. QED  BY <3>2
  <2>. HIDE DEF Newest
  <2>. QED  BY <1>2, <1>3, <2>1, <2>2 DEF highestTrustedBoundary
<1>5. Cardinality(card.recs) \in Nat
  BY FS_CardinalityType DEF ResetInv, TypeOK
<1>6. c.cp = 0 /\ c.boundary = 0 /\ c.deleted = 0 /\ c.target = cursor.gen + 1
  <2>1. c.cp = 0
    BY <1>1, Checkpoints DEF validStateCheckpoint
  <2>. QED  BY <1>1, <2>1, Checkpoints DEF Held, Final, terminalState
<1>7. plan # None => plan.op # c.op
  BY <1>6, Checkpoints DEF ResetInv, PlanInv
<1>8. /\ n \in RecordType
      /\ n.op = c.op /\ n.target = c.target /\ n.st = "Prepared" /\ n.cp = 0
      /\ n.count = Cardinality(card.recs) /\ n.boundary = 0 /\ n.deleted = 0
  <2>. DEFINE Kept(x, y) == /\ y \in RecordType
                            /\ y.op = x.op /\ y.target = x.target /\ y.cp = x.cp
                            /\ y.boundary = x.boundary /\ y.deleted = x.deleted
              m1 == [c EXCEPT !.st = "Prepared"]
              m2 == [m1 EXCEPT !.newest = Newest(card.recs)]
              m3 == [m2 EXCEPT !.next = card.next]
              m4 == [m3 EXCEPT !.count = Cardinality(card.recs)]
              m5 == [m4 EXCEPT !.added = result.added]
              m6 == [m5 EXCEPT !.last = result.last]
  <2>1. n = [m6 EXCEPT !.required = highestTrustedBoundary]
    BY DEF Prepared
  <2>. HIDE DEF c, n, highestTrustedBoundary, Newest
  <2>2. Kept(c, m1) /\ m1.st = "Prepared"
    BY <1>1 DEF RecordType
  <2>. HIDE DEF m1
  <2>3. Kept(c, m2) /\ m2.st = "Prepared"
    BY <1>3, <2>2 DEF RecordType
  <2>. HIDE DEF m2
  <2>4. Kept(c, m3) /\ m3.st = "Prepared"
    BY <1>2, <2>3 DEF RecordType
  <2>. HIDE DEF m3
  <2>5. Kept(c, m4) /\ m4.st = "Prepared" /\ m4.count = Cardinality(card.recs)
    BY <1>5, <2>4 DEF RecordType
  <2>. HIDE DEF m4
  <2>6. Kept(c, m5) /\ m5.st = "Prepared" /\ m5.count = Cardinality(card.recs)
    BY <1>2, <2>5 DEF RecordType
  <2>. HIDE DEF m5
  <2>7. Kept(c, m6) /\ m6.st = "Prepared" /\ m6.count = Cardinality(card.recs)
    BY <1>2, <2>6 DEF RecordType
  <2>. HIDE DEF m6
  <2>8. Kept(c, n) /\ n.st = "Prepared" /\ n.count = Cardinality(card.recs)
    BY <1>4, <2>1, <2>7 DEF RecordType
  <2>. QED  BY <1>6, <2>8
<1>. HIDE DEF c, n, highestTrustedBoundary, Newest
<1>9. validStateCheckpoint(n.st, n.cp)
  BY <1>8 DEF validStateCheckpoint
<1>10. Held(n, cursor, card, plan, drain, tally.handed)
  <2>1. Counted(n, card, plan)
    BY <1>7, <1>8 DEF Counted, Planned
  <2>2. cursor.gen + 1 # cursor.gen
    BY <1>2
  <2>. QED  BY <1>6, <1>8, <2>1, <2>2, Checkpoints
            DEF Held, Final, Pinned, terminalState
<1>11. Related(c, n)
  BY <1>6, <1>8, RecordIsSome DEF Related, terminalState, c
<1>12. ~terminalState(n)
  BY <1>8 DEF terminalState
<1>. QED  BY <1>8, <1>9, <1>10, <1>11, <1>12 DEF GoodNow, Good, c, n

\* progressPreparing keeps the invariant.
LEMMA ProgressPreparingStep == ASSUME ResetInv, progressPreparing PROVE ResetInv'
<1>. DEFINE p == Prepared(coord.rec)
            usable == result.ok /\ (result.added > 0 => result.offset >= cursor.offset)
<1>1. /\ phase = "up" /\ coord.rec # None /\ coord.rec.st = "Preparing"
      /\ coord.want = "drain" /\ job.pc = "idle" /\ result # None
      /\ result' = None
      /\ cursor' = IF usable /\ result.added > 0
                   THEN [cursor EXCEPT !.offset = result.offset] ELSE cursor
      /\ UNCHANGED <<drain, plan, events, card, phase, gate, job, acc, queued>>
  BY DEF progressPreparing
<1>2. PICK checked \in Checks :
        IF ~usable \/ ~checked
        THEN /\ rec' = rec /\ Spend(Cost(checked))
             /\ coord' = [coord EXCEPT !.want = "none"]
        ELSE \E s \in SavedFresh(rec, p, 0) :
               \/ /\ rec' = s.nvs /\ Spend(s.cost)
                  /\ coord' = [coord EXCEPT !.want = "none",
                                            !.rec = IF s.ok THEN p ELSE @]
               \/ /\ s.ok
                  /\ \E a \in Saved(p, Attention(p), s.cost + 1) :
                       /\ rec' = a.nvs /\ Spend(a.cost)
                       /\ coord' = [coord EXCEPT !.want = "none",
                                      !.rec = IF a.ok THEN Attention(p) ELSE p]
  BY DEF progressPreparing
<1>3. ~terminalState(coord.rec)
  BY <1>1 DEF terminalState
<1>4. /\ coord.prepare = None /\ Related(coord.rec, rec)
      /\ Related(coord.rec, coord.rec) /\ GoodNow(coord.rec) /\ GoodNow(rec)
  BY <1>1, <1>3, ActiveFacts
<1>5. /\ cursor \in CursorType /\ tally \in TallyType /\ result \in AnswerType
      /\ coord.commit = 0
  BY <1>1 DEF ResetInv, TypeOK, GateInv
<1>6. SameCursors /\ cursor' \in CursorType
  BY <1>1, <1>5 DEF SameCursors, CursorType, AnswerType
<1>7. result.added <= 2 /\ (result.ok => ~Pending(drain))
  BY <1>1 DEF ResetInv, ResultInv
<1>8. CASE ~usable \/ ~checked
  <2>1. rec' = rec /\ Spend(Cost(checked)) /\ coord' = [coord EXCEPT !.want = "none"]
    BY <1>2, <1>8
  <2>2. /\ coord' = [rec |-> coord.rec, prepare |-> None, commit |-> 0,
                     want |-> "none"]
    BY <1>4, <1>5, <2>1, CoordFields
  <2>3. coord'.rec = coord.rec /\ coord'.commit = 0 /\ coord'.want = "none"
    BY <2>2
  <2>4. Tallied
    BY <1>5, <2>1, CostIsNatural, SpendTallies
  <2>5. CoordKept
    BY <1>1, <2>2, <2>3 DEF CoordKept, CleanSteps
  <2>6. CoordFrame /\ Wrote(coord.rec)
    BY <1>1, <1>6, <2>1, <2>3, <2>4 DEF CoordFrame, Wrote
  <2>. QED  BY <1>1, <1>3, <1>4, <1>6, <2>5, <2>6, WriteStep
<1>9. CASE ~(~usable \/ ~checked)
  <2>1. PICK s \in SavedFresh(rec, p, 0) :
          \/ /\ rec' = s.nvs /\ Spend(s.cost)
             /\ coord' = [coord EXCEPT !.want = "none", !.rec = IF s.ok THEN p ELSE @]
          \/ /\ s.ok
             /\ \E a \in Saved(p, Attention(p), s.cost + 1) :
                  /\ rec' = a.nvs /\ Spend(a.cost)
                  /\ coord' = [coord EXCEPT !.want = "none",
                                 !.rec = IF a.ok THEN Attention(p) ELSE p]
    BY <1>2, <1>9
  <2>2. /\ GoodNow(p) /\ Related(coord.rec, p) /\ ~terminalState(p)
        /\ p.st = "Prepared"
    <3>1. GoodNow(p) /\ Related(coord.rec, p) /\ ~terminalState(p)
      <4>. HIDE DEF Prepared
      <4>. QED  BY <1>1, <1>4, <1>7, <1>9, PreparedHolds
    <3>2. p.st = "Prepared"
      BY <1>4 DEF GoodNow, Good, Prepared, RecordType
    <3>. QED  BY <3>1, <3>2
  <2>. HIDE DEF p
  <2>3. /\ s.ok \in BOOLEAN /\ s.cost \in Nat
        /\ s.nvs = rec \/ s.nvs = p
        /\ s.ok => s.nvs = p
    BY <2>1, SavedOutcome
  <2>4. CASE /\ rec' = s.nvs /\ Spend(s.cost)
             /\ coord' = [coord EXCEPT !.want = "none", !.rec = IF s.ok THEN p ELSE @]
    <3>1. coord' = [rec |-> IF s.ok THEN p ELSE coord.rec, prepare |-> None,
                    commit |-> 0, want |-> "none"]
      BY <1>4, <1>5, <2>4, CoordFields
    <3>2. /\ coord'.rec = (IF s.ok THEN p ELSE coord.rec) /\ coord'.commit = 0
          /\ coord'.want = "none"
      BY <3>1
    <3>3. Tallied
      BY <1>5, <2>3, <2>4, SpendTallies
    <3>4. CoordKept
      BY <1>1, <3>1, <3>2 DEF CoordKept, CleanSteps
    <3>5. CoordFrame /\ Wrote(p)
      BY <1>1, <1>6, <2>3, <2>4, <3>2, <3>3 DEF CoordFrame, Wrote
    <3>. QED  BY <1>1, <1>3, <1>6, <2>2, <3>4, <3>5, WriteStep
  <2>5. CASE \E a \in Saved(p, Attention(p), s.cost + 1) :
               /\ rec' = a.nvs /\ Spend(a.cost)
               /\ coord' = [coord EXCEPT !.want = "none",
                              !.rec = IF a.ok THEN Attention(p) ELSE p]
    <3>. DEFINE q == Attention(p)
    <3>1. PICK a \in Saved(p, q, s.cost + 1) :
            /\ rec' = a.nvs /\ Spend(a.cost)
            /\ coord' = [coord EXCEPT !.want = "none", !.rec = IF a.ok THEN q ELSE p]
      BY <2>5
    <3>2. card \in CardType
      BY DEF ResetInv, TypeOK
    <3>3. GoodNow(q) /\ Related(p, q)
      BY <1>5, <2>2, <3>2, AttentionHolds DEF GoodNow
    <3>4. /\ q \in RecordType /\ q.st = "AttentionRequired" /\ q.op = p.op
          /\ q.target = p.target /\ q.cp = p.cp /\ q.boundary = p.boundary
      BY <2>2 DEF GoodNow, Good, Attention, RecordType
    <3>. HIDE DEF q
    <3>5. /\ q # None /\ ~terminalState(q)
          /\ Related(coord.rec, q)
      BY <1>3, <2>2, <3>4, RecordIsSome DEF terminalState, Related
    <3>6. Related(p, p) /\ Related(q, q)
      BY <2>2, <3>3, RecordIsSome, Checkpoints
      DEF Related, GoodNow, Good, Held, RecordType
    <3>7. s.cost + 1 \in Nat
      BY <2>3
    <3>8. /\ a.ok \in BOOLEAN /\ a.cost \in Nat
          /\ a.nvs = p \/ a.nvs = q
          /\ a.ok => a.nvs = q
      BY <3>1, <3>7, SavedOutcome
    <3>9. coord' = [rec |-> IF a.ok THEN q ELSE p, prepare |-> None,
                    commit |-> 0, want |-> "none"]
      BY <1>4, <1>5, <3>1, CoordFields
    <3>10. /\ coord'.rec = (IF a.ok THEN q ELSE p) /\ coord'.commit = 0
           /\ coord'.want = "none"
      BY <3>9
    <3>11. Tallied
      BY <1>5, <3>1, <3>8, SpendTallies
    <3>12. CoordKept
      BY <1>1, <3>9, <3>10 DEF CoordKept, CleanSteps
    <3>13. CoordFrame
      BY <1>1, <1>6, <3>11 DEF CoordFrame
    <3>14. CASE a.ok
      <4>1. Moved(q, q)
        BY <3>1, <3>6, <3>8, <3>10, <3>14 DEF Moved
      <4>. QED  BY <1>1, <1>3, <1>6, <3>3, <3>5, <3>12, <3>13, <4>1, MovedStep
    <3>15. CASE ~a.ok /\ a.nvs = p
      <4>1. Moved(p, p)
        BY <3>1, <3>6, <3>10, <3>15 DEF Moved
      <4>. QED  BY <1>1, <1>3, <1>6, <2>2, <3>12, <3>13, <4>1, MovedStep
    <3>16. CASE ~a.ok /\ a.nvs = q
      <4>1. Moved(p, q)
        BY <3>1, <3>3, <3>10, <3>16 DEF Moved
      <4>. QED  BY <1>1, <1>3, <1>6, <2>2, <3>3, <3>5, <3>12, <3>13, <4>1, MovedStep
    <3>. QED  BY <3>8, <3>14, <3>15, <3>16
  <2>. QED  BY <2>1, <2>4, <2>5
<1>. QED  BY <1>8, <1>9

-----------------------------------------------------------------------------
(* A prepare that is pending, and the gates                                *)

\* While a request is pending the last operation is over, and nothing of an
\* earlier generation or of its own operation is left.
LEMMA PrepareFacts ==
  ASSUME ResetInv, coord.prepare # None
  PROVE  /\ phase = "up" /\ gate.closed /\ Final(coord.rec) /\ coord.commit = 0
         /\ coord.want = "none" /\ job.pc \notin CleanSteps
         /\ coord.prepare \in RequestType
         /\ rec = coord.rec \/ rec = Preparing(coord.prepare)
         /\ GoodNow(Preparing(coord.prepare))
         /\ Preparing(coord.prepare).st = "Preparing"
         /\ Preparing(coord.prepare).op = coord.prepare.op
         /\ Preparing(coord.prepare).cp = 0
         /\ Preparing(coord.prepare).target = cursor.gen + 1
         /\ plan # None => plan.op < coord.prepare.op
         /\ \A x \in card.recs : x.gen = cursor.gen
<1>. DEFINE q == coord.prepare
<1>1. phase = "up"
  BY DEF ResetInv, PhaseInv, NoCoord
<1>2. /\ gate.closed /\ Final(coord.rec) /\ q.target = cursor.gen + 1
      /\ coord.rec # None => q.op > coord.rec.op
  BY DEF ResetInv, GateInv
<1>3. coord.commit = 0 /\ coord.want = "none" /\ job.pc \notin CleanSteps
  BY <1>2, CoordFields, CleanAtCleanup
  DEF ResetInv, GateInv, JobInv, Final, terminalState
<1>4. q \in RequestType /\ cursor \in CursorType /\ card \in CardType
  BY CoordFields DEF ResetInv, TypeOK
<1>5. rec = coord.rec \/ rec = Preparing(q)
  BY <1>1 DEF ResetInv, RelationInv
<1>6. /\ GoodNow(Preparing(q)) /\ Preparing(q).st = "Preparing"
      /\ Preparing(q).op = q.op /\ Preparing(q).cp = 0
      /\ Preparing(q).target = q.target
  BY <1>2, <1>4, PreparingHolds DEF GoodNow
<1>. HIDE DEF Preparing, q
<1>7. /\ q.op \in Nat /\ cursor.gen \in Nat
      /\ \A x \in card.recs : x.gen \in Nat
      /\ coord.rec # None => coord.rec.op \in Nat
      /\ plan # None => plan.op \in Nat
  <2>1. Ops \subseteq Nat
    BY ResetAssumption DEF Ops
  <2>. QED  BY <1>4, <2>1, CoordFields
            DEF RequestType, CursorType, CardType, StoredType, RecordType,
                ResetInv, TypeOK, PlanType
<1>8. plan # None => plan.op < q.op
  BY <1>2, <1>5, <1>6, <1>7, Checkpoints DEF ResetInv, PlanInv
<1>9. \A x \in card.recs : x.gen = cursor.gen
  <2>1. ASSUME NEW x \in card.recs, x.gen < cursor.gen PROVE FALSE
    <3>1. rec # None /\ ~terminalState(rec) /\ rec.target = cursor.gen
      BY <2>1 DEF ResetInv, GenInv
    <3>2. rec = Preparing(q)
      BY <1>2, <1>5, <3>1 DEF Final
    <3>. QED  BY <1>2, <1>6, <1>7, <3>1, <3>2
  <2>2. \A x \in card.recs : x.gen <= cursor.gen
    BY DEF ResetInv, GenInv
  <2>. QED  BY <1>7, <2>1, <2>2
<1>. QED  BY <1>1, <1>2, <1>3, <1>4, <1>5, <1>6, <1>8, <1>9 DEF q

\* processPendingPrepare keeps the invariant.
LEMMA PendingPrepareStep == ASSUME ResetInv, processPendingPrepare PROVE ResetInv'
<1>. DEFINE q == coord.prepare
            n == Preparing(q)
<1>1. /\ coord.prepare # None /\ gate.closed /\ gate.quiet
      /\ UNCHANGED <<drain, plan, events, cursor, card, phase, gate, job, result,
                     acc, queued>>
  BY DEF processPendingPrepare
<1>2. PICK s \in SavedFresh(rec, n, 0) :
        /\ rec' = s.nvs
        /\ coord' = IF s.ok THEN [coord EXCEPT !.rec = n, !.prepare = None,
                                               !.want = "none"]
                            ELSE coord
        /\ Spend(s.cost)
  BY DEF processPendingPrepare
<1>3. /\ phase = "up" /\ Final(coord.rec) /\ coord.commit = 0
      /\ coord.want = "none" /\ job.pc \notin CleanSteps /\ q \in RequestType
      /\ rec = coord.rec \/ rec = n
      /\ GoodNow(n) /\ n.st = "Preparing" /\ n.op = q.op /\ n.cp = 0
      /\ n.target = cursor.gen + 1
      /\ plan # None => plan.op < q.op
      /\ \A x \in card.recs : x.gen = cursor.gen
  <2>. HIDE DEF Preparing
  <2>. QED  BY <1>1, PrepareFacts
<1>. HIDE DEF n
<1>4. /\ s.ok \in BOOLEAN /\ s.cost \in Nat
      /\ s.nvs = rec \/ s.nvs = n
      /\ s.ok => s.nvs = n
  BY <1>2, SavedOutcome
<1>5. Tallied
  BY <1>2, <1>4, SpendTallies DEF ResetInv, TypeOK
<1>6. acc = <<>>
  BY <1>1 DEF ResetInv, GateInv
<1>7. /\ n \in RecordType /\ n # None /\ validStateCheckpoint(n.st, n.cp)
      /\ n.boundary = 0 /\ ~terminalState(n) /\ HeldNow(n)
  BY <1>3, RecordIsSome DEF GoodNow, Good, Held, terminalState, HeldNow
<1>8. \/ coord' = [rec |-> n, prepare |-> None, commit |-> 0, want |-> "none"]
         /\ rec' = n
      \/ coord' = coord /\ (rec' = rec \/ rec' = n)
  BY <1>2, <1>3, <1>4, CoordFields
<1>9. /\ coord'.rec = n \/ coord'.rec = coord.rec
      /\ rec' = n \/ rec' = rec
      /\ coord'.want = "none" /\ coord'.commit = 0
      /\ \/ coord'.prepare = None /\ coord'.rec = n /\ rec' = n
         \/ coord' = coord
  BY <1>3, <1>8
<1>10. \A r : HeldNow(r) => Held(r, cursor', card', plan', drain', tally'.handed)
  BY <1>1, <1>5 DEF HeldNow, Tallied
<1>11. RecordsInv'
  BY <1>7, <1>9, <1>10 DEF ResetInv, RecordsInv, HeldNow
<1>12. RelationInv'
  <2>1. Related(n, n)
    BY <1>3, <1>7 DEF Related
  <2>2. CASE coord'.prepare = None /\ coord'.rec = n /\ rec' = n
    BY <1>7, <2>1, <2>2 DEF RelationInv
  <2>3. CASE coord' = coord
    BY <1>1, <1>3, <1>9, <2>3 DEF RelationInv, n
  <2>. QED  BY <1>9, <2>2, <2>3
<1>13. TypeOK'
  <2>1. coord' \in CoordType
    <3>1. n \in RecordType \cup {None} /\ None \in RequestType \cup {None}
      BY <1>7
    <3>. QED  BY <1>8, <3>1, CoordFields DEF CoordType
  <2>2. rec' \in RecordType \cup {None} /\ tally' \in TallyType
    BY <1>5, <1>7, <1>9 DEF ResetInv, TypeOK, Tallied
  <2>3. \A r \in {rec', coord'.rec} \ {None} : validStateCheckpoint(r.st, r.cp)
    BY <1>7, <1>9 DEF ResetInv, TypeOK
  <2>. QED  BY <1>1, <2>1, <2>2, <2>3 DEF ResetInv, TypeOK
<1>14. PhaseInv' /\ AccInv' /\ EventInv'
  BY <1>1, <1>3, <1>6 DEF PhaseInv, AccInv, EventInv, EventsPreserved, ResetInv
<1>15. GateInv'
  <2>1. CASE coord'.prepare = None /\ coord'.rec = n /\ rec' = n
    BY <1>1, <1>6, <1>9, <2>1 DEF GateInv
  <2>2. CASE coord' = coord
    BY <1>1, <1>6, <2>2 DEF ResetInv, GateInv
  <2>. QED  BY <1>9, <2>1, <2>2
<1>16. JobInv' /\ ResultInv'
  BY <1>1, <1>3, <1>9 DEF ResetInv, JobInv, ResultInv, CleanSteps
<1>17. PlanInv'
  <2>1. /\ q.op \in Nat
        /\ plan # None => plan.op \in Nat
    <3>1. Ops \subseteq Nat
      BY ResetAssumption DEF Ops
    <3>. QED  BY <1>3, <3>1 DEF RequestType, ResetInv, TypeOK, PlanType
  <2>. QED  BY <1>1, <1>3, <1>7, <1>9, <2>1, Checkpoints DEF ResetInv, PlanInv
<1>18. CardInv' /\ HandedInv'
  BY <1>1, <1>5 DEF ResetInv, CardInv, HandedInv, Pending, Tallied
<1>19. GenInv'
  <2>1. cursor.gen \in Nat
    BY DEF ResetInv, TypeOK, CursorType
  <2>. QED  BY <1>1, <1>3, <1>5, <2>1 DEF ResetInv, GenInv, Tallied
<1>20. PendingInv'
  <2>1. UNCHANGED Missing
    BY <1>1 DEF Missing, containsDataResetDrainRecord
  <2>2. tally'.intervals = tally.intervals
    BY <1>5 DEF Tallied
  <2>3. phase' = "up" => gate'.closed /\ (coord'.prepare # None \/ ~Final(coord'.rec))
    BY <1>1, <1>7, <1>9 DEF Final
  <2>. QED  BY <1>1, <2>1, <2>2, <2>3
            DEF ResetInv, PendingInv, Pending, Measured, Distinct
<1>. QED
  BY <1>11, <1>12, <1>13, <1>14, <1>15, <1>16, <1>17, <1>18, <1>19, <1>20
          DEF ResetInv

\* Intervals are only added, and what was handed over is remembered.
Measures == /\ tally' \in TallyType /\ tally'.intervals >= tally.intervals
            /\ tally'.handed = tally.handed

\* Counting faults measures nothing.
LEMMA TalliedMeasures ==
  ASSUME ResetInv, Tallied
  PROVE  Measures
  BY DEF ResetInv, TypeOK, Tallied, Measures, TallyType

\* Nothing counted is nothing measured.
LEMMA SameMeasures ==
  ASSUME ResetInv, UNCHANGED tally
  PROVE  Measures
  BY DEF ResetInv, TypeOK, Measures, TallyType

\* A step that leaves the journals, the card and the cursors alone keeps what
\* they say of each other, whichever record is taken into RAM or given up.
LEMMA DurableKept ==
  ASSUME ResetInv, SameCursors, UNCHANGED <<rec, drain, plan, events, card>>,
         Measures, coord'.rec \in {coord.rec, rec, None}
  PROVE  /\ RecordsInv' /\ PlanInv' /\ CardInv' /\ GenInv' /\ HandedInv' /\ EventInv'
<1>1. \A r : HeldNow(r) => Held(r, cursor', card', plan', drain', tally'.handed)
  BY DEF HeldNow, Held, SameCursors, Measures
<1>2. RecordsInv'
  BY <1>1 DEF ResetInv, RecordsInv, HeldNow
<1>3. PlanInv'
  BY DEF ResetInv, PlanInv
<1>4. /\ tally.intervals \in Nat /\ tally'.intervals \in Nat
      /\ tally'.intervals >= tally.intervals /\ tally'.handed = tally.handed
      /\ \A r \in card.recs : r.id \in Nat
  BY DEF ResetInv, TypeOK, TallyType, CardType, StoredType, Measures
<1>5. CardInv'
  BY <1>4 DEF ResetInv, CardInv, SameCursors
<1>6. GenInv'
  BY <1>4 DEF ResetInv, GenInv, SameCursors
<1>7. HandedInv'
  BY <1>4 DEF ResetInv, HandedInv, Pending, SameCursors
<1>8. EventInv'
  BY DEF ResetInv, EventInv, EventsPreserved
<1>. QED  BY <1>2, <1>3, <1>5, <1>6, <1>7, <1>8

\* The same of an unfinished journal, as long as it keeps the gates closed.
LEMMA PendingKept ==
  ASSUME ResetInv, UNCHANGED <<drain, card>>, cursor'.gen = cursor.gen, Measures,
         Pending(drain) /\ phase' = "up" =>
           gate'.closed /\ (coord'.prepare # None \/ ~Final(coord'.rec))
  PROVE  PendingInv'
<1>1. SUFFICES ASSUME Pending(drain) PROVE PendingInv'
  BY DEF PendingInv
<1>2. UNCHANGED Missing
  BY DEF Missing, containsDataResetDrainRecord
<1>3. Measured(drain.ids)'
  <2>1. drain \in DrainType
    BY <1>1 DEF Pending, ResetInv, TypeOK
  <2>2. \A k \in DOMAIN drain.ids : drain.ids[k] \in Nat
    BY <2>1 DEF DrainType
  <2>3. tally.intervals \in Nat /\ tally'.intervals \in Nat
        /\ tally'.intervals >= tally.intervals
    BY DEF ResetInv, TypeOK, TallyType, Measures
  <2>4. Measured(drain.ids)
    BY <1>1 DEF ResetInv, PendingInv
  <2>. QED  BY <2>2, <2>3, <2>4 DEF Measured
<1>. QED  BY <1>1, <1>2, <1>3 DEF ResetInv, PendingInv, Distinct

\* requestPrepare keeps the invariant.
LEMMA RequestPrepareStep == ASSUME ResetInv, requestPrepare PROVE ResetInv'
<1>. DEFINE o == IF rec = None THEN 1 ELSE rec.op + 1
            t == cursor.gen + 1
<1>1. /\ phase = "up" /\ coord.prepare = None /\ o \in Ops
      /\ coord.rec # None => terminalState(coord.rec)
      /\ coord' = [coord EXCEPT !.prepare = [op |-> o, target |-> t]]
      /\ gate' = Close(o, t)
      /\ UNCHANGED <<nvs, card, phase, job, result, acc, queued, tally>>
  BY DEF requestPrepare
<1>2. UNCHANGED <<rec, drain, plan, events, cursor>>
  BY <1>1 DEF nvs
<1>3. /\ Final(coord.rec) /\ rec = coord.rec
  BY <1>1 DEF ResetInv, RelationInv, Related, Final
<1>4. coord.rec # None => o > coord.rec.op
  <2>1. Ops \subseteq Nat
    BY ResetAssumption DEF Ops
  <2>. QED  BY <1>3, <2>1, CoordFields DEF RecordType
<1>5. /\ t \in Nat /\ [op |-> o, target |-> t] \in RequestType
      /\ [op |-> o, target |-> t] # None
  <2>1. t \in Nat
    BY DEF ResetInv, TypeOK, CursorType
  <2>2. [op |-> o, target |-> t] \in RequestType
    BY <1>1, <2>1 DEF RequestType
  <2>. QED  BY <2>1, <2>2, NoneAssumption
<1>6. /\ coord'.rec = coord.rec /\ coord'.commit = coord.commit
      /\ coord'.want = coord.want /\ coord'.prepare # None
      /\ coord'.prepare.op = o /\ coord'.prepare.target = t
      /\ coord' \in CoordType
  <2>1. coord' = [rec |-> coord.rec, prepare |-> [op |-> o, target |-> t],
                  commit |-> coord.commit, want |-> coord.want]
    BY <1>1, CoordFields
  <2>2. /\ coord.rec \in RecordType \cup {None} /\ coord.commit \in Nat
        /\ coord.want \in {"none", "drain", "clean"}
        /\ [op |-> o, target |-> t] \in RequestType \cup {None}
    BY <1>5, CoordFields
  <2>. QED  BY <1>5, <2>1, <2>2 DEF CoordType
<1>7. /\ gate' \in GateType /\ gate'.closed
      /\ gate.closed => gate' = gate
      /\ ~gate.closed => ~gate'.quiet /\ gate'.target = t
  <2>1. gate \in GateType
    BY DEF ResetInv, TypeOK
  <2>2. CASE gate.closed
    BY <1>1, <2>1, <2>2 DEF Close
  <2>3. CASE ~gate.closed
    BY <1>1, <1>5, <2>3 DEF Close, GateType
  <2>. QED  BY <2>2, <2>3
<1>. HIDE DEF o, t
<1>8. acc # <<>> => ~gate.closed
  BY <1>1 DEF ResetInv, GateInv
<1>9. Measures /\ SameCursors
  BY <1>1, <1>2, SameMeasures DEF SameCursors
<1>10. TypeOK'
  BY <1>1, <1>2, <1>6, <1>7 DEF ResetInv, TypeOK
<1>11. RecordsInv' /\ PlanInv' /\ CardInv' /\ GenInv' /\ HandedInv' /\ EventInv'
  BY <1>1, <1>2, <1>6, <1>9, DurableKept
<1>12. RelationInv'
  BY <1>2, <1>3, <1>6 DEF RelationInv
<1>13. PhaseInv'
  BY <1>1 DEF PhaseInv
<1>14. GateInv'
  BY <1>1, <1>2, <1>3, <1>4, <1>6, <1>7, <1>8 DEF ResetInv, GateInv, t
<1>15. JobInv' /\ ResultInv'
  BY <1>1, <1>2, <1>6 DEF ResetInv, JobInv, ResultInv, Planned, Pending
<1>16. AccInv'
  BY <1>1, <1>2, <1>7, <1>8 DEF ResetInv, AccInv, Pending, Distinct, Measured
<1>17. PendingInv'
  BY <1>1, <1>2, <1>6, <1>7, <1>9, PendingKept
<1>. QED
  BY <1>10, <1>11, <1>12, <1>13, <1>14, <1>15, <1>16, <1>17 DEF ResetInv

\* queueDataResetBarrier keeps the invariant.
LEMMA QueueBarrierStep == ASSUME ResetInv, queueDataResetBarrier PROVE ResetInv'
<1>1. /\ phase = "up" /\ coord.rec # None /\ coord.want = "none"
      /\ job.pc = "idle" /\ result' = None
      /\ UNCHANGED <<nvs, card, phase, gate, acc, queued, tally>>
  BY DEF queueDataResetBarrier
<1>2. UNCHANGED <<rec, drain, plan, events, cursor>>
  BY <1>1 DEF nvs
<1>3. PICK w, pc :
        /\ coord' = [coord EXCEPT !.want = w]
        /\ job' = [pc |-> pc, op |-> coord.rec.op]
        /\ \/ w = "drain" /\ pc = "drain" /\ coord.rec.st = "Preparing"
           \/ /\ w = "clean" /\ pc = "events" /\ coord.rec.st = "Committing"
              /\ coord.rec.cp = CursorsAdvanced
  BY DEF queueDataResetBarrier
<1>4. /\ coord'.rec = coord.rec /\ coord'.commit = coord.commit
      /\ coord'.prepare = coord.prepare /\ coord'.want = w /\ coord' \in CoordType
  <2>1. coord' = [rec |-> coord.rec, prepare |-> coord.prepare,
                  commit |-> coord.commit, want |-> w]
    BY <1>3, CoordFields
  <2>2. /\ coord.rec \in RecordType \cup {None} /\ coord.commit \in Nat
        /\ w \in {"none", "drain", "clean"}
        /\ coord.prepare \in RequestType \cup {None}
    BY <1>3, CoordFields
  <2>. QED  BY <2>1, <2>2 DEF CoordType
<1>5. /\ job' \in JobType /\ job'.pc = pc /\ job'.op = coord.rec.op
  <2>1. coord.rec.op \in Ops \cup {None}
    BY <1>1, CoordFields DEF RecordType
  <2>. QED  BY <1>3, <2>1 DEF JobType
<1>6. Measures /\ SameCursors
  BY <1>1, <1>2, SameMeasures DEF SameCursors
<1>7. TypeOK'
  BY <1>1, <1>2, <1>4, <1>5 DEF ResetInv, TypeOK
<1>8. RecordsInv' /\ PlanInv' /\ CardInv' /\ GenInv' /\ HandedInv' /\ EventInv'
  BY <1>1, <1>2, <1>4, <1>6, DurableKept
<1>9. RelationInv' /\ GateInv'
  BY <1>1, <1>2, <1>4 DEF ResetInv, RelationInv, GateInv
<1>10. PhaseInv' /\ ResultInv'
  BY <1>1 DEF PhaseInv, ResultInv
<1>11. JobInv'
  BY <1>1, <1>2, <1>3, <1>4, <1>5 DEF JobInv, CleanSteps
<1>12. AccInv'
  BY <1>1, <1>2 DEF ResetInv, AccInv, Pending, Distinct, Measured
<1>13. PendingInv'
  BY <1>1, <1>2, <1>4, <1>6, PendingKept DEF ResetInv, PendingInv
<1>. QED  BY <1>7, <1>8, <1>9, <1>10, <1>11, <1>12, <1>13 DEF ResetInv

\* ReleaseGates keeps the invariant.
LEMMA ReleaseGatesStep == ASSUME ResetInv, ReleaseGates PROVE ResetInv'
<1>1. /\ phase = "up" /\ coord.prepare = None /\ gate.closed
      /\ coord.rec # None => terminalState(coord.rec)
      /\ UNCHANGED <<nvs, card, phase, coord, job, result, acc, queued>>
  BY DEF ReleaseGates
<1>2. PICK opened \in Checks : /\ gate' = IF opened THEN Open ELSE gate
                               /\ Spend(Cost(opened))
  BY DEF ReleaseGates
<1>3. UNCHANGED <<rec, drain, plan, events, cursor>>
  BY <1>1 DEF nvs
<1>4. Tallied
  BY <1>2, CostIsNatural, SpendTallies DEF ResetInv, TypeOK
<1>5. Measures /\ SameCursors
  BY <1>3, <1>4, TalliedMeasures DEF SameCursors
<1>6. Final(coord.rec) /\ acc = <<>> /\ ~Pending(drain)
  BY <1>1 DEF ResetInv, Final, GateInv, PendingInv
<1>7. TypeOK'
  BY <1>1, <1>2, <1>3, <1>5, OpenType DEF ResetInv, TypeOK, Measures
<1>8. RecordsInv' /\ PlanInv' /\ CardInv' /\ GenInv' /\ HandedInv' /\ EventInv'
  BY <1>1, <1>3, <1>5, DurableKept
<1>9. RelationInv' /\ PhaseInv' /\ GateInv'
  BY <1>1, <1>3, <1>6 DEF ResetInv, RelationInv, PhaseInv, GateInv
<1>10. JobInv' /\ ResultInv'
  BY <1>1, <1>3 DEF ResetInv, JobInv, ResultInv, Planned, Pending
<1>11. AccInv' /\ PendingInv'
  BY <1>1, <1>3, <1>6 DEF AccInv, PendingInv
<1>. QED  BY <1>7, <1>8, <1>9, <1>10, <1>11 DEF ResetInv

-----------------------------------------------------------------------------
(* Ordinary work, and the intervals that are staged                        *)

\* Behind open gates no operation is under way and no journal is unfinished.
LEMMA OpenFacts ==
  ASSUME ResetInv, phase = "up", ~gate.closed
  PROVE  /\ coord.prepare = None /\ Final(coord.rec) /\ rec = coord.rec
         /\ ~Pending(drain) /\ job.pc \notin CleanSteps /\ coord.want = "none"
         /\ \A x \in card.recs : x.gen = cursor.gen
<1>1. coord.prepare = None /\ Final(coord.rec)
  BY DEF ResetInv, GateInv
<1>2. rec = coord.rec
  BY <1>1 DEF ResetInv, RelationInv, Related, Final
<1>3. ~Pending(drain)
  BY DEF ResetInv, PendingInv
<1>4. job.pc \notin CleanSteps /\ coord.want = "none"
  BY <1>1, CleanAtCleanup, CoordFields DEF ResetInv, JobInv, Final,
     terminalState
<1>5. \A x \in card.recs : x.gen = cursor.gen
  <2>1. \A x \in card.recs : x.gen \in Nat /\ x.gen <= cursor.gen /\ cursor.gen \in Nat
    BY DEF ResetInv, GenInv, TypeOK, CardType, StoredType, CursorType
  <2>2. \A x \in card.recs : ~(x.gen < cursor.gen)
    BY <1>1, <1>2 DEF ResetInv, GenInv, Final
  <2>. QED  BY <2>1, <2>2
<1>. QED  BY <1>1, <1>2, <1>3, <1>4, <1>5

\* The next sequence, the acknowledgement and the events may grow.
Grows == /\ card' \in CardType /\ card'.recs = card.recs /\ card'.next >= card.next
         /\ \A e \in 1..MaxEvent : card'.events[e] >= card.events[e]
         /\ cursor' \in CursorType /\ cursor'.gen = cursor.gen
         /\ cursor'.boundary = cursor.boundary /\ cursor'.base = cursor.base
         /\ cursor'.ack >= cursor.ack /\ card'.next > cursor'.ack

\* What the journals, the card and the cursors say of each other is kept.
LEMMA GrowthKept ==
  ASSUME ResetInv, Grows, UNCHANGED <<rec, drain, plan, events>>, Measures,
         coord'.rec \in {coord.rec, rec, None}
  PROVE  /\ RecordsInv' /\ PlanInv' /\ CardInv' /\ GenInv' /\ HandedInv' /\ EventInv'
<1>1. /\ card.next \in Nat /\ card'.next \in Nat /\ cursor.ack \in Nat
      /\ cursor'.ack \in Nat /\ cursor.boundary \in Nat
      /\ card'.next >= card.next /\ cursor'.ack >= cursor.ack
      /\ card'.next > cursor'.ack /\ card'.recs = card.recs
      /\ cursor'.gen = cursor.gen /\ cursor'.boundary = cursor.boundary
      /\ cursor'.base = cursor.base
  BY DEF ResetInv, TypeOK, Grows, CardType, CursorType
<1>2. \A r \in RecordType : HeldNow(r) =>
        Held(r, cursor', card', plan', drain', tally'.handed)
  <2>1. SUFFICES ASSUME NEW r \in RecordType, HeldNow(r)
                 PROVE  Held(r, cursor', card', plan', drain', tally'.handed)
    OBVIOUS
  <2>2. r.boundary \in Nat
    BY DEF RecordType
  <2>3. Counted(r, card, plan) => Counted(r, card', plan)
    BY <1>1 DEF Counted
  <2>. QED  BY <1>1, <2>1, <2>2, <2>3 DEF HeldNow, Held, Measures
<1>3. RecordsInv'
  <2>1. coord'.rec \in {coord.rec, rec, None}
    OBVIOUS
  <2>2. /\ rec # None => rec \in RecordType /\ HeldNow(rec)
        /\ coord.rec # None => coord.rec \in RecordType /\ HeldNow(coord.rec)
    BY CoordFields DEF ResetInv, TypeOK, RecordsInv
  <2>. QED  BY <1>2, <2>1, <2>2 DEF RecordsInv, HeldNow
<1>4. PlanInv'
  BY DEF ResetInv, PlanInv
<1>5. /\ tally.intervals \in Nat /\ tally'.intervals \in Nat
      /\ tally'.intervals >= tally.intervals /\ tally'.handed = tally.handed
      /\ \A r \in card.recs : r.id \in Nat /\ r.seq \in Nat
  BY DEF ResetInv, TypeOK, TallyType, CardType, StoredType, Measures
<1>6. CardInv'
  BY <1>1, <1>5 DEF ResetInv, CardInv
<1>7. GenInv'
  BY <1>1, <1>5 DEF ResetInv, GenInv
<1>8. HandedInv'
  BY <1>1, <1>5 DEF ResetInv, HandedInv, Pending
<1>9. EventInv'
  <2>1. SUFFICES ASSUME events # None, events.event # 0, events.st = "Completed"
                 PROVE  card'.events[events.event] > 0
    BY DEF EventInv, EventsPreserved
  <2>2. events.event \in 1..MaxEvent /\ card.events[events.event] > 0
    BY <2>1, ResetAssumption
    DEF ResetInv, TypeOK, EventType, EventInv, EventsPreserved
  <2>3. /\ card.events[events.event] \in Nat /\ card'.events[events.event] \in Nat
        /\ card'.events[events.event] >= card.events[events.event]
    BY <2>2 DEF ResetInv, TypeOK, CardType, Grows
  <2>. QED  BY <2>2, <2>3
<1>. QED  BY <1>3, <1>4, <1>6, <1>7, <1>8, <1>9

\* What a step behind open gates, or of StorageTask, keeps: the records agree
\* and the gates, the barrier and its answer are as they were.
LEMMA RamKept ==
  ASSUME ResetInv, cursor'.gen = cursor.gen, phase = "up", card'.recs = card.recs,
         UNCHANGED <<rec, drain, plan, events, phase, gate, coord, job, result>>,
         acc' = acc \/ ~gate.closed
  PROVE  RelationInv' /\ PhaseInv' /\ GateInv' /\ JobInv' /\ ResultInv'
<1>1. RelationInv' /\ PhaseInv'
  BY DEF ResetInv, RelationInv, PhaseInv
<1>2. GateInv'
  <2>1. CASE acc' = acc
    BY <2>1 DEF ResetInv, GateInv
  <2>2. CASE ~gate.closed
    BY <2>2 DEF ResetInv, GateInv
  <2>. QED  BY <2>1, <2>2
<1>3. JobInv' /\ ResultInv'
  BY DEF ResetInv, JobInv, ResultInv, Planned, Pending
<1>. QED  BY <1>1, <1>2, <1>3

\* The card with one more record at the next sequence.
LEMMA OneMoreRecord ==
  ASSUME card \in CardType, NEW x \in StoredType,
         card' = [card EXCEPT !.next = @ + 1, !.recs = @ \cup {x}]
  PROVE  /\ card'.recs = card.recs \cup {x} /\ card'.next = card.next + 1
         /\ card'.events = card.events /\ card' \in CardType
<1>. DEFINE m == [card EXCEPT !.next = card.next + 1]
<1>1. /\ m \in CardType /\ m.next = card.next + 1
      /\ m.recs = card.recs /\ m.events = card.events
  BY DEF CardType
<1>2. card' = [m EXCEPT !.recs = card.recs \cup {x}]
  BY DEF CardType
<1>. HIDE DEF m
<1>. QED  BY <1>1, <1>2 DEF CardType

\* StoreInterval keeps the invariant: a new interval at the next sequence.
LEMMA StoreIntervalStep == ASSUME ResetInv, StoreInterval PROVE ResetInv'
<1>. DEFINE x == [id |-> tally.intervals + 1, seq |-> card.next, gen |-> cursor.gen]
<1>1. /\ phase = "up" /\ ~gate.closed
      /\ tally' = [tally EXCEPT !.intervals = @ + 1]
      /\ card' = [card EXCEPT !.next = @ + 1, !.recs = @ \cup {x}]
      /\ UNCHANGED <<nvs, phase, ram>>
  BY DEF StoreInterval
<1>2. UNCHANGED <<rec, drain, plan, events, cursor, phase, gate, coord, job, result,
                  acc, queued>>
  BY <1>1 DEF nvs, ram
<1>3. /\ coord.prepare = None /\ Final(coord.rec) /\ rec = coord.rec
      /\ ~Pending(drain) /\ job.pc \notin CleanSteps /\ coord.want = "none"
      /\ \A y \in card.recs : y.gen = cursor.gen
  BY <1>1, OpenFacts
<1>4. /\ card \in CardType /\ tally \in TallyType /\ cursor \in CursorType
      /\ IsFiniteSet(card.recs)
  BY DEF ResetInv, TypeOK
<1>5. x \in StoredType /\ x.id = tally.intervals + 1 /\ x.seq = card.next
      /\ x.gen = cursor.gen /\ card.next \in Nat /\ tally.intervals \in Nat
      /\ cursor.gen \in Nat
  BY <1>4 DEF CardType, TallyType, CursorType, StoredType
<1>. HIDE DEF x
<1>6. /\ card'.recs = card.recs \cup {x} /\ card'.next = card.next + 1
      /\ card'.events = card.events /\ card' \in CardType
  BY <1>1, <1>4, <1>5, OneMoreRecord
<1>7. IsFiniteSet(card'.recs)
  BY <1>4, <1>6, FS_AddElement
<1>8. /\ tally' \in TallyType /\ tally'.intervals = tally.intervals + 1
      /\ tally'.handed = tally.handed
  BY <1>1, <1>4 DEF TallyType
<1>9. TypeOK'
  BY <1>2, <1>6, <1>7, <1>8 DEF ResetInv, TypeOK
<1>10. RecordsInv'
  <2>1. SUFFICES ASSUME rec # None
                 PROVE  Held(rec, cursor, card', plan, drain, tally.handed)
    BY <1>2, <1>3, <1>8 DEF RecordsInv, HeldNow
  <2>2. HeldNow(rec) /\ rec.boundary \in Nat
    BY <2>1 DEF ResetInv, RecordsInv, TypeOK, RecordType
  <2>. QED  BY <1>3, <1>5, <1>6, <2>2 DEF HeldNow, Held, Pinned
<1>11. RelationInv' /\ PhaseInv' /\ GateInv' /\ PlanInv'
  BY <1>1, <1>2 DEF ResetInv, RelationInv, PhaseInv, GateInv, PlanInv
<1>12. JobInv' /\ ResultInv'
  BY <1>2, <1>3 DEF ResetInv, JobInv, ResultInv, CleanSteps, Pending
<1>13. CardInv'
  <2>1. /\ \A r \in card.recs : r.id <= tally.intervals /\ r.seq < card.next
        /\ \A r \in card.recs : r.id \in Nat /\ r.seq \in Nat
        /\ card.next > cursor.ack /\ card.next > cursor.boundary
        /\ cursor.ack \in Nat /\ cursor.boundary \in Nat
    BY <1>4 DEF ResetInv, CardInv, CardType, StoredType, CursorType
  <2>2. \A r \in card'.recs : r.id <= tally'.intervals /\ r.seq < card'.next
    BY <1>5, <1>6, <1>8, <2>1
  <2>3. \A r, s \in card'.recs : r.id = s.id => r = s
    BY <1>5, <1>6, <2>1 DEF ResetInv, CardInv
  <2>. QED  BY <1>2, <1>5, <1>6, <2>1, <2>2, <2>3 DEF CardInv
<1>14. GenInv'
  <2>1. x.seq > cursor.boundary
    BY <1>5 DEF ResetInv, CardInv
  <2>. QED  BY <1>2, <1>3, <1>5, <1>6, <1>8, <2>1 DEF ResetInv, GenInv
<1>15. AccInv'
  <2>1. SUFFICES ASSUME acc # <<>> PROVE AccInv'
    BY <1>2 DEF AccInv
  <2>2. /\ Distinct(acc) /\ Measured(acc)
        /\ \A r \in card.recs : \A k \in DOMAIN acc : r.id # acc[k]
    BY <1>1, <2>1 DEF ResetInv, AccInv
  <2>3. \A k \in DOMAIN acc : acc[k] \in Nat /\ acc[k] <= tally.intervals
    BY <2>2 DEF Measured, ResetInv, TypeOK
  <2>4. /\ \A k \in DOMAIN acc : acc[k] <= tally'.intervals
        /\ \A r \in card'.recs : \A k \in DOMAIN acc : r.id # acc[k]
    BY <1>5, <1>6, <1>8, <2>2, <2>3
  <2>. QED  BY <1>2, <1>3, <2>2, <2>4 DEF AccInv, Measured, Distinct, Pending
<1>16. PendingInv'
  BY <1>2, <1>3 DEF PendingInv
<1>17. HandedInv' /\ EventInv'
  BY <1>2, <1>6, <1>8
  DEF ResetInv, HandedInv, EventInv, EventsPreserved, Pending
<1>. QED  BY <1>9, <1>10, <1>11, <1>12, <1>13, <1>14, <1>15, <1>16, <1>17
          DEF ResetInv

\* Accumulate keeps the invariant: open intervals are new.
LEMMA AccumulateStep == ASSUME ResetInv, Accumulate PROVE ResetInv'
<1>1. /\ phase = "up" /\ ~gate.closed /\ acc = <<>>
      /\ UNCHANGED <<nvs, card, phase, gate, coord, job, result, queued>>
  BY DEF Accumulate
<1>2. PICK n \in 1..2 : /\ acc' = [k \in 1..n |-> tally.intervals + k]
                        /\ tally' = [tally EXCEPT !.intervals = @ + n]
  BY DEF Accumulate
<1>3. UNCHANGED <<rec, drain, plan, events, cursor>>
  BY <1>1 DEF nvs
<1>4. /\ tally \in TallyType /\ tally.intervals \in Nat
      /\ tally' \in TallyType /\ tally'.intervals = tally.intervals + n
      /\ tally'.handed = tally.handed
  <2>1. tally \in TallyType /\ n \in Nat
    BY DEF ResetInv, TypeOK
  <2>. QED  BY <1>2, <2>1 DEF TallyType
<1>5. Measures /\ SameCursors
  BY <1>2, <1>3, <1>4 DEF Measures, SameCursors
<1>6. acc' \in Seq(Nat) /\ Len(acc') <= 2 /\ DOMAIN acc' = 1..n
  BY <1>2, <1>4
<1>7. /\ coord.prepare = None /\ Final(coord.rec) /\ ~Pending(drain)
  BY <1>1, OpenFacts
<1>8. TypeOK'
  BY <1>1, <1>3, <1>4, <1>6 DEF ResetInv, TypeOK
<1>9. RecordsInv' /\ PlanInv' /\ CardInv' /\ GenInv' /\ HandedInv' /\ EventInv'
  BY <1>1, <1>3, <1>5, DurableKept
<1>10. RelationInv' /\ PhaseInv' /\ GateInv' /\ JobInv' /\ ResultInv'
  BY <1>1, <1>3, RamKept
<1>11. AccInv'
  <2>1. /\ \A j, k \in DOMAIN acc' : acc'[j] = acc'[k] => j = k
        /\ \A k \in DOMAIN acc' : acc'[k] <= tally'.intervals
        /\ \A k \in DOMAIN acc' : acc'[k] > tally.intervals
    BY <1>2, <1>4, <1>6
  <2>2. \A r \in card.recs : r.id \in Nat /\ r.id <= tally.intervals
    BY DEF ResetInv, CardInv, TypeOK, CardType, StoredType
  <2>3. \A r \in card.recs : \A k \in DOMAIN acc' : r.id # acc'[k]
    BY <1>2, <1>4, <1>6, <2>1, <2>2
  <2>. QED  BY <1>1, <1>3, <1>7, <2>1, <2>3 DEF AccInv, Distinct, Measured
<1>12. PendingInv'
  BY <1>3, <1>7 DEF PendingInv
<1>. QED  BY <1>8, <1>9, <1>10, <1>11, <1>12 DEF ResetInv

\* RollOver keeps the invariant.
LEMMA RollOverStep == ASSUME ResetInv, RollOver PROVE ResetInv'
<1>1. /\ phase = "up" /\ ~gate.closed
      /\ cursor' = [cursor EXCEPT !.offset = @ + 1]
      /\ UNCHANGED <<rec, drain, plan, events, card, phase, tally>>
      /\ UNCHANGED <<gate, coord, job, result, acc, queued>>
  BY DEF RollOver, ram
<1>2. SameCursors /\ cursor' \in CursorType
  <2>1. cursor \in CursorType
    BY DEF ResetInv, TypeOK
  <2>2. cursor' = [cursor EXCEPT !.offset = @ + 1]
    BY <1>1
  <2>3. /\ cursor' \in CursorType /\ cursor'.ack = cursor.ack
        /\ cursor'.gen = cursor.gen /\ cursor'.boundary = cursor.boundary
        /\ cursor'.base = cursor.base
    BY ONLY <2>1, <2>2 DEF CursorType
  <2>. QED  BY <2>3 DEF SameCursors
<1>3. Measures
  BY <1>1, SameMeasures
<1>4. TypeOK'
  BY <1>1, <1>2 DEF ResetInv, TypeOK
<1>5. RecordsInv' /\ PlanInv' /\ CardInv' /\ GenInv' /\ HandedInv' /\ EventInv'
  BY <1>1, <1>2, <1>3, DurableKept
<1>6. RelationInv' /\ PhaseInv' /\ GateInv' /\ JobInv' /\ ResultInv'
  BY <1>1, <1>2, RamKept DEF SameCursors
<1>7. AccInv'
  BY <1>1 DEF ResetInv, AccInv, Pending, Distinct, Measured
<1>8. PendingInv'
  BY <1>1, <1>2, <1>3, PendingKept DEF ResetInv, PendingInv, SameCursors
<1>. QED  BY <1>4, <1>5, <1>6, <1>7, <1>8 DEF ResetInv

\* QueueEvent keeps the invariant.
LEMMA QueueEventStep == ASSUME ResetInv, QueueEvent PROVE ResetInv'
<1>1. /\ phase = "up" /\ tally.events < MaxEvent /\ queued' = tally.events + 1
      /\ tally' = [tally EXCEPT !.events = @ + 1]
      /\ UNCHANGED <<rec, drain, plan, events, cursor>>
      /\ UNCHANGED <<card, phase, gate, coord, job, result, acc>>
  BY DEF QueueEvent, nvs
<1>2. /\ tally' \in TallyType /\ tally'.intervals = tally.intervals
      /\ tally'.handed = tally.handed /\ queued' \in 0..MaxEvent
  <2>1. /\ tally \in TallyType /\ MaxEvent \in Nat /\ tally.events \in 0..MaxEvent
    BY ResetAssumption DEF ResetInv, TypeOK, TallyType
  <2>2. tally.events + 1 \in 0..MaxEvent
    BY <1>1, <2>1
  <2>. QED  BY <1>1, <2>1, <2>2 DEF TallyType
<1>3. Measures /\ SameCursors
  <2>1. tally.intervals \in Nat
    BY DEF ResetInv, TypeOK, TallyType
  <2>2. tally'.intervals >= tally.intervals
    BY <1>2, <2>1
  <2>. QED  BY <1>1, <1>2, <2>2 DEF Measures, SameCursors
<1>4. TypeOK'
  BY <1>1, <1>2 DEF ResetInv, TypeOK
<1>5. RecordsInv' /\ PlanInv' /\ CardInv' /\ GenInv' /\ HandedInv' /\ EventInv'
  BY <1>1, <1>3, DurableKept
<1>6. RelationInv' /\ PhaseInv' /\ GateInv' /\ JobInv' /\ ResultInv'
  BY <1>1, RamKept
<1>7. AccInv'
  BY <1>1, <1>2 DEF ResetInv, AccInv, Pending, Distinct, Measured
<1>8. PendingInv'
  BY <1>1, <1>3, PendingKept DEF ResetInv, PendingInv
<1>. QED  BY <1>4, <1>5, <1>6, <1>7, <1>8 DEF ResetInv

\* No event has left the card that is as it was.
LEMMA EventsAsBefore ==
  ASSUME card \in CardType, card'.events = card.events
  PROVE  \A e \in 1..MaxEvent : card'.events[e] >= card.events[e]
<1>1. SUFFICES ASSUME NEW e \in 1..MaxEvent PROVE card.events[e] >= card.events[e]
  OBVIOUS
<1>2. card.events \in [1..MaxEvent -> Nat]
  BY DEF CardType
<1>3. card.events[e] \in Nat
  BY <1>2
<1>. QED  BY <1>3

\* Acknowledge keeps the invariant: what is stored is below the next sequence.
LEMMA AcknowledgeStep == ASSUME ResetInv, Acknowledge PROVE ResetInv'
<1>1. /\ phase = "up" /\ ~gate.closed /\ Newest(card.recs) > cursor.ack
      /\ cursor' = [cursor EXCEPT !.ack = Newest(card.recs)]
      /\ UNCHANGED <<rec, drain, plan, events, card, phase, tally>>
      /\ UNCHANGED <<gate, coord, job, result, acc, queued>>
  BY DEF Acknowledge, ram
<1>2. /\ card \in CardType /\ cursor \in CursorType
      /\ Newest(card.recs) \in Nat /\ Newest(card.recs) < card.next
  BY NewestBelowNext DEF ResetInv, TypeOK
<1>. HIDE DEF Newest
<1>3. /\ cursor' \in CursorType /\ cursor'.ack = Newest(card.recs)
      /\ cursor'.gen = cursor.gen /\ cursor'.boundary = cursor.boundary
      /\ cursor'.base = cursor.base
  BY <1>1, <1>2 DEF CursorType
<1>4. Measures
  BY <1>1, SameMeasures
<1>5. Grows
  <2>1. card.next \in Nat /\ cursor.ack \in Nat
    BY <1>2 DEF CardType, CursorType
  <2>. QED  BY <1>1, <1>2, <1>3, <2>1, EventsAsBefore DEF Grows
<1>6. TypeOK'
  BY <1>1, <1>3 DEF ResetInv, TypeOK
<1>7. RecordsInv' /\ PlanInv' /\ CardInv' /\ GenInv' /\ HandedInv' /\ EventInv'
  BY <1>1, <1>4, <1>5, GrowthKept
<1>8. RelationInv' /\ PhaseInv' /\ GateInv' /\ JobInv' /\ ResultInv'
  BY <1>1, <1>3, RamKept
<1>9. AccInv'
  BY <1>1 DEF ResetInv, AccInv, Pending, Distinct, Measured
<1>10. PendingInv'
  BY <1>1, <1>3, <1>4, PendingKept DEF ResetInv, PendingInv
<1>. QED  BY <1>6, <1>7, <1>8, <1>9, <1>10 DEF ResetInv

\* One more copy of an event on the card.
LEMMA OneMoreEvent ==
  ASSUME card \in CardType, NEW e \in 1..MaxEvent,
         card' = [card EXCEPT !.events[e] = @ + 1]
  PROVE  /\ card' \in CardType /\ card'.recs = card.recs /\ card'.next = card.next
         /\ \A f \in 1..MaxEvent : card'.events[f] >= card.events[f]
         /\ card'.events[e] > 0
<1>1. /\ card' = [card EXCEPT !.events = [card.events EXCEPT ![e] = card.events[e] + 1]]
      /\ card.events \in [1..MaxEvent -> Nat]
  BY DEF CardType
<1>. DEFINE ev == [card.events EXCEPT ![e] = card.events[e] + 1]
<1>2. /\ ev \in [1..MaxEvent -> Nat] /\ ev[e] > 0
      /\ \A f \in 1..MaxEvent : ev[f] >= card.events[f]
  <2>1. card.events[e] \in Nat
    BY <1>1
  <2>2. ASSUME NEW f \in 1..MaxEvent
        PROVE  ev[f] >= card.events[f] /\ ev[f] \in Nat
    <3>1. card.events[f] \in Nat
      BY <1>1
    <3>2. CASE f = e
      BY <1>1, <2>1, <3>1, <3>2
    <3>3. CASE f # e
      BY <1>1, <3>1, <3>3
    <3>. QED  BY <3>2, <3>3
  <2>3. ev[e] > 0
    <3>1. ev[e] = card.events[e] + 1
      BY ONLY <1>1, e \in 1..MaxEvent DEF ev
    <3>. QED  BY <2>1, <3>1
  <2>4. ev \in [1..MaxEvent -> Nat]
    <3>1. ASSUME NEW g \in [1..MaxEvent -> Nat], NEW v \in Nat
          PROVE  [g EXCEPT ![e] = v] \in [1..MaxEvent -> Nat]
      OBVIOUS
    <3>2. card.events[e] + 1 \in Nat
      BY <2>1
    <3>. QED  BY <1>1, <3>1, <3>2
  <2>. QED  BY <2>2, <2>3, <2>4
<1>. HIDE DEF ev
<1>. QED  BY <1>1, <1>2 DEF CardType, ev

\* AppendQueued keeps the invariant.
LEMMA AppendQueuedStep == ASSUME ResetInv, AppendQueued PROVE ResetInv'
<1>1. /\ phase = "up" /\ queued # 0 /\ queued' = 0
      /\ card' = [card EXCEPT !.events[queued] = @ + 1]
      /\ UNCHANGED <<rec, drain, plan, events, cursor>>
      /\ UNCHANGED <<phase, gate, coord, job, result, acc, tally>>
  BY DEF AppendQueued, nvs
<1>2. /\ card \in CardType /\ cursor \in CursorType /\ queued \in 1..MaxEvent
      /\ card.next > cursor.ack
  BY <1>1, ResetAssumption DEF ResetInv, TypeOK, CardInv
<1>3. /\ card' \in CardType /\ card'.recs = card.recs /\ card'.next = card.next
      /\ \A f \in 1..MaxEvent : card'.events[f] >= card.events[f]
  BY <1>1, <1>2, OneMoreEvent
<1>4. Measures /\ Grows
  <2>1. card.next \in Nat /\ cursor.ack \in Nat
    BY <1>2 DEF CardType, CursorType
  <2>. QED  BY <1>1, <1>2, <1>3, <2>1, SameMeasures DEF Grows
<1>5. TypeOK'
  <2>1. queued' \in 0..MaxEvent /\ IsFiniteSet(card'.recs)
    BY <1>1, <1>3, ResetAssumption DEF ResetInv, TypeOK
  <2>. QED  BY <1>1, <1>3, <2>1 DEF ResetInv, TypeOK
<1>6. RecordsInv' /\ PlanInv' /\ CardInv' /\ GenInv' /\ HandedInv' /\ EventInv'
  BY <1>1, <1>4, GrowthKept
<1>7. RelationInv' /\ PhaseInv' /\ GateInv' /\ JobInv' /\ ResultInv'
  BY <1>1, <1>3, RamKept
<1>8. AccInv'
  BY <1>1, <1>3 DEF ResetInv, AccInv, Pending, Distinct, Measured
<1>9. PendingInv'
  <2>1. UNCHANGED Missing
    BY <1>1, <1>3 DEF Missing, containsDataResetDrainRecord
  <2>. QED
    BY <1>1, <1>3, <2>1 DEF ResetInv, PendingInv, Pending, Distinct, Measured
<1>. QED  BY <1>5, <1>6, <1>7, <1>8, <1>9 DEF ResetInv

\* ReconcileSequence keeps the invariant: no interval waits for its sequence.
LEMMA ReconcileSequenceStep == ASSUME ResetInv, ReconcileSequence PROVE ResetInv'
<1>1. /\ AtCheckpoint(1) /\ card.next <= coord.rec.boundary
      /\ card' = [card EXCEPT !.next = coord.rec.boundary + 1]
      /\ UNCHANGED <<rec, drain, plan, events, cursor>>
      /\ UNCHANGED <<phase, gate, coord, job, result, acc, queued, tally>>
  BY Checkpoints DEF ReconcileSequence, nvs, ram
<1>2. /\ phase = "up" /\ GoodNow(coord.rec) /\ ~Pending(drain)
      /\ card \in CardType /\ cursor \in CursorType /\ card.next > cursor.ack
      /\ card.next > cursor.boundary
  BY <1>1, CheckpointFacts DEF ResetInv, CardInv
<1>3. coord.rec.boundary \in Nat
  BY <1>2 DEF GoodNow, Good, RecordType
<1>4. /\ card' \in CardType /\ card'.recs = card.recs
      /\ card'.next = coord.rec.boundary + 1 /\ card'.events = card.events
  BY <1>1, <1>2, <1>3 DEF CardType
<1>5. Measures /\ Grows
  <2>1. card.next \in Nat /\ cursor.ack \in Nat
    BY <1>2 DEF CardType, CursorType
  <2>. QED
    BY <1>1, <1>2, <1>3, <1>4, <2>1, SameMeasures, EventsAsBefore DEF Grows
<1>6. TypeOK'
  BY <1>1, <1>4 DEF ResetInv, TypeOK
<1>7. RecordsInv' /\ PlanInv' /\ CardInv' /\ GenInv' /\ HandedInv' /\ EventInv'
  BY <1>1, <1>5, GrowthKept
<1>8. RelationInv' /\ PhaseInv' /\ GateInv' /\ JobInv' /\ ResultInv'
  BY <1>1, <1>2, <1>4, RamKept
<1>9. AccInv'
  BY <1>1, <1>4 DEF ResetInv, AccInv, Pending, Distinct, Measured
<1>10. PendingInv'
  BY <1>1, <1>2 DEF PendingInv
<1>. QED  BY <1>6, <1>7, <1>8, <1>9, <1>10 DEF ResetInv

\* StageDrain keeps the invariant when there is nothing to stage.
LEMMA NothingStaged ==
  ASSUME ResetInv, StageDrain, acc = <<>>
  PROVE  ResetInv'
<1>1. /\ phase = "up" /\ gate.closed /\ gate' = [gate EXCEPT !.quiet = TRUE]
      /\ UNCHANGED <<rec, drain, plan, events, cursor>>
      /\ UNCHANGED <<card, phase, coord, job, result, acc, queued, tally>>
  BY DEF StageDrain
<1>2. gate \in GateType
  BY DEF ResetInv, TypeOK
<1>3. gate' \in GateType /\ gate'.closed /\ gate'.op = gate.op
      /\ gate'.target = gate.target
  BY <1>1, <1>2 DEF GateType
<1>4. Measures /\ SameCursors
  BY <1>1, SameMeasures DEF SameCursors
<1>5. TypeOK'
  BY <1>1, <1>3 DEF ResetInv, TypeOK
<1>6. RecordsInv' /\ PlanInv' /\ CardInv' /\ GenInv' /\ HandedInv' /\ EventInv'
  BY <1>1, <1>4, DurableKept
<1>7. RelationInv' /\ PhaseInv' /\ GateInv' /\ AccInv'
  BY <1>1, <1>3 DEF ResetInv, RelationInv, PhaseInv, GateInv, AccInv
<1>8. JobInv' /\ ResultInv'
  BY <1>1 DEF ResetInv, JobInv, ResultInv, Planned, Pending
<1>9. PendingInv'
  BY <1>1, <1>3, <1>4, PendingKept DEF ResetInv, PendingInv
<1>. QED  BY <1>5, <1>6, <1>7, <1>8, <1>9 DEF ResetInv

\* StageDrain keeps the invariant: an interval is staged over nothing or over
\* the completed journal of another operation, and once.
LEMMA SomethingStaged ==
  ASSUME ResetInv, StageDrain, acc # <<>>
  PROVE  ResetInv'
<1>1. /\ phase = "up" /\ gate.closed /\ ~gate.quiet
      /\ UNCHANGED <<rec, plan, events, cursor, card, phase, coord, job, result,
                     queued>>
  BY DEF StageDrain
<1>2. PICK off \in {cursor.offset, cursor.offset + 1} :
        \E s \in SavedDrain(StagedDrain(off)) :
          /\ drain' = s.nvs
          /\ acc' = IF s.ok THEN <<>> ELSE acc
          /\ gate' = [gate EXCEPT !.quiet = s.ok]
          /\ tally' = [tally EXCEPT
               !.faults = @ + s.cost,
               !.handed = IF s.nvs # drain
                          THEN @ \cup {[id |-> acc[k], gen |-> cursor.gen] :
                                         k \in DOMAIN acc}
                          ELSE @]
  BY DEF StageDrain
<1>. DEFINE n == StagedDrain(off)
            given == {[id |-> acc[k], gen |-> cursor.gen] : k \in DOMAIN acc}
<1>3. PICK s \in SavedDrain(n) :
          /\ drain' = s.nvs
          /\ acc' = IF s.ok THEN <<>> ELSE acc
          /\ gate' = [gate EXCEPT !.quiet = s.ok]
          /\ tally' = [tally EXCEPT
               !.faults = @ + s.cost,
               !.handed = IF s.nvs # drain THEN @ \cup given ELSE @]
  BY <1>2
<1>4. /\ gate \in GateType /\ tally \in TallyType /\ cursor \in CursorType
      /\ acc \in Seq(Nat) /\ Len(acc) <= 2 /\ card \in CardType
      /\ drain \in DrainType \cup {None}
  BY DEF ResetInv, TypeOK
<1>5. /\ Final(coord.rec) /\ coord.prepare # None /\ gate.target = cursor.gen + 1
  BY <1>1 DEF ResetInv, GateInv
<1>6. /\ coord.want = "none"
      /\ rec = coord.rec \/ rec = Preparing(coord.prepare)
      /\ Preparing(coord.prepare).st = "Preparing"
      /\ Preparing(coord.prepare).target = cursor.gen + 1
  <2>. HIDE DEF Preparing
  <2>. QED  BY <1>5, PrepareFacts
<1>7. /\ Distinct(acc) /\ Measured(acc)
      /\ \/ /\ ~Pending(drain)
            /\ \A r \in card.recs : \A k \in DOMAIN acc : r.id # acc[k]
         \/ drain # None /\ drain.op = gate.op /\ drain.ids = acc
  BY DEF ResetInv, AccInv
<1>8. /\ n \in DrainType /\ n # None /\ n.st = "Staged" /\ n.op = gate.op
      /\ n.target = gate.target /\ n.ids = acc /\ Len(n.ids) \in 1..2
  <2>1. gate.op \in Ops /\ gate.target \in Nat /\ off \in Nat /\ 0 \in Nat
    BY <1>1, <1>2, <1>4 DEF GateType, CursorType
  <2>2. Len(acc) \in 1..2
    <3>1. Len(acc) \in Nat \ {0}
      BY <1>4, EmptySeq
    <3>2. \A l \in Nat \ {0} : l <= 2 => l \in 1..2
      OBVIOUS
    <3>3. Len(acc) <= 2
      BY <1>4
    <3>. QED  BY ONLY <3>1, <3>2, <3>3
  <2>3. n = [op |-> gate.op, st |-> "Staged", target |-> gate.target, ids |-> acc,
             first |-> 0, offset |-> off]
    BY DEF StagedDrain
  <2>. HIDE DEF n
  <2>4. n \in DrainType
    BY <1>4, <2>1, <2>3 DEF DrainType
  <2>. QED  BY <2>2, <2>3, <2>4, NoneAssumption
<1>. HIDE DEF n
<1>9. /\ s.ok \in BOOLEAN /\ s.cost \in Nat
      /\ s.nvs = drain \/ s.nvs = n
      /\ s.ok => s.nvs = n
      /\ s.nvs # drain => validDrainRecordUpdate(drain, n)
  BY <1>3, SavedDrainOutcome
<1>10. drain' # drain => /\ drain' = n
                         /\ drain = None \/ drain.st = "Completed"
                         /\ \A r \in card.recs : \A k \in DOMAIN acc : r.id # acc[k]
  BY <1>3, <1>7, <1>8, <1>9 DEF validDrainRecordUpdate
<1>11. /\ tally' \in TallyType /\ tally'.intervals = tally.intervals
       /\ tally'.faults >= tally.faults
       /\ tally'.handed = IF drain' # drain THEN tally.handed \cup given
                                            ELSE tally.handed
  <2>. DEFINE ha == IF s.nvs # drain THEN tally.handed \cup given ELSE tally.handed
              m == [tally EXCEPT !.faults = tally.faults + s.cost]
  <2>1. given \subseteq [id : Nat, gen : Nat]
    BY <1>4 DEF CursorType
  <2>2. ha \in SUBSET [id : Nat, gen : Nat]
    BY <1>4, <2>1 DEF TallyType
  <2>3. /\ m \in TallyType /\ m.intervals = tally.intervals
        /\ m.faults >= tally.faults
    <3>1. tally \in TallyType /\ s.cost \in Nat
      BY <1>4, <1>9
    <3>. QED  BY ONLY <3>1 DEF TallyType
  <2>4. tally' = [m EXCEPT !.handed = ha]
    BY <1>3, <1>4 DEF TallyType
  <2>. HIDE DEF m, given, ha
  <2>5. /\ tally' \in TallyType /\ tally'.intervals = m.intervals
        /\ tally'.faults = m.faults /\ tally'.handed = ha
    BY <2>2, <2>3, <2>4 DEF TallyType
  <2>. QED  BY <1>3, <2>3, <2>5 DEF ha
<1>12. /\ gate' \in GateType /\ gate'.closed /\ gate'.op = gate.op
       /\ gate'.target = gate.target /\ gate'.quiet = s.ok
  BY <1>1, <1>3, <1>4, <1>9 DEF GateType
<1>13. TypeOK'
  <2>1. /\ drain' \in DrainType \cup {None}
        /\ drain' # None => Len(drain'.ids) \in 1..2
    BY <1>3, <1>4, <1>8, <1>9 DEF ResetInv, TypeOK
  <2>2. acc' \in Seq(Nat) /\ Len(acc') <= 2
    BY <1>3, <1>4, <1>9
  <2>. QED  BY <1>1, <1>11, <1>12, <2>1, <2>2 DEF ResetInv, TypeOK
<1>14. RecordsInv'
  <2>1. cursor.gen \in Nat
    BY <1>4 DEF CursorType
  <2>2. \A r : HeldNow(r) /\ (Final(r) \/ (r.st = "Preparing" /\ r.target = cursor.gen + 1))
             => Held(r, cursor, card, plan, drain', tally'.handed)
    BY <2>1 DEF HeldNow, Held, Pinned
  <2>. HIDE DEF Preparing
  <2>3. /\ rec # None => Held(rec, cursor, card, plan, drain', tally'.handed)
        /\ coord.rec # None => Held(coord.rec, cursor, card, plan, drain', tally'.handed)
    BY <1>5, <1>6, <2>2 DEF ResetInv, RecordsInv
  <2>. QED  BY <1>1, <2>3 DEF RecordsInv, HeldNow
<1>15. RelationInv' /\ PhaseInv' /\ PlanInv' /\ EventInv'
  BY <1>1 DEF ResetInv, RelationInv, PhaseInv, PlanInv, EventInv,
     EventsPreserved
<1>16. GateInv'
  <2>1. acc' # <<>> => acc' = acc /\ ~gate'.quiet
    BY <1>3, <1>9, <1>12
  <2>. QED  BY <1>1, <1>5, <1>12, <2>1 DEF ResetInv, GateInv
<1>17. JobInv' /\ ResultInv'
  <2>1. /\ job.pc = "append" => drain' = drain
        /\ drain # None => drain' # None
    BY <1>3, <1>8, <1>9, <1>10 DEF ResetInv, JobInv
  <2>. QED  BY <1>1, <1>6, <2>1 DEF ResetInv, JobInv, ResultInv
<1>18. CardInv'
  BY <1>1, <1>11 DEF ResetInv, CardInv
<1>19. GenInv'
  <2>1. \A x \in given : x.gen <= cursor.gen
    BY <1>4 DEF CursorType
  <2>. HIDE DEF given
  <2>. QED  BY <1>1, <1>11, <2>1 DEF ResetInv, GenInv
<1>20. AccInv'
  <2>1. SUFFICES ASSUME acc' # <<>> PROVE AccInv'
    BY DEF AccInv
  <2>2. acc' = acc
    BY <1>3, <2>1
  <2>3. Distinct(acc)' /\ Measured(acc)'
    BY <1>7, <1>11, <2>2 DEF Distinct, Measured
  <2>4. CASE drain' = drain
    BY <1>1, <1>7, <1>12, <2>2, <2>3, <2>4 DEF AccInv, Pending, Distinct,
       Measured
  <2>5. CASE drain' # drain
    BY <1>8, <1>10, <1>12, <2>2, <2>3, <2>5 DEF AccInv, Distinct, Measured
  <2>. QED  BY <2>4, <2>5
<1>21. PendingInv'
  <2>1. CASE drain' = drain
    <3>1. UNCHANGED Missing
      BY <1>1, <2>1 DEF Missing, containsDataResetDrainRecord
    <3>. QED  BY <1>1, <1>5, <1>11, <1>12, <2>1, <3>1
              DEF ResetInv, PendingInv, Pending, Measured, Distinct
  <2>2. CASE drain' # drain
    <3>1. /\ drain' = n
          /\ \A r \in card.recs : \A k \in DOMAIN acc : r.id # acc[k]
      BY <1>10, <2>2
    <3>2. Measured(drain.ids)' /\ Distinct(drain.ids)'
      BY <1>7, <1>8, <1>11, <3>1 DEF Measured, Distinct
    <3>. QED  BY <1>1, <1>5, <1>8, <1>12, <3>1, <3>2
              DEF PendingInv, Measured, Distinct
  <2>. QED  BY <2>1, <2>2
<1>22. HandedInv'
  <2>1. CASE drain' = drain
    BY <1>1, <1>11, <2>1 DEF ResetInv, HandedInv, Pending
  <2>2. CASE drain' # drain
    <3>1. drain' = n /\ ~Pending(drain) /\ Pending(n)
      BY <1>8, <1>10, <2>2 DEF Pending
    <3>2. SUFFICES ASSUME NEW h \in tally'.handed, h.gen = cursor.gen
                   PROVE  \/ \E r \in card.recs : r.id = h.id
                          \/ \E k \in DOMAIN n.ids : n.ids[k] = h.id
      BY <1>1, <3>1 DEF HandedInv
    <3>3. CASE h \in tally.handed
      BY <3>1, <3>2, <3>3 DEF ResetInv, HandedInv
    <3>4. CASE h \in given
      BY <1>8, <3>4
    <3>. QED  BY <1>11, <2>2, <3>2, <3>3, <3>4
  <2>. QED  BY <2>1, <2>2
<1>. QED
  BY <1>13, <1>14, <1>15, <1>16, <1>17, <1>18, <1>19, <1>20, <1>21, <1>22
          DEF ResetInv

-----------------------------------------------------------------------------
(* StorageTask: the drain                                                  *)

\* An answer ends the barrier.
LEMMA Answered ==
  ASSUME NEW ok \in BOOLEAN, NEW added \in Nat, NEW last \in Nat, NEW off \in Nat,
         Answer(ok, added, last, off)
  PROVE  /\ job' \in JobType /\ job'.pc = "idle"
         /\ result' \in AnswerType /\ result' # None
         /\ result'.ok = ok /\ result'.added = added
<1>1. job' = [pc |-> "idle", op |-> None]
      /\ result' = [ok |-> ok, added |-> added, last |-> last, offset |-> off]
  BY DEF Answer, NoJob
<1>2. None \in Ops \cup {None}
  OBVIOUS
<1>3. job' \in JobType /\ job'.pc = "idle"
  BY <1>1, <1>2 DEF JobType
<1>4. /\ result' \in AnswerType /\ result'.ok = ok /\ result'.added = added
  BY <1>1 DEF AnswerType
<1>. QED  BY <1>3, <1>4, NoneAssumption

\* A failed barrier without a count.
LEMMA FailedAnswer ==
  ASSUME Failed
  PROVE  /\ job' \in JobType /\ job'.pc = "idle"
         /\ result' \in AnswerType /\ result' # None
         /\ ~result'.ok /\ result'.added = 0
  BY Answered DEF Failed

\* A step from one part of a barrier to the next.
LEMMA NextPart ==
  ASSUME ResetInv, NEW pc \in {"append", "scrub", "plan", "delete", "flush"},
         job' = [job EXCEPT !.pc = pc]
  PROVE  job' \in JobType /\ job'.pc = pc /\ job'.op = job.op
<1>1. job \in JobType
  BY DEF ResetInv, TypeOK
<1>. QED  BY <1>1 DEF JobType

\* Where a drain can be at work.
LEMMA DrainFacts ==
  ASSUME ResetInv, job.pc \in DrainSteps
  PROVE  /\ phase \in {"up", "boot"} /\ coord.want # "clean"
         /\ phase = "boot" => /\ drain # None /\ gate.op = drain.op
                              /\ gate.target = drain.target
<1>1. job.pc # "idle"
  BY DEF DrainSteps
<1>2. phase \in {"up", "boot"}
  BY <1>1 DEF ResetInv, TypeOK, PhaseInv
<1>3. coord.want # "clean"
  BY DEF ResetInv, JobInv, DrainSteps, CleanSteps
<1>. QED  BY <1>2, <1>3 DEF ResetInv, PhaseInv

\* A step of StorageTask that leaves the journals and the card alone keeps
\* all that is not about the barrier itself.
LEMMA BarrierKept ==
  ASSUME ResetInv, UNCHANGED <<rec, drain, plan, events, cursor, card>>,
         UNCHANGED <<phase, gate, coord, acc, queued>>, Tallied,
         job' \in JobType, result' \in AnswerType \cup {None}
  PROVE  /\ TypeOK' /\ RecordsInv' /\ RelationInv' /\ GateInv' /\ PlanInv'
         /\ CardInv' /\ GenInv' /\ AccInv' /\ PendingInv' /\ HandedInv' /\ EventInv'
<1>1. Measures /\ SameCursors /\ tally'.intervals = tally.intervals
  BY TalliedMeasures DEF SameCursors, Tallied
<1>2. TypeOK'
  BY <1>1 DEF ResetInv, TypeOK, Measures
<1>3. RecordsInv' /\ PlanInv' /\ CardInv' /\ GenInv' /\ HandedInv' /\ EventInv'
  BY <1>1, DurableKept
<1>4. RelationInv' /\ GateInv'
  BY DEF ResetInv, RelationInv, GateInv
<1>5. AccInv'
  BY <1>1 DEF ResetInv, AccInv, Pending, Distinct, Measured
<1>6. PendingInv'
  BY <1>1, PendingKept DEF ResetInv, PendingInv
<1>. QED  BY <1>2, <1>3, <1>4, <1>5, <1>6

\* A failed drain keeps the invariant: at boot it took a failing operation.
LEMMA DrainFailedKeeps ==
  ASSUME ResetInv, job.pc \in DrainSteps, Failed, Tallied,
         phase = "boot" => tally'.faults > 0 /\ drain' # None
                           /\ drain'.op = drain.op /\ drain'.target = drain.target,
         UNCHANGED <<rec, plan, events, cursor>>, UNCHANGED <<phase, gate, coord, acc>>
  PROVE  PhaseInv' /\ JobInv' /\ ResultInv'
<1>1. /\ job' \in JobType /\ job'.pc = "idle"
      /\ result' \in AnswerType /\ result' # None
      /\ ~result'.ok /\ result'.added = 0
  BY FailedAnswer
<1>2. /\ phase \in {"up", "boot"} /\ coord.want # "clean"
      /\ phase = "boot" => /\ drain # None /\ gate.op = drain.op
                           /\ gate.target = drain.target
  BY DrainFacts
<1>3. PhaseInv'
  <2>1. CASE phase = "up"
    BY <2>1 DEF PhaseInv
  <2>2. CASE phase = "boot"
    <3>1. coord = NoCoord /\ acc = <<>>
      BY <2>2 DEF ResetInv, PhaseInv
    <3>. QED  BY <1>1, <1>2, <2>2, <3>1 DEF PhaseInv
  <2>. QED  BY <1>2, <2>1, <2>2
<1>4. JobInv'
  BY <1>1, <1>2 DEF ResetInv, JobInv, CleanSteps
<1>5. ResultInv'
  BY <1>1, <1>2 DEF ResultInv
<1>. QED  BY <1>3, <1>4, <1>5

\* DrainLoad keeps the invariant: what is assigned fits behind what is stored.
LEMMA DrainLoadStep == ASSUME ResetInv, DrainLoad PROVE ResetInv'
<1>1. /\ job.pc = "drain" /\ job.pc \in DrainSteps
      /\ UNCHANGED <<rec, plan, events, cursor>>
      /\ UNCHANGED <<phase, gate, coord, acc, queued, card>>
  BY DEF DrainLoad, JobVars, DrainSteps
<1>2. /\ phase \in {"up", "boot"} /\ coord.want # "clean"
      /\ phase = "boot" => /\ drain # None /\ gate.op = drain.op
                           /\ gate.target = drain.target
  BY <1>1, DrainFacts
<1>3. /\ tally \in TallyType /\ card \in CardType /\ result \in AnswerType \cup {None}
      /\ drain # None => drain \in DrainType
      /\ card.next \in Nat
  BY DEF ResetInv, TypeOK, CardType
<1>4. CASE Failed /\ UNCHANGED drain /\ Spend(1)
  <2>1. Tallied /\ tally'.faults = tally.faults + 1
    BY <1>3, <1>4, SpendTallies
  <2>2. tally'.faults > 0
    BY <1>3, <2>1 DEF TallyType
  <2>3. job' \in JobType /\ result' \in AnswerType
    BY <1>4, FailedAnswer
  <2>. QED
    BY <1>1, <1>2, <1>4, <2>1, <2>2, <2>3, DrainFailedKeeps, BarrierKept
            DEF ResetInv
<1>5. CASE /\ Answer(TRUE, 0, 0, 0) /\ UNCHANGED <<drain, tally>>
           /\ drain = None \/ (drain.op # gate.op /\ drain.st = "Completed")
  <2>1. Tallied
    BY <1>3, <1>5, SameTally
  <2>2. /\ job' \in JobType /\ job'.pc = "idle" /\ result' \in AnswerType
        /\ result'.added = 0
    BY <1>5, Answered
  <2>3. phase = "up" /\ ~Pending(drain)
    BY <1>2, <1>5 DEF Pending
  <2>4. PhaseInv' /\ JobInv' /\ ResultInv'
    BY <1>1, <1>2, <1>5, <2>2, <2>3
    DEF ResetInv, PhaseInv, JobInv, ResultInv, CleanSteps, Pending
  <2>. QED  BY <1>1, <1>5, <2>1, <2>2, <2>4, BarrierKept DEF ResetInv
<1>6. CASE /\ Failed /\ UNCHANGED <<drain, tally>>
           /\ drain.op # gate.op \/ drain.target # gate.target
  <2>1. Tallied /\ phase = "up" /\ phase # "boot"
    BY <1>2, <1>3, <1>6, SameTally
  <2>2. job' \in JobType /\ result' \in AnswerType
    BY <1>6, FailedAnswer
  <2>. QED
    BY <1>1, <1>6, <2>1, <2>2, DrainFailedKeeps, BarrierKept DEF ResetInv
<1>7. ASSUME drain # None, drain.st = "Staged", NEW n,
             n = [drain EXCEPT !.st = "Assigned", !.first = card.next],
             NEW s \in SavedDrain(n), drain' = s.nvs, Spend(s.cost),
             IF s.ok THEN job' = [job EXCEPT !.pc = "append"] /\ UNCHANGED result
                     ELSE Failed
      PROVE  ResetInv'
  <2>1. /\ n \in DrainType /\ n # None /\ n.st = "Assigned" /\ n.op = drain.op
        /\ n.target = drain.target /\ n.ids = drain.ids /\ n.first = card.next
        /\ Len(n.ids) \in 1..2
    <3>. DEFINE m == [drain EXCEPT !.st = "Assigned"]
    <3>1. /\ m \in DrainType /\ m.st = "Assigned" /\ m.op = drain.op
          /\ m.target = drain.target /\ m.ids = drain.ids
      BY <1>3, <1>7 DEF DrainType
    <3>2. n = [m EXCEPT !.first = card.next]
      BY <1>7
    <3>. HIDE DEF m
    <3>3. /\ n \in DrainType /\ n.st = "Assigned" /\ n.op = drain.op
          /\ n.target = drain.target /\ n.ids = drain.ids /\ n.first = card.next
      BY <1>3, <3>1, <3>2 DEF DrainType
    <3>4. Len(drain.ids) \in 1..2
      BY <1>7 DEF ResetInv, TypeOK
    <3>. QED  BY <3>3, <3>4, NoneAssumption
  <2>2. /\ s.ok \in BOOLEAN /\ s.cost \in Nat
        /\ s.nvs = drain \/ s.nvs = n
        /\ s.ok => s.nvs = n
        /\ ~s.ok /\ validDrainRecordUpdate(drain, n) => s.cost > 0
    BY <1>7, SavedDrainOutcome
  <2>3. ~s.ok => s.cost > 0
    BY <1>7, <2>1, <2>2 DEF validDrainRecordUpdate
  <2>4. /\ Tallied /\ tally'.faults = tally.faults + s.cost
        /\ tally'.intervals = tally.intervals /\ tally'.handed = tally.handed
    BY <1>3, <1>7, <2>2, SpendTallies DEF Tallied
  <2>5. /\ drain' = drain \/ drain' = n
        /\ drain' # None /\ drain'.op = drain.op /\ drain'.target = drain.target
        /\ drain'.ids = drain.ids /\ drain'.st # "Completed"
        /\ Pending(drain) /\ Pending(drain')
        /\ s.ok => drain' = n
    BY <1>7, <2>1, <2>2 DEF Pending
  <2>6. job' \in JobType /\ result' \in AnswerType \cup {None}
    BY <1>3, <1>7, FailedAnswer, NextPart
  <2>7. TypeOK'
    <3>1. drain' \in DrainType \cup {None} /\ Len(drain'.ids) \in 1..2
      BY <1>3, <1>7, <2>1, <2>5 DEF ResetInv, TypeOK
    <3>2. tally' \in TallyType
      BY <2>4 DEF Tallied
    <3>. QED  BY <1>1, <2>6, <3>1, <3>2 DEF ResetInv, TypeOK
  <2>8. RecordsInv'
    <3>1. \A r : HeldNow(r) => Held(r, cursor, card, plan, drain', tally'.handed)
      BY <2>4, <2>5 DEF HeldNow, Held
    <3>. QED  BY <1>1, <3>1 DEF ResetInv, RecordsInv, HeldNow
  <2>9. RelationInv' /\ GateInv' /\ PlanInv' /\ EventInv' /\ CardInv' /\ GenInv'
    BY <1>1, <2>4
    DEF ResetInv, RelationInv, GateInv, PlanInv, EventInv, EventsPreserved, CardInv,
        GenInv
  <2>10. PhaseInv' /\ JobInv' /\ ResultInv'
    <3>1. CASE s.ok
      <4>1. job'.pc = "append" /\ UNCHANGED result /\ drain' = n
        BY <1>7, <2>5, <3>1, NextPart
      <4>2. PhaseInv'
        <5>1. CASE phase = "up"
          BY <1>1, <5>1 DEF PhaseInv
        <5>2. CASE phase = "boot"
          <6>1. /\ coord = NoCoord /\ acc = <<>>
                /\ result # None => ~result.ok /\ tally.faults > 0
            BY <1>7, <5>2 DEF ResetInv, PhaseInv
          <6>2. result # None => tally'.faults > 0
            BY <1>3, <2>2, <2>4, <6>1 DEF TallyType
          <6>. QED  BY <1>1, <1>2, <2>5, <4>1, <5>2, <6>1, <6>2
                    DEF PhaseInv, DrainSteps
        <5>. QED  BY <1>2, <5>1, <5>2
      <4>3. JobInv'
        BY <1>1, <1>2, <2>1, <4>1 DEF ResetInv, JobInv, CleanSteps
      <4>4. ResultInv'
        BY <1>1, <1>2, <2>5, <4>1 DEF ResetInv, ResultInv
      <4>. QED  BY <4>2, <4>3, <4>4
    <3>2. CASE ~s.ok
      <4>1. Failed /\ tally'.faults > 0
        BY <1>3, <1>7, <2>2, <2>3, <2>4, <3>2 DEF TallyType
      <4>. QED  BY <1>1, <2>4, <2>5, <4>1, DrainFailedKeeps
    <3>. QED  BY <2>2, <3>1, <3>2
  <2>11. AccInv'
    BY <1>1, <2>4, <2>5 DEF ResetInv, AccInv, Distinct, Measured
  <2>12. PendingInv'
    <3>1. CASE drain' = drain
      BY <1>1, <2>4, <3>1, TalliedMeasures, PendingKept DEF ResetInv,
         PendingInv
    <3>2. CASE drain' = n
      <4>1. /\ drain.target = cursor.gen + 1
            /\ phase = "up" => gate.closed /\ (coord.prepare # None \/ ~Final(coord.rec))
            /\ Distinct(drain.ids) /\ Measured(drain.ids)
            /\ \A r \in card.recs : \A k \in DOMAIN drain.ids : r.id # drain.ids[k]
        BY <1>7, <2>5 DEF ResetInv, PendingInv
      <4>2. \A k \in DOMAIN drain.ids : card.next <= card.next + k - 1
        <5>1. DOMAIN drain.ids = 1..Len(drain.ids) /\ Len(drain.ids) \in Nat
          BY <1>3, <1>7 DEF DrainType
        <5>. QED  BY <1>3, <5>1
      <4>3. Missing' \subseteq DOMAIN drain.ids
        BY <2>5 DEF Missing
      <4>4. Measured(drain.ids)' /\ Distinct(drain.ids)'
        BY <2>4, <2>5, <4>1 DEF Measured, Distinct
      <4>5. card.next <= card.next
        BY <1>3
      <4>. QED
        BY <1>1, <2>1, <3>2, <4>1, <4>2, <4>3, <4>4, <4>5 DEF PendingInv
    <3>. QED  BY <2>5, <3>1, <3>2
  <2>13. HandedInv'
    BY <1>1, <2>4, <2>5 DEF ResetInv, HandedInv
  <2>. QED  BY <2>7, <2>8, <2>9, <2>10, <2>11, <2>12, <2>13 DEF ResetInv
<1>8. CASE /\ drain # None /\ drain.st # "Staged"
           /\ job' = [job EXCEPT !.pc = IF drain.st = "Assigned" THEN "append"
                                                                 ELSE "scrub"]
           /\ UNCHANGED <<drain, result, tally>>
  <2>. DEFINE pc == IF drain.st = "Assigned" THEN "append" ELSE "scrub"
  <2>1. pc \in {"append", "scrub", "plan", "delete", "flush"}
    OBVIOUS
  <2>2. job' \in JobType /\ job'.pc = pc
    BY <1>8, <2>1, NextPart
  <2>3. Tallied
    BY <1>3, <1>8, SameTally
  <2>4. drain.st = "Assigned" \/ drain.st = "Completed"
    BY <1>3, <1>8 DEF DrainType
  <2>5. PhaseInv'
    <3>1. CASE phase = "up"
      BY <1>1, <3>1 DEF PhaseInv
    <3>2. CASE phase = "boot"
      BY <1>1, <1>8, <2>2, <3>2 DEF ResetInv, PhaseInv, DrainSteps
    <3>. QED  BY <1>2, <3>1, <3>2
  <2>6. JobInv' /\ ResultInv'
    BY <1>1, <1>2, <1>8, <2>2, <2>4
    DEF ResetInv, JobInv, ResultInv, CleanSteps, Pending, Planned
  <2>. QED
    BY <1>1, <1>3, <1>8, <2>2, <2>3, <2>5, <2>6, BarrierKept DEF ResetInv
<1>9. PICK checked \in Checks :
        IF ~checked THEN Failed /\ UNCHANGED drain /\ Spend(1)
        ELSE IF drain = None \/ (drain.op # gate.op /\ drain.st = "Completed")
        THEN Answer(TRUE, 0, 0, 0) /\ UNCHANGED <<drain, tally>>
        ELSE IF drain.op # gate.op \/ drain.target # gate.target
        THEN Failed /\ UNCHANGED <<drain, tally>>
        ELSE IF drain.st = "Staged"
        THEN \E s \in SavedDrain([drain EXCEPT !.st = "Assigned",
                                               !.first = card.next]) :
               /\ drain' = s.nvs /\ Spend(s.cost)
               /\ IF s.ok THEN job' = [job EXCEPT !.pc = "append"] /\ UNCHANGED result
                          ELSE Failed
        ELSE /\ job' = [job EXCEPT !.pc = IF drain.st = "Assigned" THEN "append"
                                                                  ELSE "scrub"]
             /\ UNCHANGED <<drain, result, tally>>
  BY DEF DrainLoad
<1>10. CASE drain # None /\ drain.st = "Staged"
            /\ \E s \in SavedDrain([drain EXCEPT !.st = "Assigned",
                                                 !.first = card.next]) :
               /\ drain' = s.nvs /\ Spend(s.cost)
               /\ IF s.ok THEN job' = [job EXCEPT !.pc = "append"] /\ UNCHANGED result
                          ELSE Failed
  BY <1>7, <1>10
<1>. HIDE DEF Failed, Answer, Spend, SavedDrain
<1>. QED  BY <1>4, <1>5, <1>6, <1>8, <1>9, <1>10

\* The first interval that is missing comes next on the card.
LEMMA FirstMissing ==
  ASSUME ResetInv, job.pc = "append", Missing # {}
  PROVE  /\ Min(Missing) \in Missing /\ Min(Missing) \in DOMAIN drain.ids
         /\ \A j \in Missing : Min(Missing) <= j
         /\ card.next = drain.first + Min(Missing) - 1
         /\ Missing \subseteq Nat /\ drain.first \in Nat /\ card.next \in Nat
<1>1. drain # None /\ drain.st = "Assigned" /\ Pending(drain)
  BY DEF ResetInv, JobInv, Pending
<1>2. drain \in DrainType /\ Len(drain.ids) \in 1..2
  BY <1>1 DEF ResetInv, TypeOK
<1>3. DOMAIN drain.ids = 1..Len(drain.ids) /\ drain.first \in Nat
  BY <1>2 DEF DrainType
<1>4. Missing \subseteq DOMAIN drain.ids /\ Missing \in SUBSET Nat
  BY <1>2, <1>3 DEF Missing
<1>5. Min(Missing) \in Missing /\ \A j \in Missing : Min(Missing) <= j
  <2>1. \E m \in Missing : \A j \in Missing : m <= j
    BY <1>4, LeastNatural
  <2>. HIDE DEF Missing
  <2>. QED  BY <2>1 DEF Min
<1>6. card.next \in Nat /\ \A r \in card.recs : r.seq \in Nat /\ r.seq < card.next
  BY DEF ResetInv, TypeOK, CardType, StoredType, CardInv
<1>7. /\ drain.first <= card.next
      /\ \A j \in Missing : card.next <= drain.first + j - 1
  BY <1>1 DEF ResetInv, PendingInv
<1>8. Min(Missing) \in 1..2 /\ Min(Missing) \in DOMAIN drain.ids
  <2>. HIDE DEF Missing
  <2>1. Min(Missing) \in 1..Len(drain.ids) /\ Min(Missing) \in DOMAIN drain.ids
    BY <1>3, <1>4, <1>5
  <2>2. \A l \in 1..2 : 1..l \subseteq 1..2
    OBVIOUS
  <2>. QED  BY ONLY <1>2, <2>1, <2>2
<1>9. card.next >= drain.first + Min(Missing) - 1
  <2>1. CASE Min(Missing) = 1
    BY <1>3, <1>6, <1>7, <2>1
  <2>2. CASE Min(Missing) = 2
    <3>1. 1 \notin Missing
      <4>. HIDE DEF Missing
      <4>. QED  BY <1>5, <2>2
    <3>2. 1 \in DOMAIN drain.ids
      BY <1>2, <1>3
    <3>3. PICK r \in card.recs : r.seq = drain.first + 1 - 1
      BY <3>1, <3>2 DEF Missing, containsDataResetDrainRecord
    <3>4. drain.first < card.next
      BY <1>3, <1>6, <3>3
    <3>. QED  BY <1>3, <1>6, <2>2, <3>4
  <2>. QED  BY <1>8, <2>1, <2>2
<1>. HIDE DEF Missing
<1>10. card.next <= drain.first + Min(Missing) - 1
  BY <1>5, <1>7
<1>11. card.next = drain.first + Min(Missing) - 1
  BY <1>3, <1>6, <1>8, <1>9, <1>10
<1>. QED  BY <1>3, <1>4, <1>5, <1>6, <1>8, <1>11

\* A journal that is completed keeps the invariant: all of it is on the card.
LEMMA DrainCompletedKeeps ==
  ASSUME ResetInv, job.pc = "append", Missing = {}, DrainAppend
  PROVE  ResetInv'
<1>. DEFINE n == [drain EXCEPT !.st = "Completed"]
<1>1. /\ job.pc \in DrainSteps
      /\ UNCHANGED <<rec, plan, events, cursor>>
      /\ UNCHANGED <<phase, gate, coord, acc, queued, card>>
  BY DEF DrainAppend, JobVars, DrainSteps
<1>2. PICK s \in SavedDrain(n) :
        /\ drain' = s.nvs /\ Spend(s.cost)
        /\ IF s.ok THEN job' = [job EXCEPT !.pc = "scrub"] /\ UNCHANGED result
                   ELSE Failed
  BY DEF DrainAppend
<1>3. /\ phase \in {"up", "boot"} /\ coord.want # "clean"
      /\ phase = "boot" => /\ drain # None /\ gate.op = drain.op
                           /\ gate.target = drain.target
  BY <1>1, DrainFacts
<1>4. /\ tally \in TallyType /\ result \in AnswerType \cup {None}
      /\ drain # None /\ drain \in DrainType /\ drain.st = "Assigned"
      /\ Len(drain.ids) \in 1..2 /\ Pending(drain)
  BY DEF ResetInv, TypeOK, JobInv, Pending
<1>5. /\ n \in DrainType /\ n # None /\ n.st = "Completed" /\ n.op = drain.op
      /\ n.target = drain.target /\ n.ids = drain.ids
  <2>1. /\ n \in DrainType /\ n.st = "Completed" /\ n.op = drain.op
        /\ n.target = drain.target /\ n.ids = drain.ids
    BY <1>4 DEF DrainType
  <2>. QED  BY <2>1, NoneAssumption
<1>. HIDE DEF n
<1>6. /\ s.ok \in BOOLEAN /\ s.cost \in Nat
      /\ s.nvs = drain \/ s.nvs = n
      /\ s.ok => s.nvs = n
      /\ ~s.ok /\ validDrainRecordUpdate(drain, n) => s.cost > 0
  BY <1>2, SavedDrainOutcome
<1>7. ~s.ok => s.cost > 0
  BY <1>4, <1>5, <1>6 DEF validDrainRecordUpdate
<1>8. /\ Tallied /\ tally'.faults = tally.faults + s.cost
      /\ tally'.intervals = tally.intervals /\ tally'.handed = tally.handed
  BY <1>2, <1>4, <1>6, SpendTallies DEF Tallied
<1>9. /\ drain' = drain \/ drain' = n
      /\ drain' # None /\ drain'.op = drain.op /\ drain'.target = drain.target
      /\ drain'.ids = drain.ids
      /\ s.ok => drain' = n
  BY <1>2, <1>4, <1>5, <1>6
<1>10. job' \in JobType /\ result' \in AnswerType \cup {None}
  BY <1>2, <1>4, FailedAnswer, NextPart
<1>11. TypeOK'
  <2>1. drain' \in DrainType \cup {None} /\ Len(drain'.ids) \in 1..2
    BY <1>4, <1>5, <1>9
  <2>2. tally' \in TallyType
    BY <1>8 DEF Tallied
  <2>. QED  BY <1>1, <1>10, <2>1, <2>2 DEF ResetInv, TypeOK
<1>12. RecordsInv'
  <2>1. \A r : HeldNow(r) => Held(r, cursor, card, plan, drain', tally'.handed)
    BY <1>4, <1>8 DEF HeldNow, Held
  <2>. QED  BY <1>1, <2>1 DEF ResetInv, RecordsInv, HeldNow
<1>13. RelationInv' /\ GateInv' /\ PlanInv' /\ EventInv' /\ CardInv' /\ GenInv'
  BY <1>1, <1>8
  DEF ResetInv, RelationInv, GateInv, PlanInv, EventInv, EventsPreserved, CardInv,
      GenInv
<1>14. PhaseInv' /\ JobInv' /\ ResultInv'
  <2>1. CASE s.ok
    <3>1. job'.pc = "scrub" /\ UNCHANGED result /\ drain' = n
      BY <1>2, <1>9, <2>1, NextPart
    <3>2. PhaseInv'
      <4>1. CASE phase = "up"
        BY <1>1, <4>1 DEF PhaseInv
      <4>2. CASE phase = "boot"
        <5>1. /\ coord = NoCoord /\ acc = <<>>
              /\ result # None => ~result.ok /\ tally.faults > 0
          BY <1>4, <4>2 DEF ResetInv, PhaseInv
        <5>2. result # None => tally'.faults > 0
          BY <1>4, <1>6, <1>8, <5>1 DEF TallyType
        <5>. QED  BY <1>1, <1>3, <1>5, <3>1, <4>2, <5>1, <5>2
                  DEF PhaseInv, DrainSteps
      <4>. QED  BY <1>3, <4>1, <4>2
    <3>3. JobInv'
      BY <1>1, <1>3, <1>5, <3>1 DEF ResetInv, JobInv, CleanSteps, Pending
    <3>4. ResultInv'
      BY <1>1, <1>3, <1>5, <3>1 DEF ResetInv, ResultInv, Pending
    <3>. QED  BY <3>2, <3>3, <3>4
  <2>2. CASE ~s.ok
    <3>1. Failed /\ tally'.faults > 0
      BY <1>2, <1>4, <1>6, <1>7, <1>8, <2>2 DEF TallyType
    <3>. QED  BY <1>1, <1>8, <1>9, <3>1, DrainFailedKeeps
  <2>. QED  BY <1>6, <2>1, <2>2
<1>15. AccInv'
  BY <1>1, <1>4, <1>8, <1>9 DEF ResetInv, AccInv, Distinct, Measured
<1>16. PendingInv'
  <2>1. CASE drain' = drain
    BY <1>1, <1>8, <2>1, TalliedMeasures, PendingKept DEF ResetInv, PendingInv
  <2>2. CASE drain' = n
    BY <1>5, <2>2 DEF PendingInv, Pending
  <2>. QED  BY <1>9, <2>1, <2>2
<1>17. HandedInv'
  <2>1. \A k \in DOMAIN drain.ids : \E r \in card.recs : r.id = drain.ids[k]
    BY DEF Missing, containsDataResetDrainRecord
  <2>2. \A h \in tally.handed : h.gen = cursor.gen => \E r \in card.recs : r.id = h.id
    BY <2>1 DEF ResetInv, HandedInv
  <2>. QED  BY <1>1, <1>8, <2>2 DEF HandedInv
<1>. QED  BY <1>11, <1>12, <1>13, <1>14, <1>15, <1>16, <1>17 DEF ResetInv

\* Appending a missing interval keeps the invariant: it is not there yet.
LEMMA DrainStoredKeeps ==
  ASSUME ResetInv, job.pc = "append", Missing # {}, DrainAppend
  PROVE  ResetInv'
<1>. DEFINE k == Min(Missing)
            x == [id |-> drain.ids[k], seq |-> card.next, gen |-> cursor.gen]
<1>1. /\ job.pc \in DrainSteps
      /\ UNCHANGED <<rec, plan, events, cursor>>
      /\ UNCHANGED <<phase, gate, coord, acc, queued, drain>>
  BY DEF DrainAppend, JobVars, DrainSteps
<1>2. /\ k \in Missing /\ k \in DOMAIN drain.ids /\ \A j \in Missing : k <= j
      /\ card.next = drain.first + k - 1
      /\ Missing \subseteq Nat /\ drain.first \in Nat /\ card.next \in Nat
  <2>. HIDE DEF Missing
  <2>. QED  BY FirstMissing
<1>3. PICK stored \in Checks :
        /\ Spend(Cost(stored))
        /\ IF stored /\ card.next = drain.first + k - 1
           THEN /\ card' = [card EXCEPT !.next = @ + 1, !.recs = @ \cup {x}]
                /\ UNCHANGED <<job, result>>
           ELSE Failed /\ UNCHANGED card
  BY DEF DrainAppend
<1>. HIDE DEF k, Missing
<1>4. /\ phase \in {"up", "boot"} /\ coord.want # "clean"
      /\ phase = "boot" => /\ drain # None /\ gate.op = drain.op
                           /\ gate.target = drain.target
  BY <1>1, DrainFacts
<1>5. /\ tally \in TallyType /\ card \in CardType /\ cursor \in CursorType
      /\ IsFiniteSet(card.recs) /\ cursor.gen \in Nat /\ tally.intervals \in Nat
      /\ drain # None /\ drain \in DrainType /\ drain.st = "Assigned"
      /\ Pending(drain)
  BY DEF ResetInv, TypeOK, JobInv, Pending, CursorType, TallyType
<1>6. /\ stored \in BOOLEAN /\ Cost(stored) \in Nat /\ Tallied
      /\ tally'.faults = tally.faults + Cost(stored)
      /\ tally'.intervals = tally.intervals /\ tally'.handed = tally.handed
      /\ tally' \in TallyType
  BY <1>3, <1>5, CostIsNatural, SpendTallies DEF Tallied
<1>7. CASE ~stored
  <2>1. Failed /\ UNCHANGED card
    BY <1>3, <1>7
  <2>2. tally'.faults > 0
    BY <1>5, <1>6, <1>7 DEF Cost, TallyType
  <2>3. job' \in JobType /\ result' \in AnswerType
    BY <2>1, FailedAnswer
  <2>. QED
    BY <1>1, <1>5, <1>6, <2>1, <2>2, <2>3, DrainFailedKeeps, BarrierKept
            DEF ResetInv
<1>8. CASE stored
  <2>1. /\ card' = [card EXCEPT !.next = @ + 1, !.recs = @ \cup {x}]
        /\ UNCHANGED <<job, result>>
    BY <1>2, <1>3, <1>8
  <2>2. /\ x \in StoredType /\ x.id = drain.ids[k] /\ x.seq = card.next
        /\ x.gen = cursor.gen /\ x.id \in Nat
    <3>1. drain.ids[k] \in Nat
      <4>1. drain \in DrainType /\ k \in DOMAIN drain.ids
        BY <1>2, <1>5
      <4>2. drain.ids \in Seq(Nat)
        BY ONLY <4>1 DEF DrainType
      <4>. QED  BY ONLY <4>1, <4>2
    <3>2. x = [id |-> drain.ids[k], seq |-> card.next, gen |-> cursor.gen]
      OBVIOUS
    <3>3. card.next \in Nat /\ cursor.gen \in Nat
      BY <1>2, <1>5
    <3>. QED  BY ONLY <3>1, <3>2, <3>3 DEF StoredType
  <2>. HIDE DEF x
  <2>3. /\ card'.recs = card.recs \cup {x} /\ card'.next = card.next + 1
        /\ card'.events = card.events /\ card' \in CardType
    BY <1>5, <2>1, <2>2, OneMoreRecord
  <2>4. IsFiniteSet(card'.recs)
    BY <1>5, <2>3, FS_AddElement
  <2>5. TypeOK'
    BY <1>1, <1>6, <2>1, <2>3, <2>4 DEF ResetInv, TypeOK
  <2>6. /\ drain.target = cursor.gen + 1 /\ Distinct(drain.ids) /\ Measured(drain.ids)
        /\ phase = "up" => gate.closed /\ (coord.prepare # None \/ ~Final(coord.rec))
        /\ \A r \in card.recs : \A j \in DOMAIN drain.ids :
             r.id = drain.ids[j] => r.seq = drain.first + j - 1
        /\ drain.first <= card.next
        /\ \A j \in Missing : card.next <= drain.first + j - 1
    BY <1>5 DEF ResetInv, PendingInv
  <2>7. /\ \A r \in card.recs : r.id <= tally.intervals /\ r.seq < card.next
        /\ \A r \in card.recs : r.id \in Nat /\ r.seq \in Nat /\ r.gen \in Nat
        /\ \A r, s \in card.recs : r.id = s.id => r = s
        /\ card.next > cursor.ack /\ card.next > cursor.boundary
        /\ cursor.ack \in Nat /\ cursor.boundary \in Nat
    BY <1>5 DEF ResetInv, CardInv, CardType, StoredType, CursorType
  <2>8. \A r \in card.recs : r.id # x.id
    BY <1>2, <2>2, <2>6, <2>7
  <2>9. x.id <= tally.intervals
    BY <1>2, <2>2, <2>6 DEF Measured
  <2>10. CardInv'
    <3>1. \A r \in card'.recs : r.id <= tally'.intervals /\ r.seq < card'.next
      BY <1>2, <1>6, <2>2, <2>3, <2>7, <2>9
    <3>2. \A r, s \in card'.recs : r.id = s.id => r = s
      BY <2>3, <2>7, <2>8
    <3>. QED  BY <1>1, <1>2, <2>3, <2>7, <3>1, <3>2 DEF CardInv
  <2>11. RecordsInv'
    <3>1. ASSUME NEW r \in RecordType, HeldNow(r), validStateCheckpoint(r.st, r.cp)
          PROVE  Held(r, cursor, card', plan, drain, tally.handed)
      <4>1. ~Pinned(r)
        BY <1>5, <3>1 DEF HeldNow, Held
      <4>2. ~Final(r) => r.cp = 0 /\ r.target = cursor.gen + 1
        <5>1. ~Final(r) => r.cp = 0
          BY <3>1, <4>1, Checkpoints DEF Pinned, validStateCheckpoint
        <5>. QED  BY <3>1, <5>1, Checkpoints DEF HeldNow, Held
      <4>3. r.boundary \in Nat
        BY DEF RecordType
      <4>. QED  BY <1>2, <1>5, <2>3, <3>1, <4>1, <4>2, <4>3, Checkpoints
                DEF HeldNow, Held
    <3>2. /\ rec # None => /\ rec \in RecordType /\ HeldNow(rec)
                           /\ validStateCheckpoint(rec.st, rec.cp)
          /\ coord.rec # None => /\ coord.rec \in RecordType /\ HeldNow(coord.rec)
                                 /\ validStateCheckpoint(coord.rec.st, coord.rec.cp)
      BY CoordFields DEF ResetInv, TypeOK, RecordsInv
    <3>. QED  BY <1>1, <1>6, <3>1, <3>2 DEF RecordsInv, HeldNow
  <2>12. RelationInv' /\ GateInv' /\ PlanInv' /\ EventInv'
    BY <1>1, <2>3
    DEF ResetInv, RelationInv, GateInv, PlanInv, EventInv, EventsPreserved
  <2>13. GenInv'
    BY <1>1, <1>2, <1>5, <1>6, <2>2, <2>3, <2>7 DEF ResetInv, GenInv
  <2>14. PhaseInv'
    <3>1. tally.faults > 0 => tally'.faults > 0
      BY <1>5, <1>6 DEF TallyType
    <3>. QED  BY <1>1, <1>4, <2>1, <3>1 DEF ResetInv, PhaseInv
  <2>15. JobInv' /\ ResultInv'
    BY <1>1, <1>4, <2>1 DEF ResetInv, JobInv, ResultInv, CleanSteps
  <2>16. AccInv'
    BY <1>1, <1>5, <1>6 DEF ResetInv, AccInv, Distinct, Measured
  <2>17. HandedInv'
    BY <1>1, <1>6, <2>3 DEF ResetInv, HandedInv
  <2>18. PendingInv'
    <3>1. \A r \in card'.recs : \A j \in DOMAIN drain.ids :
            r.id = drain.ids[j] => r.seq = drain.first + j - 1
      BY <1>2, <2>2, <2>3, <2>6 DEF Distinct
    <3>2. \A j \in Missing' : j \in Missing /\ j # k
      BY <1>1, <1>2, <2>2, <2>3 DEF Missing, containsDataResetDrainRecord
    <3>3. \A j \in Missing' : card'.next <= drain.first + j - 1
      BY <1>2, <2>3, <3>2
    <3>4. drain.first <= card'.next
      BY <1>2, <2>3, <2>6
    <3>. QED  BY <1>1, <1>5, <1>6, <2>6, <3>1, <3>3, <3>4
              DEF PendingInv, Distinct, Measured
  <2>. QED
    BY <2>5, <2>10, <2>11, <2>12, <2>13, <2>14, <2>15, <2>16, <2>17, <2>18
            DEF ResetInv
<1>. QED  BY <1>6, <1>7, <1>8

\* DrainAppend keeps the invariant.
LEMMA DrainAppendStep == ASSUME ResetInv, DrainAppend PROVE ResetInv'
<1>1. job.pc = "append"
  BY DEF DrainAppend
<1>. QED  BY <1>1, DrainCompletedKeeps, DrainStoredKeeps

\* DrainScrub keeps the invariant: it answers for a journal that is completed.
LEMMA DrainScrubStep == ASSUME ResetInv, DrainScrub PROVE ResetInv'
<1>1. /\ job.pc = "scrub" /\ job.pc \in DrainSteps
      /\ UNCHANGED <<rec, drain, plan, events, cursor, card>>
      /\ UNCHANGED <<phase, gate, coord, acc, queued>>
  BY DEF DrainScrub, JobVars, DrainSteps
<1>2. PICK scrubbed \in Checks :
        /\ Spend(Cost(scrubbed))
        /\ IF scrubbed
           THEN Answer(TRUE, Len(drain.ids), drain.first + Len(drain.ids) - 1,
                       drain.offset)
           ELSE Failed
  BY DEF DrainScrub
<1>3. /\ phase \in {"up", "boot"} /\ coord.want # "clean"
      /\ phase = "boot" => /\ drain # None /\ gate.op = drain.op
                           /\ gate.target = drain.target
  BY <1>1, DrainFacts
<1>4. /\ tally \in TallyType /\ drain # None /\ drain \in DrainType
      /\ Len(drain.ids) \in 1..2
  BY <1>1 DEF ResetInv, TypeOK, JobInv
<1>5. /\ scrubbed \in BOOLEAN /\ Cost(scrubbed) \in Nat /\ Tallied
      /\ tally'.faults = tally.faults + Cost(scrubbed)
  BY <1>2, <1>4, CostIsNatural, SpendTallies
<1>6. CASE ~scrubbed
  <2>1. Failed
    BY <1>2, <1>6
  <2>2. tally'.faults > 0
    BY <1>4, <1>5, <1>6 DEF Cost, TallyType
  <2>3. job' \in JobType /\ result' \in AnswerType
    BY <2>1, FailedAnswer
  <2>. QED
    BY <1>1, <1>4, <1>5, <2>1, <2>2, <2>3, DrainFailedKeeps, BarrierKept
            DEF ResetInv
<1>7. CASE scrubbed
  <2>1. /\ Len(drain.ids) \in Nat /\ drain.first + Len(drain.ids) - 1 \in Nat
        /\ drain.offset \in Nat /\ Len(drain.ids) <= 2
    <3>1. \A l \in 1..2 : \A f \in Nat : l \in Nat /\ f + l - 1 \in Nat /\ l <= 2
      OBVIOUS
    <3>2. drain.first \in Nat /\ drain.offset \in Nat
      BY <1>4 DEF DrainType
    <3>. QED  BY ONLY <1>4, <3>1, <3>2
  <2>2. /\ job' \in JobType /\ job'.pc = "idle" /\ result' \in AnswerType
        /\ result' # None /\ result'.ok = TRUE /\ result'.added = Len(drain.ids)
    BY <1>2, <1>7, <2>1, Answered
  <2>3. coord.want = "drain" \/ phase = "boot" => ~Pending(drain)
    BY <1>1 DEF ResetInv, JobInv
  <2>4. PhaseInv'
    <3>1. CASE phase = "up"
      BY <1>1, <3>1 DEF PhaseInv
    <3>2. CASE phase = "boot"
      BY <1>1, <1>4, <2>2, <2>3, <3>2 DEF ResetInv, PhaseInv, DrainSteps,
         Pending
    <3>. QED  BY <1>3, <3>1, <3>2
  <2>5. JobInv' /\ ResultInv'
    BY <1>1, <1>3, <2>1, <2>2, <2>3
    DEF ResetInv, JobInv, ResultInv, CleanSteps, Pending
  <2>. QED  BY <1>1, <1>5, <2>2, <2>4, <2>5, BarrierKept DEF ResetInv
<1>. QED  BY <1>5, <1>6, <1>7

-----------------------------------------------------------------------------
(* StorageTask: the cleanup                                                *)

\* What holds while a cleanup is at work.
LEMMA CleanFacts ==
  ASSUME ResetInv, job.pc \in CleanSteps
  PROVE  /\ phase = "up" /\ coord.want = "clean" /\ coord.rec # None
         /\ coord.rec.cp = 3 /\ job.op = coord.rec.op /\ rec.op = coord.rec.op
         /\ coord.rec \in RecordType /\ rec \in RecordType /\ rec # None
         /\ GoodNow(coord.rec) /\ GoodNow(rec) /\ Related(coord.rec, rec)
         /\ acc = <<>> /\ gate.closed /\ ~Pending(drain)
         /\ \A h \in tally.handed : h.gen < cursor.gen
         /\ tally \in TallyType /\ card \in CardType /\ job.op \in Ops
         /\ coord.rec.target \in Nat
<1>1. /\ coord.rec # None /\ coord.rec.st = "Committing" /\ coord.rec.cp = 3
      /\ phase = "up" /\ ~terminalState(coord.rec) /\ coord.want = "clean"
  BY CleanAtCleanup
<1>2. job.op = coord.rec.op
  BY DEF ResetInv, JobInv
<1>3. /\ GoodNow(coord.rec) /\ GoodNow(rec) /\ Related(coord.rec, rec)
      /\ acc = <<>> /\ gate.closed
  BY <1>1, ActiveFacts
<1>4. coord.rec \in RecordType /\ rec \in RecordType /\ rec # None
  BY <1>3, RecordIsSome DEF GoodNow, Good
<1>5. ~Pending(drain) /\ coord.rec.target = cursor.gen
  BY <1>1, <1>3, Checkpoints DEF GoodNow, Good, Held, Pinned, Final
<1>6. \A h \in tally.handed : h.gen < cursor.gen
  BY <1>1, <1>3, <1>5 DEF GoodNow, Good, Held, Final
<1>7. coord.rec.op \in Ops /\ coord.rec.target \in Nat
  BY <1>4 DEF RecordType
<1>. QED
  BY <1>1, <1>2, <1>3, <1>4, <1>5, <1>6, <1>7 DEF ResetInv, TypeOK, Related

\* A step of the cleanup keeps all that is not about the barrier or the events.
LEMMA CleanKept ==
  ASSUME ResetInv, job.pc \in CleanSteps, Tallied,
         UNCHANGED <<rec, drain, cursor, phase, gate, coord, acc>>,
         card' \in CardType, card'.recs \subseteq card.recs, card'.next = card.next,
         events' \in EventType \cup {None}, plan' \in PlanType \cup {None},
         queued' \in 0..MaxEvent, job' \in JobType, result' \in AnswerType \cup {None},
         plan' = plan \/ (plan' # None /\ plan'.op = coord.rec.op),
         \A r : r.op = coord.rec.op /\ Counted(r, card, plan) => Counted(r, card', plan')
  PROVE  /\ TypeOK' /\ RecordsInv' /\ RelationInv' /\ PhaseInv' /\ GateInv'
         /\ PlanInv' /\ CardInv' /\ GenInv' /\ AccInv' /\ PendingInv' /\ HandedInv'
<1>1. /\ phase = "up" /\ coord.rec # None /\ coord.rec.cp = 3
      /\ rec.op = coord.rec.op /\ rec # None
      /\ coord.rec \in RecordType /\ rec \in RecordType
      /\ GoodNow(coord.rec) /\ GoodNow(rec) /\ Related(coord.rec, rec)
      /\ acc = <<>> /\ ~Pending(drain)
      /\ \A h \in tally.handed : h.gen < cursor.gen
  BY CleanFacts
<1>2. /\ tally' \in TallyType /\ tally'.intervals = tally.intervals
      /\ tally'.handed = tally.handed
  BY DEF Tallied
<1>3. TypeOK'
  <2>1. IsFiniteSet(card'.recs)
    BY FS_Subset DEF ResetInv, TypeOK
  <2>. QED  BY <1>2, <2>1 DEF ResetInv, TypeOK
<1>4. RecordsInv'
  <2>1. \A r : r.op = coord.rec.op /\ HeldNow(r) =>
          Held(r, cursor, card', plan', drain, tally.handed)
    <3>1. SUFFICES ASSUME NEW r, r.op = coord.rec.op, HeldNow(r)
                   PROVE  Held(r, cursor, card', plan', drain, tally.handed)
      OBVIOUS
    <3>2. Counted(r, card, plan) => Counted(r, card', plan')
      BY <3>1
    <3>. QED  BY <3>1, <3>2 DEF HeldNow, Held
  <2>. QED  BY <1>1, <1>2, <2>1 DEF RecordsInv, HeldNow, GoodNow, Good
<1>5. RelationInv' /\ PhaseInv'
  BY <1>1 DEF ResetInv, RelationInv, PhaseInv
<1>6. GateInv'
  BY <1>1 DEF ResetInv, GateInv
<1>7. PlanInv'
  <2>1. rec.cp >= 3
    BY <1>1 DEF Related
  <2>2. rec.op \in Nat
    <3>1. Ops \subseteq Nat
      BY ResetAssumption DEF Ops
    <3>. QED  BY <1>1, <3>1 DEF RecordType
  <2>. QED  BY <1>1, <2>1, <2>2, Checkpoints DEF ResetInv, PlanInv
<1>8. CardInv' /\ GenInv'
  BY <1>2 DEF ResetInv, CardInv, GenInv
<1>9. AccInv' /\ PendingInv'
  BY <1>1 DEF AccInv, PendingInv
<1>10. HandedInv'
  <2>1. \A h \in tally.handed : h.gen \in Nat /\ cursor.gen \in Nat
    BY DEF ResetInv, TypeOK, TallyType, CursorType
  <2>. QED  BY <1>1, <1>2, <2>1 DEF HandedInv
<1>. QED  BY <1>3, <1>4, <1>5, <1>6, <1>7, <1>8, <1>9, <1>10

\* A barrier that ends or goes on, with what it answers.
CleanMoved ==
  \/ job'.pc \in CleanSteps /\ job'.op = job.op /\ UNCHANGED result
  \/ /\ job'.pc = "idle" /\ result' # None
     /\ result'.ok \/ result'.added # 0 =>
          plan' # None /\ plan'.op = job.op /\ result'.added = plan'.files
     /\ result'.ok => card'.recs = {}

\* The cleanup is still the one that is waited for, and its answer is true.
LEMMA CleanMovedKeeps ==
  ASSUME ResetInv, job.pc \in CleanSteps, CleanMoved, UNCHANGED <<coord, phase>>,
         card'.recs \subseteq card.recs,
         Planned(plan, coord.rec) =>
           Planned(plan', coord.rec) /\ plan'.files = plan.files,
         job'.pc \in {"plan", "delete", "flush"} => events' # None,
         job'.pc \in {"delete", "flush"} => plan' # None /\ plan'.op = job.op,
         job'.pc = "flush" => card'.recs = {}
  PROVE  JobInv' /\ ResultInv'
<1>1. /\ phase = "up" /\ coord.want = "clean" /\ coord.rec # None
      /\ coord.rec.cp = 3 /\ job.op = coord.rec.op
      /\ coord.rec.st = "Committing"
  BY CleanFacts, CleanAtCleanup
<1>2. job'.pc \in CleanSteps \cup {"idle"} /\ (job'.pc \in CleanSteps => job'.op = job.op)
  BY DEF CleanMoved, CleanSteps
<1>3. JobInv'
  BY <1>1, <1>2, Checkpoints DEF JobInv, CleanSteps
<1>4. ResultInv'
  <2>1. CASE UNCHANGED result
    BY <1>1, <2>1 DEF ResetInv, ResultInv
  <2>2. CASE /\ result'.ok \/ result'.added # 0 =>
                  plan' # None /\ plan'.op = job.op /\ result'.added = plan'.files
             /\ result'.ok => card'.recs = {}
    BY <1>1, <2>2 DEF ResultInv, Planned
  <2>. QED  BY <2>1, <2>2 DEF CleanMoved
<1>. QED  BY <1>3, <1>4

\* CleanEvents keeps the invariant: a journal begins with its event owed.
LEMMA CleanEventsStep == ASSUME ResetInv, CleanEvents PROVE ResetInv'
<1>. DEFINE n == [op |-> job.op, target |-> coord.rec.target, st |-> "Staged",
                  event |-> queued]
<1>1. /\ job.pc = "events" /\ job.pc \in CleanSteps
      /\ UNCHANGED <<rec, drain, plan, cursor, card, phase, gate, coord, acc,
                     queued>>
  BY DEF CleanEvents, CleanSteps
<1>2. /\ tally \in TallyType /\ card \in CardType /\ job.op \in Ops
      /\ coord.rec.target \in Nat /\ queued \in 0..MaxEvent
      /\ plan \in PlanType \cup {None} /\ events \in EventType \cup {None}
      /\ result \in AnswerType \cup {None}
  BY <1>1, CleanFacts DEF ResetInv, TypeOK
<1>3. n \in EventType /\ n # None /\ n.st = "Staged"
  <2>1. n \in EventType /\ n.st = "Staged"
    BY <1>2 DEF EventType
  <2>. QED  BY <2>1, NoneAssumption
<1>. HIDE DEF n
<1>4. /\ Tallied
      /\ \/ job' = [job EXCEPT !.pc = "plan"] /\ UNCHANGED result /\ events' # None
         \/ Failed
      /\ events' = events \/ events' = n
  <2>1. CASE /\ job' = [job EXCEPT !.pc = "plan"] /\ UNCHANGED <<events, result, tally>>
             /\ events # None
    BY <1>2, <2>1, SameTally
  <2>2. CASE Failed /\ UNCHANGED <<events, tally>>
    BY <1>2, <2>2, SameTally
  <2>3. CASE \E s \in SavedEvents(n) :
               /\ events' = s.nvs /\ Spend(s.cost)
               /\ IF s.ok THEN job' = [job EXCEPT !.pc = "plan"] /\ UNCHANGED result
                          ELSE Failed
    <3>1. PICK s \in SavedEvents(n) :
               /\ events' = s.nvs /\ Spend(s.cost)
               /\ IF s.ok THEN job' = [job EXCEPT !.pc = "plan"] /\ UNCHANGED result
                          ELSE Failed
      BY <2>3
    <3>2. /\ s.ok \in BOOLEAN /\ s.cost \in Nat
          /\ s.nvs = events \/ s.nvs = n
          /\ s.ok => s.nvs = n
      BY <3>1, SavedEventsOutcome
    <3>3. Tallied
      BY <1>2, <3>1, <3>2, SpendTallies
    <3>. QED  BY <1>3, <3>1, <3>2, <3>3
  <2>. QED  BY <2>1, <2>2, <2>3 DEF CleanEvents, n
<1>5. /\ job' \in JobType /\ result' \in AnswerType \cup {None} /\ CleanMoved
      /\ (job'.pc = "plan" /\ events' # None) \/ job'.pc = "idle"
  <2>1. CASE job' = [job EXCEPT !.pc = "plan"] /\ UNCHANGED result /\ events' # None
    <3>1. job' \in JobType /\ job'.pc = "plan" /\ job'.op = job.op
      BY <2>1, NextPart
    <3>. QED  BY <1>2, <2>1, <3>1 DEF CleanMoved, CleanSteps
  <2>2. CASE Failed
    BY <2>2, FailedAnswer DEF CleanMoved
  <2>. QED  BY <1>4, <2>1, <2>2
<1>6. JobInv' /\ ResultInv'
  BY <1>1, <1>5, CleanMovedKeeps
<1>7. EventInv'
  BY <1>1, <1>3, <1>4 DEF ResetInv, EventInv, EventsPreserved
<1>8. /\ TypeOK' /\ RecordsInv' /\ RelationInv' /\ PhaseInv' /\ GateInv'
      /\ PlanInv' /\ CardInv' /\ GenInv' /\ AccInv' /\ PendingInv' /\ HandedInv'
  <2>1. /\ card' \in CardType /\ card'.recs \subseteq card.recs
        /\ card'.next = card.next /\ plan' \in PlanType \cup {None}
        /\ events' \in EventType \cup {None} /\ queued' \in 0..MaxEvent
        /\ \A r : Counted(r, card, plan) => Counted(r, card', plan')
    BY <1>1, <1>2, <1>3, <1>4
  <2>. QED  BY <1>1, <1>4, <1>5, <2>1, CleanKept
<1>. QED  BY <1>6, <1>7, <1>8 DEF ResetInv

\* CleanPlan keeps the invariant: what is planned is what was counted.
LEMMA CleanPlanStep == ASSUME ResetInv, CleanPlan PROVE ResetInv'
<1>. DEFINE n == [op |-> job.op, target |-> coord.rec.target, st |-> "Planned",
                  files |-> Cardinality(card.recs)]
            mine == plan # None /\ plan.op = job.op
<1>1. /\ job.pc = "plan" /\ job.pc \in CleanSteps
      /\ UNCHANGED <<rec, drain, events, cursor, card, phase, gate, coord, acc,
                     queued>>
  BY DEF CleanPlan, CleanSteps
<1>2. /\ tally \in TallyType /\ card \in CardType /\ job.op \in Ops
      /\ coord.rec.target \in Nat /\ queued \in 0..MaxEvent
      /\ plan \in PlanType \cup {None} /\ events \in EventType \cup {None}
      /\ result \in AnswerType \cup {None} /\ events # None
      /\ job.op = coord.rec.op /\ Cardinality(card.recs) \in Nat
  BY <1>1, CleanFacts, FS_CardinalityType DEF ResetInv, TypeOK, JobInv
<1>3. /\ n \in PlanType /\ n # None /\ n.op = job.op
      /\ n.files = Cardinality(card.recs)
  <2>1. /\ n \in PlanType /\ n.op = job.op /\ n.files = Cardinality(card.recs)
    BY <1>2 DEF PlanType
  <2>. QED  BY <2>1, NoneAssumption
<1>. HIDE DEF n
<1>4. /\ Tallied
      /\ \/ /\ job' = [job EXCEPT !.pc = "delete"] /\ UNCHANGED result
            /\ plan' # None /\ plan'.op = job.op
         \/ Failed
      /\ plan' = plan \/ (plan' = n /\ ~mine)
  <2>1. CASE /\ mine /\ UNCHANGED <<plan, tally>>
             /\ Failed \/ (job' = [job EXCEPT !.pc = "delete"] /\ UNCHANGED result)
    BY <1>2, <2>1, SameTally
  <2>2. CASE Failed /\ UNCHANGED <<plan, tally>>
    BY <1>2, <2>2, SameTally
  <2>3. CASE /\ ~mine
             /\ \E s \in SavedPlan(n) :
                  /\ plan' = s.nvs /\ Spend(s.cost)
                  /\ IF s.ok THEN job' = [job EXCEPT !.pc = "delete"] /\ UNCHANGED result
                             ELSE Failed
    <3>1. PICK s \in SavedPlan(n) :
               /\ plan' = s.nvs /\ Spend(s.cost)
               /\ IF s.ok THEN job' = [job EXCEPT !.pc = "delete"] /\ UNCHANGED result
                          ELSE Failed
      BY <2>3
    <3>2. /\ s.ok \in BOOLEAN /\ s.cost \in Nat
          /\ s.nvs = plan \/ s.nvs = n
          /\ s.ok => s.nvs = n
      BY <3>1, SavedPlanOutcome
    <3>3. Tallied
      BY <1>2, <3>1, <3>2, SpendTallies
    <3>. QED  BY <1>3, <2>3, <3>1, <3>2, <3>3
  <2>. QED  BY <2>1, <2>2, <2>3 DEF CleanPlan, n
<1>5. /\ job' \in JobType /\ result' \in AnswerType \cup {None} /\ CleanMoved
      /\ (job'.pc = "delete" /\ plan' # None /\ plan'.op = job.op) \/ job'.pc = "idle"
  <2>1. CASE /\ job' = [job EXCEPT !.pc = "delete"] /\ UNCHANGED result
             /\ plan' # None /\ plan'.op = job.op
    <3>1. job' \in JobType /\ job'.pc = "delete" /\ job'.op = job.op
      BY <2>1, NextPart
    <3>. QED  BY <1>2, <2>1, <3>1 DEF CleanMoved, CleanSteps
  <2>2. CASE Failed
    BY <2>2, FailedAnswer DEF CleanMoved
  <2>. QED  BY <1>4, <2>1, <2>2
<1>6. /\ Planned(plan, coord.rec) => plan' = plan
      /\ plan' = plan \/ (plan' # None /\ plan'.op = coord.rec.op)
  BY <1>2, <1>3, <1>4 DEF Planned
<1>7. JobInv' /\ ResultInv'
  BY <1>1, <1>2, <1>5, <1>6, CleanMovedKeeps
<1>8. EventInv'
  BY <1>1 DEF ResetInv, EventInv, EventsPreserved
<1>9. /\ TypeOK' /\ RecordsInv' /\ RelationInv' /\ PhaseInv' /\ GateInv'
      /\ PlanInv' /\ CardInv' /\ GenInv' /\ AccInv' /\ PendingInv' /\ HandedInv'
  <2>1. /\ card' \in CardType /\ card'.recs \subseteq card.recs
        /\ card'.next = card.next /\ plan' \in PlanType \cup {None}
        /\ events' \in EventType \cup {None} /\ queued' \in 0..MaxEvent
    BY <1>1, <1>2, <1>3, <1>4
  <2>2. \A r : r.op = coord.rec.op /\ Counted(r, card, plan) => Counted(r, card', plan')
    BY <1>1, <1>2, <1>3, <1>4 DEF Counted, Planned
  <2>. QED  BY <1>1, <1>4, <1>5, <1>6, <2>1, <2>2, CleanKept
<1>. QED  BY <1>7, <1>8, <1>9 DEF ResetInv

\* A failed barrier that knows the plan.
LEMMA FailedCountedAnswer ==
  ASSUME FailedCounted, plan \in PlanType
  PROVE  /\ job' \in JobType /\ job'.pc = "idle"
         /\ result' \in AnswerType /\ result' # None
         /\ ~result'.ok /\ result'.added = plan.files
<1>1. plan.files \in Nat
  BY DEF PlanType
<1>. QED  BY <1>1, Answered DEF FailedCounted

\* The files that are left were counted before.
LEMMA CountedByPlan ==
  ASSUME NEW r, NEW ca, NEW p, Planned(p, r), NEW ca2, NEW p2, Planned(p2, r),
         p2.files = p.files, Counted(r, ca, p)
  PROVE  Counted(r, ca2, p2)
  BY DEF Counted

\* CleanDelete keeps the invariant: only an empty card completes the plan.
LEMMA CleanDeleteStep == ASSUME ResetInv, CleanDelete PROVE ResetInv'
<1>. DEFINE n == [plan EXCEPT !.st = "Completed"]
<1>1. /\ job.pc = "delete" /\ job.pc \in CleanSteps
      /\ UNCHANGED <<rec, drain, events, cursor, phase, gate, coord, acc, queued>>
  BY DEF CleanDelete, CleanSteps
<1>2. /\ tally \in TallyType /\ card \in CardType
      /\ queued \in 0..MaxEvent /\ events \in EventType \cup {None}
      /\ result \in AnswerType \cup {None} /\ events # None
      /\ plan # None /\ plan \in PlanType /\ plan.op = job.op
      /\ job.op = coord.rec.op /\ job \in JobType
  BY <1>1, CleanFacts DEF ResetInv, TypeOK, JobInv
<1>3. n \in PlanType /\ n # None /\ n.op = plan.op /\ n.files = plan.files
  <2>1. n \in PlanType /\ n.op = plan.op /\ n.files = plan.files
    BY <1>2 DEF PlanType
  <2>. QED  BY <2>1, NoneAssumption
<1>. HIDE DEF n
<1>4. /\ Tallied /\ (plan' = plan \/ plan' = n)
      /\ \/ card' = card
         \/ \E r \in card.recs : card' = [card EXCEPT !.recs = @ \ {r}]
      /\ \/ UNCHANGED <<job, result>>
         \/ /\ job' = [job EXCEPT !.pc = "flush"] /\ UNCHANGED result
            /\ card.recs = {} /\ card' = card
         \/ FailedCounted
  <2>1. CASE card.recs # {}
    <3>1. PICK deleted \in Checks :
            /\ Spend(Cost(deleted)) /\ UNCHANGED plan
            /\ IF deleted
               THEN /\ \E r \in card.recs : card' = [card EXCEPT !.recs = @ \ {r}]
                    /\ UNCHANGED <<job, result>>
               ELSE FailedCounted /\ UNCHANGED card
      BY <2>1 DEF CleanDelete, Undeleted
    <3>2. Tallied
      BY <1>2, <3>1, CostIsNatural, SpendTallies
    <3>. QED  BY <3>1, <3>2
  <2>2. CASE card.recs = {}
    <3>1. PICK s \in SavedPlan(n) :
            /\ plan' = s.nvs /\ Spend(s.cost) /\ UNCHANGED card
            /\ IF s.ok THEN job' = [job EXCEPT !.pc = "flush"] /\ UNCHANGED result
                       ELSE FailedCounted
      BY <2>2 DEF CleanDelete, Undeleted, n
    <3>2. s.cost \in Nat /\ (s.nvs = plan \/ s.nvs = n)
      BY <3>1, SavedPlanOutcome
    <3>3. Tallied
      BY <1>2, <3>1, <3>2, SpendTallies
    <3>. QED  BY <2>2, <3>1, <3>2, <3>3
  <2>. QED  BY <2>1, <2>2
<1>5. /\ card' \in CardType /\ card'.recs \subseteq card.recs
      /\ card'.next = card.next /\ card'.events = card.events
  <2>1. CASE card' = card
    BY <1>2, <2>1
  <2>2. CASE \E r \in card.recs : card' = [card EXCEPT !.recs = @ \ {r}]
    BY <1>2, <2>2 DEF CardType
  <2>. QED  BY <1>4, <2>1, <2>2
<1>6. /\ plan' # None /\ plan' \in PlanType /\ plan'.op = job.op
      /\ plan'.files = plan.files
  BY <1>2, <1>3, <1>4
<1>7. /\ job' \in JobType /\ result' \in AnswerType \cup {None} /\ CleanMoved
      /\ job'.pc = "flush" => card'.recs = {}
  <2>1. CASE UNCHANGED <<job, result>>
    BY <1>1, <1>2, <2>1 DEF CleanMoved
  <2>2. CASE /\ job' = [job EXCEPT !.pc = "flush"] /\ UNCHANGED result
             /\ card.recs = {} /\ card' = card
    <3>1. job' \in JobType /\ job'.pc = "flush" /\ job'.op = job.op
      BY <2>2, NextPart
    <3>. QED  BY <1>2, <2>2, <3>1 DEF CleanMoved, CleanSteps
  <2>3. CASE FailedCounted
    BY <1>2, <1>6, <2>3, FailedCountedAnswer DEF CleanMoved
  <2>. QED  BY <1>4, <2>1, <2>2, <2>3
<1>8. Planned(plan, coord.rec) /\ Planned(plan', coord.rec)
  BY <1>2, <1>6 DEF Planned
<1>9. JobInv' /\ ResultInv'
  BY <1>1, <1>2, <1>5, <1>6, <1>7, <1>8, CleanMovedKeeps
<1>10. EventInv'
  BY <1>1, <1>5 DEF ResetInv, EventInv, EventsPreserved
<1>11. /\ TypeOK' /\ RecordsInv' /\ RelationInv' /\ PhaseInv' /\ GateInv'
       /\ PlanInv' /\ CardInv' /\ GenInv' /\ AccInv' /\ PendingInv' /\ HandedInv'
  <2>1. \A r : r.op = coord.rec.op /\ Counted(r, card, plan) => Counted(r, card', plan')
    BY <1>6, <1>8, CountedByPlan DEF Planned
  <2>2. /\ events' \in EventType \cup {None} /\ queued' \in 0..MaxEvent
        /\ plan' \in PlanType \cup {None}
        /\ plan' # None /\ plan'.op = coord.rec.op
    BY <1>1, <1>2, <1>6
  <2>. QED  BY <1>1, <1>4, <1>5, <1>7, <2>1, <2>2, CleanKept
<1>. QED  BY <1>9, <1>10, <1>11 DEF ResetInv

\* CleanFlush keeps the invariant: the journal is completed with its event.
LEMMA CleanFlushStep == ASSUME ResetInv, CleanFlush PROVE ResetInv'
<1>. DEFINE e == events.event
            n == [events EXCEPT !.st = "Completed"]
<1>1. /\ job.pc = "flush" /\ job.pc \in CleanSteps
      /\ UNCHANGED <<rec, drain, plan, cursor, phase, gate, coord, acc>>
  BY DEF CleanFlush, CleanSteps
<1>2. /\ tally \in TallyType /\ card \in CardType /\ card.recs = {}
      /\ queued \in 0..MaxEvent /\ events \in EventType
      /\ result \in AnswerType \cup {None} /\ events # None
      /\ plan # None /\ plan \in PlanType /\ plan.op = job.op
      /\ job.op = coord.rec.op /\ job \in JobType /\ plan.files \in Nat
  <2>1. /\ tally \in TallyType /\ card \in CardType /\ card.recs = {}
        /\ queued \in 0..MaxEvent /\ events \in EventType
        /\ result \in AnswerType \cup {None} /\ events # None
        /\ plan # None /\ plan \in PlanType /\ plan.op = job.op
        /\ job.op = coord.rec.op /\ job \in JobType
    BY <1>1, CleanFacts DEF ResetInv, TypeOK, JobInv
  <2>. QED  BY <2>1 DEF PlanType
<1>3. /\ n \in EventType /\ n # None /\ n.st = "Completed" /\ n.event = e
      /\ e \in 0..MaxEvent /\ events.st \in {"Staged", "Completed"}
  <2>1. /\ n \in EventType /\ n.st = "Completed" /\ n.event = e
        /\ e \in 0..MaxEvent /\ events.st \in {"Staged", "Completed"}
    BY <1>2 DEF EventType
  <2>. QED  BY <2>1, NoneAssumption
<1>. HIDE DEF n
<1>4. /\ Tallied /\ queued' \in 0..MaxEvent
      /\ events' = events \/ (events' = n /\ card' = card /\ ~owed(0))
      /\ card' = card \/ (owed(0) /\ card' = [card EXCEPT !.events[e] = @ + 1])
      /\ \/ UNCHANGED <<job, result>>
         \/ Answer(TRUE, plan.files, 0, 0)
         \/ FailedCounted
  <2>1. CASE owed(2)
    <3>1. FailedCounted /\ UNCHANGED <<events, queued, card, tally>>
      BY <2>1 DEF CleanFlush
    <3>. QED  BY <1>2, <3>1, SameTally
  <2>2. CASE ~owed(2) /\ owed(0)
    <3>1. PICK stored \in Checks :
            /\ Spend(Cost(stored)) /\ UNCHANGED <<events, queued>>
            /\ IF stored
               THEN /\ card' = [card EXCEPT !.events[e] = @ + 1]
                    /\ UNCHANGED <<job, result>>
               ELSE FailedCounted /\ UNCHANGED card
      BY <2>2 DEF CleanFlush
    <3>2. Tallied
      BY <1>2, <3>1, CostIsNatural, SpendTallies
    <3>. QED  BY <1>2, <2>2, <3>1, <3>2
  <2>3. CASE ~owed(2) /\ ~owed(0)
    <3>1. PICK s \in SavedEvents(n) :
            /\ events' = s.nvs /\ Spend(s.cost) /\ UNCHANGED card
            /\ IF s.ok THEN Answer(TRUE, plan.files, 0, 0) ELSE FailedCounted
            /\ queued' = IF s.ok /\ queued = e THEN 0 ELSE queued
      BY <2>3 DEF CleanFlush, n
    <3>2. s.cost \in Nat /\ (s.nvs = events \/ s.nvs = n)
      BY <3>1, SavedEventsOutcome
    <3>3. Tallied
      BY <1>2, <3>1, <3>2, SpendTallies
    <3>4. 0 \in 0..MaxEvent
      BY ResetAssumption
    <3>. QED  BY <1>2, <2>3, <3>1, <3>2, <3>3, <3>4
  <2>. QED  BY <2>1, <2>2, <2>3
<1>5. /\ card' \in CardType /\ card'.recs = card.recs /\ card'.next = card.next
      /\ card' = card \/ card'.events[e] > 0
  <2>1. CASE card' = card
    BY <1>2, <2>1
  <2>2. CASE owed(0) /\ card' = [card EXCEPT !.events[e] = @ + 1]
    <3>1. e \in 1..MaxEvent
      BY <1>3, <2>2, ResetAssumption DEF owed
    <3>. QED  BY <1>2, <2>2, <3>1, OneMoreEvent
  <2>. QED  BY <1>4, <2>1, <2>2
<1>6. /\ job' \in JobType /\ result' \in AnswerType \cup {None} /\ CleanMoved
      /\ job'.pc \in {"flush", "idle"}
  <2>1. CASE UNCHANGED <<job, result>>
    BY <1>1, <1>2, <2>1 DEF CleanMoved
  <2>2. CASE Answer(TRUE, plan.files, 0, 0)
    <3>1. /\ job' \in JobType /\ job'.pc = "idle"
          /\ result' \in AnswerType /\ result' # None
          /\ result'.ok = TRUE /\ result'.added = plan.files
      BY <1>2, <2>2, Answered
    <3>. QED  BY <1>1, <1>2, <1>5, <3>1 DEF CleanMoved
  <2>3. CASE FailedCounted
    BY <1>1, <1>2, <2>3, FailedCountedAnswer DEF CleanMoved
  <2>. QED  BY <1>4, <2>1, <2>2, <2>3
<1>7. JobInv' /\ ResultInv'
  <2>1. events' # None
    BY <1>2, <1>3, <1>4
  <2>. QED  BY <1>1, <1>2, <1>5, <1>6, <2>1, CleanMovedKeeps
<1>8. EventInv'
  <2>1. EventsPreserved
    BY DEF ResetInv, EventInv
  <2>2. CASE events' = events
    BY <1>5, <2>1, <2>2 DEF EventInv, EventsPreserved
  <2>3. CASE events' = n /\ card' = card /\ ~owed(0)
    <3>1. SUFFICES ASSUME e # 0 PROVE card.events[e] > 0
      BY <1>3, <2>3 DEF EventInv, EventsPreserved
    <3>2. CASE events.st = "Completed"
      BY <1>2, <2>1, <3>1, <3>2 DEF EventsPreserved
    <3>3. CASE events.st = "Staged"
      <4>1. card.events[e] # 0
        BY <2>3, <3>1, <3>3 DEF owed
      <4>2. e \in 1..MaxEvent /\ card.events \in [1..MaxEvent -> Nat]
        BY <1>2, <1>3, <3>1, ResetAssumption DEF CardType
      <4>3. card.events[e] \in Nat
        BY <4>2
      <4>. QED  BY <4>1, <4>3
    <3>. QED  BY <1>3, <3>2, <3>3
  <2>. QED  BY <1>4, <2>2, <2>3
<1>9. /\ TypeOK' /\ RecordsInv' /\ RelationInv' /\ PhaseInv' /\ GateInv'
      /\ PlanInv' /\ CardInv' /\ GenInv' /\ AccInv' /\ PendingInv' /\ HandedInv'
  <2>1. \A r : Counted(r, card, plan) => Counted(r, card', plan')
    BY <1>1, <1>5 DEF Counted
  <2>2. /\ events' \in EventType \cup {None} /\ plan' \in PlanType \cup {None}
        /\ card'.recs \subseteq card.recs
    BY <1>1, <1>2, <1>3, <1>4, <1>5
  <2>. QED  BY <1>1, <1>4, <1>5, <1>6, <2>1, <2>2, CleanKept
<1>. QED  BY <1>7, <1>8, <1>9 DEF ResetInv

-----------------------------------------------------------------------------
(* Power loss and boot                                                     *)

\* A durable record is related to itself.
LEMMA SelfRelated ==
  ASSUME ResetInv, rec # None
  PROVE  Related(rec, rec) /\ rec \in RecordType /\ HeldNow(rec)
<1>1. rec \in RecordType /\ validStateCheckpoint(rec.st, rec.cp) /\ HeldNow(rec)
  BY DEF ResetInv, TypeOK, RecordsInv
<1>2. rec.cp \in Nat
  BY <1>1, Checkpoints DEF RecordType
<1>. QED  BY <1>1, <1>2, Checkpoints DEF Related, HeldNow, Held

\* begin() takes the durable record into RAM: the gates are closed unless it
\* is terminal, and an unfinished journal is left only to its own operation.
LEMMA BeginKeeps ==
  ASSUME ResetInv, Begin, Grows,
         UNCHANGED <<rec, drain, plan, events, job, acc, queued>>,
         job.pc = "idle", acc = <<>>, result' = None,
         Pending(drain) => Owned /\ UNCHANGED card
  PROVE  ResetInv'
<1>. DEFINE resumes == /\ rec # None /\ rec.cp = 0 /\ rec.boundary # 0
                       /\ rec.st \in {"Prepared", "AttentionRequired"}
            shut == readingGateRequired(rec)
<1>1. PICK bound \in Checks :
        /\ phase' = "up"
        /\ coord' = [NoCoord EXCEPT !.rec = rec,
                                    !.commit = IF resumes THEN rec.boundary ELSE 0]
        /\ gate' = IF shut \/ (rec # None /\ rec.st = "Completed" /\ ~bound)
                   THEN [closed |-> TRUE, quiet |-> FALSE, op |-> rec.op,
                         target |-> rec.target]
                   ELSE Open
        /\ Spend(Cost(bound))
  BY DEF Begin
<1>2. coord' = [rec |-> rec, prepare |-> None,
                commit |-> IF resumes THEN rec.boundary ELSE 0, want |-> "none"]
  BY <1>1 DEF NoCoord
<1>3. /\ coord'.rec = rec /\ coord'.prepare = None /\ coord'.want = "none"
      /\ coord'.commit # 0 => resumes /\ coord'.commit = rec.boundary
      /\ coord'.commit \in Nat
  <2>1. rec # None => rec.boundary \in Nat
    BY DEF ResetInv, TypeOK, RecordType
  <2>. QED  BY <1>2, <2>1
<1>4. coord' \in CoordType
  <2>1. /\ rec \in RecordType \cup {None} /\ None \in RequestType \cup {None}
        /\ "none" \in {"none", "drain", "clean"}
    BY DEF ResetInv, TypeOK
  <2>2. coord' = [rec |-> rec, prepare |-> None, commit |-> coord'.commit,
                  want |-> "none"]
    BY <1>2
  <2>. QED  BY <1>3, <2>1, <2>2 DEF CoordType
<1>5. /\ gate' \in GateType
      /\ shut => gate'.closed
      /\ ~gate'.closed => ~shut
  <2>1. CASE shut \/ (rec # None /\ rec.st = "Completed" /\ ~bound)
    <3>1. rec # None
      BY <2>1 DEF readingGateRequired
    <3>2. rec.op \in Ops /\ rec.target \in Nat
      BY <3>1 DEF ResetInv, TypeOK, RecordType
    <3>3. gate' = [closed |-> TRUE, quiet |-> FALSE, op |-> rec.op,
                   target |-> rec.target]
      BY <1>1, <2>1
    <3>. QED  BY <3>2, <3>3 DEF GateType
  <2>2. CASE ~(shut \/ (rec # None /\ rec.st = "Completed" /\ ~bound))
    <3>1. gate' = Open /\ ~shut
      BY <1>1, <2>2
    <3>. QED  BY <3>1, OpenType
  <2>. QED  BY <2>1, <2>2
<1>6. Tallied
  BY <1>1, CostIsNatural, SpendTallies DEF ResetInv, TypeOK
<1>7. Measures
  BY <1>6, TalliedMeasures
<1>8. ~shut => Final(rec)
  BY DEF readingGateRequired, Final
<1>9. shut => ~Final(rec)
  BY DEF readingGateRequired, Final
<1>. HIDE DEF shut
<1>10. TypeOK'
  <2>1. rec # None => validStateCheckpoint(rec.st, rec.cp)
    BY DEF ResetInv, TypeOK
  <2>2. \A r \in {rec', coord'.rec} \ {None} : validStateCheckpoint(r.st, r.cp)
    BY <1>3, <2>1
  <2>3. card' \in CardType /\ IsFiniteSet(card'.recs) /\ cursor' \in CursorType
    BY DEF ResetInv, TypeOK, Grows
  <2>4. /\ rec' \in RecordType \cup {None} /\ drain' \in DrainType \cup {None}
        /\ plan' \in PlanType \cup {None} /\ events' \in EventType \cup {None}
        /\ job' \in JobType /\ acc' \in Seq(Nat) /\ Len(acc') <= 2
        /\ queued' \in 0..MaxEvent
        /\ drain' # None => Len(drain'.ids) \in 1..2
    BY DEF ResetInv, TypeOK
  <2>5. tally' \in TallyType /\ result' \in AnswerType \cup {None}
        /\ phase' \in {"down", "boot", "up", "halted"}
    BY <1>1, <1>6 DEF Tallied
  <2>. QED  BY <1>4, <1>5, <2>2, <2>3, <2>4, <2>5 DEF TypeOK
<1>11. RecordsInv' /\ PlanInv' /\ CardInv' /\ GenInv' /\ HandedInv' /\ EventInv'
  BY <1>3, <1>7, GrowthKept
<1>12. RelationInv'
  BY <1>3, SelfRelated DEF RelationInv
<1>13. PhaseInv' /\ AccInv' /\ ResultInv'
  BY <1>1 DEF PhaseInv, AccInv, ResultInv
<1>14. GateInv'
  BY <1>3, <1>5, <1>8 DEF GateInv
<1>15. JobInv'
  BY <1>3 DEF JobInv, CleanSteps
<1>16. PendingInv'
  <2>1. CASE Pending(drain)
    <3>1. shut /\ UNCHANGED card
      BY <2>1 DEF Owned, shut
    <3>. QED  BY <1>3, <1>5, <1>7, <1>9, <3>1, PendingKept DEF Grows
  <2>2. CASE ~Pending(drain)
    BY <2>2 DEF PendingInv
  <2>. QED  BY <2>1, <2>2
<1>. QED  BY <1>10, <1>11, <1>12, <1>13, <1>14, <1>15, <1>16 DEF ResetInv

\* The sequence floor of a boot: never lower, and as it was while a journal
\* is unfinished.
LEMMA BootFloor ==
  ASSUME ResetInv, UNCHANGED <<rec, cursor>>,
         card' = [card EXCEPT !.next = Max({@, cursor.ack + 1, cursor.boundary + 1,
                                    IF rec = None THEN 1 ELSE rec.boundary + 1})]
  PROVE  Grows /\ (Pending(drain) => UNCHANGED card)
<1>. DEFINE b == IF rec = None THEN 1 ELSE rec.boundary + 1
            n == Max({card.next, cursor.ack + 1, cursor.boundary + 1, b})
<1>1. /\ card \in CardType /\ cursor \in CursorType /\ card.next \in Nat
      /\ cursor.ack \in Nat /\ cursor.boundary \in Nat
      /\ card.next > cursor.ack /\ card.next > cursor.boundary
  BY DEF ResetInv, TypeOK, CardInv, CardType, CursorType
<1>2. b \in Nat
  BY DEF ResetInv, TypeOK, RecordType
<1>3. Pending(drain) => b <= card.next
  <2>1. SUFFICES ASSUME Pending(drain), rec # None PROVE rec.boundary < card.next
    <3>1. rec # None => rec.boundary \in Nat
      BY DEF ResetInv, TypeOK, RecordType
    <3>. QED  BY <1>1, <3>1
  <2>2. HeldNow(rec) /\ rec \in RecordType /\ validStateCheckpoint(rec.st, rec.cp)
    BY <2>1, SelfRelated DEF ResetInv, TypeOK
  <2>3. ~Pinned(rec)
    BY <2>1, <2>2 DEF HeldNow, Held
  <2>4. rec.st \in {"Preparing", "Cancelled", "Completed"}
    BY <2>1, <2>3 DEF Pinned, Final, terminalState
  <2>5. rec.st = "Completed" => rec.cp = 7
    BY <2>2, Checkpoints DEF validStateCheckpoint
  <2>. QED  BY <1>1, <2>2, <2>4, <2>5, Checkpoints DEF HeldNow, Held
<1>. HIDE DEF b
<1>4. /\ n \in {card.next, cursor.ack + 1, cursor.boundary + 1, b}
      /\ n >= card.next /\ n >= cursor.ack + 1
  <2>1. /\ card.next \in Int /\ cursor.ack + 1 \in Int
        /\ cursor.boundary + 1 \in Int /\ b \in Int
    BY <1>1, <1>2
  <2>. QED  BY <2>1, MaxOfFour
<1>. HIDE DEF n
<1>5. n \in Nat
  BY <1>1, <1>2, <1>4
<1>6. card' = [card EXCEPT !.next = n]
  BY DEF n, b
<1>7. /\ card' \in CardType /\ card'.next = n /\ card'.recs = card.recs
      /\ card'.events = card.events
  BY <1>1, <1>5, <1>6 DEF CardType
<1>8. Grows
  <2>1. \A e \in 1..MaxEvent : card'.events[e] >= card.events[e]
    <3>1. \A e \in 1..MaxEvent : card.events[e] \in Nat
      BY <1>1 DEF CardType
    <3>. QED  BY <1>7, <3>1
  <2>2. card'.next > cursor.ack /\ card'.next >= card.next
    BY <1>1, <1>4, <1>5, <1>7
  <2>. QED  BY <1>1, <1>7, <2>1, <2>2 DEF Grows, CursorType
<1>9. Pending(drain) => n = card.next
  BY <1>1, <1>2, <1>3, <1>4
<1>10. Pending(drain) => card' = card
  BY <1>1, <1>6, <1>9 DEF CardType
<1>. QED  BY <1>8, <1>10

\* Outside the running phase nothing is pending in RAM.
LEMMA NotUpFacts ==
  ASSUME ResetInv, phase # "up"
  PROVE  /\ coord.rec = None /\ coord.prepare = None /\ coord.commit = 0
         /\ coord.want = "none" /\ acc = <<>>
  BY DEF ResetInv, PhaseInv, NoCoord

\* Boot keeps the invariant, and stops only at a completed journal.
LEMMA BootStep == ASSUME ResetInv, Boot PROVE ResetInv'
<1>1. /\ phase = "down" /\ UNCHANGED <<nvs, result, acc, queued>>
      /\ card' = [card EXCEPT !.next = Max({@, cursor.ack + 1, cursor.boundary + 1,
                                    IF rec = None THEN 1 ELSE rec.boundary + 1})]
  BY DEF Boot
<1>2. UNCHANGED <<rec, drain, plan, events, cursor>>
  BY <1>1 DEF nvs
<1>3. Grows /\ (Pending(drain) => UNCHANGED card)
  BY <1>1, <1>2, BootFloor
<1>4. /\ coord.rec = None /\ coord.prepare = None /\ coord.commit = 0
      /\ coord.want = "none" /\ acc = <<>>
  BY <1>1, NotUpFacts
<1>5. job.pc = "idle" /\ result = None /\ coord = NoCoord
  BY <1>1 DEF ResetInv, PhaseInv
<1>6. Pending(drain) => drain.target = cursor.gen + 1
  BY DEF ResetInv, PendingInv
<1>. DEFINE mine == \/ drain = None
                    \/ Owned
                    \/ drain.st = "Completed" /\ drain.target = cursor.gen
<1>7. CASE mine
  <2>1. Begin /\ UNCHANGED job
    BY <1>7 DEF Boot
  <2>2. Pending(drain) => Owned
    BY <1>7 DEF Pending
  <2>. QED  BY <1>1, <1>2, <1>3, <1>4, <1>5, <2>1, <2>2, BeginKeeps
<1>8. ASSUME ~mine, UNCHANGED <<coord, tally>>, phase' \in {"boot", "halted"},
             gate' \in GateType, job' \in JobType, PhaseInv',
             job'.pc \in {"idle", "drain"}
      PROVE  ResetInv'
  <2>1. Measures
    BY <1>8, SameMeasures
  <2>2. TypeOK'
    <3>1. card' \in CardType /\ IsFiniteSet(card'.recs)
      BY <1>3 DEF Grows, ResetInv, TypeOK
    <3>. QED  BY <1>1, <1>2, <1>8, <3>1 DEF ResetInv, TypeOK
  <2>3. RecordsInv' /\ PlanInv' /\ CardInv' /\ GenInv' /\ HandedInv' /\ EventInv'
    BY <1>2, <1>3, <1>8, <2>1, GrowthKept
  <2>4. RelationInv' /\ GateInv' /\ AccInv'
    BY <1>1, <1>4, <1>8 DEF RelationInv, GateInv, AccInv
  <2>5. JobInv' /\ ResultInv'
    BY <1>1, <1>4, <1>5, <1>8 DEF JobInv, ResultInv, CleanSteps
  <2>6. PendingInv'
    <3>1. CASE Pending(drain)
      BY <1>2, <1>3, <1>8, <2>1, <3>1, PendingKept
    <3>2. CASE ~Pending(drain)
      BY <1>2, <3>2 DEF PendingInv
    <3>. QED  BY <3>1, <3>2
  <2>. QED  BY <1>8, <2>2, <2>3, <2>4, <2>5, <2>6 DEF ResetInv
<1>9. CASE ~mine /\ drain.target = cursor.gen + 1
  <2>1. /\ phase' = "boot" /\ job' = [pc |-> "drain", op |-> drain.op]
        /\ gate' = OrphanBinding /\ UNCHANGED <<coord, tally>>
    BY <1>9 DEF Boot
  <2>2. drain # None /\ drain \in DrainType
    BY <1>9 DEF ResetInv, TypeOK
  <2>3. drain.op \in Ops /\ drain.target \in Nat
    BY <2>2 DEF DrainType
  <2>4. job' \in JobType /\ job'.pc = "drain"
    BY <2>1, <2>3 DEF JobType
  <2>5. gate' \in GateType /\ gate'.op = drain.op /\ gate'.target = drain.target
    <3>1. gate' = [closed |-> FALSE, quiet |-> TRUE, op |-> drain.op,
                   target |-> drain.target]
      BY <2>1 DEF OrphanBinding, Open
    <3>. QED  BY <2>3, <3>1 DEF GateType
  <2>6. PhaseInv'
    BY <1>1, <1>2, <1>4, <1>5, <2>1, <2>2, <2>4, <2>5 DEF PhaseInv, DrainSteps
  <2>. QED  BY <1>8, <1>9, <2>1, <2>4, <2>5, <2>6
<1>10. CASE ~mine /\ drain.target # cursor.gen + 1
  <2>1. phase' = "halted" /\ UNCHANGED <<coord, gate, job, tally>>
    BY <1>10 DEF Boot
  <2>2. drain # None /\ drain.st = "Completed"
    BY <1>6, <1>10 DEF Pending
  <2>3. PhaseInv'
    BY <1>1, <1>2, <1>4, <1>5, <2>1, <2>2 DEF PhaseInv
  <2>4. gate \in GateType /\ job \in JobType
    BY DEF ResetInv, TypeOK
  <2>. QED  BY <1>5, <1>8, <1>10, <2>1, <2>3, <2>4
<1>. QED  BY <1>7, <1>9, <1>10

\* BootDrained keeps the invariant: the orphaned interval is on the card.
LEMMA BootDrainedStep == ASSUME ResetInv, BootDrained PROVE ResetInv'
<1>1. /\ phase = "boot" /\ job.pc = "idle" /\ result # None /\ result' = None
      /\ UNCHANGED <<rec, drain, plan, events, card, job, acc, queued>>
  BY DEF BootDrained
<1>2. /\ coord.rec = None /\ coord.prepare = None /\ coord.commit = 0
      /\ coord.want = "none" /\ acc = <<>>
  BY <1>1, NotUpFacts
<1>3. /\ drain # None /\ (result.ok => drain.st = "Completed")
      /\ (~result.ok => tally.faults > 0) /\ coord = NoCoord
  BY <1>1 DEF ResetInv, PhaseInv
<1>4. result \in AnswerType /\ cursor \in CursorType /\ card \in CardType
  BY <1>1 DEF ResetInv, TypeOK
<1>5. CASE result.ok /\ result.offset >= cursor.offset
  <2>1. cursor' = [cursor EXCEPT !.offset = result.offset] /\ Begin
    BY <1>5 DEF BootDrained
  <2>2. /\ cursor' \in CursorType /\ cursor'.gen = cursor.gen
        /\ cursor'.boundary = cursor.boundary /\ cursor'.base = cursor.base
        /\ cursor'.ack = cursor.ack
    BY <1>4, <2>1 DEF AnswerType, CursorType
  <2>3. Grows
    <3>1. \A e \in 1..MaxEvent : card.events[e] \in Nat
      BY <1>4 DEF CardType
    <3>2. card.next \in Nat /\ cursor.ack \in Nat /\ card.next > cursor.ack
      BY <1>4 DEF CardType, CursorType, ResetInv, CardInv
    <3>. QED  BY <1>1, <1>4, <2>2, <3>1, <3>2 DEF Grows
  <2>. QED  BY <1>1, <1>2, <1>3, <1>5, <2>1, <2>3, BeginKeeps DEF Pending
<1>6. CASE ~(result.ok /\ result.offset >= cursor.offset)
  <2>1. phase' = "halted" /\ gate' = Open /\ UNCHANGED <<cursor, coord, tally>>
    BY <1>6 DEF BootDrained
  <2>2. Measures /\ SameCursors
    BY <2>1, SameMeasures DEF SameCursors
  <2>3. TypeOK'
    BY <1>1, <2>1, OpenType DEF ResetInv, TypeOK
  <2>4. RecordsInv' /\ PlanInv' /\ CardInv' /\ GenInv' /\ HandedInv' /\ EventInv'
    BY <1>1, <2>1, <2>2, DurableKept
  <2>5. PhaseInv'
    <3>1. tally.faults = 0 => drain.st = "Completed"
      BY <1>3
    <3>. QED  BY <1>1, <1>2, <1>3, <2>1, <3>1 DEF PhaseInv
  <2>6. RelationInv' /\ GateInv' /\ AccInv' /\ JobInv' /\ ResultInv'
    BY <1>1, <1>2, <2>1
    DEF RelationInv, GateInv, AccInv, JobInv, ResultInv, CleanSteps
  <2>7. PendingInv'
    BY <1>1, <2>1, <2>2, PendingKept
  <2>. QED  BY <2>3, <2>4, <2>5, <2>6, <2>7 DEF ResetInv
<1>. QED  BY <1>5, <1>6

\* PowerCycle keeps the invariant.
LEMMA PowerCycleStep == ASSUME ResetInv, PowerCycle PROVE ResetInv'
<1>1. phase = "halted" /\ phase' = "down" /\ UNCHANGED <<nvs, card, ram, tally>>
  BY DEF PowerCycle
<1>2. /\ UNCHANGED <<rec, drain, plan, events, cursor>>
      /\ UNCHANGED <<gate, coord, job, result, acc, queued>>
  BY <1>1 DEF nvs, ram
<1>3. Measures /\ SameCursors
  BY <1>1, <1>2, SameMeasures DEF SameCursors
<1>4. /\ coord.rec = None /\ coord.prepare = None /\ coord.commit = 0
      /\ coord.want = "none" /\ acc = <<>> /\ coord = NoCoord
      /\ job.pc = "idle" /\ result = None
  BY <1>1, NotUpFacts DEF ResetInv, PhaseInv
<1>5. TypeOK'
  BY <1>1, <1>2 DEF ResetInv, TypeOK
<1>6. RecordsInv' /\ PlanInv' /\ CardInv' /\ GenInv' /\ HandedInv' /\ EventInv'
  BY <1>1, <1>2, <1>3, DurableKept
<1>7. RelationInv' /\ GateInv' /\ AccInv' /\ PhaseInv'
  BY <1>1, <1>2, <1>4 DEF RelationInv, GateInv, AccInv, PhaseInv
<1>8. JobInv' /\ ResultInv'
  BY <1>2, <1>4 DEF JobInv, ResultInv, CleanSteps
<1>9. PendingInv'
  BY <1>1, <1>2, <1>3, PendingKept
<1>. QED  BY <1>5, <1>6, <1>7, <1>8, <1>9 DEF ResetInv

\* PowerLoss keeps the invariant, between two of the cursor writes too.
LEMMA PowerLossStep == ASSUME ResetInv, PowerLoss PROVE ResetInv'
<1>1. /\ phase' = "down" /\ gate' = Open /\ coord' = NoCoord /\ job' = NoJob
      /\ result' = None /\ acc' = <<>> /\ queued' = 0
      /\ UNCHANGED <<rec, drain, plan, events, card>>
      /\ tally' = [tally EXCEPT !.crashes = @ + 1]
  BY DEF PowerLoss
<1>2. Measures /\ tally'.intervals = tally.intervals
  <2>1. tally \in TallyType
    BY DEF ResetInv, TypeOK
  <2>2. tally' = [tally EXCEPT !.crashes = @ + 1]
    BY <1>1
  <2>3. /\ tally' \in TallyType /\ tally'.handed = tally.handed
        /\ tally'.intervals = tally.intervals /\ tally.intervals \in Nat
    BY ONLY <2>1, <2>2 DEF TallyType
  <2>. QED  BY <2>3 DEF Measures
<1>3. /\ coord'.rec = None /\ coord'.prepare = None /\ coord'.commit = 0
      /\ coord'.want = "none" /\ coord' \in CoordType
      /\ job' \in JobType /\ job'.pc = "idle"
  <2>1. coord' \in CoordType
    BY <1>1 DEF NoCoord, CoordType
  <2>2. job' \in JobType
    BY <1>1 DEF NoJob, JobType
  <2>. QED  BY <1>1, <2>1, <2>2 DEF NoCoord, NoJob
<1>4. RelationInv' /\ PhaseInv' /\ GateInv' /\ JobInv' /\ ResultInv' /\ AccInv'
  BY <1>1, <1>3
  DEF RelationInv, PhaseInv, GateInv, JobInv, ResultInv, AccInv, CleanSteps
<1>5. cursor' \in CursorType => TypeOK'
  <2>1. acc' \in Seq(Nat) /\ Len(acc') <= 2 /\ queued' \in 0..MaxEvent
    BY <1>1, ResetAssumption
  <2>2. gate' \in GateType /\ tally' \in TallyType
        /\ phase' \in {"down", "boot", "up", "halted"}
    BY <1>1, <1>2, OpenType DEF Measures
  <2>3. \A r \in {rec', coord'.rec} \ {None} : validStateCheckpoint(r.st, r.cp)
    BY <1>1, <1>3 DEF ResetInv, TypeOK
  <2>4. /\ rec' \in RecordType \cup {None} /\ drain' \in DrainType \cup {None}
        /\ plan' \in PlanType \cup {None} /\ events' \in EventType \cup {None}
        /\ card' \in CardType /\ IsFiniteSet(card'.recs)
        /\ drain' # None => Len(drain'.ids) \in 1..2
    BY <1>1 DEF ResetInv, TypeOK
  <2>. QED  BY <1>1, <1>3, <2>1, <2>2, <2>3, <2>4 DEF TypeOK
<1>6. CASE UNCHANGED cursor
  <2>1. SameCursors
    BY <1>6 DEF SameCursors, ResetInv, TypeOK
  <2>2. RecordsInv' /\ PlanInv' /\ CardInv' /\ GenInv' /\ HandedInv' /\ EventInv'
    BY <1>1, <1>2, <1>3, <2>1, DurableKept
  <2>3. PendingInv'
    BY <1>1, <1>2, <1>6, PendingKept
  <2>4. TypeOK'
    BY <1>5, <1>6 DEF ResetInv, TypeOK
  <2>. QED  BY <1>4, <2>2, <2>3, <2>4 DEF ResetInv
<1>7. CASE /\ AtCheckpoint(2) /\ cursor.ack <= coord.rec.boundary
           /\ \E k \in 0..3 : cursor' = CursorsAfter(k)
  <2>1. PICK k \in 0..3 : cursor' = CursorsAfter(k)
    BY <1>7
  <2>2. /\ cursor' \in CursorType
        /\ Good(rec, cursor', card, plan, drain, tally.handed)
        /\ card.next > cursor'.ack /\ card.next > cursor'.boundary
        /\ \A x \in card.recs : x.gen <= cursor'.gen
        /\ \A x \in tally.handed : x.gen <= cursor'.gen
        /\ \/ cursor'.gen = cursor.gen /\ cursor'.boundary = cursor.boundary
           \/ /\ cursor'.gen = coord.rec.target
              /\ \A x \in card.recs : x.gen < cursor'.gen
              /\ \A x \in tally.handed : x.gen < cursor'.gen
        /\ rec # None /\ ~terminalState(rec) /\ rec.target = coord.rec.target
    <3>. HIDE DEF CursorsAfter
    <3>. QED  BY <1>7, <2>1, CursorsHold
  <2>3. ~Pending(drain)
    BY <1>7, CheckpointFacts
  <2>4. /\ UNCHANGED <<card, drain, rec, plan, events>>
        /\ tally'.handed = tally.handed /\ tally'.intervals = tally.intervals
    BY <1>1, <1>2 DEF Measures
  <2>5. RecordsInv'
    BY <1>3, <2>2, <2>4 DEF RecordsInv, HeldNow, Good
  <2>6. PlanInv' /\ EventInv' /\ PendingInv'
    BY <1>3, <2>3, <2>4
    DEF ResetInv, PlanInv, EventInv, EventsPreserved, PendingInv
  <2>7. CardInv'
    BY <2>2, <2>4 DEF ResetInv, CardInv
  <2>8. GenInv'
    <3>1. CASE cursor'.gen = cursor.gen /\ cursor'.boundary = cursor.boundary
      BY <2>2, <2>4, <3>1 DEF ResetInv, GenInv
    <3>2. CASE /\ cursor'.gen = coord.rec.target
               /\ \A x \in card.recs : x.gen < cursor'.gen
      <4>1. \A x \in card.recs : x.gen \in Nat
        BY DEF ResetInv, TypeOK, CardType, StoredType
      <4>. QED  BY <2>2, <2>4, <3>2, <4>1 DEF GenInv, CursorType
    <3>. QED  BY <2>2, <3>1, <3>2
  <2>9. HandedInv'
    <3>1. CASE cursor'.gen = cursor.gen
      BY <2>4, <3>1 DEF ResetInv, HandedInv, Pending
    <3>2. CASE \A x \in tally.handed : x.gen < cursor'.gen
      <4>1. \A x \in tally.handed : x.gen \in Nat
        BY DEF ResetInv, TypeOK, TallyType
      <4>. QED  BY <2>2, <2>4, <3>2, <4>1 DEF HandedInv, CursorType
    <3>. QED  BY <2>2, <3>1, <3>2
  <2>. QED  BY <1>4, <1>5, <2>2, <2>5, <2>6, <2>7, <2>8, <2>9 DEF ResetInv
<1>8. \/ UNCHANGED cursor
      \/ /\ AtCheckpoint(2) /\ cursor.ack <= coord.rec.boundary
         /\ \E k \in 0..3 : cursor' = CursorsAfter(k)
  BY Checkpoints DEF PowerLoss
<1>. QED  BY <1>6, <1>7, <1>8

\* Nothing has happened: the invariant holds.
LEMMA InitHolds == Init => ResetInv
<1>. SUFFICES ASSUME Init PROVE ResetInv
  OBVIOUS
<1>1. TypeOK
  <2>1. cursor \in CursorType /\ card \in CardType /\ IsFiniteSet(card.recs)
    BY FS_EmptySet DEF Init, CursorType, CardType
  <2>2. gate \in GateType
    BY OpenType DEF Init
  <2>3. coord \in CoordType /\ job \in JobType /\ coord.rec = None
    BY DEF Init, NoCoord, NoJob, CoordType, JobType
  <2>4. acc \in Seq(Nat) /\ Len(acc) <= 2 /\ queued \in 0..MaxEvent
    BY ResetAssumption DEF Init
  <2>5. tally \in TallyType
    BY ResetAssumption DEF Init, TallyType
  <2>. QED  BY <2>1, <2>2, <2>3, <2>4, <2>5 DEF Init, TypeOK
<1>2. /\ coord.rec = None /\ coord.prepare = None /\ coord.commit = 0
      /\ coord.want = "none" /\ job.pc = "idle"
  BY DEF Init, NoCoord, NoJob
<1>3. RecordsInv /\ RelationInv /\ PhaseInv /\ GateInv /\ JobInv /\ ResultInv
  BY <1>2 DEF Init, RecordsInv, RelationInv, PhaseInv, GateInv, JobInv,
     ResultInv,
              Final, CleanSteps
<1>4. PlanInv /\ CardInv /\ GenInv /\ AccInv /\ PendingInv /\ HandedInv /\ EventInv
  BY DEF Init, PlanInv, CardInv, GenInv, AccInv, PendingInv, Pending,
     HandedInv,
         EventInv, EventsPreserved
<1>. QED  BY <1>1, <1>3, <1>4 DEF ResetInv

\* A step that changes nothing keeps the invariant.
LEMMA StutterKeeps == ASSUME ResetInv, UNCHANGED vars PROVE ResetInv'
<1>1. UNCHANGED <<rec, drain, plan, events, cursor, card, phase, gate, coord, job,
                  result, acc, queued, tally>>
  BY DEF vars
<1>2. UNCHANGED Missing
  BY <1>1 DEF Missing, containsDataResetDrainRecord
<1>3. TypeOK'
  BY <1>1 DEF ResetInv, TypeOK
<1>4. RecordsInv' /\ RelationInv' /\ PhaseInv' /\ GateInv'
  BY <1>1 DEF ResetInv, RecordsInv, HeldNow, RelationInv, PhaseInv, GateInv
<1>5. JobInv' /\ ResultInv' /\ PlanInv' /\ CardInv' /\ GenInv'
  BY <1>1 DEF ResetInv, JobInv, ResultInv, PlanInv, CardInv, GenInv, Planned,
     Pending
<1>6. AccInv' /\ HandedInv' /\ EventInv'
  BY <1>1 DEF ResetInv, AccInv, HandedInv, EventInv, EventsPreserved, Pending,
              Distinct, Measured
<1>7. PendingInv'
  BY <1>1, <1>2 DEF ResetInv, PendingInv, Pending, Distinct, Measured
<1>. QED  BY <1>3, <1>4, <1>5, <1>6, <1>7 DEF ResetInv

\* Every step keeps the invariant.
LEMMA NextKeeps == ResetInv /\ [Next]_vars => ResetInv'
<1>. SUFFICES ASSUME ResetInv, [Next]_vars PROVE ResetInv'
  OBVIOUS
<1>1. CASE UNCHANGED vars
  BY <1>1, StutterKeeps
<1>2. CASE StoreInterval \/ Accumulate \/ RollOver \/ QueueEvent \/ Acknowledge
           \/ AppendQueued
  BY <1>2, StoreIntervalStep, AccumulateStep, RollOverStep, QueueEventStep,
     AcknowledgeStep, AppendQueuedStep
<1>3. CASE \E extra \in 0..1 :
             coord.rec # None /\ requestCommit(coord.rec.required + extra)
  <2>1. PICK extra \in 0..1 :
          coord.rec # None /\ requestCommit(coord.rec.required + extra)
    BY <1>3
  <2>2. coord.rec.required + extra \in Nat
    <3>1. coord.rec.required \in Nat
      BY <2>1, CoordFields DEF RecordType
    <3>. QED  BY <3>1
  <2>. QED  BY <2>1, <2>2, CommitRequestStep
<1>4. CASE requestPrepare \/ requestCancel
  BY <1>4, RequestPrepareStep, CancelStep
<1>5. CASE StageDrain
  BY <1>5, NothingStaged, SomethingStaged
<1>6. CASE Tick
  <2>1. CASE progressCommit
    BY <2>1, ReconcileSequenceStep, AdvanceSequenceStep, AdvanceCursorsStep,
       CleanupCountedStep, CleanupAnsweredStep, InstallBaselineStep, VerifyStep,
       CompleteStep
    DEF progressCommit
  <2>2. CASE ~progressCommit
    BY <1>6, <2>2, PendingPrepareStep, QueueBarrierStep, ProgressPreparingStep,
       PendingCommitStep, ReleaseGatesStep
    DEF Tick
  <2>. QED  BY <2>1, <2>2
<1>7. CASE Storage
  BY <1>7, DrainLoadStep, DrainAppendStep, DrainScrubStep, CleanEventsStep,
     CleanPlanStep, CleanDeleteStep, CleanFlushStep
  DEF Storage
<1>8. CASE Power \/ PowerLoss \/ PowerCycle
  BY <1>8, BootStep, BootDrainedStep, PowerLossStep, PowerCycleStep DEF Power
<1>. QED  BY <1>1, <1>2, <1>3, <1>4, <1>5, <1>6, <1>7, <1>8 DEF Next

\* The inductive invariant holds in every behaviour, with every number of
\* operations, intervals, events, power losses and failures.
THEOREM InductiveInvariant == Spec => []ResetInv
  BY InitHolds, NextKeeps, PTL DEF Spec

\* Records, journals, gates and barrier are well formed in every state.
THEOREM TypeCorrect == Spec => []TypeOK
<1>1. ResetInv => TypeOK
  BY DEF ResetInv
<1>. QED  BY <1>1, InductiveInvariant, PTL

\* A staged interval is on the card exactly once or in an unfinished journal
\* until its generation is reset, wherever power is lost.
THEOREM DrainSafety == Spec => []DrainedExactlyOnce
<1>1. ResetInv => DrainedExactlyOnce
  BY DEF ResetInv, CardInv, HandedInv, Pending, DrainedExactlyOnce
<1>. QED  BY <1>1, InductiveInvariant, PTL

\* A reading of an earlier generation is on the card only during the cleanup
\* of an authorized reset; one of the current generation is above its boundary.
THEOREM GenerationSafety == Spec => []GenerationsSeparated
<1>1. ResetInv => GenerationsSeparated
  <2>. SUFFICES ASSUME ResetInv, NEW r \in card.recs
                PROVE  /\ r.gen < cursor.gen =>
                            /\ rec # None /\ ~terminalState(rec)
                            /\ rec.cp \in {2, 3}
                       /\ r.gen = cursor.gen => r.seq > cursor.boundary
    BY Checkpoints DEF GenerationsSeparated
  <2>1. ASSUME r.gen < cursor.gen
        PROVE  rec # None /\ ~terminalState(rec) /\ rec.cp \in {2, 3}
    <3>1. rec # None /\ ~terminalState(rec) /\ rec.target = cursor.gen
      BY <2>1 DEF ResetInv, GenInv
    <3>2. rec \in RecordType /\ HeldNow(rec)
      BY <3>1, SelfRelated
    <3>3. rec.cp \in 0..7 /\ cursor.gen \in Nat
      BY <3>2, Checkpoints DEF RecordType, ResetInv, TypeOK, CursorType
    <3>4. rec.cp >= 2 /\ ~(rec.cp >= 4)
      BY <3>1, <3>2, <3>3, Checkpoints DEF HeldNow, Held, Final
    <3>. QED  BY <3>1, <3>3, <3>4
  <2>2. r.gen = cursor.gen => r.seq > cursor.boundary
    BY DEF ResetInv, GenInv
  <2>. QED  BY <2>1, <2>2
<1>. QED  BY <1>1, InductiveInvariant, PTL

\* A record that says Completed is true: the cursors, the sequence floor, the
\* baseline and the counts are those of the whole reset.
THEOREM CompletionSafety == Spec => []CompletedIsWhole
<1>1. ResetInv => CompletedIsWhole
  <2>. SUFFICES ASSUME ResetInv, rec # None, rec.st = "Completed"
                PROVE  /\ cursor.gen = rec.target /\ cursor.boundary = rec.boundary
                       /\ cursor.ack >= rec.boundary /\ cursor.base = rec.target
                       /\ card.next > rec.boundary /\ rec.boundary >= rec.required
                       /\ rec.deleted = rec.count
    BY DEF CompletedIsWhole
  <2>1. HeldNow(rec) /\ validStateCheckpoint(rec.st, rec.cp)
    BY SelfRelated DEF ResetInv, TypeOK
  <2>2. rec.cp = 7
    BY <2>1, Checkpoints DEF validStateCheckpoint
  <2>. QED  BY <2>1, <2>2, Checkpoints DEF HeldNow, Held
<1>. QED  BY <1>1, InductiveInvariant, PTL

\* An event the reset took over is on the card once its journal is completed.
THEOREM EventSafety == Spec => []EventsPreserved
<1>1. ResetInv => EventsPreserved
  BY DEF ResetInv, EventInv
<1>. QED  BY <1>1, InductiveInvariant, PTL

\* Without a failed operation a boot never stops at an interval that is still
\* to be stored.
THEOREM BootSafety == Spec => []UnfinishedDrainBoots
<1>1. ResetInv => UnfinishedDrainBoots
  BY DEF ResetInv, PhaseInv, UnfinishedDrainBoots
<1>. QED  BY <1>1, InductiveInvariant, PTL

-----------------------------------------------------------------------------
(* The coordinator implements the abstract transaction                     *)

\* A step of ResetTransaction, or none.
Transacts == [Transaction!Next]_(Transaction!vars)

\* The abstract phases of a record, and the abstract operations.
LEMMA Outcomes ==
  ASSUME NEW r \in RecordType, validStateCheckpoint(r.st, r.cp)
  PROVE  /\ r # None /\ r.op \in Ops
         /\ r.st = "Completed" => Outcome(r) = "completed" /\ r.cp = 7
         /\ r.st = "Cancelled" => Outcome(r) = "cancelled" /\ r.cp = 0
         /\ ~terminalState(r) /\ r.cp >= 1 => Outcome(r) = "authorized"
         /\ ~terminalState(r) /\ r.cp = 0 => Outcome(r) = "open"
         /\ r.cp \in 0..7
<1>1. r # None /\ r.op \in Ops /\ r.cp \in 0..7
  BY RecordIsSome, Checkpoints DEF RecordType
<1>. QED  BY <1>1, Checkpoints
          DEF Outcome, terminalState, commitPointReached, validStateCheckpoint

\* None is no operation.
LEMMA NoneIsNoOp == None \notin Ops
  BY ResetAssumption DEF Ops

\* A step that leaves the record, the generation and the readings alone.
LEMMA SameTransaction ==
  ASSUME rec' = rec, cursor'.gen = cursor.gen, card'.recs = card.recs
  PROVE  Transacts
  BY DEF Transacts, Transaction!vars, Outcome, commitPointReached

\* A legal update of the durable record opens, cancels, authorizes or
\* completes the transaction, or leaves it where it is.
LEMMA UpdateTransaction ==
  ASSUME ResetInv, ResetInv', Updates_(rec, rec'), rec' = rec \/ rec' # None,
         cursor'.gen = cursor.gen, card'.recs = card.recs
  PROVE  Transacts
<1>. SUFFICES ASSUME rec' # rec PROVE Transacts
  BY SameTransaction
<1>. DEFINE o == Outcome(rec)
            p == Outcome(rec')
<1>1. /\ rec' \in RecordType /\ validStateCheckpoint(rec'.st, rec'.cp)
      /\ rec' # None /\ validRecordUpdate(rec, rec')
  BY DEF ResetInv, TypeOK, Updates_
<1>2. /\ rec'.op \in Ops
      /\ rec'.st = "Completed" => p = "completed" /\ rec'.cp = 7
      /\ rec'.st = "Cancelled" => p = "cancelled" /\ rec'.cp = 0
      /\ ~terminalState(rec') /\ rec'.cp >= 1 => p = "authorized"
      /\ ~terminalState(rec') /\ rec'.cp = 0 => p = "open"
      /\ rec'.cp \in 0..7
  BY <1>1, Outcomes
<1>3. rec'.st = "Preparing" => p = "open"
  BY <1>1, <1>2 DEF terminalState, validStateCheckpoint, CommitAuthorized,
     Verified,
                    Finished
<1>4. CASE rec = None
  <2>1. rec'.st = "Preparing" /\ o = "idle"
    BY <1>1, <1>4 DEF validRecordUpdate, Outcome
  <2>2. Transaction!Open
    BY <1>1, <1>2, <1>3, <1>4, <2>1, NoneIsNoOp DEF Transaction!Open
  <2>. QED  BY <2>2 DEF Transacts, Transaction!Next
<1>5. CASE rec # None
  <2>1. /\ rec \in RecordType /\ validStateCheckpoint(rec.st, rec.cp) /\ HeldNow(rec)
    BY <1>5, SelfRelated DEF ResetInv, TypeOK
  <2>2. /\ rec.op \in Ops
        /\ rec.st = "Completed" => o = "completed" /\ rec.cp = 7
        /\ rec.st = "Cancelled" => o = "cancelled" /\ rec.cp = 0
        /\ ~terminalState(rec) /\ rec.cp >= 1 => o = "authorized"
        /\ ~terminalState(rec) /\ rec.cp = 0 => o = "open"
        /\ rec.cp \in 0..7
    BY <2>1, Outcomes
  <2>. HIDE DEF o, p
  <2>3. CASE rec.op # rec'.op
    <3>1. terminalState(rec) /\ rec'.st = "Preparing"
      BY <1>1, <1>5, <2>3 DEF validRecordUpdate
    <3>2. o \in {"completed", "cancelled"} /\ p = "open"
      BY <1>3, <2>2, <3>1 DEF terminalState
    <3>3. Transaction!Open
      BY <1>1, <1>2, <1>5, <2>3, <3>2 DEF Transaction!Open, o, p
    <3>. QED  BY <3>3 DEF Transacts, Transaction!Next
  <2>4. CASE rec.op = rec'.op
    <3>1. canTransition(rec.st, rec'.st, rec'.cp) /\ rec'.cp \in {rec.cp, rec.cp + 1}
      BY <1>1, <1>5, <2>4 DEF validRecordUpdate
    <3>2. ~terminalState(rec)
      BY <3>1 DEF canTransition, terminalState
    <3>3. CASE rec'.st = "Completed"
      <4>1. rec.st = "Committing"
        BY <3>1, <3>2, <3>3
        DEF canTransition, terminalState, resumeStateForCheckpoint
      <4>2. rec.cp = 6
        BY <1>2, <2>1, <3>1, <3>3, <4>1, Checkpoints DEF validStateCheckpoint
      <4>3. card.recs = {} /\ o = "authorized" /\ p = "completed"
        BY <1>2, <1>5, <2>1, <2>2, <3>2, <3>3, <4>2, Checkpoints
        DEF HeldNow, Held, Final
      <4>4. Transaction!Complete
        BY <1>1, <1>5, <2>4, <4>3 DEF Transaction!Complete, o, p
      <4>. QED  BY <4>4 DEF Transacts, Transaction!Next
    <3>4. CASE rec'.st = "Cancelled"
      <4>1. rec.cp = 0
        BY <1>2, <2>2, <3>1, <3>4
      <4>2. o = "open" /\ p = "cancelled"
        BY <1>2, <2>2, <3>2, <3>4, <4>1
      <4>3. Transaction!Cancel
        BY <1>1, <1>5, <2>4, <4>2 DEF Transaction!Cancel, o, p
      <4>. QED  BY <4>3 DEF Transacts, Transaction!Next
    <3>5. CASE ~terminalState(rec')
      <4>1. CASE rec.cp = 0 /\ rec'.cp = 1
        <5>1. o = "open" /\ p = "authorized"
          BY <1>2, <2>2, <3>2, <3>5, <4>1
        <5>2. Transaction!Authorize
          BY <1>1, <1>5, <2>4, <5>1 DEF Transaction!Authorize, o, p
        <5>. QED  BY <5>2 DEF Transacts, Transaction!Next
      <4>2. CASE ~(rec.cp = 0 /\ rec'.cp = 1)
        <5>1. o = p
          BY <1>2, <2>2, <3>1, <3>2, <3>5, <4>2
        <5>. QED
          BY <1>1, <1>5, <2>4, <5>1 DEF Transacts, Transaction!vars, o, p
      <4>. QED  BY <4>1, <4>2
    <3>. QED  BY <3>3, <3>4, <3>5 DEF terminalState
  <2>. QED  BY <2>3, <2>4
<1>. QED  BY <1>4, <1>5

\* While a reset is authorized the generation may move by one, together with
\* an update of the record.
LEMMA AuthorizedTransaction ==
  ASSUME ResetInv, ResetInv', rec # None, rec' # None, rec'.op = rec.op,
         ~terminalState(rec), ~terminalState(rec'), rec.cp >= 1, rec'.cp >= 1,
         cursor'.gen \in {cursor.gen, cursor.gen + 1}, card'.recs = card.recs
  PROVE  Transacts
<1>1. /\ rec \in RecordType /\ validStateCheckpoint(rec.st, rec.cp)
      /\ rec' \in RecordType /\ validStateCheckpoint(rec'.st, rec'.cp)
  BY DEF ResetInv, TypeOK
<1>2. Outcome(rec) = "authorized"
  BY <1>1, Outcomes
<1>3. Outcome(rec') = "authorized"
  BY <1>1, Outcomes
<1>4. CASE cursor'.gen = cursor.gen
  BY <1>2, <1>3, <1>4 DEF Transacts, Transaction!vars
<1>5. CASE cursor'.gen = cursor.gen + 1
  <2>1. Transaction!Advance
    BY <1>2, <1>3, <1>5 DEF Transaction!Advance
  <2>. QED  BY <2>1 DEF Transacts, Transaction!Next
<1>. QED  BY <1>4, <1>5

\* A reading is stored only while no reset is authorized.
LEMMA StoreTransaction ==
  ASSUME rec' = rec, cursor'.gen = cursor.gen, card.recs \subseteq card'.recs,
         Outcome(rec) # "authorized"
  PROVE  Transacts
<1>1. Outcome(rec') = Outcome(rec)
  BY DEF Outcome, commitPointReached
<1>2. {r.id : r \in card.recs} \subseteq {r.id : r \in card'.recs}
  OBVIOUS
<1>3. Transaction!Store
  BY <1>1, <1>2 DEF Transaction!Store
<1>. QED  BY <1>3 DEF Transacts, Transaction!Next

\* A save of a record is a step of the transaction.
LEMMA SaveTransacts ==
  ASSUME ResetInv, ResetInv', NEW new, new # None, NEW spent \in Nat,
         NEW s, rec' = s.nvs,
         \/ s \in Saved(rec, new, spent)
         \/ s \in SavedFresh(rec, new, spent),
         cursor'.gen = cursor.gen, card'.recs = card.recs
  PROVE  Transacts
<1>1. /\ s.nvs = rec \/ s.nvs = new
      /\ s.nvs # rec => validRecordUpdate(rec, new)
  BY SavedOutcome
<1>2. Updates_(rec, rec') /\ (rec' = rec \/ rec' # None)
  BY <1>1 DEF Updates_
<1>. QED  BY <1>2, UpdateTransaction

\* The commit under way: the record in RAM, a request for attention and the
\* durable record are of one operation, beyond the authorization.
LEMMA CommitFacts ==
  ASSUME ResetInv, NEW cp, AtCheckpoint(cp)
  PROVE  /\ coord.rec \in RecordType /\ rec \in RecordType
         /\ rec # None /\ rec.op = coord.rec.op /\ rec.cp \in Nat
         /\ rec.cp >= coord.rec.cp /\ coord.rec.cp >= 1
         /\ coord.rec.cp # 6 => rec.cp <= 6 /\ ~terminalState(rec)
         /\ Attention(coord.rec) # None /\ Attention(coord.rec).op = coord.rec.op
         /\ Attention(coord.rec).cp = coord.rec.cp
         /\ ~terminalState(Attention(coord.rec))
<1>1. /\ phase = "up" /\ coord.rec # None /\ coord.rec.st = "Committing"
      /\ ~terminalState(coord.rec)
  BY CheckpointFacts
<1>2. Related(coord.rec, rec) /\ GoodNow(coord.rec) /\ GoodNow(rec)
  BY <1>1, ActiveFacts
<1>3. /\ coord.rec \in RecordType /\ rec \in RecordType
      /\ validStateCheckpoint(coord.rec.st, coord.rec.cp)
      /\ validStateCheckpoint(rec.st, rec.cp)
  BY <1>2 DEF GoodNow, Good
<1>4. coord.rec.cp \in 1..6 /\ rec.cp \in 0..7
  BY <1>1, <1>3, Checkpoints DEF validStateCheckpoint, RecordType
<1>5. /\ rec # None /\ rec.op = coord.rec.op
      /\ rec.cp = coord.rec.cp \/ rec.cp = coord.rec.cp + 1
  BY <1>2 DEF Related
<1>6. coord.rec.cp # 6 => ~terminalState(rec)
  BY <1>3, <1>4, <1>5, Checkpoints DEF terminalState, validStateCheckpoint
<1>7. /\ Attention(coord.rec) \in RecordType
      /\ Attention(coord.rec).op = coord.rec.op
      /\ Attention(coord.rec).cp = coord.rec.cp
      /\ ~terminalState(Attention(coord.rec))
  BY <1>3 DEF Attention, RecordType, terminalState
<1>8. Attention(coord.rec) # None
  BY <1>7, RecordIsSome
<1>. QED  BY <1>3, <1>4, <1>5, <1>6, <1>7, <1>8

\* A request for attention is a step of the transaction.
LEMMA AttendTransacts ==
  ASSUME ResetInv, ResetInv', NEW cp, AtCheckpoint(cp), NEW spent \in Nat,
         NEW a \in Attended(rec, spent), rec' = a.nvs,
         cursor'.gen = cursor.gen, card'.recs = card.recs
  PROVE  Transacts
<1>1. Attention(coord.rec) # None
  BY CommitFacts
<1>. HIDE DEF Attention
<1>2. /\ Updates_(rec, a.nvs)
      /\ a.nvs = rec \/ a.nvs = Attention(coord.rec)
  <2>1. /\ \/ a.rec = Attention(coord.rec) /\ a.nvs = Attention(coord.rec)
           \/ a.rec = coord.rec /\ (a.nvs = rec \/ a.nvs = Attention(coord.rec))
        /\ Updates_(rec, a.nvs)
    BY AttendedOutcome
  <2>. QED  BY <2>1
<1>. QED  BY <1>1, <1>2, UpdateTransaction

\* An advance is a step of the transaction, also when its save is refused
\* and a request for attention follows in the same step.
LEMMA AdvanceTransacts ==
  ASSUME ResetInv, ResetInv', NEW cp, AtCheckpoint(cp), NEW new, new # None,
         new.op = coord.rec.op, NEW a \in Advanced(new), rec' = a.nvs,
         cursor'.gen = cursor.gen, card'.recs = card.recs
  PROVE  Transacts
<1>. DEFINE n == Attention(coord.rec)
<1>1. /\ rec # None /\ rec.op = coord.rec.op /\ rec.cp \in Nat
      /\ rec.cp >= coord.rec.cp /\ coord.rec.cp >= 1 /\ coord.rec \in RecordType
      /\ n # None /\ n.op = coord.rec.op /\ n.cp = coord.rec.cp /\ ~terminalState(n)
  BY CommitFacts
<1>. HIDE DEF n
<1>2. PICK m : Updates_(rec, m) /\ (m = rec \/ m = new) /\ Updates_(m, a.nvs)
  BY AdvancedOutcome
<1>3. a.nvs = rec \/ a.nvs = new \/ a.nvs = n
  <2>1. Stepped(new, a)
    BY AdvancedOutcome
  <2>. QED  BY <2>1 DEF Stepped, n
<1>4. CASE m = rec \/ m = rec'
  <2>1. Updates_(rec, rec') /\ (rec' = rec \/ rec' # None)
    BY <1>1, <1>2, <1>3, <1>4
  <2>. QED  BY <2>1, UpdateTransaction
<1>5. CASE m # rec /\ m # rec'
  <2>1. m = new /\ validRecordUpdate(rec, new)
    BY <1>2, <1>5 DEF Updates_
  <2>2. ~terminalState(rec)
    BY <1>1, <2>1 DEF validRecordUpdate, canTransition, terminalState
  <2>3. CASE rec' = rec
    BY <2>3, SameTransaction
  <2>4. CASE rec' = n
    <3>1. rec'.cp >= 1 /\ rec.cp >= 1
      BY <1>1, <2>4, Checkpoints DEF RecordType
    <3>2. cursor'.gen \in {cursor.gen, cursor.gen + 1}
      OBVIOUS
    <3>. QED  BY <1>1, <2>2, <2>4, <3>1, <3>2, AuthorizedTransaction
  <2>. QED  BY <1>3, <1>5, <2>1, <2>3, <2>4
<1>. QED  BY <1>4, <1>5

\* The same of AdvanceTo.
LEMMA AdvanceToTransacts ==
  ASSUME ResetInv, ResetInv', NEW cp, AtCheckpoint(cp), NEW new, new # None,
         new.op = coord.rec.op, AdvanceTo(new),
         cursor'.gen = cursor.gen, card'.recs = card.recs
  PROVE  Transacts
<1>1. PICK checked \in Checks :
        \E a \in IF checked THEN Advanced(new) ELSE Attended(rec, 1) : rec' = a.nvs
  BY DEF AdvanceTo
<1>2. checked \in BOOLEAN /\ 1 \in Nat
  BY <1>1, CostIsNatural
<1>3. PICK a : rec' = a.nvs /\ (a \in Advanced(new) \/ a \in Attended(rec, 1))
  BY <1>1, <1>2
<1>4. CASE a \in Advanced(new)
  BY <1>3, <1>4, AdvanceTransacts
<1>5. CASE a \in Attended(rec, 1)
  BY <1>2, <1>3, <1>5, AttendTransacts
<1>. QED  BY <1>3, <1>4, <1>5

\* The record of the next checkpoint is of the same operation.
LEMMA SuccessorFacts ==
  ASSUME NEW c \in RecordType, c.cp \in 1..6, NEW k
  PROVE  /\ Next_(c) # None /\ Next_(c).op = c.op
         /\ Next_(c).st = c.st /\ Next_(c).cp = c.cp + 1
         /\ [Next_(c) EXCEPT !.st = "Completed"] # None
         /\ [Next_(c) EXCEPT !.st = "Completed"].op = c.op
         /\ k \in Nat => /\ [c EXCEPT !.deleted = k] # None
                         /\ [c EXCEPT !.deleted = k].op = c.op
<1>1. /\ Next_(c) \in RecordType /\ Next_(c).op = c.op /\ Next_(c).st = c.st
      /\ Next_(c).cp = c.cp + 1
  BY Checkpoints DEF Next_, RecordType
<1>2. /\ [Next_(c) EXCEPT !.st = "Completed"] \in RecordType
      /\ [Next_(c) EXCEPT !.st = "Completed"].op = c.op
  <2>. DEFINE n == Next_(c)
  <2>1. n \in RecordType /\ n.op = c.op
    BY <1>1
  <2>. HIDE DEF n
  <2>2. [n EXCEPT !.st = "Completed"] \in RecordType
        /\ [n EXCEPT !.st = "Completed"].op = c.op
    BY <2>1 DEF RecordType
  <2>. QED  BY <2>2 DEF n
<1>3. k \in Nat => /\ [c EXCEPT !.deleted = k] \in RecordType
                   /\ [c EXCEPT !.deleted = k].op = c.op
  BY DEF RecordType
<1>. QED  BY <1>1, <1>2, <1>3, RecordIsSome

\* The requests and the saves before the authorization, and the one that
\* authorizes, are steps of the transaction.
LEMMA PrepareTransacts ==
  ASSUME ResetInv, ResetInv', processPendingPrepare
  PROVE  Transacts
<1>. DEFINE n == Preparing(coord.prepare)
<1>1. n # None
  BY PrepareFacts, RecordIsSome DEF processPendingPrepare, GoodNow, Good
<1>. HIDE DEF n
<1>2. PICK s \in SavedFresh(rec, n, 0) : rec' = s.nvs
  BY DEF processPendingPrepare, n
<1>3. cursor'.gen = cursor.gen /\ card'.recs = card.recs /\ 0 \in Nat
  BY DEF processPendingPrepare
<1>. QED  BY <1>1, <1>2, <1>3, SaveTransacts

\* Capturing the evidence is a step of the transaction.
LEMMA EvidenceTransacts ==
  ASSUME ResetInv, ResetInv', progressPreparing
  PROVE  Transacts
<1>. DEFINE p == Prepared(coord.rec)
            usable == result.ok /\ (result.added > 0 => result.offset >= cursor.offset)
<1>1. /\ phase = "up" /\ coord.rec # None /\ coord.rec.st = "Preparing"
      /\ coord.want = "drain" /\ result # None
      /\ cursor' = IF usable /\ result.added > 0
                   THEN [cursor EXCEPT !.offset = result.offset] ELSE cursor
      /\ UNCHANGED card
  BY DEF progressPreparing
<1>2. cursor'.gen = cursor.gen /\ card'.recs = card.recs /\ 0 \in Nat
  <2>1. cursor \in CursorType
    BY DEF ResetInv, TypeOK
  <2>. QED  BY <1>1, <2>1 DEF CursorType
<1>3. PICK checked \in Checks :
        IF ~usable \/ ~checked THEN rec' = rec
        ELSE \E s \in SavedFresh(rec, p, 0) :
               \/ rec' = s.nvs
               \/ /\ s.ok
                  /\ \E a \in Saved(p, Attention(p), s.cost + 1) : rec' = a.nvs
  BY DEF progressPreparing
<1>4. CASE ~usable \/ ~checked
  BY <1>2, <1>3, <1>4, SameTransaction
<1>5. CASE ~(~usable \/ ~checked)
  <2>1. PICK s \in SavedFresh(rec, p, 0) :
          \/ rec' = s.nvs
          \/ /\ s.ok
             /\ \E a \in Saved(p, Attention(p), s.cost + 1) : rec' = a.nvs
    BY <1>3, <1>5
  <2>2. result.added <= 2 /\ ~Pending(drain)
    BY <1>1, <1>5 DEF ResetInv, ResultInv
  <2>3. /\ ~terminalState(coord.rec)
    BY <1>1 DEF terminalState
  <2>4. GoodNow(coord.rec) /\ GoodNow(rec) /\ Related(coord.rec, rec)
    BY <1>1, <2>3, ActiveFacts
  <2>5. /\ GoodNow(p) /\ Related(coord.rec, p) /\ ~terminalState(p)
    BY <1>1, <2>2, <2>4, PreparedHolds
  <2>6. p.st = "Prepared" /\ p.op = coord.rec.op
    BY <2>4 DEF GoodNow, Good, Prepared, RecordType
  <2>. HIDE DEF p
  <2>7. p \in RecordType /\ p # None /\ p.cp = 0
    BY <2>5, <2>6, RecordIsSome, Checkpoints DEF GoodNow, Good, validStateCheckpoint
  <2>8. CASE rec' = s.nvs
    BY <1>2, <2>1, <2>7, <2>8, SaveTransacts
  <2>9. CASE s.ok /\ \E a \in Saved(p, Attention(p), s.cost + 1) : rec' = a.nvs
    <3>. DEFINE q == Attention(p)
    <3>1. PICK a \in Saved(p, q, s.cost + 1) : rec' = a.nvs
      BY <2>9
    <3>2. q \in RecordType /\ q.op = p.op /\ q.st = "AttentionRequired" /\ q.cp = 0
      BY <2>7 DEF Attention, RecordType
    <3>. HIDE DEF q
    <3>3. /\ s.cost \in Nat /\ (s.nvs = rec \/ s.nvs = p) /\ s.nvs = p
          /\ s.nvs # rec => validRecordUpdate(rec, p)
      BY <1>2, <2>1, <2>9, SavedOutcome
    <3>4. rec' = p \/ rec' = q
      <4>1. s.cost + 1 \in Nat
        BY <3>3
      <4>2. a.nvs = p \/ a.nvs = q
        BY <3>1, <4>1, SavedOutcome
      <4>. QED  BY <3>1, <4>2
    <3>5. rec # None /\ rec \in RecordType /\ rec.op = p.op
      BY <2>4, <2>6, RecordIsSome DEF Related, GoodNow, Good
    <3>6. ~terminalState(rec)
      BY <2>5, <2>6, <3>3, <3>5 DEF validRecordUpdate, canTransition, terminalState
    <3>7. rec.cp = 0
      <4>1. coord.rec.boundary = 0
        BY <1>1, <2>4 DEF GoodNow, Good, Held
      <4>. QED  BY <2>4, <4>1 DEF Related
    <3>8. /\ rec' # None /\ rec'.op = rec.op /\ ~terminalState(rec') /\ rec'.cp = 0
      BY <2>5, <2>7, <3>2, <3>4, <3>5, RecordIsSome DEF terminalState
    <3>9. Outcome(rec) = Outcome(rec')
      BY <3>5, <3>6, <3>7, <3>8, Checkpoints
      DEF Outcome, commitPointReached, terminalState
    <3>. QED  BY <1>2, <3>5, <3>8, <3>9 DEF Transacts, Transaction!vars
  <2>. QED  BY <2>1, <2>8, <2>9
<1>. QED  BY <1>4, <1>5

\* A cancellation is a step of the transaction.
LEMMA CancelTransacts ==
  ASSUME ResetInv, ResetInv', requestCancel
  PROVE  Transacts
<1>. DEFINE n == [coord.rec EXCEPT !.st = "Cancelled"]
<1>1. coord.rec # None /\ cursor'.gen = cursor.gen /\ card'.recs = card.recs
  BY DEF requestCancel
<1>2. n # None /\ 0 \in Nat
  <2>1. n \in RecordType
    BY <1>1, CoordFields DEF RecordType
  <2>. QED  BY <2>1, RecordIsSome
<1>3. PICK s \in SavedFresh(rec, n, 0) : rec' = s.nvs
  BY DEF requestCancel
<1>. HIDE DEF n
<1>. QED  BY <1>1, <1>2, <1>3, SaveTransacts

\* Latching the boundary is a step of the transaction.
LEMMA LatchTransacts ==
  ASSUME ResetInv, ResetInv', NEW b \in Nat, requestCommit(b)
  PROVE  Transacts
<1>. DEFINE n == [coord.rec EXCEPT !.boundary = b]
<1>1. coord.rec # None /\ cursor'.gen = cursor.gen /\ card'.recs = card.recs
  BY DEF requestCommit
<1>2. n # None /\ 0 \in Nat
  <2>1. n \in RecordType
    BY <1>1, CoordFields DEF RecordType
  <2>. QED  BY <2>1, RecordIsSome
<1>3. rec' = rec \/ \E s \in Saved(rec, n, 0) : rec' = s.nvs
  BY DEF requestCommit
<1>. HIDE DEF n
<1>. QED  BY <1>1, <1>2, <1>3, SaveTransacts, SameTransaction

\* Resuming and authorizing are steps of the transaction.
LEMMA AuthorizeTransacts ==
  ASSUME ResetInv, ResetInv', processPendingCommit
  PROVE  Transacts
<1>. DEFINE r == [coord.rec EXCEPT !.st = resumeStateForCheckpoint(coord.rec.cp)]
            n == [coord.rec EXCEPT !.st = "Committing", !.cp = CommitAuthorized]
            m == Attention(coord.rec)
<1>1. cursor'.gen = cursor.gen /\ card'.recs = card.recs /\ coord.commit # 0
  BY DEF processPendingCommit
<1>2. coord.rec # None /\ coord.rec \in RecordType
  BY <1>1, CoordFields DEF ResetInv, GateInv
<1>3. r # None /\ m # None /\ n # None
  <2>1. r \in RecordType
    BY <1>2 DEF RecordType, resumeStateForCheckpoint
  <2>2. m \in RecordType
    BY <1>2 DEF RecordType, Attention
  <2>3. n \in RecordType
    <3>. DEFINE q == [coord.rec EXCEPT !.st = "Committing"]
    <3>1. q \in RecordType
      BY <1>2 DEF RecordType
    <3>2. n = [q EXCEPT !.cp = 1]
      BY <1>2, Checkpoints DEF RecordType
    <3>. HIDE DEF q
    <3>3. [q EXCEPT !.cp = 1] \in RecordType
      BY <3>1, Checkpoints DEF RecordType
    <3>. QED  BY <3>2, <3>3
  <2>. QED  BY <2>1, <2>2, <2>3, RecordIsSome
<1>4. \/ \E s \in Saved(rec, r, 0) : rec' = s.nvs
      \/ \E s \in SavedFresh(rec, n, 0) : rec' = s.nvs
      \/ \E t \in {m, coord.rec} : \E s \in Saved(rec, t, 1) : rec' = s.nvs
  BY DEF processPendingCommit
<1>. HIDE DEF r, n, m
<1>5. PICK new, spent, s :
        /\ spent \in Nat /\ new # None /\ rec' = s.nvs
        /\ s \in Saved(rec, new, spent) \/ s \in SavedFresh(rec, new, spent)
  BY <1>2, <1>3, <1>4
<1>. QED  BY <1>1, <1>5, SaveTransacts

\* Moving the cursors advances the generation of an authorized transaction.
LEMMA CursorsTransact ==
  ASSUME ResetInv, ResetInv', AtCheckpoint(2), cursor.ack <= coord.rec.boundary,
         NEW k \in 0..3, cursor' = CursorsAfter(k), card'.recs = card.recs,
         rec' \in {rec, Next_(coord.rec), Attention(coord.rec)}
  PROVE  Transacts
<1>1. /\ coord.rec \in RecordType /\ rec # None /\ rec.op = coord.rec.op
      /\ rec.cp \in Nat /\ rec.cp >= coord.rec.cp /\ coord.rec.cp >= 1
      /\ Attention(coord.rec) # None /\ Attention(coord.rec).op = coord.rec.op
      /\ Attention(coord.rec).cp = coord.rec.cp
      /\ ~terminalState(Attention(coord.rec))
      /\ coord.rec.cp # 6 => ~terminalState(rec)
  BY CommitFacts
<1>2. coord.rec.cp = 2 /\ coord.rec.st = "Committing"
  BY DEF AtCheckpoint
<1>3. /\ Next_(coord.rec) # None /\ Next_(coord.rec).op = coord.rec.op
      /\ Next_(coord.rec).st = "Committing" /\ Next_(coord.rec).cp = 3
  BY <1>1, <1>2, SuccessorFacts
<1>4. ~terminalState(Next_(coord.rec))
  BY <1>3 DEF terminalState
<1>. HIDE DEF Next_, Attention
<1>5. /\ rec' # None /\ rec'.op = rec.op /\ ~terminalState(rec') /\ ~terminalState(rec)
      /\ rec'.cp >= 1 /\ rec.cp >= 1
  BY <1>1, <1>2, <1>3, <1>4
<1>6. cursor'.gen \in {cursor.gen, cursor.gen + 1}
  <2>1. cursor'.gen = IF k >= 2 THEN coord.rec.target ELSE cursor.gen
    <3>1. cursor \in CursorType
      BY DEF ResetInv, TypeOK
    <3>. QED  BY <3>1 DEF CursorsAfter, CursorType
  <2>2. coord.rec.target = cursor.gen + 1 \/ coord.rec.target = cursor.gen
    <3>1. GoodNow(coord.rec) /\ ~terminalState(coord.rec) /\ coord.rec # None
      BY CheckpointFacts
    <3>. QED  BY <3>1 DEF GoodNow, Good, Held, Final
  <2>. QED  BY <2>1, <2>2
<1>7. ResetInv /\ ResetInv' /\ card'.recs = card.recs /\ rec # None
  BY <1>1
<1>. QED  BY ONLY <1>5, <1>6, <1>7, AuthorizedTransaction

\* AdvanceCursors is a step of the transaction.
LEMMA AdvanceCursorsTransacts ==
  ASSUME ResetInv, ResetInv', AdvanceCursors
  PROVE  Transacts
<1>1. AtCheckpoint(2) /\ card'.recs = card.recs
  BY Checkpoints DEF AdvanceCursors
<1>2. CASE cursor.ack > coord.rec.boundary
  <2>1. PICK a \in Attended(rec, 0) : rec' = a.nvs
    BY <1>2 DEF AdvanceCursors
  <2>2. cursor'.gen = cursor.gen /\ 0 \in Nat
    BY <1>2 DEF AdvanceCursors
  <2>. QED  BY <1>1, <2>1, <2>2, AttendTransacts
<1>3. CASE ~(cursor.ack > coord.rec.boundary)
  <2>1. cursor.ack <= coord.rec.boundary
    <3>1. coord.rec \in RecordType
      BY <1>1, CommitFacts
    <3>2. coord.rec.boundary \in Nat /\ cursor.ack \in Nat
      BY <3>1 DEF RecordType, CursorType, ResetInv, TypeOK
    <3>. QED  BY <1>3, <3>2
  <2>2. PICK k \in 0..3 :
          /\ cursor' = CursorsAfter(k)
          /\ \/ AdvanceTo(Next_(coord.rec))
             \/ \E a \in Attended(rec, 1) : rec' = a.nvs
    <3>1. 3 \in 0..3 /\ 0..2 \subseteq 0..3
      OBVIOUS
    <3>. HIDE DEF CursorsAfter, AdvanceTo, Next_
    <3>. QED  BY <1>3, <3>1 DEF AdvanceCursors
  <2>3. rec' \in {rec, Next_(coord.rec), Attention(coord.rec)}
    <3>. HIDE DEF Next_, Attention
    <3>1. CASE AdvanceTo(Next_(coord.rec))
      <4>1. Wrote(Next_(coord.rec)) \/ Wrote(Attention(coord.rec))
        BY <3>1, AdvanceToWrites
      <4>. QED  BY <4>1 DEF Wrote
    <3>2. CASE \E a \in Attended(rec, 1) : rec' = a.nvs
      <4>1. 1 \in Nat
        OBVIOUS
      <4>. QED  BY <3>2, <4>1, AttendedOutcome
    <3>. QED  BY <2>2, <3>1, <3>2
  <2>. HIDE DEF Next_, Attention, CursorsAfter
  <2>. QED  BY <1>1, <2>1, <2>2, <2>3, CursorsTransact
<1>. QED  BY <1>2, <1>3

\* Every step of the commit is a step of the transaction.
LEMMA CommitTransacts ==
  ASSUME ResetInv, ResetInv', progressCommit
  PROVE  Transacts
<1>1. CASE ReconcileSequence
  <2>1. card \in CardType
    BY DEF ResetInv, TypeOK
  <2>2. rec' = rec /\ cursor' = cursor /\ card'.recs = card.recs
    BY <1>1, <2>1 DEF ReconcileSequence, nvs, CardType
  <2>. QED  BY <2>2, SameTransaction
<1>2. ASSUME NEW cp, AtCheckpoint(cp)
      PROVE  coord.rec \in RecordType /\ coord.rec.cp \in 1..6
  <2>1. GoodNow(coord.rec) /\ coord.rec.st = "Committing"
    BY <1>2, CheckpointFacts
  <2>. QED  BY <2>1, Checkpoints DEF GoodNow, Good, validStateCheckpoint
<1>3. CASE AdvanceSequence
  <2>1. /\ AtCheckpoint(1) /\ AdvanceTo(Next_(coord.rec))
        /\ cursor'.gen = cursor.gen /\ card'.recs = card.recs
    BY <1>3, Checkpoints DEF AdvanceSequence
  <2>2. Next_(coord.rec) # None /\ Next_(coord.rec).op = coord.rec.op
    BY <1>2, <2>1, SuccessorFacts
  <2>. HIDE DEF Next_
  <2>. QED  BY <2>1, <2>2, AdvanceToTransacts
<1>4. CASE AdvanceCursors
  BY <1>4, AdvanceCursorsTransacts
<1>5. CASE CleanupCounted
  <2>. DEFINE n == [coord.rec EXCEPT !.deleted = result.added]
  <2>1. PICK a \in Advanced(n) : rec' = a.nvs
    BY <1>5 DEF CleanupCounted
  <2>2. /\ AtCheckpoint(3) /\ result # None
        /\ cursor'.gen = cursor.gen /\ card'.recs = card.recs
    BY <1>5, Checkpoints DEF CleanupCounted
  <2>3. result.added \in Nat
    BY <2>2 DEF ResetInv, TypeOK, AnswerType
  <2>4. n # None /\ n.op = coord.rec.op
    BY <1>2, <2>2, <2>3, SuccessorFacts
  <2>. HIDE DEF n
  <2>. QED  BY <2>1, <2>2, <2>4, AdvanceTransacts
<1>6. CASE CleanupAnswered
  <2>1. /\ AtCheckpoint(3) /\ result # None
        /\ cursor'.gen = cursor.gen /\ card'.recs = card.recs
    BY <1>6, Checkpoints DEF CleanupAnswered
  <2>2. PICK a \in IF result.ok THEN Advanced(Next_(coord.rec)) ELSE Attended(rec, 0) :
          rec' = a.nvs
    BY <1>6 DEF CleanupAnswered
  <2>3. Next_(coord.rec) # None /\ Next_(coord.rec).op = coord.rec.op /\ 0 \in Nat
    BY <1>2, <2>1, SuccessorFacts
  <2>. HIDE DEF Next_
  <2>4. CASE result.ok
    BY <2>1, <2>2, <2>3, <2>4, AdvanceTransacts
  <2>5. CASE ~result.ok
    BY <2>1, <2>2, <2>3, <2>5, AttendTransacts
  <2>. QED  BY <2>4, <2>5
<1>7. CASE InstallBaseline
  <2>1. AtCheckpoint(4) /\ AdvanceTo(Next_(coord.rec)) /\ card'.recs = card.recs
    BY <1>7, Checkpoints DEF InstallBaseline
  <2>2. cursor'.gen = cursor.gen
    <3>1. cursor \in CursorType
      BY DEF ResetInv, TypeOK
    <3>. QED  BY <1>7, <3>1 DEF InstallBaseline, CursorType
  <2>3. Next_(coord.rec) # None /\ Next_(coord.rec).op = coord.rec.op
    BY <1>2, <2>1, SuccessorFacts
  <2>. HIDE DEF Next_
  <2>. QED  BY <2>1, <2>2, <2>3, AdvanceToTransacts
<1>8. CASE Verify
  <2>1. /\ AtCheckpoint(5) /\ cursor'.gen = cursor.gen /\ card'.recs = card.recs
        /\ \/ AdvanceTo(Next_(coord.rec))
           \/ \E a \in Attended(rec, 0) : rec' = a.nvs
    BY <1>8, Checkpoints DEF Verify
  <2>2. Next_(coord.rec) # None /\ Next_(coord.rec).op = coord.rec.op /\ 0 \in Nat
    BY <1>2, <2>1, SuccessorFacts
  <2>. HIDE DEF Next_
  <2>. QED  BY <2>1, <2>2, AdvanceToTransacts, AttendTransacts
<1>9. CASE Complete
  <2>. DEFINE n == [Next_(coord.rec) EXCEPT !.st = "Completed"]
  <2>1. /\ AtCheckpoint(6) /\ AdvanceTo(n)
        /\ cursor'.gen = cursor.gen /\ card'.recs = card.recs
    BY <1>9, Checkpoints DEF Complete
  <2>2. n # None /\ n.op = coord.rec.op
    BY <1>2, <2>1, SuccessorFacts
  <2>. HIDE DEF n
  <2>. QED  BY <2>1, <2>2, AdvanceToTransacts
<1>. QED  BY <1>1, <1>3, <1>4, <1>5, <1>6, <1>7, <1>8, <1>9 DEF progressCommit

\* Behind open gates, and from an unfinished journal, readings are stored
\* only while no reset is authorized.
LEMMA NotAuthorized ==
  ASSUME ResetInv, rec = None \/ terminalState(rec) \/ rec.st = "Preparing"
  PROVE  Outcome(rec) # "authorized"
<1>1. CASE rec = None
  BY <1>1 DEF Outcome
<1>2. CASE rec # None
  <2>1. rec \in RecordType /\ validStateCheckpoint(rec.st, rec.cp)
    BY <1>2 DEF ResetInv, TypeOK
  <2>2. rec.st = "Preparing" => ~terminalState(rec) /\ rec.cp = 0
    BY <2>1, Checkpoints DEF validStateCheckpoint, terminalState
  <2>. QED  BY <1>2, <2>1, <2>2, Outcomes DEF terminalState
<1>. QED  BY <1>1, <1>2

\* Storing an interval is a step of the transaction.
LEMMA StoreIntervalTransacts ==
  ASSUME ResetInv, StoreInterval
  PROVE  Transacts
<1>1. rec' = rec /\ cursor'.gen = cursor.gen /\ phase = "up" /\ ~gate.closed
  BY DEF StoreInterval, nvs
<1>2. Outcome(rec) # "authorized"
  BY <1>1, OpenFacts, NotAuthorized DEF Final
<1>. DEFINE x == [id |-> tally.intervals + 1, seq |-> card.next, gen |-> cursor.gen]
<1>3. x \in StoredType /\ card \in CardType
  BY DEF ResetInv, TypeOK, TallyType, CardType, CursorType, StoredType
<1>4. card' = [card EXCEPT !.next = @ + 1, !.recs = @ \cup {x}]
  BY DEF StoreInterval
<1>. HIDE DEF x
<1>5. card.recs \subseteq card'.recs
  BY <1>3, <1>4, OneMoreRecord
<1>. QED  BY <1>1, <1>2, <1>5, StoreTransaction

\* Storing a drained interval is a step of the transaction.
LEMMA DrainAppendTransacts ==
  ASSUME ResetInv, DrainAppend
  PROVE  Transacts
<1>1. job.pc = "append" /\ rec' = rec /\ cursor'.gen = cursor.gen
  BY DEF DrainAppend, JobVars
<1>2. Pending(drain) /\ drain \in DrainType /\ Len(drain.ids) \in 1..2
  BY <1>1 DEF ResetInv, JobInv, Pending, TypeOK
<1>3. Outcome(rec) # "authorized"
  <2>1. rec # None => ~Pinned(rec)
    BY <1>2, SelfRelated DEF HeldNow, Held
  <2>. QED  BY <2>1, NotAuthorized DEF Pinned, Final
<1>4. CASE UNCHANGED card
  BY <1>1, <1>4, SameTransaction
<1>5. CASE ~UNCHANGED card
  <2>1. /\ Missing # {}
        /\ card' = [card EXCEPT !.next = @ + 1,
                       !.recs = @ \cup {[id |-> drain.ids[Min(Missing)],
                                         seq |-> card.next, gen |-> cursor.gen]}]
    BY <1>5 DEF DrainAppend
  <2>2. Min(Missing) \in DOMAIN drain.ids
    BY <1>1, <2>1, FirstMissing
  <2>. DEFINE x == [id |-> drain.ids[Min(Missing)], seq |-> card.next,
                    gen |-> cursor.gen]
  <2>3. x \in StoredType /\ card \in CardType
    <3>1. drain.ids[Min(Missing)] \in Nat
      BY <1>2, <2>2 DEF DrainType
    <3>. QED  BY <3>1 DEF ResetInv, TypeOK, CardType, CursorType, StoredType
  <2>4. card' = [card EXCEPT !.next = @ + 1, !.recs = @ \cup {x}]
    BY <2>1
  <2>. HIDE DEF x
  <2>5. card.recs \subseteq card'.recs
    BY <2>3, <2>4, OneMoreRecord
  <2>. QED  BY <1>1, <1>3, <2>5, StoreTransaction
<1>. QED  BY <1>4, <1>5

\* Deleting a file is a step of the transaction: its reading was there once.
LEMMA CleanDeleteTransacts ==
  ASSUME ResetInv, CleanDelete
  PROVE  Transacts
<1>1. job.pc = "delete" /\ job.pc \in CleanSteps /\ rec' = rec /\ cursor' = cursor
  BY DEF CleanDelete, CleanSteps
<1>2. card \in CardType
  BY DEF ResetInv, TypeOK
<1>3. CASE UNCHANGED card
  BY <1>1, <1>3, SameTransaction
<1>4. CASE ~UNCHANGED card
  <2>1. PICK r \in card.recs : card' = [card EXCEPT !.recs = @ \ {r}]
    BY <1>4 DEF CleanDelete, Undeleted
  <2>2. card'.recs = card.recs \ {r}
    BY <1>2, <2>1 DEF CardType
  <2>3. \A x, y \in card.recs : x.id = y.id => x = y
    BY DEF ResetInv, CardInv
  <2>4. {x.id : x \in card'.recs} = {x.id : x \in card.recs} \ {r.id}
    BY <2>2, <2>3
  <2>5. Outcome(rec) = "authorized" /\ rec # None
    <3>1. /\ coord.rec # None /\ coord.rec.cp = 3 /\ GoodNow(rec) /\ rec # None
          /\ Related(coord.rec, rec)
      BY <1>1, CleanFacts
    <3>2. rec \in RecordType /\ validStateCheckpoint(rec.st, rec.cp)
      BY <3>1 DEF GoodNow, Good
    <3>3. rec.cp = 3 \/ rec.cp = 4
      BY <3>1 DEF Related
    <3>4. ~terminalState(rec)
      BY <3>2, <3>3, Checkpoints DEF terminalState, validStateCheckpoint
    <3>. QED  BY <3>1, <3>2, <3>3, <3>4, Outcomes
  <2>6. Outcome(rec') = Outcome(rec)
    BY <1>1 DEF Outcome, commitPointReached
  <2>7. Transaction!Erase
    <3>1. r.id \in {x.id : x \in card.recs}
      OBVIOUS
    <3>. QED  BY <1>1, <2>4, <2>5, <2>6, <3>1 DEF Transaction!Erase
  <2>. QED  BY <2>7 DEF Transacts, Transaction!Next
<1>. QED  BY <1>3, <1>4

\* Losing power may leave the generation moved.
LEMMA PowerLossTransacts ==
  ASSUME ResetInv, ResetInv', PowerLoss
  PROVE  Transacts
<1>1. rec' = rec /\ card'.recs = card.recs
  BY DEF PowerLoss
<1>2. CASE UNCHANGED cursor
  BY <1>1, <1>2, SameTransaction
<1>3. CASE ~UNCHANGED cursor
  <2>1. /\ AtCheckpoint(2) /\ cursor.ack <= coord.rec.boundary
        /\ \E k \in 0..3 : cursor' = CursorsAfter(k)
    BY <1>3, Checkpoints DEF PowerLoss
  <2>2. PICK k \in 0..3 : cursor' = CursorsAfter(k)
    BY <2>1
  <2>3. rec' \in {rec, Next_(coord.rec), Attention(coord.rec)}
    BY <1>1
  <2>. HIDE DEF CursorsAfter, Next_, Attention
  <2>. QED  BY <1>1, <2>1, <2>2, <2>3, CursorsTransact
<1>. QED  BY <1>2, <1>3

\* The actions that leave the record, the generation and the readings alone.
LEMMA OtherTransacts ==
  ASSUME ResetInv,
         \/ Accumulate \/ RollOver \/ QueueEvent \/ Acknowledge \/ AppendQueued
         \/ requestPrepare \/ StageDrain \/ queueDataResetBarrier \/ ReleaseGates
         \/ DrainLoad \/ DrainScrub \/ CleanEvents \/ CleanPlan \/ CleanFlush
         \/ Boot \/ BootDrained \/ PowerCycle
  PROVE  Transacts
<1>1. card \in CardType /\ cursor \in CursorType
  BY DEF ResetInv, TypeOK
<1>2. CASE Accumulate \/ QueueEvent \/ requestPrepare \/ StageDrain
           \/ queueDataResetBarrier \/ ReleaseGates \/ PowerCycle
  <2>1. UNCHANGED <<rec, cursor, card>>
    BY <1>2 DEF Accumulate, QueueEvent, requestPrepare, StageDrain,
                queueDataResetBarrier, ReleaseGates, PowerCycle, nvs
  <2>. QED  BY <2>1, SameTransaction
<1>3. CASE DrainLoad \/ DrainScrub \/ CleanEvents \/ CleanPlan
  <2>1. UNCHANGED <<rec, cursor, card>>
    BY <1>3 DEF DrainLoad, DrainScrub, CleanEvents, CleanPlan, JobVars
  <2>. QED  BY <2>1, SameTransaction
<1>4. CASE RollOver \/ Acknowledge \/ BootDrained
  <2>1. UNCHANGED <<rec, card>>
    BY <1>4 DEF RollOver, Acknowledge, BootDrained
  <2>2. cursor'.gen = cursor.gen
    BY <1>1, <1>4 DEF RollOver, Acknowledge, BootDrained, CursorType
  <2>. QED  BY <2>1, <2>2, SameTransaction
<1>5. CASE AppendQueued \/ Boot
  <2>1. UNCHANGED <<rec, cursor>>
    BY <1>5 DEF AppendQueued, Boot, nvs
  <2>2. card'.recs = card.recs
    BY <1>1, <1>5 DEF AppendQueued, Boot, CardType
  <2>. QED  BY <2>1, <2>2, SameTransaction
<1>6. CASE CleanFlush
  <2>1. UNCHANGED <<rec, cursor>>
    BY <1>6 DEF CleanFlush
  <2>2. \/ UNCHANGED card
        \/ card' = [card EXCEPT !.events[events.event] = @ + 1]
    BY <1>6 DEF CleanFlush
  <2>3. card'.recs = card.recs
    BY <1>1, <2>2 DEF CardType
  <2>. QED  BY <2>1, <2>3, SameTransaction
<1>. QED  BY <1>2, <1>3, <1>4, <1>5, <1>6

\* Every step of the coordinator is a step of the transaction.
LEMMA NextTransacts == ResetInv /\ ResetInv' /\ [Next]_vars => Transacts
<1>. SUFFICES ASSUME ResetInv, ResetInv', [Next]_vars PROVE Transacts
  OBVIOUS
<1>1. CASE UNCHANGED vars
  BY <1>1, SameTransaction DEF vars
<1>2. CASE \E extra \in 0..1 :
             coord.rec # None /\ requestCommit(coord.rec.required + extra)
  <2>1. PICK extra \in 0..1 :
          coord.rec # None /\ requestCommit(coord.rec.required + extra)
    BY <1>2
  <2>2. coord.rec.required + extra \in Nat
    <3>1. coord.rec.required \in Nat
      BY <2>1, CoordFields DEF RecordType
    <3>. QED  BY <3>1
  <2>. QED  BY <2>1, <2>2, LatchTransacts
<1>3. CASE StoreInterval \/ DrainAppend \/ CleanDelete
  BY <1>3, StoreIntervalTransacts, DrainAppendTransacts, CleanDeleteTransacts
<1>4. CASE processPendingPrepare \/ progressPreparing \/ requestCancel
           \/ processPendingCommit \/ progressCommit \/ PowerLoss
  BY <1>4, PrepareTransacts, EvidenceTransacts, CancelTransacts,
     AuthorizeTransacts, CommitTransacts, PowerLossTransacts
<1>5. CASE \/ Accumulate \/ RollOver \/ QueueEvent \/ Acknowledge \/ AppendQueued
           \/ requestPrepare \/ StageDrain \/ queueDataResetBarrier \/ ReleaseGates
           \/ DrainLoad \/ DrainScrub \/ CleanEvents \/ CleanPlan \/ CleanFlush
           \/ Boot \/ BootDrained \/ PowerCycle
  BY <1>5, OtherTransacts
<1>. QED  BY <1>1, <1>2, <1>3, <1>4, <1>5 DEF Next, Tick, Storage, Power

\* The coordinator with its journals and its boot implements ResetTransaction:
\* an operation has one outcome, and readings and generation change only
\* between its authorization and its completion.
THEOREM Refinement == Spec => ImplementsTransaction
<1>1. Init => Transaction!Init
  BY DEF Init, Transaction!Init, Outcome
<1>2. ResetInv /\ ResetInv' /\ [Next]_vars => [Transaction!Next]_(Transaction!vars)
  BY NextTransacts DEF Transacts
<1>. QED  BY <1>1, <1>2, InductiveInvariant, PTL
          DEF Spec, ImplementsTransaction, Transaction!Spec

=============================================================================
