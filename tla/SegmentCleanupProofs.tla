------------------------ MODULE SegmentCleanupProofs -------------------------
(***************************************************************************)
(* Proofs about SegmentCleanup, for every number of segments, every choice *)
(* of cursors, cutoffs and untrusted or fragile segments, and every set of *)
(* FAT operations that may fail: its type invariant,                       *)
(* SplitPairIsJournalled, RecoveryNeverBlocks, and that retention          *)
(* implements RetainedHistory.                                             *)
(*                                                                         *)
(* The argument has three layers.  What is handled at all is releasable:   *)
(* acknowledged, and older than three others (ReleaseInv, from what        *)
(* applyRetention selects).  A temporary that says "planned" is about a    *)
(* record still in place (OrderInv).  And while no removal has overrun     *)
(* another one, the journal and the step of StorageTask together say where *)
(* the files of the segment are (JournalInv).                              *)
(***************************************************************************)
EXTENDS SegmentCleanup, TLAPS, WellFoundedInduction, FiniteSetTheorems

\* The types of the call's locals, of the card and of the health.
CallRecord == [at : {"none", "mount", "undo", "retention"},
               queue : SUBSET Segments, goal : Nat,
               seg : Segments \cup {None}, stage : Stages, ok : BOOLEAN]
DiskRecord == [record : [Segments -> Places], index : [Segments -> Places],
               journal : Entries \cup {None, Torn},
               tmp : Entries \cup {None, Torn}]
RamRecord == [mounted : BOOLEAN, writable : BOOLEAN, current : Nat]

\* The steps of a removal or recovery that work on call.seg.
InTransaction ==
  pc \in Steps \ {"off", "idle", "recover_tmp", "recover_read", "next"}

\* What the locals of a call hold at its steps: the goal of a plan is not met
\* while a segment is removed, and a recovery was not called by the plan loop.
SegInv ==
  /\ InTransaction => /\ call.seg \in Segments
                      /\ call.at = "retention" => call.goal > 0
  /\ pc = "move_index" => HasIndex(call.seg)
  /\ pc \in {"recover_tmp", "recover_read"} => call.at # "retention"

\* The locals between two calls are of their type.
LEMMA IdleType == Idle \in CallRecord
  BY DEF Idle, CallRecord, Stages

\* A set of numbers has a least one.
LEMMA LeastNatural ==
  ASSUME NEW S \in SUBSET Nat, S # {}
  PROVE  \E m \in S : \A s \in S : m <= s
<1>. DEFINE R == OpToRel(<, Nat)
<1>1. IsWellFoundedOn(R, Nat)
  BY NatLessThanWellFounded
<1>2. PICK x \in S : \A y \in S : ~(<<y, x>> \in R)
  BY <1>1, WFMin
<1>3. \A y \in Nat : y < x => <<y, x>> \in R
  BY DEF OpToRel
<1>. HIDE DEF R
<1>4. \A y \in S : ~(y < x)
  BY <1>2, <1>3
<1>. QED  BY <1>4

\* A bounded set of numbers has a greatest one.
LEMMA GreatestNatural ==
  ASSUME NEW S \in SUBSET Nat, S # {}, NEW N \in Nat, \A s \in S : s <= N
  PROVE  \E m \in S : \A s \in S : s <= m
<1>. DEFINE T == {n \in Nat : \E s \in S : n + s = N}
<1>1. T # {}
  <2>1. PICK s \in S : TRUE
    OBVIOUS
  <2>2. N - s \in T
    BY <2>1
  <2>. QED  BY <2>2
<1>2. PICK n \in T : \A x \in T : n <= x
  BY <1>1, LeastNatural
<1>3. PICK m \in S : n + m = N
  BY <1>2
<1>4. ASSUME NEW s \in S PROVE s <= m
  <2>1. N - s \in T
    OBVIOUS
  <2>2. n <= N - s /\ n \in Nat /\ m \in Nat /\ s \in Nat
    BY <1>2, <1>3, <2>1
  <2>. QED  BY <1>3, <2>2
<1>. QED  BY <1>4

\* The next candidate of a plan is one of its queue: oldest reading segment
\* first, then the oldest event segment.
LEMMA FirstInQueue ==
  ASSUME NEW Q \in SUBSET Segments, Q # {}
  PROVE  First(Q) \in Q
<1>. DEFINE Numbers(k) == {n \in Nat : [kind |-> k, n |-> n] \in Q}
<1>1. \A s \in Segments : /\ s.kind \in Kinds /\ s.n \in Nat
                          /\ s = [kind |-> s.kind, n |-> s.n]
  BY CleanupAssumption DEF Segments
<1>2. PICK k \in Kinds : /\ Numbers(k) # {}
                         /\ k = "event" => Numbers("reading") = {}
  <2>1. PICK q \in Q : TRUE
    OBVIOUS
  <2>2. q.n \in Numbers(q.kind)
    BY <1>1
  <2>. QED  BY <1>1, <2>2 DEF Kinds
<1>3. PICK m \in Numbers(k) : \A n \in Numbers(k) : m <= n
  BY <1>2, LeastNatural
<1>4. \A t \in Q : t.n \in Numbers(t.kind)
  BY <1>1
<1>5. \A t \in Q \ {[kind |-> k, n |-> m]} : Before([kind |-> k, n |-> m], t)
  <2>. SUFFICES ASSUME NEW t \in Q, t # [kind |-> k, n |-> m]
                PROVE  Before([kind |-> k, n |-> m], t)
    OBVIOUS
  <2>1. CASE t.kind = k
    <3>1. t.n \in Numbers(k) /\ t.n # m
      BY <1>1, <1>4, <2>1
    <3>. QED  BY <1>3, <2>1, <3>1 DEF Before
  <2>2. CASE t.kind # k
    <3>1. k = "reading" /\ t.kind = "event"
      BY <1>1, <1>2, <1>4, <2>2 DEF Kinds
    <3>. QED  BY <3>1 DEF Before
  <2>. QED  BY <2>1, <2>2
<1>6. [kind |-> k, n |-> m] \in Q
  BY <1>3
<1>. QED  BY <1>5, <1>6 DEF First

\* An operation succeeds or fails.
LEMMA SucceedsBoolean == \A kind : Succeeds(kind) \subseteq BOOLEAN
  BY DEF Succeeds

-----------------------------------------------------------------------------
(* The type invariant                                                       *)

Typed ==
  /\ disk \in DiskRecord
  /\ \A s \in Segments : disk.index[s] # "none" => HasIndex(s)
  /\ damaged \subseteq Segments /\ meta \subseteq Segments
  /\ created \in [Kinds -> Nat] /\ acked \in [Kinds -> Nat]
  /\ ram \in RamRecord
  /\ pc \in Steps
  /\ call \in CallRecord
  /\ overrun \in BOOLEAN

\* TypeOK with the records named, and the locals.
TypeInv == Typed /\ SegInv

\* cleanupRecoveryAction has four answers.
LEMMA RecoveryActions ==
  \A stage, s, record, index :
    cleanupRecoveryAction(stage, s, record, index)
      \in {"block", "reverse", "forward", "clear"}
<1>. SUFFICES ASSUME NEW stage, NEW s, NEW record, NEW index
              PROVE  cleanupRecoveryAction(stage, s, record, index)
                       \in {"block", "reverse", "forward", "clear"}
  OBVIOUS
<1>. QED  BY DEF cleanupRecoveryAction

\* recoverCleanupJournal gives up, or goes on as cleanupRecoveryAction says.
LEMMA RecoverReadCases ==
  ASSUME Typed, RecoverRead
  PROVE  \/ pc' = "idle" /\ call' = Idle
         \/ /\ disk.journal \in Entries
            /\ call' = [call EXCEPT !.seg = disk.journal.seg, !.ok = TRUE]
            /\ \E action \in {"reverse", "forward", "clear"} :
                 /\ action = cleanupRecoveryAction(disk.journal.stage,
                               disk.journal.seg, disk.record, disk.index)
                 /\ pc' = CASE action = "reverse" -> "undo_record"
                            [] action = "forward" -> "purge_record"
                            [] action = "clear" -> "clear_journal"
<1>. DEFINE action == cleanupRecoveryAction(disk.journal.stage,
                        disk.journal.seg, disk.record, disk.index)
<1>1. action \in {"block", "reverse", "forward", "clear"}
  BY RecoveryActions
<1>2. \/ pc' = "idle" /\ call' = Idle
      \/ /\ disk.journal # None /\ disk.journal # Torn
         /\ action # "block"
         /\ call' = [call EXCEPT !.seg = disk.journal.seg, !.ok = TRUE]
         /\ pc' = CASE action = "reverse" -> "undo_record"
                    [] action = "forward" -> "purge_record"
                    [] action = "clear" -> "clear_journal"
  BY Zenon DEF RecoverRead, RecoveryReturns
<1>3. disk.journal \in Entries \cup {None, Torn}
  BY DEF Typed, DiskRecord
<1>. HIDE DEF action
<1>. QED  BY <1>1, <1>2, <1>3 DEF action

\* What applyRetention plans is a set of segments of the card.
LEMMA PlanType ==
  ASSUME Typed, ApplyRetention
  PROVE  /\ call' \in CallRecord
         /\ meta' \subseteq Segments
         /\ pc' \in {"idle", "next"}
         /\ pc' = "idle" => call' = Idle
         /\ pc' = "next" =>
              /\ call'.at = "retention"
              /\ \A s \in call'.queue :
                   \E context \in Contexts :
                     /\ Eligible(s, context)
                     /\ Loaded(s) \/ Inspected(s)
                     /\ s \in Live(s.kind) \ (Active(s.kind) \cup MinimumWindow(s.kind))
<1>. DEFINE live == Live("reading") \cup Live("event")
            active == Active("reading") \cup Active("event")
            closed == live \ (active \cup MinimumWindow("reading")
                                     \cup MinimumWindow("event"))
            unsaved == {s \in live : ~Loaded(s)} \cup active
            complete(lost) == {s \in closed \ lost : Loaded(s) \/ Inspected(s)}
            Plan(lost, context, goal) ==
             [Idle EXCEPT !.at = "retention", !.goal = goal,
                !.queue = {s \in complete(lost) : Eligible(s, context)}]
<1>1. live \subseteq Segments /\ active \subseteq Segments
  BY DEF Live, Active
<1>2. PICK lost \in IF "metadata" \in Faults THEN SUBSET unsaved ELSE {{}} :
        /\ meta' = (meta \ unsaved) \cup
                   {s \in unsaved \ (lost \cup active) : Inspected(s)}
        /\ \/ pc' = "idle" /\ call' = Idle
           \/ /\ pc' = "next"
              /\ \E c \in Contexts :
                   \E goal \in IF c.emergency THEN 0..2 ELSE {Unlimited} :
                     call' = Plan(lost, c, goal)
  BY Zenon DEF ApplyRetention
<1>. HIDE DEF live, active, closed, unsaved, complete, Plan
<1>3. /\ meta' = (meta \ unsaved) \cup
                 {s \in unsaved \ (lost \cup active) : Inspected(s)}
      /\ \/ pc' = "idle" /\ call' = Idle
         \/ /\ pc' = "next"
            /\ \E c \in Contexts :
                 \E goal \in IF c.emergency THEN 0..2 ELSE {Unlimited} :
                   call' = Plan(lost, c, goal)
  BY <1>2
<1>4. unsaved \subseteq Segments
  BY <1>1 DEF unsaved
<1>5. meta' \subseteq Segments
  BY <1>3, <1>4 DEF Typed
<1>6. CASE pc' = "idle" /\ call' = Idle
  BY <1>5, <1>6, IdleType
<1>7. CASE pc' = "next" /\ ~(pc' = "idle")
  <2>1. PICK c \in Contexts, goal \in Nat : call' = Plan(lost, c, goal)
    <3>1. Unlimited \in Nat
      BY CleanupAssumption DEF Unlimited
    <3>. QED  BY <1>3, <1>7, <3>1
  <2>2. complete(lost) \subseteq Segments
    BY <1>1 DEF complete, closed
  <2>3. /\ call' \in CallRecord
        /\ call'.at = "retention"
        /\ call'.queue = {s \in complete(lost) : Eligible(s, c)}
    BY <2>1, <2>2 DEF Plan, CallRecord, Idle, Stages
  <2>4. ASSUME NEW s \in call'.queue
        PROVE  /\ Eligible(s, c)
               /\ Loaded(s) \/ Inspected(s)
               /\ s \in Live(s.kind) \ (Active(s.kind) \cup MinimumWindow(s.kind))
    <3>1. Eligible(s, c) /\ s \in complete(lost)
      BY <2>3
    <3>2. s \in closed /\ (Loaded(s) \/ Inspected(s))
      BY <3>1 DEF complete
    <3>3. s.kind \in Kinds /\ s \in Live(s.kind)
      BY <3>2 DEF closed, live, Live, Kinds
    <3>4. s \notin Active(s.kind) \cup MinimumWindow(s.kind)
      BY <3>2, <3>3 DEF closed, active, Kinds
    <3>. QED  BY <3>1, <3>2, <3>3, <3>4
  <2>. QED  BY <1>5, <1>7, <2>3, <2>4
<1>. QED
  BY <1>3, <1>6, <1>7

\* Every step of StorageTask and of the card keeps the types.
LEMMA TypeStep == TypeInv /\ [Next]_vars => Typed'
<1>. SUFFICES ASSUME TypeInv, [Next]_vars PROVE Typed'
  OBVIOUS
<1>. USE CleanupAssumption
     DEF world, TypeInv, Typed, SegInv, InTransaction, Steps
<1>1. ASSUME NEW k \in Kinds, OpenSegment(k)
      PROVE  Typed'
  <2>1. created[k] + 1 \in 1 .. MaxSegments
    BY <1>1 DEF OpenSegment
  <2>2. [kind |-> k, n |-> created[k] + 1] \in Segments
    BY <1>1, <2>1 DEF OpenSegment, Segments
  <2>3. disk' \in DiskRecord
    BY <1>1, <2>2 DEF OpenSegment, DiskRecord, Places
  <2>4. \A s \in Segments : disk'.index[s] # "none" => HasIndex(s)
    BY <1>1, <2>2 DEF OpenSegment, DiskRecord
  <2>5. ram' \in RamRecord
    BY <1>1 DEF OpenSegment, RamRecord
  <2>. QED
    BY <1>1, <2>1, <2>2, <2>3, <2>4, <2>5 DEF OpenSegment
<1>2. ASSUME NEW k \in Kinds, Acknowledge(k)
      PROVE  Typed'
  BY <1>2 DEF Acknowledge
<1>3. ASSUME NEW s \in Segments, Damage(s)
      PROVE  Typed'
  BY <1>3 DEF Damage
<1>4. CASE PowerLoss
  <2>1. disk' \in DiskRecord
    BY <1>4 DEF PowerLoss, DiskRecord
  <2>2. disk'.index = disk.index
    BY <1>4 DEF PowerLoss, DiskRecord
  <2>3. ram' \in RamRecord
    BY <1>4 DEF PowerLoss, RamRecord, Unmounted
  <2>. QED
    BY <1>4, <2>1, <2>2, <2>3, IdleType DEF PowerLoss
<1>5. CASE Mount
  <2>1. ram' \in RamRecord
    BY <1>5 DEF Mount, RamRecord
  <2>2. call' \in CallRecord
    BY <1>5, IdleType DEF Mount, CallRecord
  <2>. QED
    BY <1>5, <2>1, <2>2 DEF Mount
<1>6. CASE RecoverTemporary
  <2>1. disk' \in DiskRecord
    BY <1>6, SucceedsBoolean DEF RecoverTemporary, DiskRecord, RecoveryReturns
  <2>2. disk'.index = disk.index
    BY <1>6, SucceedsBoolean DEF RecoverTemporary, DiskRecord, RecoveryReturns
  <2>3. ram' \in RamRecord
    BY <1>6, SucceedsBoolean DEF RecoverTemporary, RamRecord, RecoveryReturns
  <2>4. call' \in CallRecord
    BY <1>6, IdleType, SucceedsBoolean DEF RecoverTemporary, RecoveryReturns
  <2>. QED
    BY <1>6, <2>1, <2>2, <2>3, <2>4 DEF RecoverTemporary, RecoveryReturns
<1>7. CASE RecoverRead
  <2>1. ram' \in RamRecord
    BY <1>7 DEF RecoverRead, RamRecord, RecoveryReturns
  <2>2. call' \in CallRecord
    <3>1. \/ call' = Idle
          \/ /\ call' = [call EXCEPT !.seg = disk.journal.seg, !.ok = TRUE]
             /\ disk.journal.seg \in Segments
      BY <1>7, RecoverReadCases DEF Entries
    <3>. QED  BY <3>1, IdleType DEF CallRecord
  <2>3. pc' \in Steps
    BY <1>7, RecoverReadCases
  <2>. QED
    BY <1>7, <2>1, <2>2, <2>3 DEF RecoverRead
<1>8. CASE UndoRecord
  <2>1. disk' \in DiskRecord
    BY <1>8, SucceedsBoolean DEF UndoRecord, RecoverRecord, DiskRecord, Places
  <2>2. disk'.index = disk.index
    BY <1>8, SucceedsBoolean DEF UndoRecord, RecoverRecord, DiskRecord
  <2>3. call' \in CallRecord
    <3>1. PICK ok \in BOOLEAN : call' = [call EXCEPT !.ok = ok]
      BY <1>8, SucceedsBoolean DEF UndoRecord, RecoverRecord
    <3>. QED  BY <3>1 DEF CallRecord
  <2>. QED
    BY <1>8, <2>1, <2>2, <2>3 DEF UndoRecord, RecoverRecord
<1>9. CASE PurgeRecord
  <2>1. disk' \in DiskRecord
    BY <1>9, SucceedsBoolean DEF PurgeRecord, RecoverRecord, DiskRecord, Places
  <2>2. disk'.index = disk.index
    BY <1>9, SucceedsBoolean DEF PurgeRecord, RecoverRecord, DiskRecord
  <2>3. call' \in CallRecord
    <3>1. PICK ok \in BOOLEAN : call' = [call EXCEPT !.ok = ok]
      BY <1>9, SucceedsBoolean DEF PurgeRecord, RecoverRecord
    <3>. QED  BY <3>1 DEF CallRecord
  <2>. QED
    BY <1>9, <2>1, <2>2, <2>3 DEF PurgeRecord, RecoverRecord
<1>10. CASE UndoIndex
  <2>1. disk' \in DiskRecord
    BY <1>10, SucceedsBoolean DEF UndoIndex, RecoverIndex, DiskRecord, Places
  <2>2. \A s \in Segments : disk'.index[s] # "none" => HasIndex(s)
    BY <1>10, SucceedsBoolean DEF UndoIndex, RecoverIndex, DiskRecord
  <2>3. ram' \in RamRecord
    BY <1>10, SucceedsBoolean DEF UndoIndex, RecoverIndex, RecoveryReturns,
       RamRecord
  <2>4. call' \in CallRecord
    BY <1>10, SucceedsBoolean, IdleType DEF UndoIndex, RecoverIndex,
       RecoveryReturns
  <2>. QED
    BY <1>10, <2>1, <2>2, <2>3, <2>4 DEF UndoIndex, RecoverIndex,
       RecoveryReturns
<1>11. CASE PurgeIndex
  <2>1. disk' \in DiskRecord
    BY <1>11, SucceedsBoolean DEF PurgeIndex, RecoverIndex, DiskRecord, Places
  <2>2. \A s \in Segments : disk'.index[s] # "none" => HasIndex(s)
    BY <1>11, SucceedsBoolean DEF PurgeIndex, RecoverIndex, DiskRecord
  <2>3. ram' \in RamRecord
    BY <1>11, SucceedsBoolean DEF PurgeIndex, RecoverIndex, RecoveryReturns,
       RamRecord
  <2>4. call' \in CallRecord
    BY <1>11, SucceedsBoolean, IdleType DEF PurgeIndex, RecoverIndex,
       RecoveryReturns
  <2>. QED
    BY <1>11, <2>1, <2>2, <2>3, <2>4 DEF PurgeIndex, RecoverIndex,
       RecoveryReturns
<1>12. CASE ApplyRetention
  <2>1. call' \in CallRecord /\ meta' \subseteq Segments /\ pc' \in Steps
    BY <1>12, PlanType DEF ApplyRetention
  <2>. QED
    BY <1>12, <2>1 DEF ApplyRetention
<1>13. CASE BeginRemoval
  <2>1. pc' # "idle" => First(call.queue) \in Segments
    BY <1>13, FirstInQueue DEF BeginRemoval, Stops, CallRecord
  <2>2. call' \in CallRecord
    <3>1. \/ call' = Idle
          \/ /\ call' = [call EXCEPT !.seg = First(call.queue), !.stage = "planned"]
             /\ First(call.queue) \in Segments
      BY <1>13, <2>1 DEF BeginRemoval, Stops
    <3>. QED  BY <3>1, IdleType DEF CallRecord, Stages
  <2>. QED
    BY <1>13, <2>1, <2>2 DEF BeginRemoval, Stops
<1>14. CASE FinishRetention
  BY <1>14, IdleType DEF FinishRetention, Stops
<1>15. CASE RemoveOldTemporary
  <2>1. disk' \in DiskRecord
    BY <1>15, SucceedsBoolean DEF RemoveOldTemporary, DiskRecord
  <2>2. disk'.index = disk.index
    BY <1>15, SucceedsBoolean DEF RemoveOldTemporary, DiskRecord
  <2>. QED
    BY <1>15, <2>1, <2>2 DEF RemoveOldTemporary
<1>16. CASE WriteTemporary
  <2>1. [stage |-> call.stage, seg |-> call.seg] \in Entries
    BY <1>16 DEF WriteTemporary, Entries, CallRecord
  <2>2. disk' \in DiskRecord
    BY <1>16, <2>1, SucceedsBoolean DEF WriteTemporary, DiskRecord
  <2>3. disk'.index = disk.index
    BY <1>16, SucceedsBoolean DEF WriteTemporary, DiskRecord
  <2>4. call' \in CallRecord
    BY <1>16, IdleType DEF WriteTemporary, CallRecord, PersistFailed, Stops
  <2>. QED
    BY <1>16, <2>1, <2>2, <2>3, <2>4 DEF WriteTemporary, PersistFailed, Stops
<1>17. CASE RemoveOldJournal
  <2>1. disk' \in DiskRecord
    BY <1>17, SucceedsBoolean DEF RemoveOldJournal, DiskRecord
  <2>2. disk'.index = disk.index
    BY <1>17, SucceedsBoolean DEF RemoveOldJournal, DiskRecord
  <2>. QED
    BY <1>17, <2>1, <2>2 DEF RemoveOldJournal
<1>18. CASE InstallJournal
  <2>1. disk' \in DiskRecord
    BY <1>18, SucceedsBoolean DEF InstallJournal, DiskRecord
  <2>2. disk'.index = disk.index
    BY <1>18, SucceedsBoolean DEF InstallJournal, DiskRecord
  <2>3. call' \in CallRecord
    <3>1. \/ call' = Idle \/ call' = [call EXCEPT !.at = "undo"]
          \/ call' = [call EXCEPT !.ok = TRUE]
      BY <1>18 DEF InstallJournal, PersistFailed, Stops
    <3>2. [call EXCEPT !.at = "undo"] \in CallRecord
      BY DEF CallRecord
    <3>3. [call EXCEPT !.ok = TRUE] \in CallRecord
      BY DEF CallRecord
    <3>. QED  BY <3>1, <3>2, <3>3, IdleType
  <2>4. pc' \in Steps
    BY <1>18, SucceedsBoolean DEF InstallJournal, CallRecord, PersistFailed,
       Stops, Stages
  <2>. QED
    BY <1>18, <2>1, <2>2, <2>3, <2>4 DEF InstallJournal
<1>19. CASE MoveRecord
  <2>1. disk' \in DiskRecord
    BY <1>19, SucceedsBoolean DEF MoveRecord, DiskRecord, Places
  <2>2. disk'.index = disk.index
    BY <1>19, SucceedsBoolean DEF MoveRecord, DiskRecord
  <2>3. call' \in CallRecord
    BY <1>19, SucceedsBoolean DEF MoveRecord, CallRecord, PersistNext,
       Reverses, Stages
  <2>. QED
    BY <1>19, <2>1, <2>2, <2>3 DEF MoveRecord, PersistNext, Reverses
<1>20. CASE MoveIndex
  <2>1. disk' \in DiskRecord
    BY <1>20, SucceedsBoolean DEF MoveIndex, DiskRecord, Places
  <2>2. \A s \in Segments : disk'.index[s] # "none" => HasIndex(s)
    BY <1>20, SucceedsBoolean DEF MoveIndex, DiskRecord
  <2>3. call' \in CallRecord
    BY <1>20, SucceedsBoolean DEF MoveIndex, CallRecord, PersistNext, Reverses,
       Stages
  <2>. QED
    BY <1>20, <2>1, <2>2, <2>3 DEF MoveIndex, PersistNext, Reverses
<1>21. CASE DeleteRecord
  <2>1. disk' \in DiskRecord
    BY <1>21, SucceedsBoolean DEF DeleteRecord, DiskRecord, Places
  <2>2. disk'.index = disk.index
    BY <1>21, SucceedsBoolean DEF DeleteRecord, DiskRecord
  <2>3. call' \in CallRecord
    BY <1>21, SucceedsBoolean, IdleType DEF DeleteRecord, CallRecord,
       PersistNext, Stops, Stages
  <2>. QED
    BY <1>21, <2>1, <2>2, <2>3 DEF DeleteRecord, PersistNext, Stops
<1>22. CASE DeleteIndex
  <2>1. disk' \in DiskRecord
    BY <1>22, SucceedsBoolean DEF DeleteIndex, DiskRecord, Places
  <2>2. \A s \in Segments : disk'.index[s] # "none" => HasIndex(s)
    BY <1>22, SucceedsBoolean DEF DeleteIndex, DiskRecord
  <2>3. call' \in CallRecord
    BY <1>22, SucceedsBoolean, IdleType DEF DeleteIndex, CallRecord, Stops
  <2>. QED
    BY <1>22, <2>1, <2>2, <2>3 DEF DeleteIndex, Stops
<1>23. CASE DeleteMetadata
  <2>1. call' \in CallRecord
    BY <1>23, SucceedsBoolean DEF DeleteMetadata, CallRecord, PersistNext,
       Stages
  <2>. QED
    BY <1>23, <2>1 DEF DeleteMetadata, PersistNext
<1>24. CASE ClearJournal
  <2>1. disk' \in DiskRecord
    BY <1>24, SucceedsBoolean DEF ClearJournal, DiskRecord
  <2>2. disk'.index = disk.index
    BY <1>24, SucceedsBoolean DEF ClearJournal, DiskRecord
  <2>3. call' \in CallRecord
    <3>1. PICK ok \in BOOLEAN : call' = [call EXCEPT !.ok = ok]
      BY <1>24, SucceedsBoolean DEF ClearJournal
    <3>. QED  BY <3>1 DEF CallRecord
  <2>. QED
    BY <1>24, <2>1, <2>2, <2>3 DEF ClearJournal
<1>25. CASE ClearTemporary
  <2>1. disk' \in DiskRecord
    BY <1>25, SucceedsBoolean DEF ClearTemporary, DiskRecord
  <2>2. disk'.index = disk.index
    BY <1>25, SucceedsBoolean DEF ClearTemporary, DiskRecord
  <2>3. ram' \in RamRecord
    BY <1>25, SucceedsBoolean DEF ClearTemporary, RecoveryReturns, RamRecord,
       Stops
  <2>4. call' \in {Idle, [call EXCEPT !.queue = @ \ {call.seg}, !.goal = @ - 1, !.seg = None]}
    BY <1>25 DEF ClearTemporary, RecoveryReturns, Stops
  <2>5. call.at = "retention" => call.goal > 0
    BY <1>25 DEF ClearTemporary
  <2>6. call' # Idle => call.at = "retention"
    BY <1>25 DEF ClearTemporary, RecoveryReturns, Stops
  <2>7. call' \in CallRecord
    <3>1. CASE call' = Idle
      BY <3>1, IdleType
    <3>2. CASE call' # Idle
      <4>1. call.goal - 1 \in Nat /\ call.queue \ {call.seg} \in SUBSET Segments
        BY <2>5, <2>6, <3>2 DEF CallRecord
      <4>. QED  BY <2>4, <3>2, <4>1 DEF CallRecord
    <3>. QED  BY <3>1, <3>2
  <2>8. pc' \in {"idle", "next"}
    BY <1>25 DEF ClearTemporary, RecoveryReturns, Stops
  <2>. QED
    BY <1>25, <2>1, <2>2, <2>3, <2>4, <2>5, <2>6, <2>7, <2>8 DEF ClearTemporary
<1>26. CASE UNCHANGED vars
  BY <1>26 DEF vars
<1>. QED
  BY <1>1, <1>2, <1>3, <1>4, <1>5, <1>6, <1>7, <1>8, <1>9, <1>10, <1>11, <1>12,
     <1>13, <1>14, <1>15, <1>16, <1>17, <1>18, <1>19, <1>20, <1>21, <1>22,
     <1>23, <1>24, <1>25, <1>26
  DEF Next

\* What the steps of a call find in its locals is kept by every step.
LEMMA SegStep == TypeInv /\ [Next]_vars => SegInv'
<1>. SUFFICES ASSUME TypeInv, [Next]_vars PROVE SegInv'
  OBVIOUS
<1>. USE CleanupAssumption, IdleType, SucceedsBoolean
     DEF world, TypeInv, Typed, SegInv, InTransaction, Steps, CallRecord
<1>1. ASSUME NEW k \in Kinds, OpenSegment(k) PROVE SegInv'
  BY <1>1 DEF OpenSegment
<1>2. ASSUME NEW k \in Kinds, Acknowledge(k) PROVE SegInv'
  BY <1>2 DEF Acknowledge
<1>3. ASSUME NEW s \in Segments, Damage(s) PROVE SegInv'
  BY <1>3 DEF Damage
<1>4. CASE PowerLoss
  BY <1>4 DEF PowerLoss
<1>5. CASE Mount
  BY <1>5 DEF Mount
<1>6. CASE RecoverTemporary
  BY <1>6 DEF RecoverTemporary, RecoveryReturns
<1>7. CASE RecoverRead
  BY <1>7, RecoverReadCases DEF RecoverRead, Entries
<1>8. CASE UndoRecord
  BY <1>8 DEF UndoRecord, RecoverRecord
<1>9. CASE PurgeRecord
  BY <1>9 DEF PurgeRecord, RecoverRecord
<1>10. CASE UndoIndex
  BY <1>10 DEF UndoIndex, RecoverIndex, RecoveryReturns
<1>11. CASE PurgeIndex
  BY <1>11 DEF PurgeIndex, RecoverIndex, RecoveryReturns
<1>12. CASE ApplyRetention
  BY <1>12 DEF ApplyRetention
<1>13. CASE BeginRemoval
  <2>1. First(call.queue) \in Segments
    BY <1>13, FirstInQueue DEF BeginRemoval
  <2>2. \/ pc' = "idle"
        \/ /\ pc' = "persist" /\ call.goal > 0
           /\ call' = [call EXCEPT !.seg = First(call.queue), !.stage = "planned"]
    BY <1>13 DEF BeginRemoval, Stops
  <2>. QED  BY <2>1, <2>2
<1>14. CASE FinishRetention
  BY <1>14 DEF FinishRetention, Stops
<1>15. CASE RemoveOldTemporary
  BY <1>15 DEF RemoveOldTemporary
<1>16. CASE WriteTemporary
  BY <1>16 DEF WriteTemporary, PersistFailed, Stops
<1>17. CASE RemoveOldJournal
  BY <1>17 DEF RemoveOldJournal
<1>18. CASE InstallJournal
  BY <1>18 DEF InstallJournal, PersistFailed, Stops, Stages
<1>19. CASE MoveRecord
  BY <1>19 DEF MoveRecord, PersistNext, Reverses
<1>20. CASE MoveIndex
  BY <1>20 DEF MoveIndex, PersistNext, Reverses
<1>21. CASE DeleteRecord
  BY <1>21 DEF DeleteRecord, PersistNext, Stops
<1>22. CASE DeleteIndex
  BY <1>22 DEF DeleteIndex, Stops
<1>23. CASE DeleteMetadata
  BY <1>23 DEF DeleteMetadata, PersistNext
<1>24. CASE ClearJournal
  BY <1>24 DEF ClearJournal
<1>25. CASE ClearTemporary
  BY <1>25 DEF ClearTemporary, RecoveryReturns, Stops
<1>26. CASE UNCHANGED vars
  BY <1>26 DEF vars
<1>. QED
  BY <1>1, <1>2, <1>3, <1>4, <1>5, <1>6, <1>7, <1>8, <1>9, <1>10, <1>11, <1>12,
     <1>13, <1>14, <1>15, <1>16, <1>17, <1>18, <1>19, <1>20, <1>21, <1>22,
     <1>23, <1>24, <1>25, <1>26
  DEF Next

-----------------------------------------------------------------------------
(* Only acknowledged segments outside the newest three are ever touched     *)

\* Acknowledged, and at least three segments of its kind are newer.
Releasable(s) == s.n <= acked[s.kind] /\ s.n + 3 <= created[s.kind]

\* Only segments that were opened have a record.
OpenedInv ==
  /\ \A k \in Kinds : created[k] <= MaxSegments
  /\ \A s \in Segments : disk.record[s] # "none" => s.n <= created[s.kind]

\* Whatever is in the trash, planned, journalled or being removed is
\* releasable.
ReleaseInv ==
  /\ \A s \in Segments : disk.record[s] = "trash" => Releasable(s)
  /\ \A s \in call.queue : Releasable(s)
  /\ InTransaction => Releasable(call.seg)
  /\ disk.journal \in Entries => Releasable(disk.journal.seg)
  /\ disk.tmp \in Entries => Releasable(disk.tmp.seg)

\* What applyRetention selects is acknowledged, and the segment being written
\* and the two newest closed ones are newer.
LEMMA PlannedIsReleasable ==
  ASSUME Typed, OpenedInv, NEW s \in Segments, NEW context \in Contexts,
         Eligible(s, context), Loaded(s) \/ Inspected(s),
         s \in Live(s.kind) \ (Active(s.kind) \cup MinimumWindow(s.kind))
  PROVE  Releasable(s)
<1>. DEFINE k == s.kind
            closed == Live(k) \ Active(k)
            Newer == {t \in closed : LastSequence(t) > LastSequence(s)}
            Numbers == {LastSequence(t) : t \in Live(k)}
<1>0. \A t \in Segments : /\ t.kind \in Kinds /\ t.n \in Nat \ {0}
                          /\ t = [kind |-> t.kind, n |-> t.n]
  BY CleanupAssumption DEF Segments
<1>1. \A t \in Live(k) : /\ t \in Segments /\ t.kind = k
                         /\ t.n <= created[k]
                         /\ LastSequence(t) \in {0, t.n}
  BY DEF Live, OpenedInv, LastSequence
<1>2. LastSequence(s) = s.n
  BY DEF LastSequence, Inspected
<1>3. PICK t1 \in Newer, t2 \in Newer : t1 # t2
  <2>1. ~(Cardinality(Newer) < 2)
    BY DEF MinimumWindow
  <2>2. Newer # {}
    BY <2>1, FS_EmptySet
  <2>3. PICK t1 \in Newer : TRUE
    BY <2>2
  <2>4. Newer # {t1}
    BY <2>1, FS_Singleton
  <2>. QED  BY <2>3, <2>4
<1>4. PICK a \in Live(k) : \A t \in Live(k) : LastSequence(t) <= LastSequence(a)
  <2>1. Numbers \in SUBSET Nat /\ LastSequence(s) \in Numbers
    BY <1>0, <1>1
  <2>2. created[k] \in Nat /\ \A n \in Numbers : n <= created[k]
    BY <1>0, <1>1 DEF Typed
  <2>3. PICK m \in Numbers : \A n \in Numbers : n <= m
    BY <2>1, <2>2, GreatestNatural
  <2>. QED  BY <2>3
<1>5. s.n < t1.n /\ s.n < t2.n /\ t1.n # t2.n
  BY <1>0, <1>1, <1>2, <1>3
<1>6. LastSequence(t1) = t1.n /\ LastSequence(t2) = t2.n
  BY <1>0, <1>1, <1>2, <1>3
<1>7. LastSequence(a) = a.n
  BY <1>0, <1>1, <1>3, <1>4, <1>5, <1>6
<1>8. a \in Active(k)
  BY <1>0, <1>1, <1>4, <1>7 DEF Active
<1>9. a # t1 /\ a # t2
  BY <1>3, <1>8
<1>10. t1.n < a.n /\ t2.n < a.n
  BY <1>0, <1>1, <1>3, <1>4, <1>6, <1>7, <1>9
<1>11. s.n + 3 <= a.n
  BY <1>0, <1>1, <1>3, <1>4, <1>5, <1>10
<1>12. s.n + 3 <= created[k]
  BY <1>0, <1>1, <1>4, <1>11 DEF Typed
<1>. QED  BY <1>12 DEF Releasable, Eligible

\* The server's cursors and the numbers of segments never go back.
LEMMA CountersGrow ==
  ASSUME TypeInv, [Next]_vars
  PROVE  \A k \in Kinds : acked[k] <= acked'[k] /\ created[k] <= created'[k]
<1>. USE DEF TypeInv, Typed, world
<1>1. ASSUME NEW k \in Kinds, OpenSegment(k)
      PROVE  \A j \in Kinds : acked[j] <= acked'[j] /\ created[j] <= created'[j]
  BY <1>1 DEF OpenSegment
<1>2. ASSUME NEW k \in Kinds, Acknowledge(k)
      PROVE  \A j \in Kinds : acked[j] <= acked'[j] /\ created[j] <= created'[j]
  BY <1>2, CleanupAssumption DEF Acknowledge
<1>3. CASE acked' = acked /\ created' = created
  BY <1>3
<1>. QED
  BY <1>1, <1>2, <1>3
  DEF Next, vars, Damage, PowerLoss, Mount, RecoverTemporary, RecoverRead,
      UndoRecord, PurgeRecord, UndoIndex, PurgeIndex, ApplyRetention,
      BeginRemoval, FinishRetention, RemoveOldTemporary, WriteTemporary,
      RemoveOldJournal, InstallJournal, MoveRecord, MoveIndex, DeleteRecord,
      DeleteIndex, DeleteMetadata, ClearJournal, ClearTemporary, RecoverRecord,
      RecoverIndex

\* Where the segments that a step handles come from.
Provenance ==
  /\ \A s \in Segments :
       disk'.record[s] = "trash" =>
         disk.record[s] = "trash" \/ (InTransaction /\ s = call.seg)
  /\ \A s \in Segments :
       disk'.record[s] # "none" =>
         \/ disk.record[s] # "none" \/ (InTransaction /\ s = call.seg)
         \/ s.n <= created'[s.kind]
  /\ InTransaction' => \/ InTransaction /\ call'.seg = call.seg
                       \/ disk.journal \in Entries /\ call'.seg = disk.journal.seg
                       \/ call'.seg \in call.queue
  /\ disk'.journal \in Entries => disk'.journal \in {disk.journal, disk.tmp}
  /\ disk'.tmp \in Entries => \/ disk'.tmp = disk.tmp
                              \/ InTransaction /\ disk'.tmp.seg = call.seg

\* No step takes a segment out of thin air.
LEMMA ProvenanceStep == TypeInv /\ [Next]_vars => Provenance
<1>. SUFFICES ASSUME TypeInv, [Next]_vars PROVE Provenance
  OBVIOUS
<1>. USE CleanupAssumption, MarkAssumption, SucceedsBoolean
     DEF world, TypeInv, Typed, SegInv, InTransaction, Steps, CallRecord,
         DiskRecord, Provenance
<1>1. ASSUME NEW k \in Kinds, OpenSegment(k) PROVE Provenance
  BY <1>1 DEF OpenSegment, Segments
<1>2. ASSUME NEW k \in Kinds, Acknowledge(k) PROVE Provenance
  BY <1>2 DEF Acknowledge
<1>3. ASSUME NEW s \in Segments, Damage(s) PROVE Provenance
  BY <1>3 DEF Damage
<1>4. CASE PowerLoss
  BY <1>4 DEF PowerLoss
<1>5. CASE Mount
  BY <1>5 DEF Mount
<1>6. CASE RecoverTemporary
  <2>1. disk' \in {disk, [disk EXCEPT !.tmp = None,
                            !.journal = IF @ # None THEN @ ELSE disk.tmp]}
    BY <1>6 DEF RecoverTemporary
  <2>2. /\ disk'.record = disk.record /\ disk'.tmp \in {disk.tmp, None}
        /\ disk'.journal \in {disk.journal, disk.tmp}
    BY <2>1
  <2>3. \/ pc' = "idle"
        \/ pc' = "recover_read" /\ call' = call /\ disk'.tmp = None
    BY <1>6, <2>1 DEF RecoverTemporary, RecoveryReturns
  <2>. QED  BY <2>2, <2>3
<1>7. CASE RecoverRead
  <2>1. disk' = disk
    BY <1>7 DEF RecoverRead
  <2>2. InTransaction' => disk.journal \in Entries /\ call'.seg = disk.journal.seg
    <3>. HIDE DEF Provenance, DiskRecord
    <3>. QED  BY <1>7, RecoverReadCases
  <2>. QED  BY <2>1, <2>2
<1>8. CASE UndoRecord
  BY <1>8 DEF UndoRecord, RecoverRecord
<1>9. CASE PurgeRecord
  BY <1>9 DEF PurgeRecord, RecoverRecord
<1>10. CASE UndoIndex
  <2>1. disk' \in {disk, [disk EXCEPT !.index[call.seg] = "live"]}
    BY <1>10 DEF UndoIndex, RecoverIndex
  <2>2. /\ disk'.record = disk.record /\ disk'.tmp = disk.tmp
        /\ disk'.journal = disk.journal
    BY <2>1
  <2>3. InTransaction /\ (InTransaction' => call'.seg = call.seg)
    BY <1>10 DEF UndoIndex, RecoverIndex, RecoveryReturns
  <2>. QED  BY <2>2, <2>3
<1>11. CASE PurgeIndex
  <2>1. disk' \in {disk, [disk EXCEPT !.index[call.seg] = "none"]}
    BY <1>11 DEF PurgeIndex, RecoverIndex
  <2>2. /\ disk'.record = disk.record /\ disk'.tmp = disk.tmp
        /\ disk'.journal = disk.journal
    BY <2>1
  <2>3. InTransaction /\ (InTransaction' => call'.seg = call.seg)
    BY <1>11 DEF PurgeIndex, RecoverIndex, RecoveryReturns
  <2>. QED  BY <2>2, <2>3
<1>12. CASE ApplyRetention
  BY <1>12 DEF ApplyRetention
<1>13. CASE BeginRemoval
  <2>1. First(call.queue) \in call.queue
    BY <1>13, FirstInQueue DEF BeginRemoval
  <2>. QED  BY <1>13, <2>1 DEF BeginRemoval, Stops
<1>14. CASE FinishRetention
  BY <1>14 DEF FinishRetention, Stops
<1>15. CASE RemoveOldTemporary
  BY <1>15 DEF RemoveOldTemporary
<1>16. CASE WriteTemporary
  BY <1>16 DEF WriteTemporary, PersistFailed, Stops
<1>17. CASE RemoveOldJournal
  BY <1>17 DEF RemoveOldJournal
<1>18. CASE InstallJournal
  <2>0. disk' \in {disk, [disk EXCEPT !.journal = disk.tmp, !.tmp = None]}
    BY <1>18 DEF InstallJournal
  <2>1. disk'.record = disk.record
    BY <2>0
  <2>2. InTransaction' => InTransaction /\ call'.seg = call.seg
    BY <1>18 DEF InstallJournal, PersistFailed, Stops
  <2>3. disk'.tmp \in {None, disk.tmp} /\ disk'.journal \in {disk.journal, disk.tmp}
    BY <1>18 DEF InstallJournal
  <2>. QED  BY <2>1, <2>2, <2>3
<1>19. CASE MoveRecord
  BY <1>19 DEF MoveRecord, PersistNext, Reverses
<1>20. CASE MoveIndex
  BY <1>20 DEF MoveIndex, PersistNext, Reverses
<1>21. CASE DeleteRecord
  BY <1>21 DEF DeleteRecord, PersistNext, Stops
<1>22. CASE DeleteIndex
  BY <1>22 DEF DeleteIndex, Stops
<1>23. CASE DeleteMetadata
  BY <1>23 DEF DeleteMetadata, PersistNext
<1>24. CASE ClearJournal
  BY <1>24 DEF ClearJournal
<1>25. CASE ClearTemporary
  <2>1. disk' \in {disk, [disk EXCEPT !.tmp = None]}
    BY <1>25 DEF ClearTemporary
  <2>2. /\ disk'.record = disk.record /\ disk'.tmp \in {disk.tmp, None}
        /\ disk'.journal = disk.journal
    BY <2>1
  <2>3. pc' \in {"idle", "next"}
    BY <1>25 DEF ClearTemporary, RecoveryReturns, Stops
  <2>. QED  BY <2>2, <2>3
<1>26. CASE UNCHANGED vars
  BY <1>26 DEF vars
<1>. QED
  BY <1>1, <1>2, <1>3, <1>4, <1>5, <1>6, <1>7, <1>8, <1>9, <1>10, <1>11, <1>12,
     <1>13, <1>14, <1>15, <1>16, <1>17, <1>18, <1>19, <1>20, <1>21, <1>22,
     <1>23, <1>24, <1>25, <1>26
  DEF Next

\* Between two calls nothing is queued.
LEMMA IdleQueue == Idle.queue = {}
  BY DEF Idle

\* A queue is planned from releasable segments and only shrinks.
LEMMA QueueStep ==
  ASSUME TypeInv, OpenedInv, ReleaseInv, [Next]_vars
  PROVE  \A s \in call'.queue : s \in Segments /\ Releasable(s)
<1>. USE DEF TypeInv, Typed, CallRecord
<1>1. CASE ApplyRetention
  <2>1. CASE pc' = "idle"
    BY <1>1, <2>1, PlanType, IdleQueue
  <2>2. CASE pc' = "next"
    <3>1. ASSUME NEW s \in call'.queue PROVE s \in Segments /\ Releasable(s)
      <4>1. s \in Segments
        BY <1>1, PlanType
      <4>2. PICK context \in Contexts :
              /\ Eligible(s, context)
              /\ Loaded(s) \/ Inspected(s)
              /\ s \in Live(s.kind) \ (Active(s.kind) \cup MinimumWindow(s.kind))
        BY <1>1, <2>2, PlanType
      <4>. QED  BY <4>1, <4>2, PlannedIsReleasable
    <3>. QED  BY <3>1
  <2>. QED  BY <1>1, <2>1, <2>2, PlanType
<1>2. CASE call'.queue \subseteq call.queue
  BY <1>2 DEF ReleaseInv
<1>3. ~ApplyRetention => call'.queue \subseteq call.queue
  <2>. USE IdleQueue DEF SegInv, InTransaction, Steps
  <2>1. CASE ClearTemporary
    <3>. HIDE DEF CallRecord, SegInv
    <3>1. call' \in {Idle, [call EXCEPT !.queue = @ \ {call.seg},
                                        !.goal = @ - 1, !.seg = None]}
      BY <2>1 DEF ClearTemporary, RecoveryReturns, Stops
    <3>2. [call EXCEPT !.queue = @ \ {call.seg}, !.goal = @ - 1,
                       !.seg = None].queue = call.queue \ {call.seg}
      BY DEF CallRecord
    <3>. QED  BY <3>1, <3>2
  <2>2. CASE RecoverRead
    <3>. HIDE DEF CallRecord
    <3>1. call' \in {Idle, [call EXCEPT !.seg = disk.journal.seg, !.ok = TRUE]}
      BY <2>2, RecoverReadCases DEF TypeInv
    <3>. QED  BY <3>1 DEF CallRecord
  <2>3. CASE InstallJournal
    BY <2>3 DEF InstallJournal, PersistFailed, Stops
  <2>4. CASE UndoRecord \/ PurgeRecord \/ ClearJournal
    BY <2>4 DEF UndoRecord, PurgeRecord, RecoverRecord, ClearJournal
  <2>5. CASE UndoIndex \/ PurgeIndex
    BY <2>5 DEF UndoIndex, PurgeIndex, RecoverIndex, RecoveryReturns
  <2>6. CASE RecoverTemporary
    BY <2>6 DEF RecoverTemporary, RecoveryReturns
  <2>7. CASE WriteTemporary
    BY <2>7 DEF WriteTemporary, PersistFailed, Stops
  <2>8. CASE MoveRecord \/ MoveIndex
    BY <2>8 DEF MoveRecord, MoveIndex, PersistNext, Reverses
  <2>9. CASE DeleteRecord \/ DeleteIndex \/ DeleteMetadata
    BY <2>9 DEF DeleteRecord, DeleteIndex, DeleteMetadata, PersistNext, Stops
  <2>10. CASE PowerLoss \/ BeginRemoval \/ FinishRetention
    BY <2>10 DEF PowerLoss, BeginRemoval, FinishRetention, Stops
  <2>11. CASE Mount
    <3>1. [Idle EXCEPT !.at = "mount"].queue = {}
      BY DEF Idle
    <3>. QED  BY <2>11, <3>1 DEF Mount
  <2>12. CASE UNCHANGED call
    BY <2>12
  <2>. QED
    BY <2>1, <2>2, <2>3, <2>4, <2>5, <2>6, <2>7, <2>8, <2>9, <2>10, <2>11,
       <2>12
    DEF Next, vars, OpenSegment, Acknowledge, Damage, RemoveOldTemporary,
        RemoveOldJournal
<1>. QED  BY <1>1, <1>2, <1>3

\* Only what applyRetention selected is moved, deleted or journalled.
LEMMA ReleaseStep ==
  TypeInv /\ OpenedInv /\ ReleaseInv /\ [Next]_vars => OpenedInv' /\ ReleaseInv'
<1>. SUFFICES ASSUME TypeInv, OpenedInv, ReleaseInv, [Next]_vars
              PROVE  OpenedInv' /\ ReleaseInv'
  OBVIOUS
<1>1. \A s \in Segments : s.kind \in Kinds /\ s.n \in Nat
  BY CleanupAssumption DEF Segments
<1>2. /\ acked \in [Kinds -> Nat] /\ created \in [Kinds -> Nat]
      /\ acked' \in [Kinds -> Nat] /\ created' \in [Kinds -> Nat]
      /\ Typed'
  BY TypeStep DEF TypeInv, Typed
<1>3. \A k \in Kinds : acked[k] <= acked'[k] /\ created[k] <= created'[k]
  BY CountersGrow
<1>4. \A s \in Segments : Releasable(s) => /\ s.n <= acked'[s.kind]
                                           /\ s.n + 3 <= created'[s.kind]
                                           /\ s.n <= created[s.kind]
  BY <1>1, <1>2, <1>3 DEF Releasable
<1>5. Provenance
  BY ProvenanceStep
<1>6. \A e \in Entries : e.seg \in Segments
  BY DEF Entries
<1>7. InTransaction => call.seg \in Segments
  BY DEF TypeInv, SegInv
<1>8. \A s \in Segments : disk'.record[s] # "none" => s.n <= created'[s.kind]
  BY <1>1, <1>2, <1>3, <1>4, <1>5 DEF OpenedInv, ReleaseInv, Provenance
<1>9. \A k \in Kinds : created'[k] <= MaxSegments
  <2>1. ASSUME NEW k \in Kinds, OpenSegment(k)
        PROVE  \A j \in Kinds : created'[j] <= MaxSegments
    BY <1>2, <2>1, CleanupAssumption DEF OpenSegment, OpenedInv
  <2>2. CASE created' = created
    BY <2>2 DEF OpenedInv
  <2>. QED
    BY <2>1, <2>2
    DEF Next, vars, Damage, Acknowledge, world, PowerLoss, Mount,
        RecoverTemporary, RecoverRead, UndoRecord, PurgeRecord, UndoIndex,
        PurgeIndex, ApplyRetention, BeginRemoval, FinishRetention,
        RemoveOldTemporary, WriteTemporary, RemoveOldJournal, InstallJournal,
        MoveRecord, MoveIndex, DeleteRecord, DeleteIndex, DeleteMetadata,
        ClearJournal, ClearTemporary, RecoverRecord, RecoverIndex
<1>10. \A s \in Segments : disk'.record[s] = "trash" => Releasable(s)'
  BY <1>4, <1>5 DEF ReleaseInv, Provenance, Releasable
<1>11. \A s \in call'.queue : Releasable(s)'
  BY <1>4, QueueStep DEF Releasable
<1>12. (InTransaction => Releasable(call.seg))'
  <2>1. \A s \in call.queue : s \in Segments
    BY DEF TypeInv, Typed, CallRecord
  <2>. QED
    BY <1>4, <1>5, <1>6, <1>7, <2>1 DEF ReleaseInv, Provenance, Releasable
<1>13. (disk.journal \in Entries => Releasable(disk.journal.seg))'
  BY <1>4, <1>5, <1>6 DEF ReleaseInv, Provenance, Releasable
<1>14. (disk.tmp \in Entries => Releasable(disk.tmp.seg))'
  BY <1>4, <1>5, <1>6, <1>7 DEF ReleaseInv, Provenance, Releasable
<1>. QED
  BY <1>8, <1>9, <1>10, <1>11, <1>12, <1>13, <1>14 DEF OpenedInv, ReleaseInv

-----------------------------------------------------------------------------
(* The order of the journal and the files it is about                       *)

Entry(stage, s) == [stage |-> stage, seg |-> s]
Persisting == pc \in {"persist", "write", "replace", "install"}

\* A temporary that is still to be installed as "planned" is about a segment
\* that no one has touched, and a recovery only puts back what the installed
\* journal calls "planned".
OrderInv ==
  /\ disk.tmp \in Entries /\ disk.tmp.stage = "planned" =>
       disk.record[disk.tmp.seg] = "live"
  /\ Persisting /\ call.stage = "planned" => disk.record[call.seg] = "live"
  /\ pc = "move_record" => disk.record[call.seg] = "live"
  /\ pc \in {"move_record", "delete_record"} => disk.tmp = None
  /\ pc = "undo_record" => disk.journal = Entry("planned", call.seg)

\* A planned removal is only ever reversed, a later one only carried on.
LEMMA PlannedIsReversed ==
  \A stage, s, record, index :
    /\ cleanupRecoveryAction(stage, s, record, index) = "reverse" =>
         stage = "planned"
    /\ cleanupRecoveryAction(stage, s, record, index) = "forward" =>
         stage # "planned"
<1>. SUFFICES ASSUME NEW stage, NEW s, NEW record, NEW index
              PROVE  IF stage = "planned"
                       THEN cleanupRecoveryAction(stage, s, record, index)
                              # "forward"
                       ELSE cleanupRecoveryAction(stage, s, record, index)
                              # "reverse"
  BY Zenon
<1>. QED  BY DEF cleanupRecoveryAction

\* persistCleanupJournal comes before the move, and recoverCleanupJournal
\* reverses only what is planned.
LEMMA OrderStep == TypeInv /\ OrderInv /\ [Next]_vars => OrderInv'
<1>. SUFFICES ASSUME TypeInv, OrderInv, [Next]_vars PROVE OrderInv'
  OBVIOUS
<1>. USE CleanupAssumption, MarkAssumption, SucceedsBoolean
     DEF world, TypeInv, Typed, SegInv, InTransaction, Steps, CallRecord,
         DiskRecord, Entries, Stages, OrderInv, Persisting, Entry
<1>1. ASSUME NEW k \in Kinds, OpenSegment(k) PROVE OrderInv'
  BY <1>1 DEF OpenSegment, Segments
<1>2. ASSUME NEW k \in Kinds, Acknowledge(k) PROVE OrderInv'
  BY <1>2 DEF Acknowledge
<1>3. ASSUME NEW s \in Segments, Damage(s) PROVE OrderInv'
  BY <1>3 DEF Damage
<1>4. CASE PowerLoss
  BY <1>4 DEF PowerLoss
<1>5. CASE Mount
  BY <1>5 DEF Mount
<1>6. CASE RecoverTemporary
  <2>1. disk' \in {disk, [disk EXCEPT !.tmp = None,
                            !.journal = IF @ # None THEN @ ELSE disk.tmp]}
    BY <1>6 DEF RecoverTemporary
  <2>2. /\ disk'.record = disk.record /\ disk'.tmp \in {disk.tmp, None}
        /\ disk'.journal \in {disk.journal, disk.tmp}
    BY <2>1
  <2>3. \/ pc' = "idle"
        \/ pc' = "recover_read" /\ call' = call /\ disk'.tmp = None
    BY <1>6, <2>1 DEF RecoverTemporary, RecoveryReturns
  <2>. QED  BY <2>2, <2>3
<1>7. CASE RecoverRead
  <2>1. disk' = disk
    BY <1>7 DEF RecoverRead
  <2>2. pc' \in {"idle", "undo_record", "purge_record", "clear_journal"}
    BY <1>7, RecoverReadCases
  <2>3. pc' = "undo_record" => disk.journal = Entry("planned", call'.seg)
    <3>. SUFFICES ASSUME pc' = "undo_record"
                  PROVE  disk.journal = Entry("planned", call'.seg)
      OBVIOUS
    <3>1. /\ disk.journal \in Entries
          /\ call' = [call EXCEPT !.seg = disk.journal.seg, !.ok = TRUE]
          /\ cleanupRecoveryAction(disk.journal.stage, disk.journal.seg,
                                   disk.record, disk.index) = "reverse"
      BY <1>7, RecoverReadCases
    <3>2. disk.journal.stage = "planned"
      BY <3>1, PlannedIsReversed
    <3>. QED  BY <3>1, <3>2
  <2>. QED  BY <2>1, <2>2, <2>3
<1>8. CASE UndoRecord
  BY <1>8 DEF UndoRecord, RecoverRecord
<1>9. CASE PurgeRecord
  BY <1>9 DEF PurgeRecord, RecoverRecord
<1>10. CASE UndoIndex
  <2>1. disk' \in {disk, [disk EXCEPT !.index[call.seg] = "live"]}
    BY <1>10 DEF UndoIndex, RecoverIndex
  <2>2. disk'.record = disk.record /\ disk'.tmp = disk.tmp
    BY <2>1
  <2>3. pc' \in {"idle", "clear_journal"}
    BY <1>10 DEF UndoIndex, RecoverIndex, RecoveryReturns
  <2>. QED  BY <2>2, <2>3
<1>11. CASE PurgeIndex
  <2>1. disk' \in {disk, [disk EXCEPT !.index[call.seg] = "none"]}
    BY <1>11 DEF PurgeIndex, RecoverIndex
  <2>2. disk'.record = disk.record /\ disk'.tmp = disk.tmp
    BY <2>1
  <2>3. pc' \in {"idle", "clear_journal"}
    BY <1>11 DEF PurgeIndex, RecoverIndex, RecoveryReturns
  <2>. QED  BY <2>2, <2>3
<1>12. CASE ApplyRetention
  BY <1>12 DEF ApplyRetention
<1>13. CASE BeginRemoval
  BY <1>13 DEF BeginRemoval, Stops
<1>14. CASE FinishRetention
  BY <1>14 DEF FinishRetention, Stops
<1>15. CASE RemoveOldTemporary
  BY <1>15 DEF RemoveOldTemporary
<1>16. CASE WriteTemporary
  BY <1>16 DEF WriteTemporary, PersistFailed, Stops
<1>17. CASE RemoveOldJournal
  BY <1>17 DEF RemoveOldJournal
<1>18. CASE InstallJournal
  <2>1. disk' \in {disk, [disk EXCEPT !.journal = disk.tmp, !.tmp = None]}
    BY <1>18 DEF InstallJournal
  <2>2. disk'.record = disk.record /\ disk'.tmp \in {disk.tmp, None}
    BY <2>1
  <2>3. CASE pc' \in {"idle", "recover_tmp"}
    BY <2>2, <2>3
  <2>4. CASE pc' \notin {"idle", "recover_tmp"}
    <3>1. /\ call' = [call EXCEPT !.ok = TRUE]
          /\ disk' = [disk EXCEPT !.journal = disk.tmp, !.tmp = None]
      BY <1>18, <2>4 DEF InstallJournal, PersistFailed, Stops
    <3>2. call'.seg = call.seg /\ disk'.tmp = None
      BY <3>1
    <3>3. pc' \in {"move_record", "delete_record", "delete_index",
                   "delete_metadata", "clear_journal"}
      BY <1>18, <2>4 DEF InstallJournal, PersistFailed, Stops
    <3>4. pc' = "move_record" => disk.record[call.seg] = "live"
      BY <1>18 DEF InstallJournal, PersistFailed, Stops
    <3>. QED  BY <2>2, <3>2, <3>3, <3>4
  <2>. QED  BY <2>3, <2>4
<1>19. CASE MoveRecord
  BY <1>19 DEF MoveRecord, PersistNext, Reverses
<1>20. CASE MoveIndex
  BY <1>20 DEF MoveIndex, PersistNext, Reverses
<1>21. CASE DeleteRecord
  BY <1>21 DEF DeleteRecord, PersistNext, Stops
<1>22. CASE DeleteIndex
  BY <1>22 DEF DeleteIndex, Stops
<1>23. CASE DeleteMetadata
  BY <1>23 DEF DeleteMetadata, PersistNext
<1>24. CASE ClearJournal
  BY <1>24 DEF ClearJournal
<1>25. CASE ClearTemporary
  BY <1>25 DEF ClearTemporary, RecoveryReturns, Stops
<1>26. CASE UNCHANGED vars
  BY <1>26 DEF vars
<1>. QED
  BY <1>1, <1>2, <1>3, <1>4, <1>5, <1>6, <1>7, <1>8, <1>9, <1>10, <1>11, <1>12,
     <1>13, <1>14, <1>15, <1>16, <1>17, <1>18, <1>19, <1>20, <1>21, <1>22,
     <1>23, <1>24, <1>25, <1>26
  DEF Next

-----------------------------------------------------------------------------
(* A removal that no other one overran: what the journal says of the files  *)

Files(s, record, index) ==
  disk.record[s] = record /\ (HasIndex(s) => disk.index[s] = index)

\* The files of the segment while the entry of a stage is being written.
StageFiles(stage, s) ==
  CASE stage = "planned" -> Files(s, "live", "live")
    [] stage = "files_moved" -> Files(s, "trash", "trash")
    [] stage = "record_deleted" -> Files(s, "none", "trash")
    [] stage = "complete" -> Files(s, "none", "none")

\* The entry that is installed while the one of call.stage is being written.
Installed ==
  CASE call.stage = "planned" -> None
    [] call.stage = "files_moved" -> Entry("planned", call.seg)
    [] call.stage = "record_deleted" -> Entry("files_moved", call.seg)
    [] call.stage = "complete" -> Entry("record_deleted", call.seg)

\* Journal, temporary and files at each step.
StepInv ==
  /\ pc \in {"persist", "write", "replace"} => disk.journal = Installed
  /\ pc = "install" => disk.journal \in {None, Installed}
  /\ Persisting => StageFiles(call.stage, call.seg)
  /\ pc \in {"replace", "install"} => disk.tmp = Entry(call.stage, call.seg)
  /\ pc \in Steps \ {"off", "idle", "recover_tmp", "next", "replace", "install"}
       => disk.tmp = None
  /\ pc \in {"move_record", "move_index", "undo_record", "undo_index"}
       => disk.journal = Entry("planned", call.seg)
  /\ pc = "move_record" => Files(call.seg, "live", "live")
  /\ pc = "move_index" => Files(call.seg, "trash", "live")
  /\ pc = "delete_record" => /\ disk.journal = Entry("files_moved", call.seg)
                             /\ Files(call.seg, "trash", "trash")
  /\ pc = "delete_index" => /\ disk.journal = Entry("record_deleted", call.seg)
                            /\ Files(call.seg, "none", "trash")
                            /\ HasIndex(call.seg)
  /\ pc = "delete_metadata" => /\ disk.journal = Entry("record_deleted", call.seg)
                               /\ Files(call.seg, "none", "none")
  /\ pc \in {"purge_record", "purge_index", "clear_journal"}
       => disk.journal \in Entries /\ disk.journal.seg = call.seg
  /\ pc \in {"purge_record", "purge_index"} => disk.journal.stage # "planned"
  /\ pc = "undo_index" /\ call.ok => disk.record[call.seg] = "live"
  /\ pc = "purge_index" /\ call.ok => disk.record[call.seg] = "none"
  /\ pc = "clear_journal" => \/ Files(call.seg, "live", "live")
                             \/ Files(call.seg, "none", "none")

\* The files of the segment that a recovery would find in the journal.
Consistent ==
  Recoverable \in Entries =>
    IF Recoverable.stage = "planned"
      THEN /\ disk.record[Recoverable.seg] # "none"
           /\ HasIndex(Recoverable.seg) => disk.index[Recoverable.seg] # "none"
      ELSE /\ disk.record[Recoverable.seg] # "live"
           /\ HasIndex(Recoverable.seg) => disk.index[Recoverable.seg] # "live"

\* The three of them, while no removal overran another one.
JournalInv == ~overrun => StepInv /\ Consistent /\ SplitPairIsJournalled

\* A journal is cleared only when its segment is whole.
LEMMA ClearedIsWhole ==
  ASSUME Typed, NEW e \in Entries,
         cleanupRecoveryAction(e.stage, e.seg, disk.record, disk.index) = "clear"
  PROVE  Files(e.seg, "live", "live") \/ Files(e.seg, "none", "none")
<1>1. /\ disk.record[e.seg] \in {"none", "live", "trash"}
      /\ disk.index[e.seg] \in {"none", "live", "trash"}
  BY DEF Typed, DiskRecord, Entries, Places
<1>2. CASE e.stage = "planned"
  BY <1>1, <1>2 DEF cleanupRecoveryAction, Files
<1>3. CASE e.stage # "planned"
  BY <1>1, <1>3 DEF cleanupRecoveryAction, Files
<1>. QED  BY <1>2, <1>3

\* Each step of removeSegmentTransactionally and recoverCleanupJournal leaves
\* journal and files as the next one expects them.
LEMMA StepInvStep ==
  TypeInv /\ ~overrun' /\ ~overrun /\ StepInv /\ Consistent /\ [Next]_vars
    => StepInv'
<1>. SUFFICES ASSUME TypeInv, ~overrun', ~overrun, StepInv, Consistent, [Next]_vars PROVE StepInv'
  OBVIOUS
<1>. USE CleanupAssumption, MarkAssumption, SucceedsBoolean
     DEF world, TypeInv, Typed, SegInv, InTransaction, Steps, CallRecord,
         DiskRecord, Entries, Stages, StepInv, Persisting, Entry, Files,
         StageFiles, Installed
<1>1. ASSUME NEW k \in Kinds, OpenSegment(k) PROVE StepInv'
  BY <1>1 DEF OpenSegment
<1>2. ASSUME NEW k \in Kinds, Acknowledge(k) PROVE StepInv'
  BY <1>2 DEF Acknowledge
<1>3. ASSUME NEW s \in Segments, Damage(s) PROVE StepInv'
  BY <1>3 DEF Damage
<1>4. CASE PowerLoss
  BY <1>4 DEF PowerLoss
<1>5. CASE Mount
  BY <1>5 DEF Mount
<1>6. CASE RecoverTemporary
  <2>1. disk' \in {disk, [disk EXCEPT !.tmp = None,
                            !.journal = IF @ # None THEN @ ELSE disk.tmp]}
    BY <1>6 DEF RecoverTemporary
  <2>2. /\ disk'.record = disk.record /\ disk'.tmp \in {disk.tmp, None}
        /\ disk'.journal \in {disk.journal, disk.tmp}
    BY <2>1
  <2>3. \/ pc' = "idle"
        \/ pc' = "recover_read" /\ call' = call /\ disk'.tmp = None
    <3>. HIDE DEF StepInv, StageFiles, Installed, CallRecord
    <3>. QED  BY <1>6, <2>1 DEF RecoverTemporary, RecoveryReturns
  <2>. QED  BY <2>2, <2>3
<1>7. CASE RecoverRead
  <2>1. disk' = disk /\ pc = "recover_read"
    BY <1>7 DEF RecoverRead
  <2>2. CASE pc' = "idle"
    BY <2>2
  <2>3. CASE pc' # "idle"
    <3>. DEFINE J == disk.journal
                action == cleanupRecoveryAction(J.stage, J.seg,
                                                disk.record, disk.index)
    <3>. HIDE DEF StepInv
    <3>1. /\ J \in Entries
          /\ call' = [call EXCEPT !.seg = J.seg, !.ok = TRUE]
          /\ action \in {"reverse", "forward", "clear"}
          /\ pc' = CASE action = "reverse" -> "undo_record"
                     [] action = "forward" -> "purge_record"
                     [] action = "clear" -> "clear_journal"
      BY <1>7, <2>3, RecoverReadCases
    <3>2. call'.seg = J.seg /\ disk.tmp = None
      BY <2>1, <3>1 DEF StepInv
    <3>3. Recoverable = J
      BY <3>1 DEF Recoverable
    <3>4. CASE action = "reverse"
      <4>1. J = Entry("planned", call'.seg) /\ pc' = "undo_record"
        BY <3>1, <3>2, <3>4, PlannedIsReversed
      <4>. QED  BY <2>1, <3>1, <3>2, <4>1 DEF StepInv
    <3>5. CASE action = "forward"
      <4>1. J.stage # "planned" /\ pc' = "purge_record"
        BY <3>1, <3>5, PlannedIsReversed
      <4>. QED  BY <2>1, <3>1, <3>2, <4>1 DEF StepInv
    <3>6. CASE action = "clear"
      <4>1. pc' = "clear_journal"
        BY <3>1, <3>6
      <4>2. Files(J.seg, "live", "live") \/ Files(J.seg, "none", "none")
        BY <3>1, <3>6, ClearedIsWhole
      <4>. QED  BY <2>1, <3>1, <3>2, <4>1, <4>2 DEF StepInv
    <3>. QED  BY <3>1, <3>4, <3>5, <3>6
  <2>. QED  BY <2>2, <2>3
<1>8. CASE UndoRecord
  <2>1. disk' \in {disk, [disk EXCEPT !.record[call.seg] = "live"]}
    BY <1>8 DEF UndoRecord, RecoverRecord
  <2>2. /\ disk'.index = disk.index /\ disk'.journal = disk.journal
        /\ disk'.tmp = disk.tmp
    BY <2>1
  <2>3. pc = "undo_record" /\ pc' = "undo_index" /\ call'.seg = call.seg
    BY <1>8 DEF UndoRecord, RecoverRecord
  <2>4. Recoverable = disk.journal /\ disk.journal \in Entries
    BY <2>3 DEF Recoverable
  <2>5. disk.record[call.seg] \in {"live", "trash"}
    BY <2>3, <2>4 DEF Consistent, Places
  <2>6. call'.ok => disk'.record[call.seg] = "live"
    BY <1>8, <2>5 DEF UndoRecord, RecoverRecord
  <2>. QED  BY <2>2, <2>3, <2>6
<1>9. CASE PurgeRecord
  <2>1. disk' \in {disk, [disk EXCEPT !.record[call.seg] = "none"]}
    BY <1>9 DEF PurgeRecord, RecoverRecord
  <2>2. /\ disk'.index = disk.index /\ disk'.journal = disk.journal
        /\ disk'.tmp = disk.tmp
    BY <2>1
  <2>3. pc = "purge_record" /\ pc' = "purge_index" /\ call'.seg = call.seg
    BY <1>9 DEF PurgeRecord, RecoverRecord
  <2>4. Recoverable = disk.journal /\ disk.journal \in Entries
    BY <2>3 DEF Recoverable
  <2>5. disk.record[call.seg] \in {"none", "trash"}
    BY <2>3, <2>4 DEF Consistent, Places
  <2>6. call'.ok => disk'.record[call.seg] = "none"
    BY <1>9, <2>5 DEF PurgeRecord, RecoverRecord
  <2>. QED  BY <2>2, <2>3, <2>6
<1>10. CASE UndoIndex
  <2>1. disk' \in {disk, [disk EXCEPT !.index[call.seg] = "live"]}
    BY <1>10 DEF UndoIndex, RecoverIndex
  <2>2. /\ disk'.record = disk.record /\ disk'.journal = disk.journal
        /\ disk'.tmp = disk.tmp
    BY <2>1
  <2>3. pc = "undo_index" /\ pc' \in {"idle", "clear_journal"}
    BY <1>10 DEF UndoIndex, RecoverIndex, RecoveryReturns
  <2>4. Recoverable = disk.journal /\ disk.journal \in Entries
    BY <2>3 DEF Recoverable
  <2>5. HasIndex(call.seg) => disk.index[call.seg] \in {"live", "trash"}
    BY <2>3, <2>4 DEF Consistent, Places
  <2>6. pc' = "clear_journal" => /\ call' = call /\ call.ok
                                 /\ HasIndex(call.seg) => disk'.index[call.seg] = "live"
    BY <1>10, <2>5 DEF UndoIndex, RecoverIndex, RecoveryReturns
  <2>7. disk.journal.seg = call.seg
    BY <2>3
  <2>8. CASE pc' = "clear_journal"
    <3>1. disk'.record[call.seg] = "live"
      BY <2>2, <2>3, <2>6, <2>8
    <3>. QED  BY <2>2, <2>3, <2>4, <2>6, <2>7, <2>8, <3>1
  <2>9. CASE pc' = "idle"
    BY <2>9
  <2>. QED  BY <2>3, <2>8, <2>9
<1>11. CASE PurgeIndex
  <2>1. disk' \in {disk, [disk EXCEPT !.index[call.seg] = "none"]}
    BY <1>11 DEF PurgeIndex, RecoverIndex
  <2>2. /\ disk'.record = disk.record /\ disk'.journal = disk.journal
        /\ disk'.tmp = disk.tmp
    BY <2>1
  <2>3. pc = "purge_index" /\ pc' \in {"idle", "clear_journal"}
    BY <1>11 DEF PurgeIndex, RecoverIndex, RecoveryReturns
  <2>4. Recoverable = disk.journal /\ disk.journal \in Entries
    BY <2>3 DEF Recoverable
  <2>5. HasIndex(call.seg) => disk.index[call.seg] \in {"none", "trash"}
    BY <2>3, <2>4 DEF Consistent, Places
  <2>6. pc' = "clear_journal" => /\ call' = call /\ call.ok
                                 /\ HasIndex(call.seg) => disk'.index[call.seg] = "none"
    BY <1>11, <2>5 DEF PurgeIndex, RecoverIndex, RecoveryReturns
  <2>7. disk.journal.seg = call.seg
    BY <2>3
  <2>8. CASE pc' = "clear_journal"
    <3>1. disk'.record[call.seg] = "none"
      BY <2>2, <2>3, <2>6, <2>8
    <3>. QED  BY <2>2, <2>3, <2>4, <2>6, <2>7, <2>8, <3>1
  <2>9. CASE pc' = "idle"
    BY <2>9
  <2>. QED  BY <2>3, <2>8, <2>9
<1>12. CASE ApplyRetention
  BY <1>12 DEF ApplyRetention
<1>13. CASE BeginRemoval
  <2>. DEFINE s == First(call.queue)
  <2>1. s \in Segments
    BY <1>13, FirstInQueue DEF BeginRemoval
  <2>. HIDE DEF s
  <2>2. CASE pc' = "idle"
    BY <1>13, <2>2 DEF BeginRemoval
  <2>3. CASE pc' # "idle"
    <3>1. /\ pc' = "persist" /\ disk' = disk
          /\ call' = [call EXCEPT !.seg = s, !.stage = "planned"]
          /\ disk.journal = None /\ disk.tmp = None
          /\ Inspected(s) /\ disk.record[s] = "live"
      BY <1>13, <2>3 DEF BeginRemoval, Stops, s
    <3>2. call'.seg = s /\ call'.stage = "planned"
      BY <3>1
    <3>3. Files(s, "live", "live")
      BY <3>1 DEF Inspected
    <3>. QED  BY <3>1, <3>2, <3>3
  <2>. QED  BY <2>2, <2>3
<1>14. CASE FinishRetention
  BY <1>14 DEF FinishRetention, Stops
<1>15. CASE RemoveOldTemporary
  <2>1. disk' \in {disk, [disk EXCEPT !.tmp = None]}
    BY <1>15 DEF RemoveOldTemporary
  <2>2. /\ disk'.record = disk.record /\ disk'.index = disk.index
        /\ disk'.tmp \in {disk.tmp, None} /\ disk'.journal = disk.journal
    BY <2>1
  <2>3. /\ pc = "persist" /\ pc' = "write"
        /\ call' = call
    BY <1>15 DEF RemoveOldTemporary
  <2>4. Installed' = Installed
    BY <2>3
  <2>5. StageFiles(call.stage, call.seg)' <=> StageFiles(call.stage, call.seg)
    BY <2>2, <2>3
  <2>. QED  BY <2>2, <2>3, <2>4, <2>5
<1>16. CASE WriteTemporary
  <2>1. CASE pc' = "replace"
    <3>1. /\ disk' = [disk EXCEPT !.tmp = Entry(call.stage, call.seg)]
          /\ call' = call /\ pc = "write"
      BY <1>16, <2>1 DEF WriteTemporary, PersistFailed, Stops
    <3>2. /\ disk'.tmp = Entry(call.stage, call.seg)
          /\ disk'.journal = disk.journal /\ disk'.record = disk.record
          /\ disk'.index = disk.index
      BY <3>1
    <3>. QED  BY <2>1, <3>1, <3>2
  <2>2. CASE pc' \in {"idle", "recover_tmp"}
    BY <2>2
  <2>. QED  BY <1>16, <2>1, <2>2 DEF WriteTemporary, PersistFailed, Stops
<1>17. CASE RemoveOldJournal
  <2>1. disk' \in {disk, [disk EXCEPT !.journal = None]}
    BY <1>17 DEF RemoveOldJournal
  <2>2. /\ disk'.record = disk.record /\ disk'.index = disk.index
        /\ disk'.journal \in {disk.journal, None} /\ disk'.tmp = disk.tmp
    BY <2>1
  <2>3. /\ pc = "replace" /\ pc' = "install"
        /\ call' = call
    BY <1>17 DEF RemoveOldJournal
  <2>4. Installed' = Installed
    BY <2>3
  <2>5. StageFiles(call.stage, call.seg)' <=> StageFiles(call.stage, call.seg)
    BY <2>2, <2>3
  <2>. QED  BY <2>2, <2>3, <2>4, <2>5
<1>18. CASE InstallJournal
  <2>1. CASE pc' \in {"idle", "recover_tmp"}
    BY <2>1
  <2>2. CASE pc' \notin {"idle", "recover_tmp"}
    <3>1. /\ disk' = [disk EXCEPT !.journal = disk.tmp, !.tmp = None]
          /\ call' = [call EXCEPT !.ok = TRUE] /\ pc = "install"
          /\ pc' = CASE call.stage = "planned" -> "move_record"
                     [] call.stage = "files_moved" -> "delete_record"
                     [] call.stage = "record_deleted" ->
                          (IF HasIndex(call.seg) THEN "delete_index"
                                                 ELSE "delete_metadata")
                     [] call.stage = "complete" -> "clear_journal"
      BY <1>18, <2>2 DEF InstallJournal, PersistFailed, Stops
    <3>2. /\ disk'.tmp = None /\ disk'.journal = Entry(call.stage, call.seg)
          /\ disk'.record = disk.record /\ disk'.index = disk.index
          /\ call'.seg = call.seg
      BY <3>1
    <3>3. call.stage \in Stages /\ call.seg \in Segments
      BY <3>1
    <3>4. StageFiles(call.stage, call.seg)
      BY <3>1
    <3>5. CASE call.stage = "planned"
      BY <3>1, <3>2, <3>3, <3>4, <3>5
    <3>6. CASE call.stage = "files_moved"
      BY <3>1, <3>2, <3>3, <3>4, <3>6
    <3>7. CASE call.stage = "record_deleted"
      BY <3>1, <3>2, <3>3, <3>4, <3>7
    <3>8. CASE call.stage = "complete"
      BY <3>1, <3>2, <3>3, <3>4, <3>8
    <3>. QED  BY <3>3, <3>5, <3>6, <3>7, <3>8
  <2>. QED  BY <2>1, <2>2
<1>19. CASE MoveRecord
  <2>1. CASE pc' = "recover_tmp"
    BY <2>1
  <2>2. CASE pc' # "recover_tmp"
    <3>1. /\ disk' = [disk EXCEPT !.record[call.seg] = "trash"]
          /\ pc = "move_record"
          /\ IF HasIndex(call.seg) THEN pc' = "move_index" /\ call' = call
                                   ELSE PersistNext("files_moved")
      BY <1>19, <2>2 DEF MoveRecord, Reverses
    <3>2. /\ disk'.record[call.seg] = "trash" /\ disk'.journal = disk.journal
          /\ disk'.tmp = disk.tmp /\ disk'.index = disk.index
      BY <3>1
    <3>3. call'.seg = call.seg /\ (~HasIndex(call.seg) => call'.stage = "files_moved")
      BY <3>1 DEF PersistNext
    <3>4. CASE HasIndex(call.seg)
      BY <3>1, <3>2, <3>4
    <3>5. CASE ~HasIndex(call.seg)
      <4>1. pc' = "persist"
        BY <3>1, <3>5 DEF PersistNext
      <4>. QED  BY <3>1, <3>2, <3>3, <3>5, <4>1
    <3>. QED  BY <3>4, <3>5
  <2>. QED  BY <2>1, <2>2
<1>20. CASE MoveIndex
  <2>1. CASE pc' = "recover_tmp"
    BY <2>1
  <2>2. CASE pc' # "recover_tmp"
    <3>1. /\ disk' = [disk EXCEPT !.index[call.seg] = "trash"]
          /\ pc = "move_index" /\ PersistNext("files_moved")
      BY <1>20, <2>2 DEF MoveIndex, Reverses
    <3>2. /\ disk'.index[call.seg] = "trash" /\ disk'.journal = disk.journal
          /\ disk'.tmp = disk.tmp /\ disk'.record = disk.record
      BY <3>1
    <3>3. call'.seg = call.seg /\ call'.stage = "files_moved" /\ pc' = "persist"
      BY <3>1 DEF PersistNext
    <3>. QED  BY <3>1, <3>2, <3>3
  <2>. QED  BY <2>1, <2>2
<1>21. CASE DeleteRecord
  <2>1. CASE pc' = "idle"
    BY <2>1
  <2>2. CASE pc' # "idle"
    <3>1. /\ disk' = [disk EXCEPT !.record[call.seg] = "none"]
          /\ pc = "delete_record" /\ PersistNext("record_deleted")
      BY <1>21, <2>2 DEF DeleteRecord, Stops
    <3>2. /\ disk'.record[call.seg] = "none" /\ disk'.journal = disk.journal
          /\ disk'.tmp = disk.tmp /\ disk'.index = disk.index
      BY <3>1
    <3>3. call'.seg = call.seg /\ call'.stage = "record_deleted" /\ pc' = "persist"
      BY <3>1 DEF PersistNext
    <3>. QED  BY <3>1, <3>2, <3>3
  <2>. QED  BY <2>1, <2>2
<1>22. CASE DeleteIndex
  <2>1. CASE pc' = "idle"
    BY <2>1
  <2>2. CASE pc' # "idle"
    <3>1. /\ disk' = [disk EXCEPT !.index[call.seg] = "none"]
          /\ pc = "delete_index" /\ pc' = "delete_metadata" /\ call' = call
      BY <1>22, <2>2 DEF DeleteIndex, Stops
    <3>2. /\ disk'.index[call.seg] = "none" /\ disk'.journal = disk.journal
          /\ disk'.tmp = disk.tmp /\ disk'.record = disk.record
      BY <3>1
    <3>. QED  BY <3>1, <3>2
  <2>. QED  BY <2>1, <2>2
<1>23. CASE DeleteMetadata
  BY <1>23 DEF DeleteMetadata, PersistNext
<1>24. CASE ClearJournal
  BY <1>24 DEF ClearJournal
<1>25. CASE ClearTemporary
  BY <1>25 DEF ClearTemporary, RecoveryReturns, Stops
<1>26. CASE UNCHANGED vars
  <2>1. Installed' = Installed
    BY <1>26 DEF vars
  <2>2. \A s, record, index : Files(s, record, index)' <=> Files(s, record, index)
    BY <1>26 DEF vars
  <2>3. \A stage, s : StageFiles(stage, s)' <=> StageFiles(stage, s)
    BY <1>26 DEF vars
  <2>. HIDE DEF Installed, Files, StageFiles, DiskRecord, CallRecord
  <2>. QED  BY <1>26, <2>1, <2>2, <2>3 DEF vars
<1>. QED
  BY <1>1, <1>2, <1>3, <1>4, <1>5, <1>6, <1>7, <1>8, <1>9, <1>10, <1>11, <1>12,
     <1>13, <1>14, <1>15, <1>16, <1>17, <1>18, <1>19, <1>20, <1>21, <1>22,
     <1>23, <1>24, <1>25, <1>26
  DEF Next

\* The pairs of files that a step leaves alone.
SameFiles(s) == /\ disk'.record[s] = disk.record[s]
                /\ disk'.index[s] = disk.index[s]

\* A step that changes neither files nor what a recovery would read.
LEMMA PairsUnchanged ==
  ASSUME ~overrun, Consistent, SplitPairIsJournalled,
         disk'.record = disk.record, disk'.index = disk.index,
         Recoverable' = Recoverable
  PROVE  Consistent' /\ SplitPairIsJournalled'
<1>1. \A s : Whole(s)' <=> Whole(s)
  BY DEF Whole
<1>. QED  BY <1>1 DEF Consistent, SplitPairIsJournalled

\* A step of the removal or recovery of one segment t.
LEMMA PairsElsewhere ==
  ASSUME ~overrun, SplitPairIsJournalled, NEW t \in Segments,
         Recoverable \in Entries => Recoverable.seg = t,
         \A s \in Segments \ {t} : SameFiles(s),
         Whole(t)' \/ (Recoverable' \in Entries /\ Recoverable'.seg = t)
  PROVE  SplitPairIsJournalled'
<1>1. ASSUME NEW s \in Segments, s # t PROVE Whole(s)'
  <2>1. Whole(s)
    BY <1>1 DEF SplitPairIsJournalled
  <2>. QED  BY <1>1, <2>1 DEF Whole, SameFiles
<1>. QED  BY <1>1 DEF SplitPairIsJournalled

\* Both files in place, or both gone.
LEMMA FilesAreWhole ==
  ASSUME NEW s, Files(s, "live", "live") \/ Files(s, "none", "none")
  PROVE  Whole(s)
  BY DEF Files, Whole

\* No journal can be read, before and after: all pairs are whole.
LEMMA PairsUnnamed ==
  ASSUME ~overrun, SplitPairIsJournalled, Recoverable \notin Entries,
         disk'.record = disk.record, disk'.index = disk.index,
         Recoverable' \notin Entries
  PROVE  Consistent' /\ SplitPairIsJournalled'
<1>1. \A s : Whole(s)' <=> Whole(s)
  BY DEF Whole
<1>. QED  BY <1>1 DEF Consistent, SplitPairIsJournalled

\* A file of the segment that the installed journal names is moved or deleted.
LEMMA JournalledMove ==
  ASSUME ~overrun, SplitPairIsJournalled, NEW t \in Segments,
         disk.journal \in Entries, disk.journal.seg = t,
         disk'.journal = disk.journal,
         \A s \in Segments \ {t} : SameFiles(s),
         IF disk.journal.stage = "planned"
           THEN /\ disk'.record[t] # "none"
                /\ HasIndex(t) => disk'.index[t] # "none"
           ELSE /\ disk'.record[t] # "live"
                /\ HasIndex(t) => disk'.index[t] # "live"
  PROVE  Consistent' /\ SplitPairIsJournalled'
<1>1. Recoverable = disk.journal /\ Recoverable' = disk.journal
  BY MarkAssumption DEF Recoverable
<1>2. SplitPairIsJournalled'
  BY <1>1, PairsElsewhere
<1>3. Consistent'
  BY <1>1 DEF Consistent
<1>. QED  BY <1>2, <1>3

\* No step leaves half a segment that the next recovery would not find named.
LEMMA PairStep ==
  ASSUME TypeInv, OpenedInv, ReleaseInv, ~overrun, ~overrun', StepInv,
         Consistent, SplitPairIsJournalled, [Next]_vars
  PROVE  Consistent' /\ SplitPairIsJournalled'
<1>. USE CleanupAssumption, MarkAssumption, SucceedsBoolean
     DEF world, TypeInv, Typed, SegInv, InTransaction, Steps, DiskRecord
<1>0. Typed'
  BY TypeStep
<1>1. ASSUME NEW k \in Kinds, OpenSegment(k)
      PROVE  Consistent' /\ SplitPairIsJournalled'
  <2>. DEFINE t == [kind |-> k, n |-> created[k] + 1]
  <2>0. created[k] + 1 \in 1 .. MaxSegments
    BY <1>1 DEF OpenSegment
  <2>1. t \in Segments /\ t.kind = k /\ t.n = created[k] + 1
    BY <1>1, <2>0 DEF Segments
  <2>. HIDE DEF t
  <2>2. disk' = [disk EXCEPT !.record[t] = "live",
                             !.index[t] = IF HasIndex(t) THEN "live" ELSE @]
    BY <1>1 DEF OpenSegment, t
  <2>3. /\ disk'.journal = disk.journal /\ disk'.tmp = disk.tmp
        /\ disk'.record[t] = "live" /\ (HasIndex(t) => disk'.index[t] = "live")
        /\ \A s \in Segments \ {t} : SameFiles(s)
    BY <2>1, <2>2 DEF SameFiles
  <2>4. Recoverable' = Recoverable
    BY <2>3 DEF Recoverable
  <2>5. Recoverable \in Entries => Recoverable.seg \in Segments \ {t}
    <3>. SUFFICES ASSUME Recoverable \in Entries, Recoverable.seg = t PROVE FALSE
      BY DEF Entries
    <3>1. Releasable(t)
      BY DEF Recoverable, ReleaseInv
    <3>. QED  BY <2>1, <3>1 DEF Releasable
  <2>6. Consistent'
    BY <2>3, <2>4, <2>5 DEF Consistent, SameFiles
  <2>7. PICK u \in Segments : u = t
    BY <2>1
  <2>8. Whole(u)'
    BY <2>3, <2>7 DEF Whole
  <2>9. \A s \in Segments : s # u /\ Whole(s) => Whole(s)'
    BY <2>3, <2>7 DEF Whole, SameFiles
  <2>10. SplitPairIsJournalled'
    BY <2>4, <2>8, <2>9 DEF SplitPairIsJournalled
  <2>. QED  BY <2>6, <2>10
<1>2. CASE \/ \E k \in Kinds : Acknowledge(k)
           \/ \E s \in Segments : Damage(s)
           \/ Mount \/ RecoverRead \/ ApplyRetention \/ BeginRemoval
           \/ FinishRetention \/ DeleteMetadata \/ UNCHANGED vars
  <2>1. disk' = disk
    BY <1>2 DEF Acknowledge, Damage, Mount, RecoverRead, ApplyRetention,
         BeginRemoval, FinishRetention, DeleteMetadata, vars
  <2>2. Recoverable' = Recoverable
    BY <2>1 DEF Recoverable
  <2>. QED  BY <2>1, <2>2, PairsUnchanged
<1>3. CASE PowerLoss
  <2>1. /\ disk'.record = disk.record /\ disk'.index = disk.index
        /\ disk'.journal = disk.journal
        /\ disk'.tmp = disk.tmp \/ (pc = "write" /\ disk'.tmp = Torn)
    BY <1>3 DEF PowerLoss
  <2>2. CASE disk'.tmp = disk.tmp \/ disk.journal # None
    <3>1. Recoverable' = Recoverable
      BY <2>1, <2>2 DEF Recoverable
    <3>. QED  BY <2>1, <3>1, PairsUnchanged
  <2>3. CASE pc = "write" /\ disk.journal = None /\ disk'.tmp = Torn
    <3>1. Recoverable = None /\ Recoverable' = Torn
      BY <2>1, <2>3 DEF Recoverable, StepInv
    <3>. QED  BY <2>1, <2>3, <3>1, PairsUnnamed
  <2>. QED  BY <2>1, <2>2, <2>3
<1>4. CASE RecoverTemporary
  <2>1. disk' \in {disk, [disk EXCEPT !.tmp = None,
                            !.journal = IF @ # None THEN @ ELSE disk.tmp]}
    BY <1>4 DEF RecoverTemporary
  <2>2. disk'.record = disk.record /\ disk'.index = disk.index
    BY <2>1
  <2>3. Recoverable' = Recoverable
    BY <2>1 DEF Recoverable
  <2>. QED  BY <2>2, <2>3, PairsUnchanged
<1>5. CASE UndoRecord
  <2>1. disk' \in {disk, [disk EXCEPT !.record[call.seg] = "live"]}
    BY <1>5 DEF UndoRecord, RecoverRecord
  <2>2. call.seg \in Segments
    BY <1>5 DEF UndoRecord, RecoverRecord
  <2>3. disk.journal \in Entries /\ disk.journal.seg = call.seg
    BY <1>5, <2>2 DEF UndoRecord, RecoverRecord, StepInv, Entries, Entry,
       Stages
  <2>4. disk.journal.stage = "planned"
    BY <1>5, <2>2 DEF UndoRecord, RecoverRecord, StepInv, Entry
  <2>5. Recoverable = disk.journal
    BY <2>3 DEF Recoverable
  <2>6. /\ disk'.journal = disk.journal
        /\ \A s \in Segments \ {call.seg} : SameFiles(s)
    BY <2>1, <2>2 DEF SameFiles
  <2>7. disk'.record[call.seg] # "none"
    BY <2>1, <2>2, <2>3, <2>4, <2>5 DEF Consistent
  <2>8. HasIndex(call.seg) => disk'.index[call.seg] # "none"
    BY <2>1, <2>2, <2>3, <2>4, <2>5 DEF Consistent
  <2>. QED  BY <2>2, <2>3, <2>4, <2>6, <2>7, <2>8, JournalledMove
<1>6. CASE PurgeRecord
  <2>1. disk' \in {disk, [disk EXCEPT !.record[call.seg] = "none"]}
    BY <1>6 DEF PurgeRecord, RecoverRecord
  <2>2. call.seg \in Segments
    BY <1>6 DEF PurgeRecord, RecoverRecord
  <2>3. disk.journal \in Entries /\ disk.journal.seg = call.seg
    BY <1>6, <2>2 DEF PurgeRecord, RecoverRecord, StepInv, Entries, Entry,
       Stages
  <2>4. disk.journal.stage # "planned"
    BY <1>6, <2>2 DEF PurgeRecord, RecoverRecord, StepInv, Entry
  <2>5. Recoverable = disk.journal
    BY <2>3 DEF Recoverable
  <2>6. /\ disk'.journal = disk.journal
        /\ \A s \in Segments \ {call.seg} : SameFiles(s)
    BY <2>1, <2>2 DEF SameFiles
  <2>7. disk'.record[call.seg] # "live"
    BY <2>1, <2>2, <2>3, <2>4, <2>5 DEF Consistent
  <2>8. HasIndex(call.seg) => disk'.index[call.seg] # "live"
    BY <2>1, <2>2, <2>3, <2>4, <2>5 DEF Consistent
  <2>. QED  BY <2>2, <2>3, <2>4, <2>6, <2>7, <2>8, JournalledMove
<1>7. CASE UndoIndex
  <2>1. disk' \in {disk, [disk EXCEPT !.index[call.seg] = "live"]}
    BY <1>7 DEF UndoIndex, RecoverIndex
  <2>2. call.seg \in Segments
    BY <1>7 DEF UndoIndex, RecoverIndex
  <2>3. disk.journal \in Entries /\ disk.journal.seg = call.seg
    BY <1>7, <2>2 DEF UndoIndex, RecoverIndex, StepInv, Entries, Entry, Stages
  <2>4. disk.journal.stage = "planned"
    BY <1>7, <2>2 DEF UndoIndex, RecoverIndex, StepInv, Entry
  <2>5. Recoverable = disk.journal
    BY <2>3 DEF Recoverable
  <2>6. /\ disk'.journal = disk.journal
        /\ \A s \in Segments \ {call.seg} : SameFiles(s)
    BY <2>1, <2>2 DEF SameFiles
  <2>7. disk'.record[call.seg] # "none"
    BY <2>1, <2>2, <2>3, <2>4, <2>5 DEF Consistent
  <2>8. HasIndex(call.seg) => disk'.index[call.seg] # "none"
    BY <2>1, <2>2, <2>3, <2>4, <2>5 DEF Consistent
  <2>. QED  BY <2>2, <2>3, <2>4, <2>6, <2>7, <2>8, JournalledMove
<1>8. CASE PurgeIndex
  <2>1. disk' \in {disk, [disk EXCEPT !.index[call.seg] = "none"]}
    BY <1>8 DEF PurgeIndex, RecoverIndex
  <2>2. call.seg \in Segments
    BY <1>8 DEF PurgeIndex, RecoverIndex
  <2>3. disk.journal \in Entries /\ disk.journal.seg = call.seg
    BY <1>8, <2>2 DEF PurgeIndex, RecoverIndex, StepInv, Entries, Entry, Stages
  <2>4. disk.journal.stage # "planned"
    BY <1>8, <2>2 DEF PurgeIndex, RecoverIndex, StepInv, Entry
  <2>5. Recoverable = disk.journal
    BY <2>3 DEF Recoverable
  <2>6. /\ disk'.journal = disk.journal
        /\ \A s \in Segments \ {call.seg} : SameFiles(s)
    BY <2>1, <2>2 DEF SameFiles
  <2>7. disk'.record[call.seg] # "live"
    BY <2>1, <2>2, <2>3, <2>4, <2>5 DEF Consistent
  <2>8. HasIndex(call.seg) => disk'.index[call.seg] # "live"
    BY <2>1, <2>2, <2>3, <2>4, <2>5 DEF Consistent
  <2>. QED  BY <2>2, <2>3, <2>4, <2>6, <2>7, <2>8, JournalledMove
<1>9. CASE RemoveOldTemporary
  <2>1. pc = "persist" /\ disk.tmp = None
    BY <1>9 DEF RemoveOldTemporary, StepInv
  <2>2. /\ disk'.record = disk.record /\ disk'.index = disk.index
        /\ disk'.journal = disk.journal /\ disk'.tmp = disk.tmp
    BY <1>9, <2>1 DEF RemoveOldTemporary
  <2>3. Recoverable' = Recoverable
    BY <2>2 DEF Recoverable
  <2>. QED  BY <2>2, <2>3, PairsUnchanged
<1>10. CASE WriteTemporary
  <2>1. pc = "write" /\ disk.tmp = None /\ call.seg \in Segments
    BY <1>10 DEF WriteTemporary, StepInv
  <2>2. /\ disk'.record = disk.record /\ disk'.index = disk.index
        /\ disk'.journal = disk.journal
        /\ disk'.tmp \in {Entry(call.stage, call.seg), None, Torn}
    BY <1>10 DEF WriteTemporary, Entry
  <2>3. CASE disk.journal # None
    <3>1. Recoverable' = Recoverable
      BY <2>2, <2>3 DEF Recoverable
    <3>. QED  BY <2>2, <3>1, PairsUnchanged
  <2>4. CASE disk.journal = None
    <3>1. call.stage = "planned"
      BY <2>1, <2>4 DEF StepInv, Installed, Entries, Entry, CallRecord, Stages
    <3>2. Files(call.seg, "live", "live")
      BY <2>1, <3>1 DEF StepInv, StageFiles, Persisting
    <3>3. Recoverable = None /\ Recoverable' = disk'.tmp
      BY <2>1, <2>2, <2>4 DEF Recoverable
    <3>4. CASE disk'.tmp \in {None, Torn}
      BY <2>2, <3>3, <3>4, PairsUnnamed
    <3>5. CASE disk'.tmp = Entry("planned", call.seg)
      <4>1. Recoverable' \in Entries /\ Recoverable'.seg = call.seg
            /\ Recoverable'.stage = "planned"
        BY <2>1, <3>3, <3>5 DEF Entries, Entry, Stages
      <4>2. SplitPairIsJournalled'
        <5>1. \A s \in Segments \ {call.seg} : SameFiles(s)
          BY <2>2 DEF SameFiles
        <5>. QED  BY <2>1, <3>3, <4>1, <5>1, PairsElsewhere
      <4>3. Consistent'
        BY <2>2, <3>2, <4>1 DEF Consistent, Files
      <4>. QED  BY <4>2, <4>3
    <3>. QED  BY <2>2, <3>1, <3>4, <3>5
  <2>. QED  BY <2>3, <2>4
<1>11. CASE RemoveOldJournal
  <2>1. /\ pc = "replace" /\ disk.tmp = Entry(call.stage, call.seg)
        /\ call.seg \in Segments /\ call.stage \in Stages
        /\ disk.journal = Installed /\ StageFiles(call.stage, call.seg)
    BY <1>11 DEF RemoveOldJournal, StepInv, CallRecord, Persisting
  <2>2. /\ disk'.record = disk.record /\ disk'.index = disk.index
        /\ disk'.journal \in {disk.journal, None} /\ disk'.tmp = disk.tmp
    BY <1>11 DEF RemoveOldJournal
  <2>3. CASE disk'.journal = disk.journal
    <3>1. Recoverable' = Recoverable
      BY <2>2, <2>3 DEF Recoverable
    <3>. QED  BY <2>2, <3>1, PairsUnchanged
  <2>4. CASE disk'.journal = None
    <3>1. /\ Recoverable' = Entry(call.stage, call.seg)
          /\ Recoverable' \in Entries
      BY <2>1, <2>2, <2>4 DEF Recoverable, Entry, Entries
    <3>2. Recoverable'.seg = call.seg /\ Recoverable'.stage = call.stage
      BY <3>1 DEF Entry
    <3>3. Recoverable \in Entries => Recoverable.seg = call.seg
      BY <2>1 DEF Recoverable, Installed, Entry, Stages
    <3>4. SplitPairIsJournalled'
      <4>1. \A s \in Segments \ {call.seg} : SameFiles(s)
        BY <2>2 DEF SameFiles
      <4>. QED  BY <2>1, <3>1, <3>2, <3>3, <4>1, PairsElsewhere
    <3>5. Consistent'
      BY <2>1, <2>2, <3>1, <3>2 DEF Consistent, StageFiles, Files, Stages
    <3>. QED  BY <3>4, <3>5
  <2>. QED  BY <2>2, <2>3, <2>4
<1>12. CASE InstallJournal
  <2>1. disk' = disk \/ (disk.journal = None /\ disk' = [disk EXCEPT !.journal = disk.tmp, !.tmp = None])
    BY <1>12 DEF InstallJournal
  <2>2. disk'.record = disk.record /\ disk'.index = disk.index
    BY <2>1
  <2>3. Recoverable' = Recoverable
    BY <2>1 DEF Recoverable
  <2>. QED  BY <2>2, <2>3, PairsUnchanged
<1>13. CASE MoveRecord
  <2>1. disk' \in {disk, [disk EXCEPT !.record[call.seg] = "trash"]}
    BY <1>13 DEF MoveRecord
  <2>2. call.seg \in Segments
    BY <1>13 DEF MoveRecord
  <2>3. disk.journal \in Entries /\ disk.journal.seg = call.seg
    BY <1>13, <2>2 DEF MoveRecord, StepInv, Entries, Entry, Stages
  <2>4. disk.journal.stage = "planned"
    BY <1>13, <2>2 DEF MoveRecord, StepInv, Entry
  <2>5. Recoverable = disk.journal
    BY <2>3 DEF Recoverable
  <2>6. /\ disk'.journal = disk.journal
        /\ \A s \in Segments \ {call.seg} : SameFiles(s)
    BY <2>1, <2>2 DEF SameFiles
  <2>7. disk'.record[call.seg] # "none"
    BY <2>1, <2>2, <2>3, <2>4, <2>5 DEF Consistent
  <2>8. HasIndex(call.seg) => disk'.index[call.seg] # "none"
    BY <2>1, <2>2, <2>3, <2>4, <2>5 DEF Consistent
  <2>. QED  BY <2>2, <2>3, <2>4, <2>6, <2>7, <2>8, JournalledMove
<1>14. CASE MoveIndex
  <2>1. disk' \in {disk, [disk EXCEPT !.index[call.seg] = "trash"]}
    BY <1>14 DEF MoveIndex
  <2>2. call.seg \in Segments
    BY <1>14 DEF MoveIndex
  <2>3. disk.journal \in Entries /\ disk.journal.seg = call.seg
    BY <1>14, <2>2 DEF MoveIndex, StepInv, Entries, Entry, Stages
  <2>4. disk.journal.stage = "planned"
    BY <1>14, <2>2 DEF MoveIndex, StepInv, Entry
  <2>5. Recoverable = disk.journal
    BY <2>3 DEF Recoverable
  <2>6. /\ disk'.journal = disk.journal
        /\ \A s \in Segments \ {call.seg} : SameFiles(s)
    BY <2>1, <2>2 DEF SameFiles
  <2>7. disk'.record[call.seg] # "none"
    BY <2>1, <2>2, <2>3, <2>4, <2>5 DEF Consistent
  <2>8. HasIndex(call.seg) => disk'.index[call.seg] # "none"
    BY <2>1, <2>2, <2>3, <2>4, <2>5 DEF Consistent
  <2>. QED  BY <2>2, <2>3, <2>4, <2>6, <2>7, <2>8, JournalledMove
<1>15. CASE DeleteRecord
  <2>1. disk' \in {disk, [disk EXCEPT !.record[call.seg] = "none"]}
    BY <1>15 DEF DeleteRecord
  <2>2. call.seg \in Segments
    BY <1>15 DEF DeleteRecord
  <2>3. disk.journal \in Entries /\ disk.journal.seg = call.seg
    BY <1>15, <2>2 DEF DeleteRecord, StepInv, Entries, Entry, Stages
  <2>4. disk.journal.stage # "planned"
    BY <1>15, <2>2 DEF DeleteRecord, StepInv, Entry
  <2>5. Recoverable = disk.journal
    BY <2>3 DEF Recoverable
  <2>6. /\ disk'.journal = disk.journal
        /\ \A s \in Segments \ {call.seg} : SameFiles(s)
    BY <2>1, <2>2 DEF SameFiles
  <2>7. disk'.record[call.seg] # "live"
    BY <2>1, <2>2, <2>3, <2>4, <2>5 DEF Consistent
  <2>8. HasIndex(call.seg) => disk'.index[call.seg] # "live"
    BY <2>1, <2>2, <2>3, <2>4, <2>5 DEF Consistent
  <2>. QED  BY <2>2, <2>3, <2>4, <2>6, <2>7, <2>8, JournalledMove
<1>16. CASE DeleteIndex
  <2>1. disk' \in {disk, [disk EXCEPT !.index[call.seg] = "none"]}
    BY <1>16 DEF DeleteIndex
  <2>2. call.seg \in Segments
    BY <1>16 DEF DeleteIndex
  <2>3. disk.journal \in Entries /\ disk.journal.seg = call.seg
    BY <1>16, <2>2 DEF DeleteIndex, StepInv, Entries, Entry, Stages
  <2>4. disk.journal.stage # "planned"
    BY <1>16, <2>2 DEF DeleteIndex, StepInv, Entry
  <2>5. Recoverable = disk.journal
    BY <2>3 DEF Recoverable
  <2>6. /\ disk'.journal = disk.journal
        /\ \A s \in Segments \ {call.seg} : SameFiles(s)
    BY <2>1, <2>2 DEF SameFiles
  <2>7. disk'.record[call.seg] # "live"
    BY <2>1, <2>2, <2>3, <2>4, <2>5 DEF Consistent
  <2>8. HasIndex(call.seg) => disk'.index[call.seg] # "live"
    BY <2>1, <2>2, <2>3, <2>4, <2>5 DEF Consistent
  <2>. QED  BY <2>2, <2>3, <2>4, <2>6, <2>7, <2>8, JournalledMove
<1>17. CASE ClearJournal
  <2>1. /\ pc = "clear_journal" /\ disk.tmp = None /\ call.seg \in Segments
        /\ disk.journal \in Entries /\ disk.journal.seg = call.seg
        /\ Whole(call.seg)
    BY <1>17, FilesAreWhole DEF ClearJournal, StepInv
  <2>2. /\ disk'.record = disk.record /\ disk'.index = disk.index
        /\ disk'.journal \in {disk.journal, None} /\ disk'.tmp = disk.tmp
    BY <1>17 DEF ClearJournal
  <2>3. CASE disk'.journal = disk.journal
    <3>1. Recoverable' = Recoverable
      BY <2>2, <2>3 DEF Recoverable
    <3>. QED  BY <2>2, <3>1, PairsUnchanged
  <2>4. CASE disk'.journal = None
    <3>1. Recoverable' = None /\ Recoverable = disk.journal
      BY <2>1, <2>2, <2>4 DEF Recoverable
    <3>2. \A s \in Segments : (s # call.seg => Whole(s)) /\ Whole(call.seg)
      BY <2>1, <3>1 DEF SplitPairIsJournalled
    <3>3. \A s \in Segments : Whole(s) => Whole(s)'
      BY <2>2 DEF Whole
    <3>4. SplitPairIsJournalled'
      BY <3>2, <3>3 DEF SplitPairIsJournalled
    <3>. QED  BY <3>1, <3>4 DEF Consistent
  <2>. QED  BY <2>2, <2>3, <2>4
<1>18. CASE ClearTemporary
  <2>1. pc = "clear_tmp" /\ disk.tmp = None
    BY <1>18 DEF ClearTemporary, StepInv
  <2>2. /\ disk'.record = disk.record /\ disk'.index = disk.index
        /\ disk'.journal = disk.journal /\ disk'.tmp = disk.tmp
    BY <1>18, <2>1 DEF ClearTemporary
  <2>3. Recoverable' = Recoverable
    BY <2>2 DEF Recoverable
  <2>. QED  BY <2>2, <2>3, PairsUnchanged
<1>. QED
  BY <1>1, <1>2, <1>3, <1>4, <1>5, <1>6, <1>7, <1>8, <1>9, <1>10, <1>11, <1>12,
     <1>13, <1>14, <1>15, <1>16, <1>17, <1>18 DEF Next

-----------------------------------------------------------------------------
(* The invariants                                                          *)

\* The inductive invariant of SegmentCleanup.
IndInv == TypeInv /\ OpenedInv /\ ReleaseInv /\ OrderInv /\ JournalInv

\* A card with no journal and nothing in the trash.
LEMMA InitInv == Init => IndInv
<1>. SUFFICES ASSUME Init PROVE IndInv
  OBVIOUS
<1>1. /\ disk.journal = None /\ disk.tmp = None
      /\ disk.record = [s \in Segments |->
                          IF s.n <= created[s.kind] THEN "live" ELSE "none"]
      /\ disk.index = [s \in Segments |->
                         IF HasIndex(s) /\ s.n <= created[s.kind]
                           THEN "live" ELSE "none"]
  BY DEF Init
<1>2. created \in [Kinds -> 0..MaxSegments]
  BY CleanupAssumption DEF Init
<1>3. disk \in DiskRecord
  BY DEF Init, DiskRecord, Places
<1>4. TypeInv
  <2>1. ram \in RamRecord
    BY DEF Init, RamRecord, Unmounted
  <2>2. acked \in [Kinds -> Nat] /\ created \in [Kinds -> Nat]
    BY <1>2, CleanupAssumption DEF Init
  <2>. QED
    BY <1>1, <1>3, <2>1, <2>2, IdleType
    DEF Init, TypeInv, Typed, SegInv, InTransaction, Steps
<1>5. OpenedInv
  BY <1>1, <1>2, CleanupAssumption DEF OpenedInv
<1>6. pc = "off" /\ call.queue = {} /\ ~overrun
  BY IdleQueue DEF Init
<1>7. ReleaseInv /\ OrderInv
  BY <1>1, <1>6, MarkAssumption
  DEF ReleaseInv, OrderInv, InTransaction, Persisting, Steps
<1>8. StepInv
  BY <1>6 DEF StepInv, Persisting
<1>9. Recoverable \notin Entries
  BY <1>1, MarkAssumption DEF Recoverable
<1>10. \A s \in Segments : Whole(s)
  BY <1>1 DEF Whole
<1>. QED
  BY <1>4, <1>5, <1>7, <1>8, <1>9, <1>10
  DEF IndInv, JournalInv, Consistent, SplitPairIsJournalled

\* Together the layers are inductive.
LEMMA InvStep == IndInv /\ [Next]_vars => IndInv'
<1>. SUFFICES ASSUME IndInv, [Next]_vars PROVE IndInv'
  OBVIOUS
<1>1. TypeInv'
  BY TypeStep, SegStep DEF IndInv, TypeInv
<1>2. OpenedInv' /\ ReleaseInv' /\ OrderInv'
  BY ReleaseStep, OrderStep DEF IndInv
<1>3. ~overrun' => ~overrun
  BY DEF Next, vars, OpenSegment, Acknowledge, Damage, PowerLoss, Mount,
     RecoverTemporary, RecoverRead, UndoRecord, UndoIndex, PurgeRecord,
     PurgeIndex, RecoverRecord, RecoverIndex, ApplyRetention, BeginRemoval,
     FinishRetention, RemoveOldTemporary, WriteTemporary, RemoveOldJournal,
     InstallJournal, MoveRecord, MoveIndex, DeleteRecord, DeleteIndex,
     DeleteMetadata, ClearJournal, ClearTemporary
<1>4. JournalInv'
  BY <1>3, StepInvStep, PairStep DEF IndInv, JournalInv
<1>. QED  BY <1>1, <1>2, <1>4 DEF IndInv

\* The inductive invariant holds through all crashes, failures and retries.
THEOREM InductiveInvariant == Spec => []IndInv
  BY InitInv, InvStep, PTL DEF Spec

\* The variables keep the types SdStorage gives them; in particular the goal
\* of a plan, an unsigned number in applyRetention, never runs below zero.
THEOREM TypeCorrect == Spec => []TypeOK
<1>1. IndInv => TypeOK
  BY DEF IndInv, TypeInv, Typed, TypeOK, DiskRecord, CallRecord, RamRecord
<1>. QED  BY <1>1, InductiveInvariant, PTL

\* removeSegmentTransactionally: whenever power is lost or an operation fails,
\* a segment with a file in the trash or one of two files gone is named by the
\* journal the next recovery reads, unless a removal overran another one.
THEOREM SplitPairsAreJournalled == Spec => []SplitPairIsJournalled
<1>1. IndInv => SplitPairIsJournalled
  BY DEF IndInv, JournalInv, SplitPairIsJournalled
<1>. QED  BY <1>1, InductiveInvariant, PTL

\* recoverCleanupJournal: cleanupRecoveryAction never blocks on a journal that
\* can be read, unless a removal overran another one.
THEOREM RecoveryDecides == Spec => []RecoveryNeverBlocks
<1>1. IndInv => RecoveryNeverBlocks
  <2>. SUFFICES ASSUME IndInv, pc = "recover_read",
                       disk.journal \in Entries, ~overrun
                PROVE  cleanupRecoveryAction(disk.journal.stage,
                         disk.journal.seg, disk.record, disk.index) # "block"
    BY DEF RecoveryNeverBlocks
  <2>1. Consistent /\ Recoverable = disk.journal
    BY MarkAssumption DEF IndInv, JournalInv, Recoverable
  <2>2. CASE disk.journal.stage = "planned"
    BY <2>1, <2>2 DEF Consistent, cleanupRecoveryAction
  <2>3. CASE disk.journal.stage # "planned"
    BY <2>1, <2>3 DEF Consistent, cleanupRecoveryAction
  <2>. QED  BY <2>2, <2>3
<1>. QED  BY <1>1, InductiveInvariant, PTL

-----------------------------------------------------------------------------
(* Retention implements the abstract history                               *)

\* The history stays as it is, or one releasable segment leaves it.
SameHistory == \A s \in Segments : Kept(s)' <=> Kept(s)
OneForgotten ==
  \E t \in Segments : /\ Releasable(t)
                      /\ Kept(t)' => Kept(t)
                      /\ \A s \in Segments \ {t} : Kept(s)' <=> Kept(s)

\* Files stay where they are, and what a recovery reads is the same.
LEMMA SameRecovery ==
  ASSUME disk'.record = disk.record, Recoverable' = Recoverable
  PROVE  SameHistory
  BY DEF SameHistory, Kept

\* Records stay where they are; an installed journal may be deleted and the
\* temporary may become any other: at most the segment that the old journal
\* called planned, and that is in the trash, is forgotten.
LEMMA JournalReplaced ==
  ASSUME TypeInv, ReleaseInv, OrderInv, OrderInv', disk'.record = disk.record,
         disk'.journal \in {disk.journal, None}
  PROVE  SameHistory \/ OneForgotten
<1>1. CASE Recoverable' = Recoverable
  BY <1>1, SameRecovery
<1>2. CASE Recoverable' # Recoverable
  <2>1. Recoverable' = disk'.tmp
    BY <1>2 DEF Recoverable
  <2>2. \A s \in Segments : Recoverable' = Entry("planned", s) =>
                              disk.record[s] = "live"
    BY <2>1 DEF OrderInv, Entry, Entries, Stages
  <2>3. \A s \in Segments : Kept(s)' <=> disk.record[s] = "live"
    BY <2>2 DEF Kept, Entry
  <2>4. CASE \E x \in Segments : Recoverable = Entry("planned", x) /\ disk.record[x] = "trash"
    <3>1. PICK x \in Segments : Recoverable = Entry("planned", x) /\ disk.record[x] = "trash"
      BY <2>4
    <3>2. Releasable(x)
      BY <3>1 DEF ReleaseInv
    <3>3. \A s \in Segments \ {x} : Recoverable # Entry("planned", s)
      BY <3>1 DEF Entry
    <3>4. \A s \in Segments \ {x} : Kept(s) <=> disk.record[s] = "live"
      BY <3>3 DEF Kept, Entry
    <3>5. Kept(x)
      BY <3>1 DEF Kept, Entry
    <3>. QED  BY <2>3, <3>2, <3>4, <3>5 DEF OneForgotten
  <2>5. CASE ~ \E x \in Segments : Recoverable = Entry("planned", x) /\ disk.record[x] = "trash"
    BY <2>3, <2>5 DEF Kept, Entry, SameHistory
  <2>. QED  BY <2>4, <2>5
<1>. QED  BY <1>1, <1>2

\* The record of one segment moves, the journal stays.
LEMMA RecordMoved ==
  ASSUME NEW t \in Segments, Recoverable' = Recoverable,
         \A s \in Segments \ {t} : disk'.record[s] = disk.record[s]
  PROVE  /\ \A s \in Segments \ {t} : Kept(s)' <=> Kept(s)
         /\ Releasable(t) /\ (Kept(t)' => Kept(t)) => OneForgotten
<1>1. \A s \in Segments \ {t} : Kept(s)' <=> Kept(s)
  BY DEF Kept
<1>. QED  BY <1>1 DEF OneForgotten

\* Every step of the card is one of the abstract history, or none.
LEMMA HistoryStep ==
  ASSUME IndInv, IndInv', [Next]_vars
  PROVE  \/ \E k \in Kinds : OpenSegment(k) \/ Acknowledge(k)
         \/ SameHistory /\ UNCHANGED <<created, acked>>
         \/ OneForgotten /\ UNCHANGED <<created, acked>>
<1>. USE MarkAssumption, SucceedsBoolean
     DEF IndInv, world, TypeInv, Typed, SegInv, InTransaction, Steps, DiskRecord
<1>1. CASE \/ \E s \in Segments : Damage(s)
           \/ Mount \/ RecoverRead \/ ApplyRetention \/ BeginRemoval
           \/ FinishRetention \/ DeleteMetadata \/ UNCHANGED vars
  <2>1. disk' = disk /\ UNCHANGED <<created, acked>>
    BY <1>1 DEF Damage, Mount, RecoverRead, ApplyRetention,
         BeginRemoval, FinishRetention, DeleteMetadata, vars
  <2>2. Recoverable' = Recoverable
    BY <2>1 DEF Recoverable
  <2>. QED  BY <2>1, <2>2, SameRecovery
<1>2. CASE \/ PowerLoss \/ RemoveOldTemporary \/ WriteTemporary
           \/ RemoveOldJournal \/ ClearJournal \/ ClearTemporary
  <2>1. /\ disk'.record = disk.record /\ disk'.journal \in {disk.journal, None}
        /\ UNCHANGED <<created, acked>>
    BY <1>2 DEF PowerLoss, RemoveOldTemporary, WriteTemporary,
         RemoveOldJournal, ClearJournal, ClearTemporary
  <2>. QED  BY <2>1, JournalReplaced
<1>3. CASE RecoverTemporary
  <2>1. disk' \in {disk, [disk EXCEPT !.tmp = None,
                            !.journal = IF @ # None THEN @ ELSE disk.tmp]}
    BY <1>3 DEF RecoverTemporary
  <2>2. disk'.record = disk.record
    BY <2>1
  <2>3. Recoverable' = Recoverable
    BY <2>1 DEF Recoverable
  <2>. QED  BY <1>3, <2>2, <2>3, SameRecovery DEF RecoverTemporary
<1>4. CASE InstallJournal
  <2>1. \/ disk' = disk
        \/ /\ disk.journal = None
           /\ disk' = [disk EXCEPT !.journal = disk.tmp, !.tmp = None]
    BY <1>4 DEF InstallJournal
  <2>2. disk'.record = disk.record
    BY <2>1
  <2>3. Recoverable' = Recoverable
    BY <2>1 DEF Recoverable
  <2>. QED  BY <1>4, <2>2, <2>3, SameRecovery DEF InstallJournal
<1>5. CASE UndoIndex \/ PurgeIndex \/ MoveIndex \/ DeleteIndex
  <2>1. \/ disk' = disk
        \/ \E place : disk' = [disk EXCEPT !.index[call.seg] = place]
    BY <1>5 DEF UndoIndex, PurgeIndex, RecoverIndex, MoveIndex, DeleteIndex
  <2>2. /\ disk'.record = disk.record /\ disk'.journal = disk.journal
        /\ disk'.tmp = disk.tmp
    BY <2>1
  <2>3. Recoverable' = Recoverable
    BY <2>2 DEF Recoverable
  <2>. QED  BY <1>5, <2>2, <2>3, SameRecovery
       DEF UndoIndex, PurgeIndex, RecoverIndex, MoveIndex, DeleteIndex
<1>6. CASE UndoRecord \/ PurgeRecord \/ MoveRecord \/ DeleteRecord
  <2>1. PICK t \in Segments : t = call.seg
    BY <1>6 DEF UndoRecord, PurgeRecord, RecoverRecord, MoveRecord,
       DeleteRecord
  <2>2. Releasable(t)
    BY <1>6, <2>1 DEF ReleaseInv, UndoRecord, PurgeRecord, RecoverRecord,
         MoveRecord, DeleteRecord
  <2>3. \/ disk' = disk
        \/ /\ UndoRecord /\ disk.record[t] = "trash"
           /\ disk' = [disk EXCEPT !.record[t] = "live"]
        \/ PurgeRecord /\ disk' = [disk EXCEPT !.record[t] = "none"]
        \/ MoveRecord /\ disk' = [disk EXCEPT !.record[t] = "trash"]
        \/ DeleteRecord /\ disk' = [disk EXCEPT !.record[t] = "none"]
    BY <1>6, <2>1 DEF UndoRecord, PurgeRecord, RecoverRecord, MoveRecord,
       DeleteRecord
  <2>4. /\ disk'.journal = disk.journal /\ disk'.tmp = disk.tmp
        /\ \A s \in Segments \ {t} : disk'.record[s] = disk.record[s]
    BY <2>3
  <2>5. Recoverable' = Recoverable
    BY <2>4 DEF Recoverable
  <2>6. UNCHANGED <<created, acked>>
    BY <1>6 DEF UndoRecord, PurgeRecord, RecoverRecord, MoveRecord,
       DeleteRecord
  <2>7. CASE disk' = disk
    BY <2>5, <2>6, <2>7, SameRecovery
  <2>8. CASE disk'.record[t] = "none"
    <3>1. ~Kept(t)'
      BY <2>8 DEF Kept
    <3>. QED  BY <2>2, <2>4, <2>5, <2>6, <3>1, RecordMoved
  <2>9. CASE MoveRecord
    <3>1. Kept(t)
      BY <2>1, <2>9 DEF MoveRecord, OrderInv, Kept
    <3>. QED  BY <2>2, <2>4, <2>5, <2>6, <3>1, RecordMoved
  <2>10. CASE UndoRecord /\ disk.record[t] = "trash"
    <3>1. disk.journal = Entry("planned", t) /\ disk.journal # None
      BY <2>1, <2>10 DEF UndoRecord, RecoverRecord, OrderInv, Entry, Entries,
         Stages
    <3>2. Kept(t)
      BY <2>10, <3>1 DEF Kept, Recoverable, Entry
    <3>. QED  BY <2>2, <2>4, <2>5, <2>6, <3>2, RecordMoved
  <2>. QED  BY <2>3, <2>7, <2>8, <2>9, <2>10
<1>. QED
  BY <1>1, <1>2, <1>3, <1>4, <1>5, <1>6 DEF Next

\* What the refinement mapping calls forgotten.
Forgotten(k) == {n \in 1..created[k] : ~Kept([kind |-> k, n |-> n])}

\* All the segments of a new card are part of the history.
LEMMA RefinesInit == Init => History!Init
<1>. SUFFICES ASSUME Init PROVE History!Init
  OBVIOUS
<1>1. created \in [Kinds -> Nat] /\ \A k \in Kinds : created[k] <= MaxSegments
  BY CleanupAssumption DEF Init
<1>2. ASSUME NEW k \in Kinds, NEW n \in 1..created[k]
      PROVE  Kept([kind |-> k, n |-> n])
  <2>. DEFINE s == [kind |-> k, n |-> n]
  <2>1. s \in Segments /\ s.kind = k /\ s.n = n
    BY <1>1, CleanupAssumption DEF Segments
  <2>. HIDE DEF s
  <2>2. disk.record[s] = "live"
    BY <2>1 DEF Init
  <2>. QED  BY <2>2 DEF Kept, s
<1>. QED  BY <1>1, <1>2 DEF Init, History!Init

\* The refinement mapping, step by step.
LEMMA RefinesStep ==
  ASSUME IndInv, IndInv', [Next]_vars
  PROVE  [History!Next]_(History!vars)
<1>0. /\ created \in [Kinds -> Nat] /\ acked \in [Kinds -> Nat]
      /\ \A k \in Kinds : created[k] <= MaxSegments
      /\ \A k \in Kinds : \A n \in 1..created[k] :
           [kind |-> k, n |-> n] \in Segments
      /\ \A s \in Segments : /\ s.kind \in Kinds /\ s.n \in Nat \ {0}
                             /\ s = [kind |-> s.kind, n |-> s.n]
  BY CleanupAssumption DEF IndInv, TypeInv, Typed, OpenedInv, Segments
<1>1. ASSUME NEW k \in Kinds, OpenSegment(k) PROVE History!Next
  <2>1. created' = [created EXCEPT ![k] = @ + 1] /\ acked' = acked
    BY <1>1 DEF OpenSegment
  <2>2. created[k] + 1 \in 1..MaxSegments
    BY <1>0, <1>1, CleanupAssumption DEF OpenSegment
  <2>3. PICK t \in Segments : t = [kind |-> k, n |-> created[k] + 1]
    <3>1. [kind |-> k, n |-> created[k] + 1] \in Segments
      BY <2>2 DEF Segments
    <3>. QED  BY <3>1
  <2>4. /\ disk'.record = [disk.record EXCEPT ![t] = "live"]
        /\ disk'.journal = disk.journal /\ disk'.tmp = disk.tmp
        /\ disk.record \in [Segments -> Places]
    BY <1>1, <2>3 DEF OpenSegment, IndInv, TypeInv, Typed, DiskRecord
  <2>5. Recoverable' = Recoverable
    BY <2>4 DEF Recoverable
  <2>6. \A s \in Segments \ {t} : Kept(s)' <=> Kept(s)
    BY <2>4, <2>5 DEF Kept
  <2>7. Kept(t)'
    BY <2>4 DEF Kept
  <2>8. ASSUME NEW j \in Kinds PROVE Forgotten(j)' = Forgotten(j)
    <3>1. \A n \in 1..created[j] : /\ [kind |-> j, n |-> n] \in Segments
                                   /\ [kind |-> j, n |-> n] # t
      <4>1. \A n \in 1..created[j] : j = k => n # created[k] + 1
        BY <1>0
      <4>. QED  BY <1>0, <2>3, <4>1
    <3>2. \A n \in 1..created[j] :
            Kept([kind |-> j, n |-> n])' <=> Kept([kind |-> j, n |-> n])
      BY <2>6, <3>1
    <3>3. CASE j # k
      BY <1>0, <2>1, <3>2, <3>3 DEF Forgotten
    <3>4. CASE j = k
      <4>1. created'[j] = created[j] + 1 /\ created[j] \in Nat
        BY <1>0, <2>1, <3>4
      <4>2. PICK m \in Nat : m = created[j] + 1
        BY <4>1
      <4>3. 1..created'[j] = (1..created[j]) \cup {m}
        BY <4>1, <4>2
      <4>4. Kept([kind |-> j, n |-> m])'
        BY <2>3, <2>7, <3>4, <4>2
      <4>. QED  BY <3>2, <4>3, <4>4 DEF Forgotten
    <3>. QED  BY <3>3, <3>4
  <2>. QED  BY <2>1, <2>8 DEF History!Next, History!Add, Forgotten
<1>2. ASSUME NEW k \in Kinds, Acknowledge(k) PROVE History!Next
  <2>1. disk' = disk /\ created' = created
    BY <1>2 DEF Acknowledge
  <2>2. PICK n \in AckPoints : /\ acked[k] < n /\ n <= created[k]
                               /\ acked' = [acked EXCEPT ![k] = n]
    BY <1>2 DEF Acknowledge
  <2>3. n \in (acked[k] + 1)..created[k]
    BY <1>0, <2>2, CleanupAssumption
  <2>4. Recoverable' = Recoverable
    BY <2>1 DEF Recoverable
  <2>5. SameHistory
    BY <2>1, <2>4, SameRecovery
  <2>6. \A j \in Kinds : Forgotten(j)' = Forgotten(j)
    BY <1>0, <2>1, <2>5 DEF Forgotten, SameHistory
  <2>. QED
    BY <2>1, <2>2, <2>3, <2>6 DEF History!Next, History!Confirm, Forgotten
<1>3. CASE SameHistory /\ UNCHANGED <<created, acked>>
  <2>1. \A j \in Kinds : Forgotten(j)' = Forgotten(j)
    BY <1>0, <1>3 DEF Forgotten, SameHistory
  <2>. QED  BY <1>3, <2>1 DEF History!vars, Forgotten
<1>4. CASE OneForgotten /\ UNCHANGED <<created, acked>>
  <2>1. PICK t \in Segments : /\ Releasable(t)
                              /\ Kept(t)' => Kept(t)
                              /\ \A s \in Segments \ {t} : Kept(s)' <=> Kept(s)
    BY <1>4 DEF OneForgotten
  <2>2. CASE Kept(t)' <=> Kept(t)
    BY <1>3, <1>4, <2>1, <2>2 DEF SameHistory
  <2>3. CASE Kept(t) /\ ~Kept(t)'
    <3>1. /\ t.kind \in Kinds /\ t.n \in 1..created[t.kind]
          /\ t.n \in 1..acked[t.kind] /\ t.n + 3 <= created[t.kind]
          /\ t = [kind |-> t.kind, n |-> t.n]
      BY <1>0, <2>1 DEF Releasable
    <3>2. t.n \notin Forgotten(t.kind)
      BY <2>3, <3>1 DEF Forgotten
    <3>3. ASSUME NEW j \in Kinds, j # t.kind PROVE Forgotten(j)' = Forgotten(j)
      BY <1>0, <1>4, <2>1, <3>3 DEF Forgotten
    <3>4. Forgotten(t.kind)' = Forgotten(t.kind) \cup {t.n}
      <4>1. ASSUME NEW n \in 1..created[t.kind], n # t.n
            PROVE  Kept([kind |-> t.kind, n |-> n])' <=> Kept([kind |-> t.kind, n |-> n])
        BY <1>0, <2>1, <3>1, <4>1
      <4>. QED  BY <1>4, <2>3, <3>1, <4>1 DEF Forgotten
    <3>. DEFINE F == [j \in Kinds |-> Forgotten(j)]
    <3>5. F' = [F EXCEPT ![t.kind] = @ \cup {t.n}]
      BY <3>1, <3>3, <3>4
    <3>6. F[t.kind] = Forgotten(t.kind)
      BY <3>1
    <3>7. History!Forget(t.kind)
      BY <1>4, <3>1, <3>2, <3>5, <3>6 DEF History!Forget, Forgotten
    <3>. QED  BY <3>1, <3>7 DEF History!Next
  <2>. QED  BY <2>1, <2>2, <2>3
<1>. QED  BY <1>1, <1>2, <1>3, <1>4, HistoryStep

\* applyRetention implements RetainedHistory: a removal takes effect in one
\* step, is never undone, and takes only acknowledged segments outside the
\* three newest, even when removals overrun one another.
THEOREM CleanupImplementsHistory == Spec => ImplementsHistory
  BY RefinesInit, RefinesStep, InductiveInvariant, PTL
  DEF Spec, ImplementsHistory, History!Spec
=============================================================================
