-------------------------- MODULE ServerSyncProofs ---------------------------
(***************************************************************************)
(* Proofs about ServerSync, for every number of readings, generations,     *)
(* faults and every size of a page: its type invariant, GenerationKept,    *)
(* CursorBehindServer, NoUploadBehindEvidence and, as long as no segment   *)
(* is passed over because it cannot be opened, DeliveredBeforeForgotten.   *)
(*                                                                         *)
(* A reading is followed along its way: what the card holds (StoreInv),    *)
(* what a page, a request and a request the task gave up on carry          *)
(* (PageInv), what an answer says of the server (AnswerInv), and what the  *)
(* reset relies on (ResetInv).  KeptInv says of the undelivered readings   *)
(* that nothing on that way declares them unavailable.                     *)
(***************************************************************************)
EXTENDS ServerSync, TLAPS, WellFoundedInduction, FiniteSetTheorems, SequenceTheorems

\* The history jobs and the state of the server.
Jobs == [after : 0 .. MaxSeq, live : BOOLEAN]
Slots == [state : {"free", "pending", "ready"}, page : Pages]
Servers == [gen : Gens, base : 0 .. MaxSeq, got : SUBSET (Seqs \X Gens),
            gone : SUBSET Seqs]
Holds == [ack : 0 .. MaxSeq, max : 0 .. MaxSeq, regressed : BOOLEAN]

\* What is on the wire, and where in the task it may be.
NetTyped ==
  /\ net.kind \in {"none", "batch", "heartbeat", "answer", "failed"}
  /\ net.kind = "batch" => net.body \in Batches
  /\ net.kind = "answer" => net.ack \in 0 .. MaxSeq /\ net.max \in 0 .. MaxSeq
  /\ pc = "posted" => net.kind \in {"batch", "answer", "failed"}
  /\ pc = "beat" => net.kind \in {"heartbeat", "answer", "failed"}
  /\ pc \in {"idle", "looked", "leased", "holding"} => net.kind = "none"

\* The type invariant with the full types of the records.
Typed ==
  /\ card \in [Seqs -> {"none", "sync", "plain"}]
  /\ next \in 1 .. MaxSeq + 1
  /\ born \in [Seqs -> Gens] /\ kept \subseteq Seqs
  /\ gen \in Gens /\ boundary \in 0 .. MaxSeq
  /\ cur \in Cursors /\ evidence \in Cursors /\ reset \in ResetSteps
  /\ job \in {"none", "held"} /\ slot \in Slots
  /\ queue \in Seq(Jobs) /\ Len(queue) <= QueueDepth /\ observed \in BOOLEAN
  /\ pc \in {"idle", "beat", "looked", "leased", "holding", "posted"}
  /\ who \in {"push", "heartbeat"} /\ hold \in Holds
  /\ late \subseteq Batches /\ \A b, c \in late : b = c
  /\ srv \in Servers /\ budget \in 0 .. MaxFault

\* A reset that is under way leads to one more generation.
TypeInv == Typed /\ NetTyped /\ (reset # "none" => gen < MaxGen)

-----------------------------------------------------------------------------
(* Largest and smallest members                                             *)

\* The bounds the assumptions on the constants give.
LEMMA Bounds ==
  /\ MaxSeq \in Nat /\ MaxSeq >= 1 /\ MaxGen \in Nat /\ QueueDepth \in Nat
  /\ QueueDepth >= 1 /\ MaxFault \in Nat /\ MaxSegment \in Nat
  /\ UnavailableLimit \in Nat
  BY SyncAssumption

\* A set of numbers has a least one.
LEMMA LeastNatural ==
  ASSUME NEW S \in SUBSET Nat, S # {}
  PROVE  \E m \in S : \A s \in S : m <= s
<1>. DEFINE R == OpToRel(<, Nat)
<1>1. IsWellFoundedOn(R, Nat)
  BY NatLessThanWellFounded
<1>2. PICK x \in S : \A y \in S : ~(<<y, x>> \in R)
  BY <1>1, WFMin
<1>3. \A y \in Nat : y < x => <<y, x>> \in R
  BY DEF OpToRel
<1>. HIDE DEF R
<1>4. \A y \in S : ~(y < x)
  BY <1>2, <1>3
<1>. QED  BY <1>4

\* Max returns the largest member of a bounded set of numbers.
LEMMA MaxIsLargest ==
  ASSUME NEW bound \in Nat, NEW S \in SUBSET (0 .. bound), S # {}
  PROVE  Max(S) \in S /\ \A s \in S : s <= Max(S)
<1>0. S \in SUBSET Nat /\ \A s \in S : s <= bound
  OBVIOUS
<1>. DEFINE T == {n \in Nat : \E s \in S : n + s = bound}
<1>1. T # {}
  <2>1. PICK s \in S : TRUE
    OBVIOUS
  <2>2. bound - s \in T
    BY <1>0, <2>1
  <2>. QED  BY <2>2
<1>2. PICK n \in T : \A x \in T : n <= x
  BY <1>1, LeastNatural
<1>3. PICK m \in S : n + m = bound
  BY <1>2
<1>4. ASSUME NEW s \in S PROVE m >= s
  <2>1. bound - s \in T
    BY <1>0
  <2>2. n <= bound - s /\ n \in Nat /\ m \in Nat /\ s \in Nat
    BY <1>0, <1>2, <1>3, <2>1
  <2>. QED  BY <1>0, <1>3, <2>2
<1>5. Max(S) \in S /\ \A s \in S : Max(S) >= s
  BY <1>4 DEF Max
<1>. QED  BY <1>0, <1>5

\* The larger of two numbers.
LEMMA MaxOfTwo ==
  ASSUME NEW a \in Nat, NEW b \in Nat
  PROVE  Max({a, b}) = IF a >= b THEN a ELSE b
<1>1. \E x \in {a, b} : \A y \in {a, b} : x >= y
  OBVIOUS
<1>2. /\ Max({a, b}) \in {a, b}
      /\ \A y \in {a, b} : Max({a, b}) >= y
  BY <1>1 DEF Max
<1>. QED  BY <1>2

\* The smaller of two numbers.
LEMMA MinOfTwo ==
  ASSUME NEW a \in Nat, NEW b \in Nat
  PROVE  Min({a, b}) = IF a <= b THEN a ELSE b
<1>1. \E x \in {a, b} : \A y \in {a, b} : x <= y
  OBVIOUS
<1>2. /\ Min({a, b}) \in {a, b}
      /\ \A y \in {a, b} : Min({a, b}) <= y
  BY <1>1 DEF Min
<1>. QED  BY <1>2

-----------------------------------------------------------------------------
(* Pages                                                                    *)

\* Whatever candidates the byte and record limits left, a page takes its
\* records from what the scan observed, and declares
\* unavailable only what lies between the cursor and the newest record and
\* was not observed.
LEMMA CoveragePageIsSound ==
  ASSUME NEW after \in 0 .. MaxSeq, NEW newest \in 0 .. MaxSeq,
         NEW seen \in SUBSET Seqs, NEW candidates, NEW oversize \in BOOLEAN
  PROVE  LET page == CoveragePage(after, newest, seen, candidates, oversize,
                                  UnavailableLimit)
         IN  /\ page \in Pages
             /\ page.records \subseteq seen
             /\ page.unavailable \subseteq (after + 1 .. newest)
             /\ page.unavailable \cap seen = {}
<1>. DEFINE selected == seen \cap candidates
            plan == deriveSyncCoverage(after, newest, selected, seen, UnavailableLimit)
            desiredEnd == IF selected = {} THEN newest ELSE Min({newest, Max(selected)})
            Missing(end) == (after + 1 .. end) \ selected
            Reached(end) == /\ Missing(end) \cap seen = {}
                            /\ Cardinality(Missing(end)) <= UnavailableLimit
            ends == {e \in after + 1 .. desiredEnd : Reached(e)}
<1>1. selected \subseteq seen
  OBVIOUS
<1>2. desiredEnd \in 0 .. newest
  <2>1. CASE selected = {}
    BY <2>1, Bounds
  <2>2. CASE selected # {}
    <3>1. selected \in SUBSET (0 .. MaxSeq)
      <4>. HIDE DEF selected
      <4>. QED  BY <1>1, Bounds DEF Seqs
    <3>2. Max(selected) \in selected
      BY <2>2, <3>1, Bounds, MaxIsLargest
    <3>3. Max(selected) \in Nat /\ newest \in Nat
      BY <3>1, <3>2, Bounds
    <3>4. Min({newest, Max(selected)}) = IF newest <= Max(selected) THEN newest
                                         ELSE Max(selected)
      BY <3>3, MinOfTwo
    <3>. HIDE DEF selected
    <3>. QED  BY <2>2, <3>3, <3>4
  <2>. QED  BY <2>1, <2>2
<1>3. plan = IF newest <= after \/ UnavailableLimit = 0 \/ ends = {}
             THEN [end |-> 0, unavailable |-> {}]
             ELSE [end |-> Max(ends), unavailable |-> Missing(Max(ends))]
  BY DEF deriveSyncCoverage
<1>4. CoveragePage(after, newest, seen, candidates, oversize, UnavailableLimit) =
        IF oversize THEN [ok |-> FALSE, records |-> {}, unavailable |-> {}]
        ELSE [ok |-> TRUE, records |-> {s \in selected : s <= plan.end},
              unavailable |-> plan.unavailable]
  BY DEF CoveragePage
<1>5. /\ plan.unavailable \subseteq (after + 1 .. newest)
      /\ plan.unavailable \cap seen = {}
  <2>1. CASE ends = {} \/ newest <= after \/ UnavailableLimit = 0
    <3>. HIDE DEF ends, selected
    <3>. QED  BY <1>3, <2>1
  <2>2. CASE ends # {} /\ ~(newest <= after \/ UnavailableLimit = 0)
    <3>. HIDE DEF desiredEnd
    <3>1. ends \in SUBSET (0 .. MaxSeq)
      BY <1>2, Bounds
    <3>2. Max(ends) \in ends
      BY <2>2, <3>1, Bounds, MaxIsLargest
    <3>3. plan.unavailable = Missing(Max(ends))
      <4>. HIDE DEF ends, Missing
      <4>. QED  BY <1>3, <2>2
    <3>4. Missing(Max(ends)) \cap seen = {} /\ Max(ends) \in 0 .. newest
      BY <1>2, <3>2, Bounds
    <3>5. Missing(Max(ends)) \subseteq (after + 1 .. Max(ends))
      OBVIOUS
    <3>. HIDE DEF ends, Missing, plan
    <3>. QED  BY <3>3, <3>4, <3>5, Bounds
  <2>. QED  BY <2>1, <2>2
<1>. HIDE DEF plan, selected
<1>6. plan.unavailable \in SUBSET Seqs
  BY <1>5, Bounds DEF Seqs
<1>7. CASE oversize = TRUE
  BY <1>4, <1>7 DEF Pages
<1>8. CASE oversize = FALSE
  BY <1>1, <1>4, <1>5, <1>6, <1>8 DEF Pages
<1>. QED  BY <1>7, <1>8

\* The newest record is on the card, and no record is newer.
LEMMA NewestIsRetained ==
  ASSUME Typed
  PROVE  /\ Retained \subseteq Seqs /\ Syncable \subseteq Retained
         /\ newest_sequence \in 0 .. MaxSeq
         /\ newest_sequence # 0 => newest_sequence \in Retained
         /\ \A s \in Retained : s <= newest_sequence
<1>1. Retained \subseteq Seqs /\ Syncable \subseteq Retained
  BY DEF Retained, Syncable
<1>2. CASE Retained = {}
  BY <1>1, <1>2, Bounds DEF newest_sequence
<1>3. CASE Retained # {}
  <2>1. Retained \in SUBSET (0 .. MaxSeq)
    BY <1>1, Bounds DEF Seqs
  <2>2. Max(Retained) \in Retained /\ \A s \in Retained : s <= Max(Retained)
    BY <1>3, <2>1, Bounds, MaxIsLargest
  <2>3. newest_sequence = Max(Retained)
    BY <1>3 DEF newest_sequence
  <2>. QED  BY <1>1, <2>1, <2>2, <2>3
<1>. QED  BY <1>2, <1>3

\* What readPage answers: records that are on the card and syncable, and
\* sequences up to the newest record that are not, unless a segment was
\* passed over.
LEMMA ReadPageIsSound ==
  ASSUME Typed, NEW after \in 0 .. MaxSeq, NEW unreadable, NEW candidates
  PROVE  LET page == readPage(after, unreadable, candidates)
         IN  /\ page \in Pages
             /\ page.records \subseteq Syncable
             /\ \A s \in page.unavailable : s <= newest_sequence
             /\ unreadable = {} => page.unavailable \cap Syncable = {}
<1>. DEFINE seen == {s \in Syncable \ unreadable : s > after}
<1>1. NoPage \in Pages /\ NoPage.records = {} /\ NoPage.unavailable = {}
  BY DEF NoPage, Pages
<1>2. seen \in SUBSET Seqs /\ seen \subseteq Syncable
  BY NewestIsRetained
<1>3. newest_sequence \in 0 .. MaxSeq /\ Syncable \subseteq Seqs
  BY NewestIsRetained
<1>. DEFINE oversize == \E s \in seen : Bytes[s] > PageBytes
            page == CoveragePage(after, newest_sequence, seen, candidates, oversize,
                                 UnavailableLimit)
<1>4. /\ page \in Pages /\ page.records \subseteq seen
      /\ page.unavailable \subseteq (after + 1 .. newest_sequence)
      /\ page.unavailable \cap seen = {}
  <2>1. oversize \in BOOLEAN
    OBVIOUS
  <2>. HIDE DEF seen, oversize
  <2>. QED  BY <1>2, <1>3, <2>1, CoveragePageIsSound
<1>5. \/ readPage(after, unreadable, candidates) = NoPage
      \/ readPage(after, unreadable, candidates) = page
  BY DEF readPage, Scanned
<1>6. ASSUME unreadable = {}, NEW s \in page.unavailable PROVE s \notin Syncable
  <2>1. s > after /\ s \notin seen
    <3>. HIDE DEF page, seen
    <3>. QED  BY <1>4, <1>3, Bounds
  <2>. QED  BY <1>6, <2>1
<1>7. /\ page.records \subseteq Syncable
      /\ \A s \in page.unavailable : s <= newest_sequence
  <2>. HIDE DEF page, seen
  <2>. QED  BY <1>2, <1>4, <1>3, Bounds
<1>. HIDE DEF page
<1>. QED  BY <1>1, <1>4, <1>5, <1>6, <1>7

\* Forgetting the ids of the queued jobs keeps the jobs.
LEMMA ForgetJobsType ==
  ASSUME queue \in Seq(Jobs)
  PROVE  ForgetJobs \in Seq(Jobs) /\ Len(ForgetJobs) = Len(queue)
<1>0. \A j \in Jobs : [j EXCEPT !.live = FALSE] \in Jobs
  BY DEF Jobs
<1>1. \A i \in 1 .. Len(queue) : [queue[i] EXCEPT !.live = FALSE] \in Jobs
  BY <1>0
<1>2. DOMAIN queue = 1 .. Len(queue) /\ Len(queue) \in Nat
  OBVIOUS
<1>3. ForgetJobs \in [1 .. Len(queue) -> Jobs]
  BY <1>1, <1>2 DEF ForgetJobs
<1>4. ForgetJobs \in Seq(Jobs)
  BY <1>2, <1>3, IsASeq
<1>. QED  BY <1>2, <1>3, <1>4

-----------------------------------------------------------------------------
(* The server                                                               *)

\* The contiguous coverage of the server lies within what it covers.
LEMMA ServerAckIsCovered ==
  ASSUME NEW server \in Servers
  PROVE  /\ ServerAck(server) \in 0 .. MaxSeq
         /\ \A s \in 1 .. ServerAck(server) : s \in Covered(server)
         /\ \A n \in 0 .. MaxSeq :
              (\A s \in 1 .. n : s \in Covered(server)) => n <= ServerAck(server)
<1>. DEFINE S == {n \in 0 .. MaxSeq : \A s \in 1 .. n : s \in Covered(server)}
<1>1. 0 \in S /\ S \in SUBSET (0 .. MaxSeq)
  BY Bounds
<1>2. Max(S) \in S /\ \A n \in S : n <= Max(S)
  BY <1>1, Bounds, MaxIsLargest
<1>3. ServerAck(server) = Max(S)
  BY DEF ServerAck, Contiguous
<1>. QED  BY <1>2, <1>3

\* A server that covers more acknowledges at least as much.
LEMMA ServerAckGrows ==
  ASSUME NEW old \in Servers, NEW new \in Servers, Covered(old) \subseteq Covered(new)
  PROVE  ServerAck(old) <= ServerAck(new)
  BY ServerAckIsCovered

\* Nothing the server covers is above what it says it has seen.
LEMMA ServerMaxIsLargest ==
  ASSUME NEW server \in Servers
  PROVE  ServerMax(server) \in 0 .. MaxSeq /\ \A s \in Covered(server) : s <= ServerMax(server)
<1>1. Covered(server) \subseteq Seqs
  BY DEF Covered
<1>2. Covered(server) \cup {0} \in SUBSET (0 .. MaxSeq)
  BY <1>1, Bounds DEF Seqs
<1>3. /\ Max(Covered(server) \cup {0}) \in Covered(server) \cup {0}
      /\ \A s \in Covered(server) \cup {0} : s <= Max(Covered(server) \cup {0})
  BY <1>2, Bounds, MaxIsLargest
<1>. QED  BY <1>2, <1>3 DEF ServerMax

\* What a processed batch changes at the server.
LEMMA AcceptEffect ==
  ASSUME NEW server \in Servers, NEW b \in Batches
  PROVE  LET after == Accept(server, b)
         IN  /\ after \in Servers
             /\ after.gen = server.gen /\ after.base = server.base
             /\ Covered(server) \subseteq Covered(after)
             /\ server.got \subseteq after.got
             /\ \A p \in after.got : \/ p \in server.got
                                     \/ p[1] \in b.records /\ p[2] = b.gen
             /\ \A s \in after.gone : \/ s \in server.gone
                                      \/ s \in b.unavailable /\ s \notin Covered(server)
<1>1. CASE b.gen # server.gen
  BY <1>1 DEF Accept
<1>2. CASE b.gen = server.gen
  <2>. DEFINE after == Accept(server, b)
  <2>1. /\ b.records \subseteq Seqs /\ b.unavailable \subseteq Seqs /\ b.gen \in Gens
        /\ server.got \subseteq (Seqs \X Gens) /\ server.gone \subseteq Seqs
    BY DEF Batches, Servers
  <2>2. /\ after.gen = server.gen /\ after.base = server.base
        /\ after.got = server.got \cup {<<s, b.gen>> : s \in b.records}
        /\ after.gone = server.gone \cup {s \in b.unavailable : s \notin Covered(server)}
    BY <1>2 DEF Accept, Servers
  <2>3. after.got \subseteq (Seqs \X Gens) /\ after.gone \subseteq Seqs
    <3>. HIDE DEF after
    <3>. QED  BY <2>1, <2>2
  <2>4. after \in Servers
    BY <1>2, <2>1, <2>2, <2>3 DEF Accept, Servers
  <2>5. Covered(server) \subseteq Covered(after)
    <3>. HIDE DEF after
    <3>. QED  BY <2>2 DEF Covered
  <2>6. \A p \in after.got : p \in server.got \/ (p[1] \in b.records /\ p[2] = b.gen)
    <3>. HIDE DEF after
    <3>. QED  BY <2>2
  <2>7. server.got \subseteq after.got
    <3>. HIDE DEF after
    <3>. QED  BY <2>2
  <2>8. \A s \in after.gone : s \in server.gone
                            \/ (s \in b.unavailable /\ s \notin Covered(server))
    <3>. HIDE DEF after
    <3>. QED  BY <2>2
  <2>9. after.gen = server.gen /\ after.base = server.base
    BY <2>2
  <2>. QED  BY <2>4, <2>5, <2>6, <2>7, <2>8, <2>9
<1>. QED  BY <1>1, <1>2

-----------------------------------------------------------------------------
(* Types                                                                    *)

\* The constants the records start from are of their types.
LEMMA ConstantTypes ==
  /\ NoPage \in Pages /\ Free \in Slots /\ Pending \in Slots
  /\ NoAnswer \in Holds /\ NoCursor \in Cursors
<1>1. NoPage \in Pages
  BY DEF NoPage, Pages
<1>2. Free \in Slots /\ Pending \in Slots
  BY <1>1 DEF Free, Pending, Slots
<1>3. NoAnswer \in Holds /\ NoCursor \in Cursors
  BY Bounds DEF NoAnswer, NoCursor, Holds, Cursors
<1>. QED  BY <1>1, <1>2, <1>3

\* Everything is empty at the start.
LEMMA TypeInit == Init => TypeInv
<1>. SUFFICES ASSUME Init PROVE TypeInv
  OBVIOUS
<1>1. srv \in Servers
  BY Bounds DEF Init, Servers, Gens
<1>2. <<>> \in Seq(Jobs) /\ Len(<<>>) = 0
  OBVIOUS
<1>3. net.kind = "none" /\ pc = "idle"
  BY DEF Init, Silence
<1>4. NetTyped
  BY <1>3 DEF NetTyped
<1>5. card \in [Seqs -> {"none", "sync", "plain"}] /\ born \in [Seqs -> Gens]
  BY Bounds DEF Init, Gens
<1>6. queue \in Seq(Jobs) /\ Len(queue) <= QueueDepth
  BY <1>2, Bounds DEF Init
<1>7. /\ next \in 1 .. MaxSeq + 1 /\ kept \subseteq Seqs /\ boundary \in 0 .. MaxSeq
      /\ gen \in Gens /\ budget \in 0 .. MaxFault
  BY Bounds DEF Init, Gens
<1>8. /\ cur \in Cursors /\ evidence \in Cursors /\ slot \in Slots /\ hold \in Holds
      /\ reset = "none" /\ observed \in BOOLEAN /\ job = "none" /\ who = "push" /\ late = {}
  BY ConstantTypes DEF Init
<1>. QED
  BY <1>1, <1>3, <1>4, <1>5, <1>6, <1>7, <1>8 DEF TypeInv, Typed, ResetSteps

\* The types imply the type invariant of the module.
LEMMA TypeInvIsTypeOK == TypeInv => TypeOK
<1>. SUFFICES ASSUME TypeInv PROVE TypeOK
  OBVIOUS
<1>1. Cardinality(late) <= 1
  <2>1. CASE late = {}
    BY <2>1, FS_EmptySet
  <2>2. CASE late # {}
    <3>1. PICK b \in late : TRUE
      BY <2>2
    <3>2. late = {b}
      BY <3>1 DEF TypeInv, Typed
    <3>3. Cardinality({b}) = 1
      BY FS_Singleton
    <3>. QED  BY <3>2, <3>3
  <2>. QED  BY <2>1, <2>2
<1>2. /\ slot.state \in {"free", "pending", "ready"} /\ slot.page \in Pages
      /\ srv.gen \in Gens /\ srv.base \in 0 .. MaxSeq
      /\ srv.got \subseteq (Seqs \X Gens) /\ srv.gone \subseteq Seqs
  BY DEF TypeInv, Typed, Slots, Servers
<1>. QED  BY <1>1, <1>2 DEF TypeInv, Typed, NetTyped, TypeOK, Jobs, Holds

\* The fields of the records, for the proofs below.
LEMMA Fields ==
  ASSUME TypeInv
  PROVE  /\ cur.ack \in 0 .. MaxSeq /\ cur.max \in 0 .. MaxSeq
         /\ evidence.ack \in 0 .. MaxSeq /\ evidence.max \in 0 .. MaxSeq
         /\ hold.ack \in 0 .. MaxSeq /\ hold.max \in 0 .. MaxSeq
         /\ slot.state \in {"free", "pending", "ready"} /\ slot.page \in Pages
         /\ slot.page.records \subseteq Seqs /\ slot.page.unavailable \subseteq Seqs
         /\ srv.gen \in Gens /\ srv.base \in 0 .. MaxSeq
         /\ srv.got \subseteq (Seqs \X Gens) /\ srv.gone \subseteq Seqs
         /\ \A b \in Batches : /\ b.gen \in Gens /\ b.records \subseteq Seqs
                               /\ b.unavailable \subseteq Seqs
  BY DEF TypeInv, Typed, Cursors, Holds, Slots, Pages, Servers, Batches

\* They are numbers.
LEMMA Numbers ==
  ASSUME TypeInv
  PROVE  /\ next \in Nat /\ boundary \in Nat /\ cur.ack \in Nat /\ cur.max \in Nat
         /\ evidence.max \in Nat /\ hold.ack \in Nat /\ srv.base \in Nat /\ Seqs \subseteq Nat
<1>1. next \in Nat /\ boundary \in Nat
  BY Bounds DEF TypeInv, Typed
<1>2. Seqs \subseteq Nat
  BY DEF Seqs
<1>3. 0 .. MaxSeq \subseteq Nat
  OBVIOUS
<1>. QED  BY <1>1, <1>2, <1>3, Fields

\* Every step keeps the types.
LEMMA TypeStep == TypeInv /\ [Next]_vars => TypeInv'
<1>. SUFFICES ASSUME TypeInv, [Next]_vars PROVE TypeInv'
  OBVIOUS
<1>. USE DEF TypeInv, Typed, NetTyped, storageVars, deviceVars, resetVars, pageVars,
             taskVars, wireVars
<1>a. CASE appendRecord
  <2>1. next \in Seqs /\ next + 1 \in 1 .. MaxSeq + 1
    BY <1>a, Bounds DEF appendRecord, Seqs
  <2>2. PICK kind \in {"sync", "plain"} :
          /\ card' = [card EXCEPT ![next] = kind]
          /\ kept' = IF kind = "sync" THEN kept \cup {next} ELSE kept
    BY <1>a DEF appendRecord
  <2>3. card' \in [Seqs -> {"none", "sync", "plain"}] /\ kept' \subseteq Seqs
    BY <2>1, <2>2
  <2>4. born' \in [Seqs -> Gens] /\ next' \in 1 .. MaxSeq + 1
    BY <1>a, <2>1 DEF appendRecord
  <2>. QED  BY <1>a, <2>3, <2>4 DEF appendRecord
<1>b. CASE RemoveSegment
  <2>1. card' \in [Seqs -> {"none", "sync", "plain"}]
    BY <1>b DEF RemoveSegment
  <2>. QED  BY <1>b, <2>1 DEF RemoveSegment
<1>c. CASE HistoryJob
  <2>1. Head(queue) \in Jobs /\ Tail(queue) \in Seq(Jobs) /\ Len(Tail(queue)) <= QueueDepth
    BY <1>c, Bounds DEF HistoryJob
  <2>2. Head(queue).after \in 0 .. MaxSeq
    BY <2>1 DEF Jobs
  <2>3. \A unreadable, candidates : readPage(Head(queue).after, unreadable, candidates) \in Pages
    BY <2>2, ReadPageIsSound
  <2>4. slot' \in Slots
    BY <1>c, <2>3 DEF HistoryJob, Slots
  <2>5. budget' \in 0 .. MaxFault
    BY <1>c, Bounds DEF HistoryJob, Fault, CanFault
  <2>. QED  BY <1>c, <2>1, <2>4, <2>5 DEF HistoryJob
<1>d. CASE HistoryExpires
  <2>1. budget' \in 0 .. MaxFault
    BY <1>d, Bounds DEF HistoryExpires, Fault, CanFault
  <2>. QED  BY <1>d, <2>1, ConstantTypes DEF HistoryExpires
<1>e. CASE ServerAnswers
  <2>. DEFINE after == IF net.kind = "batch" THEN Accept(srv, net.body) ELSE srv
  <2>1. after \in Servers
    BY AcceptEffect
  <2>2. ServerAck(after) \in 0 .. MaxSeq /\ ServerMax(after) \in 0 .. MaxSeq
    BY <2>1, ServerAckIsCovered, ServerMaxIsLargest
  <2>3. /\ srv' = after
        /\ \/ net' = [kind |-> "failed"]
           \/ net' = [kind |-> "answer", ack |-> ServerAck(after), max |-> ServerMax(after)]
    BY <1>e DEF ServerAnswers
  <2>. HIDE DEF after
  <2>4. /\ net'.kind \in {"failed", "answer"}
        /\ net'.kind = "answer" => net'.ack \in 0 .. MaxSeq /\ net'.max \in 0 .. MaxSeq
    BY <2>2, <2>3
  <2>5. pc \in {"posted", "beat"}
    BY <1>e DEF ServerAnswers
  <2>. QED  BY <1>e, <2>1, <2>3, <2>4, <2>5 DEF ServerAnswers
<1>f. CASE RequestTimesOut
  <2>1. budget' \in 0 .. MaxFault
    BY <1>f, Bounds DEF RequestTimesOut, Fault, CanFault
  <2>2. srv' \in Servers
    BY <1>f, AcceptEffect DEF RequestTimesOut
  <2>3. late' \subseteq Batches /\ \A b, c \in late' : b = c
    BY <1>f DEF RequestTimesOut
  <2>4. net'.kind = "failed" /\ pc \in {"posted", "beat"}
    BY <1>f DEF RequestTimesOut
  <2>. QED  BY <1>f, <2>1, <2>2, <2>3, <2>4 DEF RequestTimesOut
<1>g. CASE LateRequest
  <2>1. srv' \in Servers
    BY <1>g, AcceptEffect DEF LateRequest
  <2>. QED  BY <1>g, <2>1 DEF LateRequest
<1>h. CASE ServerAdopts
  <2>1. srv' \in Servers
    BY <1>h DEF ServerAdopts, Servers
  <2>. QED  BY <1>h, <2>1 DEF ServerAdopts
<1>i. CASE ObserveGate
  <2>1. slot' \in Slots /\ queue' \in Seq(Jobs) /\ Len(queue') <= QueueDepth
    BY <1>i, ConstantTypes, ForgetJobsType DEF ObserveGate,
       clearReadingHistoryResults
  <2>. QED  BY <1>i, <2>1 DEF ObserveGate, dataResetFrozen
<1>j. CASE PushQueue
  <2>1. slot' \in Slots /\ queue' \in Seq(Jobs) /\ Len(queue') <= QueueDepth
    <3>1. CASE UNCHANGED <<job, slot, queue>>
      BY <3>1
    <3>2. CASE /\ slot' = Pending /\ Len(queue) < QueueDepth
               /\ queue' = <<[after |-> cur.ack, live |-> TRUE]>> \o ForgetJobs
      <4>1. [after |-> cur.ack, live |-> TRUE] \in Jobs
        BY Fields DEF Jobs
      <4>2. ForgetJobs \in Seq(Jobs) /\ Len(ForgetJobs) = Len(queue)
        BY ForgetJobsType
      <4>. HIDE DEF ForgetJobs
      <4>3. queue' \in Seq(Jobs) /\ Len(queue') = 1 + Len(queue)
        BY <3>2, <4>1, <4>2
      <4>. QED  BY <3>2, <4>3, ConstantTypes, Bounds
    <3>3. Len(queue) \in Nat
      OBVIOUS
    <3>4. ~(Len(queue) >= QueueDepth) => Len(queue) < QueueDepth
      BY <3>3, Bounds
    <3>. QED  BY <1>j, <3>1, <3>2, <3>4 DEF PushQueue
  <2>. QED  BY <1>j, <2>1, ConstantTypes DEF PushQueue, Release
<1>k. CASE PushPoll
  <2>1. \/ net' = net /\ pc' = "idle" /\ who' = "push" /\ hold' = NoAnswer
        \/ /\ pc' = "posted" /\ UNCHANGED <<who, hold>>
           /\ net' = [kind |-> "batch", body |-> [gen |-> gen, records |-> slot.page.records,
                                                  unavailable |-> slot.page.unavailable]]
    BY <1>k DEF PushPoll, Release
  <2>2. [gen |-> gen, records |-> slot.page.records,
         unavailable |-> slot.page.unavailable] \in Batches
    BY Fields DEF Batches
  <2>3. NetTyped'
    BY <1>k, <2>1, <2>2 DEF PushPoll
  <2>4. slot' \in Slots /\ job' \in {"none", "held"}
    BY <1>k, ConstantTypes DEF PushPoll
  <2>. QED  BY <1>k, <2>1, <2>3, <2>4, ConstantTypes DEF PushPoll
<1>l. CASE PushAnswered
  <2>1. cur' \in Cursors
    BY <1>l DEF PushAnswered, Cursors
  <2>. QED  BY <1>l, <2>1, ConstantTypes DEF PushAnswered, Release, Silence
<1>m. CASE HeartbeatSend
  BY <1>m DEF HeartbeatSend
<1>n. CASE HeartbeatAnswered
  <2>0. classifyAcknowledgement(cur, net) \in BOOLEAN
    BY Zenon DEF classifyAcknowledgement
  <2>1. hold' \in Holds
    BY <1>n, <2>0, ConstantTypes DEF HeartbeatAnswered, Release, Holds
  <2>. QED  BY <1>n, <2>1 DEF HeartbeatAnswered, Release, Silence
<1>o. CASE HeartbeatApply
  <2>1. cur' \in Cursors
    BY <1>o, Fields DEF HeartbeatApply, Cursors, Raise
  <2>. QED  BY <1>o, <2>1, ConstantTypes DEF HeartbeatApply, Release
<1>p. CASE SyncLook
  BY <1>p, ConstantTypes DEF SyncLook, Denied, Release
<1>q. CASE SyncLease
  BY <1>q DEF SyncLease
<1>r. CASE SyncRecheck
  BY <1>r, ConstantTypes DEF SyncRecheck, Denied, Release
<1>s. CASE ResetAdmit
  BY <1>s DEF ResetAdmit, ResetSteps
<1>t. CASE ResetFreeze
  BY <1>t DEF ResetFreeze, ResetSteps
<1>u. CASE ResetBarrier
  BY <1>u, ConstantTypes, ForgetJobsType DEF ResetBarrier, ResetSteps,
     clearReadingHistoryResults
<1>v. CASE ResetPrepared
  <2>0. cur.ack \in Nat /\ cur.max \in Nat /\ cur.ack <= MaxSeq /\ cur.max <= MaxSeq
    BY Fields, Bounds
  <2>1. Max({cur.ack, cur.max}) \in 0 .. MaxSeq
    <3>1. Max({cur.ack, cur.max}) = IF cur.ack >= cur.max THEN cur.ack ELSE cur.max
      BY <2>0, MaxOfTwo
    <3>. QED  BY <2>0, <3>1, Bounds
  <2>2. evidence' \in Cursors
    BY <1>v, <2>1, Fields DEF ResetPrepared, Cursors
  <2>. QED  BY <1>v, <2>2 DEF ResetPrepared, ResetSteps
<1>w. CASE ResetCancel
  BY <1>w, ConstantTypes DEF ResetCancel, ResetSteps
<1>x. CASE ResetCommit
  <2>1. PICK b : /\ b = Max({next - 1, evidence.max})
                 /\ boundary' = b /\ cur' = [ack |-> b, max |-> b] /\ next' = b + 1
    BY <1>x DEF ResetCommit
  <2>2. b \in 0 .. MaxSeq
    <3>1. next - 1 \in 0 .. MaxSeq /\ evidence.max \in 0 .. MaxSeq
      BY Fields, Bounds
    <3>. QED  BY <2>1, <3>1, MaxOfTwo, Bounds
  <2>3. cur' \in Cursors /\ next' \in 1 .. MaxSeq + 1 /\ boundary' \in 0 .. MaxSeq
    BY <2>1, <2>2, Bounds DEF Cursors
  <2>4. gen' \in Gens
    BY <1>x, Bounds DEF ResetCommit, Gens
  <2>5. card' \in [Seqs -> {"none", "sync", "plain"}]
    BY <1>x DEF ResetCommit
  <2>. QED
    BY <1>x, <2>3, <2>4, <2>5, ConstantTypes, ForgetJobsType
       DEF ResetCommit, ResetSteps, clearReadingHistoryResults
<1>y. CASE PowerLoss \/ ReplaceCard
  <2>1. budget' \in 0 .. MaxFault /\ Reboot
    BY <1>y, Bounds DEF PowerLoss, ReplaceCard, Fault, CanFault
  <2>2. card' \in [Seqs -> {"none", "sync", "plain"}] /\ kept' \subseteq Seqs
    BY <1>y DEF PowerLoss, ReplaceCard
  <2>3. next' \in 1 .. MaxSeq + 1
    <3>1. CASE PowerLoss
      BY <3>1 DEF PowerLoss
    <3>2. CASE ReplaceCard
      <4>1. PICK prepared \in {0, newest_sequence} :
              next' = Max({cur.ack, cur.max, prepared}) + 1
        BY <3>2 DEF ReplaceCard
      <4>2. {cur.ack, cur.max, prepared} \in SUBSET (0 .. MaxSeq)
        BY <4>1, Fields, NewestIsRetained, Bounds
      <4>3. Max({cur.ack, cur.max, prepared}) \in 0 .. MaxSeq
        BY <4>2, MaxIsLargest, Bounds
      <4>. QED  BY <4>1, <4>3, Bounds
    <3>. QED  BY <1>y, <3>1, <3>2
  <2>4. late' \subseteq Batches /\ \A b, c \in late' : b = c
    BY <2>1 DEF Reboot
  <2>5. /\ job' = "none" /\ slot' = Free /\ queue' = <<>> /\ ~observed'
        /\ pc' = "idle" /\ who' = "push" /\ hold' = NoAnswer /\ net' = Silence
        /\ reset' \in ResetSteps /\ (reset' # "none" => reset # "none")
        /\ UNCHANGED <<evidence, gen, boundary, cur, srv, born>>
    BY <2>1 DEF Reboot, ResetSteps
  <2>6. observed' \in BOOLEAN
    BY <2>1 DEF Reboot
  <2>. QED
    BY <2>1, <2>2, <2>3, <2>4, <2>5, <2>6, ConstantTypes, Bounds DEF Silence
<1>z. CASE UNCHANGED vars
  BY <1>z DEF vars
<1>. QED
  BY <1>a, <1>b, <1>c, <1>d, <1>e, <1>f, <1>g, <1>h, <1>i, <1>j, <1>k, <1>l,
     <1>m, <1>n,
     <1>o, <1>p, <1>q, <1>r, <1>s, <1>t, <1>u, <1>v, <1>w, <1>x, <1>y, <1>z
     DEF Next, Storage, Server, Push, Heartbeat, Lease, Reset

-----------------------------------------------------------------------------
(* The parts of the inductive invariant                                     *)

\* A request that the server has not processed yet.
InFlight(b) == b \in late \/ (net.kind = "batch" /\ b = net.body)

\* The records on the card, the undelivered readings and what the server has
\* are below the next sequence; those of this generation are above its
\* boundary; what the server has was stored in the generation it has it for.
StoreInv ==
  /\ boundary < next /\ boundary <= cur.ack /\ srv.base <= boundary
  /\ \A s \in Seqs : card[s] # "none" => boundary < s /\ s < next /\ born[s] = gen
  /\ \A s \in kept : boundary < s /\ s < next
  /\ \A p \in srv.got : p[1] < next /\ born[p[1]] = p[2]
  /\ \A s \in srv.gone : s < next

\* A finished page holds readings of the current generation, a request those
\* of the generation it names.
PageInv ==
  /\ slot.state = "ready" =>
       /\ \A s \in slot.page.records : s < next /\ born[s] = gen
       /\ \A s \in slot.page.unavailable : s < next
  /\ \A b \in Batches : InFlight(b) =>
       /\ \A s \in b.records : s < next /\ born[s] = b.gen
       /\ \A s \in b.unavailable : s < next

\* From the barrier on no upload is past its second look at the admission,
\* and the evidence is what the cursors are.
ResetInv ==
  /\ pc \in {"holding", "posted"} => reset \in {"none", "admitted", "frozen"}
  /\ reset = "prepared" => /\ cur.ack = evidence.ack
                           /\ Max({cur.ack, cur.max}) = evidence.max

\* An answer, and what heartbeat() keeps of one, is not ahead of the server.
AnswerInv ==
  /\ net.kind = "answer" => net.ack <= ServerAck(srv)
  /\ hold.ack <= ServerAck(srv)

\* The server has the reading.
Delivered(s) == \E g \in Gens : <<s, g>> \in srv.got

\* An undelivered reading is on the card, and neither the server nor a page
\* or a request on its way says that it is unavailable.
KeptInv ==
  \A s \in kept : \/ Delivered(s)
                  \/ /\ card[s] = "sync" /\ s \notin srv.gone
                     /\ slot.state = "ready" => s \notin slot.page.unavailable
                     /\ \A b \in Batches : InFlight(b) => s \notin b.unavailable

-----------------------------------------------------------------------------
(* What the steps change                                                    *)

\* Neither the readings, nor the cursors, nor the server change.
Quiet == UNCHANGED <<card, next, born, kept, gen, boundary, cur, srv>>

\* The server processes a request.
Processes ==
  /\ \E b \in Batches : InFlight(b) /\ srv' = Accept(srv, b)
  /\ UNCHANGED <<card, next, born, kept, gen, boundary, cur>>

\* Every step is of one of these kinds.
LEMMA StepCases ==
  ASSUME TypeInv, [Next]_vars
  PROVE  \/ Quiet \/ Processes \/ ServerAdopts \/ PushAnswered \/ HeartbeatApply
         \/ appendRecord \/ RemoveSegment \/ ResetCommit \/ ReplaceCard
<1>1. CASE ServerAnswers \/ RequestTimesOut
  <2>1. net.kind = "batch" => net.body \in Batches /\ InFlight(net.body)
    BY DEF TypeInv, NetTyped, InFlight
  <2>. QED
    BY <1>1, <2>1 DEF ServerAnswers, RequestTimesOut, Quiet, Processes,
       storageVars, deviceVars
<1>2. CASE LateRequest
  <2>1. PICK b \in late : srv' = Accept(srv, b)
    BY <1>2 DEF LateRequest
  <2>2. b \in Batches /\ InFlight(b)
    BY <2>1 DEF TypeInv, Typed, InFlight
  <2>. QED
    BY <1>2, <2>1, <2>2 DEF LateRequest, Processes, storageVars, deviceVars
<1>3. CASE HistoryJob \/ HistoryExpires \/ ObserveGate \/ PushQueue \/ PushPoll
  BY <1>3 DEF HistoryJob, HistoryExpires, ObserveGate, PushQueue, PushPoll,
     Quiet, storageVars,
     deviceVars, wireVars
<1>4. CASE HeartbeatSend \/ HeartbeatAnswered \/ SyncLook \/ SyncLease \/ SyncRecheck
  BY <1>4 DEF HeartbeatSend, HeartbeatAnswered, SyncLook, SyncLease,
     SyncRecheck, Quiet,
     storageVars, deviceVars, wireVars
<1>5. CASE ResetAdmit \/ ResetFreeze \/ ResetBarrier \/ ResetPrepared \/ ResetCancel
  BY <1>5 DEF ResetAdmit, ResetFreeze, ResetBarrier, ResetPrepared,
     ResetCancel, Quiet,
     storageVars, deviceVars, wireVars
<1>6. CASE PowerLoss \/ UNCHANGED vars
  BY <1>6 DEF PowerLoss, Reboot, vars, Quiet, storageVars, deviceVars, wireVars
<1>. QED
  BY <1>1, <1>2, <1>3, <1>4, <1>5, <1>6 DEF Next, Storage, Server, Push,
     Heartbeat, Lease, Reset

\* A request comes into being when a finished page is posted.
LEMMA FlightCases ==
  ASSUME TypeInv, [Next]_vars, NEW b \in Batches, InFlight(b)'
  PROVE  \/ InFlight(b)
         \/ /\ PushPoll /\ slot.state = "ready"
            /\ b = [gen |-> gen, records |-> slot.page.records,
                    unavailable |-> slot.page.unavailable]
<1>1. CASE late' = late /\ net' = net
  BY <1>1 DEF InFlight
<1>2. CASE ServerAnswers \/ LateRequest
  BY <1>2 DEF ServerAnswers, LateRequest, InFlight
<1>3. CASE RequestTimesOut
  BY <1>3 DEF RequestTimesOut, InFlight
<1>4. CASE PushPoll
  <2>1. CASE net' = net
    BY <1>1, <1>4, <2>1 DEF PushPoll
  <2>2. CASE net' # net
    <3>1. slot.state \notin {"free", "pending"}
      BY <1>4, <2>2 DEF PushPoll
    <3>2. slot.state = "ready"
      BY <3>1, Fields
    <3>3. net' = [kind |-> "batch", body |-> [gen |-> gen, records |-> slot.page.records,
                                              unavailable |-> slot.page.unavailable]]
      BY <1>4, <2>2 DEF PushPoll
    <3>. QED  BY <1>4, <3>2, <3>3 DEF PushPoll, InFlight
  <2>. QED  BY <2>1, <2>2
<1>5. CASE PushAnswered \/ HeartbeatSend \/ HeartbeatAnswered
  BY <1>5 DEF PushAnswered, HeartbeatSend, HeartbeatAnswered, Silence, InFlight
<1>6. CASE PowerLoss \/ ReplaceCard
  BY <1>6 DEF PowerLoss, ReplaceCard, Reboot, Silence, InFlight
<1>. QED
  BY <1>1, <1>2, <1>3, <1>4, <1>5, <1>6
     DEF Next, Storage, Server, Push, Heartbeat, Lease, Reset, appendRecord, RemoveSegment,
         HistoryJob, HistoryExpires, ServerAdopts, ObserveGate, PushQueue, HeartbeatApply,
         SyncLook, SyncLease, SyncRecheck, ResetAdmit, ResetFreeze, ResetBarrier,
         ResetPrepared, ResetCancel, ResetCommit, vars, wireVars

\* A page is finished by a history job.
LEMMA SlotCases ==
  ASSUME TypeInv, [Next]_vars, slot'.state = "ready"
  PROVE  \/ slot' = slot
         \/ /\ HistoryJob
            /\ \E after \in 0 .. MaxSeq, unreadable \in SUBSET Seqs :
                 /\ \E candidates : slot'.page = readPage(after, unreadable, candidates)
                 /\ "open" \notin Faults => unreadable = {}
<1>1. CASE HistoryJob
  <2>1. Head(queue) \in Jobs
    BY <1>1 DEF HistoryJob, TypeInv, Typed
  <2>2. Head(queue).after \in 0 .. MaxSeq
    BY <2>1 DEF Jobs
  <2>3. PICK unreadable \in {{}} \cup
               (IF CanFault("open") THEN {Segment(s) : s \in Retained} ELSE {}) :
          \E candidates :
            slot' = IF Head(queue).live
                    THEN [state |-> "ready",
                          page |-> readPage(Head(queue).after, unreadable, candidates)]
                    ELSE slot
    BY <1>1 DEF HistoryJob
  <2>4. "open" \notin Faults => unreadable = {}
    BY <2>3 DEF CanFault
  <2>5. CASE ~Head(queue).live
    BY <2>3, <2>5
  <2>6. CASE Head(queue).live
    <3>1. \E candidates : slot'.page = readPage(Head(queue).after, unreadable, candidates)
      BY <2>3, <2>6
    <3>2. unreadable \in SUBSET Seqs
      BY <2>3 DEF Segment
    <3>. QED  BY <1>1, <2>2, <2>4, <3>1, <3>2
  <2>. QED  BY <2>5, <2>6
<1>2. CASE PushQueue
  BY <1>2 DEF PushQueue, Pending
<1>3. CASE PowerLoss \/ ReplaceCard \/ HistoryExpires
  BY <1>3 DEF PowerLoss, ReplaceCard, Reboot, HistoryExpires, Free
<1>4. CASE ObserveGate \/ ResetBarrier \/ ResetCommit \/ PushPoll
  BY <1>4 DEF ObserveGate, ResetBarrier, ResetCommit, PushPoll,
     clearReadingHistoryResults, Free
<1>. QED
  BY <1>1, <1>2, <1>3, <1>4
     DEF Next, Storage, Server, Push, Heartbeat, Lease, Reset, appendRecord, RemoveSegment,
         ServerAnswers, RequestTimesOut, LateRequest, ServerAdopts, PushAnswered,
         HeartbeatSend, HeartbeatAnswered, HeartbeatApply, SyncLook, SyncLease, SyncRecheck,
         ResetAdmit, ResetFreeze, ResetPrepared, ResetCancel, vars, pageVars

\* The boundary a reset commits is below the next sequence and not below the
\* last one.
LEMMA CommitEffect ==
  ASSUME TypeInv, ResetCommit
  PROVE  /\ boundary' \in Nat /\ next <= boundary' + 1 /\ next' = boundary' + 1
         /\ cur'.ack = boundary' /\ cur'.max = boundary'
         /\ gen' = gen + 1 /\ kept' = {} /\ \A s \in Seqs : card'[s] = "none"
         /\ UNCHANGED <<born, srv, net, late, pc, hold>> /\ slot' = Free /\ reset' = "none"
<1>1. next - 1 \in Nat /\ evidence.max \in Nat
  BY Fields, Bounds DEF TypeInv, Typed
<1>2. Max({next - 1, evidence.max}) = IF next - 1 >= evidence.max THEN next - 1
                                      ELSE evidence.max
  BY <1>1, MaxOfTwo
<1>3. PICK b : /\ b = Max({next - 1, evidence.max})
               /\ boundary' = b /\ cur' = [ack |-> b, max |-> b] /\ next' = b + 1
  BY DEF ResetCommit
<1>4. b \in Nat /\ next <= b + 1 /\ next \in Nat
  BY <1>1, <1>2, <1>3 DEF TypeInv, Typed
<1>. QED
  BY <1>3, <1>4 DEF ResetCommit, clearReadingHistoryResults, taskVars, wireVars

\* A card that is put in goes on above the cursors, and the server has
\* nothing above them.
LEMMA ReplaceEffect ==
  ASSUME TypeInv, ReplaceCard
  PROVE  /\ next' \in Nat /\ cur.ack < next' /\ cur.max < next'
         /\ \A s \in Covered(srv) : s < next'
         /\ kept' = {} /\ \A s \in Seqs : card'[s] = "none"
         /\ UNCHANGED <<born, gen, boundary, cur, srv, evidence, reset>>
         /\ slot' = Free /\ late' = {} /\ net' = Silence /\ pc' = "idle" /\ hold' = NoAnswer
<1>1. PICK prepared \in {0, newest_sequence} : next' = Max({cur.ack, cur.max, prepared}) + 1
  BY DEF ReplaceCard
<1>2. {cur.ack, cur.max, prepared} \in SUBSET (0 .. MaxSeq)
  BY <1>1, Fields, NewestIsRetained, Bounds DEF TypeInv
<1>3. /\ Max({cur.ack, cur.max, prepared}) \in Nat
      /\ cur.ack <= Max({cur.ack, cur.max, prepared})
      /\ cur.max <= Max({cur.ack, cur.max, prepared})
  BY <1>2, MaxIsLargest, Bounds
<1>4. cur.ack \in Nat /\ cur.max \in Nat
  BY Numbers
<1>5. next' \in Nat /\ cur.ack < next' /\ cur.max < next'
  BY <1>1, <1>3, <1>4
<1>6. \A s \in Covered(srv) : s \in Nat /\ s <= ServerMax(srv)
  <2>1. Covered(srv) \subseteq Nat
    BY Bounds DEF Covered, Seqs
  <2>2. \A s \in Covered(srv) : s <= ServerMax(srv)
    BY ServerMaxIsLargest DEF TypeInv, Typed
  <2>. QED  BY <2>1, <2>2
<1>7. Max({cur.ack, cur.max}) = IF cur.ack >= cur.max THEN cur.ack ELSE cur.max
  BY <1>4, MaxOfTwo
<1>8. ServerMax(srv) \in Nat /\ ServerMax(srv) < next'
  <2>1. ServerMax(srv) \in Nat
    BY ServerMaxIsLargest, Bounds DEF TypeInv, Typed
  <2>2. ServerMax(srv) <= Max({cur.ack, cur.max})
    BY DEF ReplaceCard
  <2>. QED  BY <1>4, <1>5, <1>7, <2>1, <2>2
<1>9. \A s \in Covered(srv) : s < next'
  BY <1>5, <1>6, <1>8
<1>. QED
  BY <1>5, <1>9 DEF ReplaceCard, Reboot, deviceVars

-----------------------------------------------------------------------------
(* Each part is kept                                                        *)

\* StoreInv is kept by every step.
LEMMA StoreStep ==
  ASSUME TypeInv, TypeInv', StoreInv, PageInv, [Next]_vars
  PROVE  StoreInv'
<1>0. /\ next \in Nat /\ boundary \in Nat /\ cur.ack \in Nat /\ srv.base \in Nat
      /\ Seqs \subseteq Nat /\ kept \subseteq Seqs /\ srv.got \subseteq (Seqs \X Gens)
      /\ srv.gone \subseteq Seqs /\ srv \in Servers /\ born \in [Seqs -> Gens]
      /\ card \in [Seqs -> {"none", "sync", "plain"}]
      /\ \A p \in srv.got : p[1] \in Nat /\ p[1] \in Seqs
      /\ \A s \in srv.gone : s \in Nat
  <2>1. next \in Nat /\ boundary \in Nat /\ cur.ack \in Nat /\ srv.base \in Nat
    BY Numbers
  <2>2. Seqs \subseteq Nat
    BY Numbers
  <2>3. srv.got \subseteq (Seqs \X Gens) /\ srv.gone \subseteq Seqs
    BY Fields
  <2>4. \A p \in srv.got : p[1] \in Seqs
    BY <2>3
  <2>. QED  BY <2>1, <2>2, <2>3, <2>4 DEF TypeInv, Typed
<1>1. CASE Quiet
  BY <1>1 DEF Quiet, StoreInv
<1>2. CASE Processes
  <2>1. PICK b \in Batches : InFlight(b) /\ srv' = Accept(srv, b)
    BY <1>2 DEF Processes
  <2>2. /\ srv'.base = srv.base
        /\ \A p \in srv'.got : p \in srv.got \/ (p[1] \in b.records /\ p[2] = b.gen)
        /\ \A s \in srv'.gone : s \in srv.gone \/ s \in b.unavailable
    BY <1>0, <2>1, AcceptEffect
  <2>3. /\ \A s \in b.records : s < next /\ born[s] = b.gen
        /\ \A s \in b.unavailable : s < next
    BY <2>1 DEF PageInv
  <2>4. UNCHANGED <<card, next, born, kept, gen, boundary, cur>>
    BY <1>2 DEF Processes
  <2>5. \A p \in srv'.got : p[1] < next /\ born[p[1]] = p[2]
    BY <2>2, <2>3 DEF StoreInv
  <2>. QED  BY <2>2, <2>3, <2>4, <2>5 DEF StoreInv
<1>3. CASE ServerAdopts
  <2>1. srv'.base = boundary /\ srv'.got = srv.got /\ srv'.gone = srv.gone
    BY <1>0, <1>3 DEF ServerAdopts, Servers
  <2>2. UNCHANGED <<card, next, born, kept, gen, boundary, cur>>
    BY <1>3 DEF ServerAdopts, storageVars, deviceVars
  <2>. QED  BY <1>0, <2>1, <2>2 DEF StoreInv
<1>4. CASE PushAnswered \/ HeartbeatApply
  <2>1. cur'.ack \in Nat /\ cur'.ack >= cur.ack
    <3>1. cur \in Cursors /\ hold.ack \in Nat
      BY Fields, Bounds DEF TypeInv, Typed
    <3>2. CASE PushAnswered
      <4>1. net.kind = "answer" => net.ack \in Nat
        BY Bounds DEF TypeInv, NetTyped
      <4>. QED  BY <1>0, <3>1, <3>2, <4>1 DEF PushAnswered, Cursors
    <3>3. CASE HeartbeatApply
      BY <1>0, <3>1, <3>3 DEF HeartbeatApply, Raise
    <3>. QED  BY <1>4, <3>2, <3>3
  <2>2. UNCHANGED <<card, next, born, kept, gen, boundary, srv>>
    BY <1>4 DEF PushAnswered, HeartbeatApply, storageVars, wireVars
  <2>. QED  BY <1>0, <2>1, <2>2 DEF StoreInv
<1>5. CASE appendRecord
  <2>1. /\ next' = next + 1 /\ born' = [born EXCEPT ![next] = gen]
        /\ UNCHANGED <<gen, boundary, cur, srv>> /\ next \in Seqs
    BY <1>0, <1>5, Bounds DEF appendRecord, deviceVars, wireVars, Seqs,
       TypeInv, Typed
  <2>2. PICK kind : card' = [card EXCEPT ![next] = kind] /\ kept' \subseteq kept \cup {next}
    BY <1>5 DEF appendRecord
  <2>3. \A s \in Seqs : s # next => card'[s] = card[s] /\ born'[s] = born[s]
    BY <1>0, <2>1, <2>2
  <2>4. born'[next] = gen
    BY <1>0, <2>1
  <2>5. boundary' < next' /\ boundary' <= cur'.ack /\ srv'.base <= boundary'
    BY <1>0, <2>1 DEF StoreInv
  <2>6. \A s \in Seqs : card'[s] # "none" => boundary' < s /\ s < next' /\ born'[s] = gen'
    BY <1>0, <2>1, <2>3, <2>4 DEF StoreInv
  <2>7. \A s \in kept' : boundary' < s /\ s < next'
    BY <1>0, <2>1, <2>2 DEF StoreInv
  <2>8. \A p \in srv'.got : p[1] < next' /\ born'[p[1]] = p[2]
    BY <1>0, <2>1, <2>3 DEF StoreInv
  <2>9. \A s \in srv'.gone : s < next'
    BY <1>0, <2>1 DEF StoreInv
  <2>. QED  BY <2>5, <2>6, <2>7, <2>8, <2>9 DEF StoreInv
<1>6. CASE RemoveSegment
  <2>1. \A s \in Seqs : card'[s] = card[s] \/ card'[s] = "none"
    BY <1>6 DEF RemoveSegment
  <2>2. UNCHANGED <<next, born, kept, gen, boundary, cur, srv>>
    BY <1>6 DEF RemoveSegment, deviceVars, wireVars
  <2>. QED  BY <2>1, <2>2 DEF StoreInv
<1>7. CASE ResetCommit
  <2>1. /\ boundary' \in Nat /\ next <= boundary' + 1 /\ next' = boundary' + 1
        /\ cur'.ack = boundary' /\ kept' = {} /\ \A s \in Seqs : card'[s] = "none"
        /\ UNCHANGED <<born, srv>>
    BY <1>7, CommitEffect
  <2>2. next' >= next /\ boundary' >= boundary /\ next' \in Nat
    <3>1. next \in Nat /\ boundary \in Nat /\ boundary < next
      BY <1>0 DEF StoreInv
    <3>2. PICK b \in Nat : boundary' = b
      BY <2>1
    <3>3. next <= b + 1 /\ next' = b + 1
      BY <2>1, <3>2
    <3>. QED  BY <3>1, <3>2, <3>3
  <2>a. \A n \in Nat : n < next => n < next'
    BY <1>0, <2>2
  <2>b. born' = born /\ srv' = srv
    BY <2>1
  <2>3. \A p \in srv'.got : p[1] < next' /\ born'[p[1]] = p[2]
    BY <1>0, <2>a, <2>b DEF StoreInv
  <2>4. \A s \in srv'.gone : s < next'
    BY <1>0, <2>a, <2>b DEF StoreInv
  <2>5. boundary' < next' /\ boundary' <= cur'.ack /\ srv'.base <= boundary'
    <3>1. PICK b \in Nat : boundary' = b /\ next' = b + 1 /\ cur'.ack = b /\ b >= boundary
      BY <2>1, <2>2
    <3>2. srv'.base \in Nat /\ srv'.base <= boundary /\ boundary \in Nat
      BY <1>0, <2>b DEF StoreInv
    <3>. QED  BY <3>1, <3>2
  <2>. QED  BY <2>1, <2>3, <2>4, <2>5 DEF StoreInv
<1>8. CASE ReplaceCard
  <2>1. /\ next' \in Nat /\ cur.ack < next' /\ \A s \in Covered(srv) : s < next'
        /\ kept' = {} /\ \A s \in Seqs : card'[s] = "none"
        /\ UNCHANGED <<born, gen, boundary, cur, srv>>
    BY <1>8, ReplaceEffect
  <2>2. \A p \in srv.got : p[1] \in Covered(srv)
    <3>. TAKE p \in srv.got
    <3>1. p[1] \in Seqs /\ p[2] \in Gens /\ p = <<p[1], p[2]>>
      BY <1>0
    <3>. QED  BY <3>1 DEF Covered
  <2>3. \A s \in srv.gone : s \in Covered(srv)
    BY <1>0 DEF Covered
  <2>. QED  BY <1>0, <2>1, <2>2, <2>3 DEF StoreInv
<1>. QED  BY <1>1, <1>2, <1>3, <1>4, <1>5, <1>6, <1>7, <1>8, StepCases

\* PageInv is kept by every step.
LEMMA PageStep ==
  ASSUME TypeInv, TypeInv', StoreInv, PageInv, [Next]_vars
  PROVE  PageInv'
<1>0. /\ next \in Nat /\ Seqs \subseteq Nat /\ born \in [Seqs -> Gens] /\ gen \in Gens
      /\ slot.page.records \subseteq Seqs /\ slot.page.unavailable \subseteq Seqs
      /\ \A b \in Batches : b.records \subseteq Seqs /\ b.unavailable \subseteq Seqs
  BY Fields, Numbers DEF TypeInv, Typed
<1>1. CASE UNCHANGED <<next, born, gen>>
  <2>1. ASSUME slot'.state = "ready"
        PROVE  /\ \A s \in slot'.page.records : s < next /\ born[s] = gen
               /\ \A s \in slot'.page.unavailable : s < next
    <3>1. CASE slot' = slot
      BY <2>1, <3>1 DEF PageInv
    <3>2. CASE slot' # slot
      <4>1. PICK after \in 0 .. MaxSeq, unreadable \in SUBSET Seqs :
              \E candidates : slot'.page = readPage(after, unreadable, candidates)
        BY <2>1, <3>2, SlotCases
      <4>2. /\ slot'.page.records \subseteq Syncable
            /\ \A s \in slot'.page.unavailable : s <= newest_sequence
        BY <4>1, ReadPageIsSound DEF TypeInv
      <4>3. \A s \in Retained : s < next /\ born[s] = gen
        BY DEF StoreInv, Retained
      <4>4. newest_sequence \in Nat /\ newest_sequence < next
        BY <1>0, <4>3, NewestIsRetained, Bounds DEF TypeInv, Typed
      <4>5. Syncable \subseteq Retained
        BY NewestIsRetained DEF TypeInv
      <4>6. slot'.page.unavailable \subseteq Nat
        BY <1>0, Fields DEF TypeInv, Typed, Slots, Pages
      <4>. QED  BY <1>0, <4>2, <4>3, <4>4, <4>5, <4>6
    <3>. QED  BY <3>1, <3>2
  <2>2. ASSUME NEW b \in Batches, InFlight(b)'
        PROVE  /\ \A s \in b.records : s < next /\ born[s] = b.gen
               /\ \A s \in b.unavailable : s < next
    <3>1. CASE InFlight(b)
      BY <3>1 DEF PageInv
    <3>2. CASE /\ slot.state = "ready"
               /\ b = [gen |-> gen, records |-> slot.page.records,
                       unavailable |-> slot.page.unavailable]
      BY <3>2 DEF PageInv
    <3>. QED  BY <2>2, <3>1, <3>2, FlightCases
  <2>. QED  BY <1>1, <2>1, <2>2 DEF PageInv
<1>2. CASE appendRecord
  <2>1. /\ next' = next + 1 /\ born' = [born EXCEPT ![next] = gen] /\ next \in Seqs
        /\ UNCHANGED <<gen, slot, net, late>>
    BY <1>0, <1>2, Bounds
       DEF appendRecord, deviceVars, pageVars, wireVars, Seqs, TypeInv, Typed
  <2>2. \A s \in Seqs : s < next => born'[s] = born[s] /\ s < next'
    <3>. SUFFICES ASSUME NEW s \in Seqs, s < next PROVE born'[s] = born[s] /\ s < next'
      OBVIOUS
    <3>1. s \in Nat /\ next \in Nat
      BY <1>0
    <3>2. s # next /\ s < next'
      BY <2>1, <3>1
    <3>. QED  BY <1>0, <2>1, <3>2
  <2>3. \A b \in Batches : InFlight(b)' <=> InFlight(b)
    BY <2>1 DEF InFlight
  <2>. QED  BY <1>0, <2>1, <2>2, <2>3 DEF PageInv
<1>3. CASE ResetCommit
  <2>1. /\ boundary' \in Nat /\ next <= boundary' + 1 /\ next' = boundary' + 1
        /\ UNCHANGED <<born, net, late>> /\ slot' = Free
    BY <1>3, CommitEffect
  <2>2. next' >= next /\ next' \in Nat
    <3>1. next \in Nat
      BY <1>0
    <3>2. PICK b \in Nat : boundary' = b
      BY <2>1
    <3>. QED  BY <2>1, <3>1, <3>2
  <2>3. \A b \in Batches : InFlight(b)' <=> InFlight(b)
    BY <2>1 DEF InFlight
  <2>4. slot'.state # "ready"
    BY <2>1 DEF Free
  <2>5. \A s \in Seqs : s < next => s < next'
    BY <1>0, <2>2
  <2>. QED  BY <1>0, <2>1, <2>3, <2>4, <2>5 DEF PageInv
<1>4. CASE ReplaceCard
  <2>1. slot' = Free /\ late' = {} /\ net' = Silence
    BY <1>4, ReplaceEffect
  <2>2. \A b : ~InFlight(b)'
    BY <2>1 DEF InFlight, Silence
  <2>3. slot'.state # "ready"
    BY <2>1 DEF Free
  <2>. QED  BY <2>2, <2>3 DEF PageInv
<1>5. CASE Quiet \/ Processes \/ ServerAdopts \/ PushAnswered \/ HeartbeatApply \/ RemoveSegment
  BY <1>1, <1>5 DEF Quiet, Processes, ServerAdopts, PushAnswered,
     HeartbeatApply, RemoveSegment,
     storageVars, deviceVars
<1>. QED  BY <1>2, <1>3, <1>4, <1>5, StepCases

\* Whatever the server does it covers no less, and keeps what it has.
LEMMA ServerGrows ==
  ASSUME TypeInv, TypeInv', StoreInv, [Next]_vars
  PROVE  /\ Covered(srv) \subseteq Covered(srv') /\ srv.got \subseteq srv'.got
         /\ ServerAck(srv) <= ServerAck(srv')
<1>0. srv \in Servers /\ srv' \in Servers
  BY DEF TypeInv, Typed
<1>1. CASE srv' = srv
  BY <1>0, <1>1, ServerAckGrows
<1>2. CASE Processes
  BY <1>0, <1>2, AcceptEffect, ServerAckGrows DEF Processes
<1>3. CASE ServerAdopts
  <2>1. srv'.base = boundary /\ srv'.got = srv.got /\ srv'.gone = srv.gone
    BY <1>0, <1>3 DEF ServerAdopts, Servers
  <2>2. srv.base <= boundary /\ srv.base \in Nat /\ boundary \in Nat
    BY Numbers DEF StoreInv
  <2>3. \A s \in Seqs : s <= srv.base => s <= srv'.base
    BY <2>1, <2>2, Bounds DEF Seqs
  <2>4. Covered(srv) \subseteq Covered(srv')
    BY <2>1, <2>3 DEF Covered
  <2>. QED  BY <1>0, <2>1, <2>4, ServerAckGrows
<1>. QED
  BY <1>1, <1>2, <1>3, StepCases
     DEF Quiet, PushAnswered, HeartbeatApply, appendRecord, RemoveSegment, ResetCommit,
         ReplaceCard, Reboot, wireVars

\* AnswerInv is kept by every step.
LEMMA AnswerStep ==
  ASSUME TypeInv, TypeInv', StoreInv, AnswerInv, [Next]_vars
  PROVE  AnswerInv'
<1>0. /\ ServerAck(srv) <= ServerAck(srv')
      /\ ServerAck(srv) \in Nat /\ ServerAck(srv') \in Nat
  BY ServerGrows, ServerAckIsCovered, Bounds DEF TypeInv, Typed
<1>. DEFINE Small == hold' = hold \/ hold' = NoAnswer
            Known == net' = net \/ net'.kind # "answer"
<1>1. ASSUME Small PROVE hold'.ack <= ServerAck(srv')
  BY <1>0, <1>1, Fields, Bounds DEF AnswerInv, NoAnswer
<1>2. ASSUME Known PROVE net'.kind = "answer" => net'.ack <= ServerAck(srv')
  BY <1>0, <1>2, Bounds DEF AnswerInv, TypeInv, NetTyped
<1>3. CASE ServerAnswers
  <2>1. Small
    BY <1>3 DEF ServerAnswers, taskVars
  <2>2. net'.kind = "answer" => net'.ack = ServerAck(srv')
    BY <1>3 DEF ServerAnswers
  <2>. QED  BY <1>0, <1>1, <2>1, <2>2 DEF AnswerInv
<1>4. CASE HeartbeatAnswered
  <2>1. Known
    BY <1>4 DEF HeartbeatAnswered, Silence
  <2>2. Small \/ (hold'.ack = net.ack /\ net.kind = "answer")
    <3>1. CASE net.kind = "failed" \/ resetAdmissionActive
      BY <1>4, <3>1 DEF HeartbeatAnswered, Release
    <3>2. CASE ~(net.kind = "failed" \/ resetAdmissionActive)
      <4>1. hold' = [ack |-> net.ack, max |-> net.max,
                     regressed |-> classifyAcknowledgement(cur, net)]
        BY <1>4, <3>2 DEF HeartbeatAnswered
      <4>2. net.kind = "answer"
        BY <1>4, <3>2 DEF HeartbeatAnswered
      <4>. QED  BY <4>1, <4>2
    <3>. QED  BY <3>1, <3>2
  <2>3. net.kind = "answer" => net.ack <= ServerAck(srv')
    BY <1>0, Bounds DEF AnswerInv, TypeInv, NetTyped
  <2>. QED  BY <1>1, <1>2, <2>1, <2>2, <2>3 DEF AnswerInv
<1>5. CASE RequestTimesOut \/ LateRequest \/ ServerAdopts
  <2>1. Small /\ Known
    BY <1>5 DEF RequestTimesOut, LateRequest, ServerAdopts, taskVars
  <2>. QED  BY <1>1, <1>2, <2>1 DEF AnswerInv
<1>6. CASE appendRecord \/ RemoveSegment \/ HistoryJob \/ HistoryExpires \/ ObserveGate
  <2>1. Small /\ Known
    BY <1>6 DEF appendRecord, RemoveSegment, HistoryJob, HistoryExpires,
       ObserveGate, taskVars,
       wireVars
  <2>. QED  BY <1>1, <1>2, <2>1 DEF AnswerInv
<1>7. CASE PushQueue \/ PushPoll \/ PushAnswered \/ HeartbeatSend \/ HeartbeatApply
  <2>1. Small /\ Known
    BY <1>7 DEF PushQueue, PushPoll, PushAnswered, HeartbeatSend,
       HeartbeatApply, taskVars,
       wireVars, Release, Silence
  <2>. QED  BY <1>1, <1>2, <2>1 DEF AnswerInv
<1>8. CASE SyncLook \/ SyncLease \/ SyncRecheck
  <2>1. Small /\ Known
    BY <1>8 DEF SyncLook, SyncLease, SyncRecheck, Denied, Release, taskVars,
       wireVars
  <2>. QED  BY <1>1, <1>2, <2>1 DEF AnswerInv
<1>9. CASE Reset
  <2>1. Small /\ Known
    BY <1>9 DEF Reset, ResetAdmit, ResetFreeze, ResetBarrier, ResetPrepared,
       ResetCancel,
       ResetCommit, taskVars, wireVars
  <2>. QED  BY <1>1, <1>2, <2>1 DEF AnswerInv
<1>10. CASE PowerLoss \/ ReplaceCard \/ UNCHANGED vars
  <2>1. Small /\ Known
    BY <1>10 DEF PowerLoss, ReplaceCard, Reboot, vars, Silence, taskVars,
       wireVars
  <2>. QED  BY <1>1, <1>2, <2>1 DEF AnswerInv
<1>. QED
  BY <1>3, <1>4, <1>5, <1>6, <1>7, <1>8, <1>9, <1>10
     DEF Next, Storage, Server, Push, Heartbeat, Lease

\* The cursor follows an answer, so it stays behind the server.
LEMMA CursorStep ==
  ASSUME TypeInv, TypeInv', StoreInv, AnswerInv, CursorBehindServer, [Next]_vars
  PROVE  CursorBehindServer'
<1>0. /\ ServerAck(srv) <= ServerAck(srv')
      /\ ServerAck(srv) \in Nat /\ ServerAck(srv') \in Nat /\ cur.ack \in Nat
      /\ boundary \in Nat /\ hold.ack \in Nat
  <2>1. ServerAck(srv) <= ServerAck(srv')
    BY ServerGrows
  <2>2. ServerAck(srv) \in Nat /\ ServerAck(srv') \in Nat
    BY ServerAckIsCovered, Bounds DEF TypeInv, Typed
  <2>3. cur.ack \in Nat /\ boundary \in Nat /\ hold.ack \in Nat
    BY Numbers
  <2>. QED  BY <2>1, <2>2, <2>3
<1>1. CASE boundary' = boundary /\ cur'.ack = cur.ack
  BY <1>0, <1>1 DEF CursorBehindServer
<1>2. CASE PushAnswered
  <2>1. cur \in Cursors /\ srv' = srv /\ boundary' = boundary
    BY <1>2 DEF PushAnswered, TypeInv, Typed
  <2>2. cur'.ack = cur.ack \/ (net.kind = "answer" /\ cur'.ack = net.ack)
    BY <1>2, <2>1 DEF PushAnswered, Cursors
  <2>3. net.kind = "answer" => net.ack \in Nat /\ net.ack <= ServerAck(srv)
    BY Bounds DEF AnswerInv, TypeInv, NetTyped
  <2>. QED  BY <1>1, <2>1, <2>2, <2>3 DEF CursorBehindServer
<1>3. CASE HeartbeatApply
  <2>1. srv' = srv /\ boundary' = boundary
    BY <1>3 DEF HeartbeatApply, wireVars
  <2>2. cur'.ack = cur.ack \/ cur'.ack = hold.ack
    BY <1>3 DEF HeartbeatApply, Raise
  <2>. QED  BY <1>1, <2>1, <2>2 DEF CursorBehindServer, AnswerInv
<1>4. CASE ResetCommit
  BY <1>4, CommitEffect DEF CursorBehindServer
<1>. QED
  BY <1>1, <1>2, <1>3, <1>4, StepCases, ReplaceEffect
     DEF Quiet, Processes, ServerAdopts, appendRecord, RemoveSegment, deviceVars

\* ResetInv is kept by every step.
LEMMA ResetStep ==
  ASSUME TypeInv, TypeInv', ResetInv, [Next]_vars
  PROVE  ResetInv'
<1>0. pc \in {"idle", "beat", "looked", "leased", "holding", "posted"} /\ reset \in ResetSteps
  BY DEF TypeInv, Typed
<1>1. CASE UNCHANGED <<reset, evidence, cur>> /\ (pc' = pc \/ pc' \notin {"holding", "posted"})
  BY <1>1 DEF ResetInv
<1>2. CASE appendRecord \/ RemoveSegment \/ HistoryJob \/ HistoryExpires \/ ObserveGate
  BY <1>1, <1>2 DEF appendRecord, RemoveSegment, HistoryJob, HistoryExpires,
     ObserveGate,
     taskVars, resetVars, deviceVars
<1>3. CASE Server
  BY <1>1, <1>3 DEF Server, ServerAnswers, RequestTimesOut, LateRequest,
     ServerAdopts, taskVars,
     resetVars, deviceVars
<1>4. CASE PushQueue \/ HeartbeatSend \/ HeartbeatAnswered \/ SyncLook \/ SyncLease
  BY <1>1, <1>4 DEF PushQueue, HeartbeatSend, HeartbeatAnswered, SyncLook,
     SyncLease, Release,
     Denied, resetVars, deviceVars
<1>5. CASE SyncRecheck
  <2>1. UNCHANGED <<reset, evidence, cur>>
    BY <1>5 DEF SyncRecheck, resetVars, deviceVars
  <2>2. pc' = "idle" \/ (pc' = "holding" /\ reset = "none")
    BY <1>5 DEF SyncRecheck, Denied, Release, resetAdmissionActive
  <2>. QED  BY <2>1, <2>2 DEF ResetInv
<1>6. CASE PushPoll
  <2>1. UNCHANGED <<reset, evidence, cur>> /\ pc = "holding"
    BY <1>6 DEF PushPoll, resetVars, deviceVars
  <2>. QED  BY <2>1 DEF ResetInv
<1>7. CASE PushAnswered \/ HeartbeatApply
  <2>1. reset' = reset /\ pc \in {"holding", "posted"} /\ pc' = "idle"
    BY <1>7 DEF PushAnswered, HeartbeatApply, Release, resetVars
  <2>. QED  BY <2>1 DEF ResetInv
<1>8. CASE ResetBarrier
  <2>1. pc' = pc /\ pc \notin {"holding", "posted"} /\ reset' = "drained"
    BY <1>8 DEF ResetBarrier, readingSyncInFlight, taskVars
  <2>. QED  BY <2>1 DEF ResetInv
<1>9. CASE ResetPrepared
  <2>1. /\ pc' = pc /\ pc \notin {"holding", "posted"} /\ cur' = cur
        /\ evidence'.ack = cur.ack /\ evidence'.max = Max({cur.ack, cur.max})
    BY <1>9 DEF ResetPrepared, readingSyncInFlight, taskVars, deviceVars
  <2>. QED  BY <2>1 DEF ResetInv
<1>10. CASE ResetAdmit \/ ResetFreeze \/ ResetCancel \/ ResetCommit
  <2>1. reset' \in {"none", "admitted", "frozen"}
    BY <1>10 DEF ResetAdmit, ResetFreeze, ResetCancel, ResetCommit
  <2>. QED  BY <2>1 DEF ResetInv
<1>11. CASE PowerLoss \/ ReplaceCard
  <2>1. pc' = "idle" /\ UNCHANGED <<evidence, cur>> /\ (reset' = "prepared" => reset = "prepared")
    BY <1>0, <1>11 DEF PowerLoss, ReplaceCard, Reboot, deviceVars, ResetSteps
  <2>. QED  BY <2>1 DEF ResetInv
<1>12. CASE UNCHANGED vars
  BY <1>1, <1>12 DEF vars, taskVars, resetVars, deviceVars
<1>. QED
  BY <1>2, <1>3, <1>4, <1>5, <1>6, <1>7, <1>8, <1>9, <1>10, <1>11, <1>12
     DEF Next, Storage, Push, Heartbeat, Lease, Reset

\* What the cursor passes is delivered: above the boundary the server covers
\* an undelivered reading only by having it or by having been told that it
\* is unavailable.
LEMMA CoveredIsDelivered ==
  ASSUME TypeInv, StoreInv, KeptInv, NEW s \in kept, s <= ServerAck(srv)
  PROVE  Delivered(s)
<1>1. s \in Seqs /\ s \in Nat /\ s >= 1
  BY Bounds DEF TypeInv, Typed, Seqs
<1>2. s \in Covered(srv)
  <2>1. ServerAck(srv) \in 0 .. MaxSeq /\ \A n \in 1 .. ServerAck(srv) : n \in Covered(srv)
    BY ServerAckIsCovered DEF TypeInv, Typed
  <2>2. s \in 1 .. ServerAck(srv)
    BY <1>1, <2>1, Bounds
  <2>. QED  BY <2>1, <2>2
<1>3. ~(s <= srv.base)
  <2>1. srv.base \in Nat /\ boundary \in Nat
    BY Numbers
  <2>2. srv.base <= boundary /\ boundary < s
    BY DEF StoreInv
  <2>. QED  BY <1>1, <2>1, <2>2
<1>. QED  BY <1>2, <1>3 DEF Covered, Delivered, KeptInv

\* Nothing declares an undelivered reading unavailable.
LEMMA KeptStep ==
  ASSUME "open" \notin Faults, TypeInv, TypeInv', StoreInv, PageInv, KeptInv,
         DeliveredBeforeForgotten, [Next]_vars
  PROVE  KeptInv'
<1>. SUFFICES ASSUME NEW s \in kept', ~Delivered(s)'
              PROVE  /\ card'[s] = "sync" /\ s \notin srv'.gone
                     /\ slot'.state = "ready" => s \notin slot'.page.unavailable
                     /\ \A b \in Batches : InFlight(b)' => s \notin b.unavailable
  BY DEF KeptInv
<1>1. ~Delivered(s)
  BY ServerGrows DEF Delivered
<1>2. CASE ResetCommit \/ ReplaceCard
  BY <1>2 DEF ResetCommit, ReplaceCard
<1>3. CASE s \in kept /\ ~appendRecord /\ ~(ResetCommit \/ ReplaceCard)
  <2>0. s \in Seqs
    BY <1>3 DEF TypeInv, Typed
  <2>1. /\ card[s] = "sync" /\ s \notin srv.gone
        /\ slot.state = "ready" => s \notin slot.page.unavailable
        /\ \A b \in Batches : InFlight(b) => s \notin b.unavailable
    BY <1>1, <1>3 DEF KeptInv
  <2>2. card'[s] = "sync"
    <3>1. CASE RemoveSegment
      <4>1. PICK r \in Retained :
              /\ \A t \in Segment(r) : t < next /\ t <= cur.ack
              /\ card' = [t \in Seqs |-> IF t \in Segment(r) THEN "none" ELSE card[t]]
        BY <3>1 DEF RemoveSegment
      <4>2. s \notin Segment(r)
        BY <1>1, <1>3, <4>1 DEF DeliveredBeforeForgotten, Delivered
      <4>. QED  BY <2>0, <2>1, <4>1, <4>2
    <3>2. CASE card' = card
      BY <2>1, <3>2
    <3>. QED
      BY <1>3, <3>1, <3>2, StepCases
         DEF Quiet, Processes, ServerAdopts, PushAnswered, HeartbeatApply, storageVars
  <2>3. s \notin srv'.gone
    <3>1. CASE Processes
      BY <2>1, <3>1, AcceptEffect DEF Processes, TypeInv, Typed
    <3>2. CASE ServerAdopts
      BY <2>1, <3>2 DEF ServerAdopts, TypeInv, Typed, Servers
    <3>3. CASE srv' = srv
      BY <2>1, <3>3
    <3>. QED
      BY <1>3, <3>1, <3>2, <3>3, StepCases
         DEF Quiet, PushAnswered, HeartbeatApply, RemoveSegment, wireVars
  <2>4. ASSUME slot'.state = "ready" PROVE s \notin slot'.page.unavailable
    <3>1. CASE slot' = slot
      BY <2>1, <2>4, <3>1
    <3>2. CASE slot' # slot
      <4>1. PICK after \in 0 .. MaxSeq, unreadable \in SUBSET Seqs :
              /\ \E candidates : slot'.page = readPage(after, unreadable, candidates)
              /\ unreadable = {}
        BY <2>4, <3>2, SlotCases
      <4>2. slot'.page.unavailable \cap Syncable = {}
        BY <4>1, ReadPageIsSound DEF TypeInv
      <4>. QED  BY <2>0, <2>1, <4>2 DEF Syncable
    <3>. QED  BY <3>1, <3>2
  <2>5. ASSUME NEW b \in Batches, InFlight(b)' PROVE s \notin b.unavailable
    BY <2>1, <2>5, FlightCases
  <2>. QED  BY <2>2, <2>3, <2>4, <2>5
<1>4. CASE appendRecord
  <2>0. /\ next' = next + 1 /\ next \in Nat /\ UNCHANGED <<slot, net, late, srv>>
        /\ next \in Seqs
    BY <1>4, Bounds DEF appendRecord, pageVars, wireVars, Seqs, TypeInv, Typed
  <2>1. PICK kind : /\ card' = [card EXCEPT ![next] = kind]
                    /\ kept' = IF kind = "sync" THEN kept \cup {next} ELSE kept
    BY <1>4 DEF appendRecord
  <2>2. \A b \in Batches : InFlight(b)' <=> InFlight(b)
    BY <2>0 DEF InFlight
  <2>3. card \in [Seqs -> {"none", "sync", "plain"}]
    BY DEF TypeInv, Typed
  <2>4. CASE s = next
    <3>1. s \notin kept
      BY <2>0, <2>4 DEF StoreInv
    <3>2. card'[s] = "sync"
      BY <2>0, <2>1, <2>3, <2>4, <3>1
    <3>3. ~(next < next)
      BY <2>0
    <3>. QED  BY <2>0, <2>2, <2>4, <3>2, <3>3 DEF StoreInv, PageInv
  <2>5. CASE s # next
    <3>1. s \in kept /\ card'[s] = card[s]
      BY <2>1, <2>3, <2>5 DEF TypeInv, Typed
    <3>. QED  BY <1>1, <2>0, <2>2, <3>1 DEF KeptInv
  <2>. QED  BY <2>4, <2>5
<1>5. s \in kept \/ appendRecord \/ ResetCommit \/ ReplaceCard
  BY StepCases
     DEF Quiet, Processes, ServerAdopts, PushAnswered, HeartbeatApply, RemoveSegment, storageVars
<1>. QED  BY <1>2, <1>3, <1>4, <1>5

\* The cursor passes no undelivered reading.
LEMMA DeliveredStep ==
  ASSUME TypeInv, TypeInv', StoreInv, AnswerInv, KeptInv, DeliveredBeforeForgotten,
         CursorBehindServer, [Next]_vars
  PROVE  DeliveredBeforeForgotten'
<1>. SUFFICES ASSUME NEW s \in kept', s <= cur'.ack PROVE Delivered(s)'
  BY DEF DeliveredBeforeForgotten, Delivered
<1>0. Delivered(s) => Delivered(s)'
  BY ServerGrows DEF Delivered
<1>1. CASE s \in kept /\ cur'.ack = cur.ack
  BY <1>0, <1>1 DEF DeliveredBeforeForgotten, Delivered
<1>2. CASE s \in kept /\ (PushAnswered \/ HeartbeatApply)
  <2>1. cur'.ack = cur.ack \/ cur'.ack <= ServerAck(srv)
    <3>1. CASE PushAnswered
      BY <3>1 DEF PushAnswered, AnswerInv, TypeInv, Typed, Cursors
    <3>2. CASE HeartbeatApply
      BY <3>2 DEF HeartbeatApply, Raise, AnswerInv
    <3>. QED  BY <1>2, <3>1, <3>2
  <2>2. CASE cur'.ack <= ServerAck(srv)
    <3>1. s \in Nat /\ cur'.ack \in Nat /\ ServerAck(srv) \in Nat
      <4>1. s \in Nat
        BY <1>2, Bounds DEF TypeInv, Typed, Seqs
      <4>2. cur'.ack \in Nat
        BY Bounds DEF TypeInv, Typed, Cursors
      <4>3. ServerAck(srv) \in Nat
        BY ServerAckIsCovered, Bounds DEF TypeInv, Typed
      <4>. QED  BY <4>1, <4>2, <4>3
    <3>2. s <= ServerAck(srv)
      BY <2>2, <3>1
    <3>. QED  BY <1>0, <1>2, <3>2, CoveredIsDelivered
  <2>. QED  BY <1>1, <1>2, <2>1, <2>2
<1>3. CASE appendRecord
  <2>1. /\ cur' = cur /\ next' = next + 1 /\ (s \in kept \/ s = next)
        /\ UNCHANGED <<boundary, srv>>
    BY <1>3 DEF appendRecord, deviceVars, wireVars
  <2>2. CASE s \in kept
    BY <1>1, <2>1, <2>2
  <2>3. CASE s = next
    <3>1. /\ next \in Nat /\ cur.ack \in Nat /\ boundary \in Nat /\ next >= 1 /\ next \in Seqs
          /\ ServerAck(srv) \in 0 .. MaxSeq /\ ServerAck(srv) \in Nat
      <4>1. next \in Nat /\ next >= 1 /\ next \in Seqs
        BY <1>3, Bounds DEF TypeInv, Typed, appendRecord, Seqs
      <4>2. cur.ack \in Nat /\ boundary \in Nat
        BY Numbers
      <4>3. ServerAck(srv) \in 0 .. MaxSeq
        BY ServerAckIsCovered DEF TypeInv, Typed
      <4>. QED  BY <4>1, <4>2, <4>3, Bounds
    <3>2. boundary < next /\ next <= cur.ack
      BY <2>1, <2>3 DEF StoreInv
    <3>3. next <= ServerAck(srv)
      BY <3>1, <3>2 DEF CursorBehindServer
    <3>4. next \in 1 .. ServerAck(srv)
      BY <3>1, <3>3
    <3>5. next \in Covered(srv)
      BY <3>4, ServerAckIsCovered DEF TypeInv, Typed
    <3>6. ~(next <= srv.base)
      <4>1. srv.base \in Nat /\ srv.base <= boundary
        BY Numbers DEF StoreInv
      <4>. QED  BY <3>1, <3>2, <4>1
    <3>7. next \notin srv.gone /\ \A g \in Gens : <<next, g>> \notin srv.got
      <4>1. ~(next < next)
        BY <3>1
      <4>2. \A g : <<next, g>>[1] = next
        OBVIOUS
      <4>. QED  BY <4>1, <4>2 DEF StoreInv
    <3>. QED  BY <3>5, <3>6, <3>7 DEF Covered
  <2>. QED  BY <2>1, <2>2, <2>3
<1>4. CASE ResetCommit \/ ReplaceCard
  BY <1>4 DEF ResetCommit, ReplaceCard
<1>. QED
  BY <1>1, <1>2, <1>3, <1>4, StepCases
     DEF Quiet, Processes, ServerAdopts, PushAnswered, HeartbeatApply, RemoveSegment,
         storageVars, deviceVars

-----------------------------------------------------------------------------
(* The theorems                                                             *)

\* The invariant that needs no hypothesis.
SyncInv == TypeInv /\ StoreInv /\ PageInv /\ AnswerInv /\ ResetInv /\ CursorBehindServer

\* At the start nothing is stored, in flight or acknowledged.
LEMMA SyncInit == Init => SyncInv
<1>. SUFFICES ASSUME Init PROVE SyncInv
  OBVIOUS
<1>1. TypeInv
  BY TypeInit
<1>2. StoreInv
  BY Bounds DEF Init, StoreInv, NoCursor
<1>3. PageInv
  BY DEF Init, PageInv, Free, InFlight, Silence
<1>4. ServerAck(srv) \in Nat
  BY <1>1, ServerAckIsCovered, Bounds DEF TypeInv, Typed
<1>5. AnswerInv /\ CursorBehindServer
  BY <1>4 DEF Init, AnswerInv, CursorBehindServer, Silence, NoAnswer, NoCursor
<1>6. ResetInv
  BY DEF Init, ResetInv
<1>. QED  BY <1>1, <1>2, <1>3, <1>5, <1>6 DEF SyncInv

\* It is kept by every step.
LEMMA SyncInvariant == Spec => []SyncInv
<1>1. SyncInv /\ [Next]_vars => SyncInv'
  BY TypeStep, StoreStep, PageStep, AnswerStep, CursorStep, ResetStep
  DEF SyncInv
<1>. QED  BY SyncInit, <1>1, PTL DEF Spec

\* The variables of the upload keep their types: a page, a batch or an answer
\* is there exactly where the ServerSync task uses it, one request at most is
\* late, and no sequence or generation leaves its bounds.
THEOREM TypeCorrect == Spec => []TypeOK
<1>1. SyncInv => TypeOK
  BY TypeInvIsTypeOK DEF SyncInv
<1>. QED  BY <1>1, SyncInvariant, PTL

\* A reading reaches the server only under the generation it was stored in,
\* however late its page, request or answer is, for any number of resets,
\* power losses, time-outs and exchanged cards.
THEOREM GenerationsAreKept == Spec => []GenerationKept
<1>1. SyncInv => GenerationKept
  BY DEF SyncInv, StoreInv, GenerationKept
<1>. QED  BY <1>1, SyncInvariant, PTL

\* The durable cursor that pushReadings() and heartbeat() move is never ahead
\* of what the server has accounted for, except below a reset's boundary.
THEOREM CursorStaysBehindServer == Spec => []CursorBehindServer
<1>1. SyncInv => CursorBehindServer
  BY DEF SyncInv
<1>. QED  BY <1>1, SyncInvariant, PTL

\* Once a reset has signed its evidence, no upload is past its second look at
\* the admission and the cursors are the signed ones: the two looks of
\* tryBeginReadingSync around taking the lease are enough.
THEOREM EvidenceIsFinal == Spec => []NoUploadBehindEvidence
<1>1. SyncInv => NoUploadBehindEvidence
  BY DEF SyncInv, ResetInv, NoUploadBehindEvidence
<1>. QED  BY <1>1, SyncInvariant, PTL

\* A syncable reading the device still answers for is at the server before the
\* cursor passes it.  The hypothesis leaves out a segment that readPage cannot
\* open: its readings are declared unavailable, and TLC shows the violation.
THEOREM NothingForgottenUndelivered ==
  ASSUME "open" \notin Faults
  PROVE  Spec => []DeliveredBeforeForgotten
<1>. DEFINE Inv == SyncInv /\ KeptInv /\ DeliveredBeforeForgotten
<1>1. Init => Inv
  BY SyncInit DEF Init, KeptInv, DeliveredBeforeForgotten
<1>2. Inv /\ [Next]_vars => Inv'
  BY TypeStep, StoreStep, PageStep, AnswerStep, CursorStep, ResetStep,
     KeptStep, DeliveredStep
     DEF SyncInv
<1>3. Inv => DeliveredBeforeForgotten
  OBVIOUS
<1>. QED  BY <1>1, <1>2, <1>3, PTL DEF Spec

=============================================================================
