---------------------------- MODULE SyncCoverage ----------------------------
(***************************************************************************)
(* The page of readings one upload covers: which retained records are      *)
(* selected (SdStorage::readEnvelopeFiles) and which sequences are         *)
(* declared unavailable so that the page is contiguous from the            *)
(* acknowledgement cursor on (storage/SyncCoverage.h).                     *)
(***************************************************************************)
EXTENDS Naturals, FiniteSets, FiniteSetsExt, Sequences, SequencesExt

\* Dropping the highest candidates until the page holds at most limit records
\* and maximum bytes.
Fitting(S, bytes, limit, maximum) ==
  {s \in S : LET below == {t \in S : t <= s}
             IN  /\ Cardinality(below) <= limit
                 /\ MapThenSumSet(LAMBDA t : bytes[t], below) <= maximum}

\* The candidates after a scan that met the records in this order.  A record
\* that does not fit is dropped although a later, smaller and higher one may
\* still be admitted.
Candidates(order, bytes, limit, maximum) ==
  LET after[i \in 0 .. Len(order)] ==
        IF i = 0 THEN {}
        ELSE Fitting(after[i - 1] \cup {order[i]}, bytes, limit, maximum)
  IN  after[Len(order)]

\* Mutant: a retained record that was not selected is declared unavailable.
deriveSyncCoverage_Mut(after, maxScanned, selected, observed, limit) ==
  LET desiredEnd == IF selected = {} THEN maxScanned
                    ELSE Min({maxScanned, Max(selected)})
      Unavailable(end) == (after + 1 .. end) \ selected
      ends == {e \in after + 1 .. desiredEnd :
                 Cardinality(Unavailable(e)) <= limit}
  IN  IF maxScanned <= after \/ limit = 0 \/ ends = {}
      THEN [end |-> 0, unavailable |-> {}]
      ELSE [end |-> Max(ends), unavailable |-> Unavailable(Max(ends))]

\* deriveSyncCoverage.  The loop runs upwards from the cursor; it stops in
\* front of a retained record that was not selected, and when one more
\* unavailable sequence would exceed the limit.
deriveSyncCoverage(after, maxScanned, selected, observed, limit) ==
  LET desiredEnd == IF selected = {} THEN maxScanned
                    ELSE Min({maxScanned, Max(selected)})
      Unavailable(end) == (after + 1 .. end) \ selected
      Reached(end) == /\ Unavailable(end) \cap observed = {}
                      /\ Cardinality(Unavailable(end)) <= limit
      ends == {e \in after + 1 .. desiredEnd : Reached(e)}
  IN  IF maxScanned <= after \/ limit = 0 \/ ends = {}
      THEN [end |-> 0, unavailable |-> {}]
      ELSE [end |-> Max(ends), unavailable |-> Unavailable(Max(ends))]

\* A page: the records of the selected candidates the plan reaches, and the
\* unavailable sequences.  A record that no page can hold fails the scan.
CoveragePage(after, newest, observed, candidates, oversize, limit) ==
  LET selected == observed \cap candidates
      plan == deriveSyncCoverage(after, newest, selected, observed, limit)
  IN  IF oversize
      THEN [ok |-> FALSE, records |-> {}, unavailable |-> {}]
      ELSE [ok |-> TRUE, records |-> {s \in selected : s <= plan.end},
            unavailable |-> plan.unavailable]
=============================================================================
