--------------------------- MODULE RetainedHistory ---------------------------
(***************************************************************************)
(* What local retention promises, with no files, journals or power         *)
(* failures in sight: segments of each kind are added in order, the server *)
(* acknowledges them in order, and one segment at a time is forgotten for  *)
(* good, never one that is not acknowledged, nor the newest ones.          *)
(***************************************************************************)
EXTENDS Naturals

CONSTANTS Kinds, Window  \* Window: how many of the newest are never forgotten

VARIABLES
  created,   \* the number of segments ever added, by kind
  confirmed, \* the last segment the server acknowledged, by kind
  forgotten  \* the segments no longer part of the history, by kind

vars == <<created, confirmed, forgotten>>

Init ==
  /\ created \in [Kinds -> Nat]
  /\ confirmed = [k \in Kinds |-> 0]
  /\ forgotten = [k \in Kinds |-> {}]

Add(k) ==
  /\ created' = [created EXCEPT ![k] = @ + 1]
  /\ UNCHANGED <<confirmed, forgotten>>

Confirm(k) ==
  /\ \E n \in (confirmed[k] + 1)..created[k] :
       confirmed' = [confirmed EXCEPT ![k] = n]
  /\ UNCHANGED <<created, forgotten>>

Forget(k) ==
  \E n \in 1..confirmed[k] :
    /\ n \notin forgotten[k]
    /\ n + Window <= created[k]
    /\ forgotten' = [forgotten EXCEPT ![k] = @ \cup {n}]
    /\ UNCHANGED <<created, confirmed>>

Next == \E k \in Kinds : Add(k) \/ Confirm(k) \/ Forget(k)

Spec == Init /\ [][Next]_vars
=============================================================================
