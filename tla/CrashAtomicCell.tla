--------------------------- MODULE CrashAtomicCell ---------------------------
(***************************************************************************)
(* What loadActive and commit promise the modules that keep a record in    *)
(* NVS: one cell.  While an operation is undecided the cell holds its old  *)
(* or its new value; a decided operation leaves exactly one of the two.    *)
(***************************************************************************)
CONSTANTS Values, Empty

VARIABLES
  value,   \* what a reader is given
  allowed  \* the values a reader may be given

vars == <<value, allowed>>

Init == value = Empty /\ allowed = {Empty}

\* An operation installing v starts; its predecessor, if it was never
\* decided, is decided by what the cell holds now.
Begin(v) ==
  /\ allowed' = {value, v}
  /\ value' = value

\* The medium moves between the values the undecided operation allows.
Flip ==
  /\ value' \in allowed
  /\ UNCHANGED allowed

\* The operation is decided, for its old or for its new value.
Decide ==
  /\ value' \in allowed
  /\ allowed' = {value'}

Next == (\E v \in Values : Begin(v)) \/ Flip \/ Decide

Spec == Init /\ [][Next]_vars

=============================================================================
