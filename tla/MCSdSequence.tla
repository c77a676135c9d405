---------------------------- MODULE MCSdSequence -----------------------------
(* SdSequence with small bounds; the .cfg files choose the faults and the   *)
(* rule under which the card may be exchanged.                              *)
EXTENDS SdSequence
=============================================================================
