---------------------------- MODULE MCDataReset ------------------------------
(* DataReset with two operations.                                           *)
EXTENDS DataReset
=============================================================================
