------------------------------- MODULE MCOta -------------------------------
(* Two deployments for TLC, the second with the newer image.               *)
EXTENDS Ota

MCOffers ==
  <<[dep |-> 1, attempt |-> 1, image |-> 2],
    [dep |-> 2, attempt |-> 1, image |-> 3]>>
=============================================================================
