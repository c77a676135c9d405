---------------------------- MODULE MCRuntimeConfig ----------------------------
(***************************************************************************)
(* Small instances of RuntimeConfig for TLC.                                *)
(***************************************************************************)
EXTENDS RuntimeConfig

\* The versions the server publishes, one after the other.
MCUpdates == <<"invalid", "move", "bad", "unreachable">>
=============================================================================
