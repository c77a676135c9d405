-------------------------- MODULE ResetTransaction --------------------------
(* What a data reset promises to the server that coordinates it: one        *)
(* operation at a time is opened, and it ends in exactly one of two ways.   *)
(* Cancelled, it has removed nothing and moved no generation; completed, no *)
(* earlier reading is left.  The generation moves, and readings disappear,  *)
(* only between the authorization and the completion.                       *)
EXTENDS Naturals

CONSTANTS Ops, NoOp

VARIABLES op,          \* the operation of the durable record
          phase,       \* "idle", "open", "authorized", "completed", "cancelled"
          generation,  \* the data generation
          readings     \* the stored readings

vars == <<op, phase, generation, readings>>

Init == /\ op = NoOp
        /\ phase = "idle"
        /\ generation \in Nat
        /\ readings = {}

\* Readings are stored as long as no reset is authorized.
Store == /\ phase # "authorized"
         /\ readings \subseteq readings'
         /\ UNCHANGED <<op, phase, generation>>

Open == /\ phase \in {"idle", "completed", "cancelled"}
        /\ op' \in Ops \ {op}
        /\ phase' = "open"
        /\ UNCHANGED <<generation, readings>>

Cancel == /\ phase = "open"
          /\ phase' = "cancelled"
          /\ UNCHANGED <<op, generation, readings>>

Authorize == /\ phase = "open"
             /\ phase' = "authorized"
             /\ UNCHANGED <<op, generation, readings>>

Advance == /\ phase = "authorized"
           /\ generation' = generation + 1
           /\ UNCHANGED <<op, phase, readings>>

Erase == /\ phase = "authorized"
         /\ \E r \in readings : readings' = readings \ {r}
         /\ UNCHANGED <<op, phase, generation>>

Complete == /\ phase = "authorized"
            /\ readings = {}
            /\ phase' = "completed"
            /\ UNCHANGED <<op, generation, readings>>

Next == Store \/ Open \/ Cancel \/ Authorize \/ Advance \/ Erase \/ Complete

Spec == Init /\ [][Next]_vars
=============================================================================
