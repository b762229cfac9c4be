------------------------------ MODULE AtomicTx ------------------------------
(***************************************************************************)
(* What a two-phase transaction promises its caller: it is open, committed *)
(* with every effect in place, or rolled back with none.  While it is open *)
(* effects come and go one by one.                                         *)
(***************************************************************************)
CONSTANT Effects

VARIABLES
    outcome,    \* "open", "committed" or "rolled_back"
    done        \* the effects in place

vars == <<outcome, done>>

Init == outcome = "open" /\ done = {}

Progress == outcome = "open" /\ outcome' = "open" /\ done' \in SUBSET Effects

Commit == outcome = "open" /\ outcome' = "committed" /\ done' = Effects

RollBack == outcome = "open" /\ outcome' = "rolled_back" /\ done' = {}

\* A rolled-back transaction is tried again, or a committed one is undone.
Reopen == outcome # "open" /\ outcome' = "open" /\ UNCHANGED done

Next == Progress \/ Commit \/ RollBack \/ Reopen

Spec == Init /\ [][Next]_vars
=============================================================================
