----------------------------- MODULE VaultGuard -----------------------------
(***************************************************************************)
(* contracts/vault_guard: a global pause whose lifting waits for Delay     *)
(* ledgers, a circuit breaker of a guardian outside the admin, and a mask  *)
(* of operations paused one by one.  A mask is a set of operations; bits   *)
(* outside OP_ALL are refused.  The role checks choose who may call and    *)
(* leave no trace, so an action stands for a call by the holder.           *)
(***************************************************************************)
EXTENDS Naturals

CONSTANTS Op,          \* the bits of OP_ALL
          Delay,       \* UNPAUSE_DELAY_LEDGERS
          MaxLedger    \* bound on the ledger sequence

VARIABLES state,       \* GuardState
          ledger,
          since        \* history: the ledger of the latest pause or trip

vars == <<state, ledger, since>>

\* The ledger sequence of a running network is past the delay.
Init ==
  /\ state = [all_paused |-> FALSE, ops |-> {}, paused_at |-> 0, tripped |-> FALSE]
  /\ ledger = Delay /\ since = 0

pause ==
  /\ ~state.all_paused
  /\ state' = [state EXCEPT !.all_paused = TRUE, !.paused_at = ledger]
  /\ since' = ledger
  /\ UNCHANGED ledger

pause_operations(mask) ==
  /\ mask \ state.ops # {}
  /\ state' = [state EXCEPT !.ops = @ \union mask,
                            !.paused_at = IF @ = 0 THEN ledger ELSE @]
  /\ UNCHANGED <<ledger, since>>

resume_operations(mask) ==
  /\ mask \subseteq state.ops
  /\ state' = [state EXCEPT !.ops = @ \ mask,
                            !.paused_at = IF state.ops = mask THEN 0 ELSE @]
  /\ UNCHANGED <<ledger, since>>

unpause ==
  /\ state.all_paused
  /\ ledger - state.paused_at >= Delay
  /\ state' = [state EXCEPT !.all_paused = FALSE, !.paused_at = 0]
  /\ UNCHANGED <<ledger, since>>

\* Slip: a trip during a pause keeps the start of the pause.
tripKeepsStart ==
  /\ ~state.tripped
  /\ state' = [state EXCEPT !.all_paused = TRUE, !.tripped = TRUE,
                            !.paused_at = IF state.all_paused THEN @ ELSE ledger]
  /\ since' = ledger
  /\ UNCHANGED ledger

trip ==
  /\ ~state.tripped
  /\ state' = [state EXCEPT !.all_paused = TRUE, !.paused_at = ledger, !.tripped = TRUE]
  /\ since' = ledger
  /\ UNCHANGED ledger

reset_trip ==
  /\ state.tripped /\ ~state.all_paused
  /\ state' = [state EXCEPT !.tripped = FALSE]
  /\ UNCHANGED <<ledger, since>>

Tick == ledger < MaxLedger /\ ledger' = ledger + 1 /\ UNCHANGED <<state, since>>

Next ==
  \/ pause \/ unpause \/ trip \/ reset_trip \/ Tick
  \/ \E mask \in SUBSET Op : pause_operations(mask) \/ resume_operations(mask)

Spec == Init /\ [][Next]_vars
-----------------------------------------------------------------------------
\* "Any unpause requires UNPAUSE_DELAY_LEDGERS to have passed since the
\* pause": a global pause is never lifted sooner than Delay ledgers after
\* the latest pause or trip.
UnpauseWaits ==
  [][state.all_paused /\ ~state'.all_paused => ledger - since >= Delay]_vars

\* The window shrinks in one way only: resume_operations forgot when the
\* pause began.  A trip during a pause starts the window again, and no
\* other call ends a trip before the pause is lifted.
TripHolds ==
  [][/\ state.all_paused /\ ~state'.all_paused /\ state.paused_at # 0
          => ledger - since >= Delay
     /\ state.tripped /\ ~state'.tripped => ~state.all_paused]_vars
=============================================================================
