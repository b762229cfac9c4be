------------------------------ MODULE Staking ------------------------------
(* The staking contract (contracts/staking_rewards): stakes are held in the *)
(* staking token, rewards compound over ledgers and are computed lazily,    *)
(* whenever the user next calls.  A failed call reverts, so an action is a  *)
(* call that succeeds.  The fixed-point exponential of the multiplier is    *)
(* abstracted to a growth factor per ledger; the guard's committee is the   *)
(* subject of module Guard, here it pauses and resumes.                     *)
EXTENDS Integers, FiniteSetsExt, Functions

CONSTANTS User,
          Factor,         \* growth of a balance in the k-th ledger after the start
          StartBlock,     \* StakingConfig.start_block
          MaxStake,       \* bound on what all users stake together
          MaxLedger       \* bound on the ledger sequence

VARIABLES user,           \* DataKey::UserState; NoState: no entry
          totalStaked, held, paused, ledger,
          reference       \* history: rewards had they been booked ledger by ledger

vars == <<user, totalStaked, held, paused, ledger, reference>>

NoState == [staked |-> 0, accrued |-> 0, last |-> -1]
Operations == {"STAKE", "CLAIM_REWARDS"}

Maximum(a, b) == IF a >= b THEN a ELSE b

\* calculate_multiplier: the product of the growth from t1 to t2, no growth
\* before the start block.
calculate_multiplier(t1, t2) ==
    LET k1 == Maximum(t1, StartBlock) - StartBlock
        k2 == Maximum(t2, StartBlock) - StartBlock
    IN  FoldSet(LAMBDA k, acc : Factor[k] * acc, 1, k1 .. k2 - 1)

Init ==
    /\ user = [u \in User |-> NoState]
    /\ totalStaked = 0 /\ held = 0
    /\ paused = {}
    /\ ledger = 0
    /\ reference = [u \in User |-> 0]

\* Slip: the clock of a user without stake stands still.
UpdatedIfStaked(u) ==
    LET s == user[u]
        grown == (s.staked + s.accrued) * calculate_multiplier(s.last, ledger) - s.staked
    IN  [staked  |-> s.staked,
         accrued |-> IF s.staked > 0 /\ ledger > s.last THEN grown ELSE s.accrued,
         last    |-> IF s.staked > 0 THEN Maximum(ledger, StartBlock) ELSE s.last]

\* update_user_rewards_internal: the state a call works on, rewards brought up
\* to the current ledger.
Updated(u) ==
    LET s == user[u]
        grown == (s.staked + s.accrued) * calculate_multiplier(s.last, ledger) - s.staked
    IN  [staked  |-> s.staked,
         accrued |-> IF s.staked > 0 /\ ledger > s.last THEN grown ELSE s.accrued,
         last    |-> Maximum(ledger, StartBlock)]

\* An entry with neither stake nor rewards is removed.
Stored(s) == IF s.staked = 0 /\ s.accrued = 0 THEN NoState ELSE s

stake(u, n) ==
    /\ "STAKE" \notin paused
    /\ n > 0 /\ totalStaked + n <= MaxStake
    /\ user' = [user EXCEPT ![u] = [Updated(u) EXCEPT !.staked = @ + n]]
    /\ totalStaked' = totalStaked + n
    /\ held' = held + n
    /\ UNCHANGED <<paused, ledger, reference>>

withdraw(u, n) ==
    /\ "STAKE" \notin paused
    /\ n > 0 /\ Updated(u).staked >= n /\ held >= n
    /\ user' = [user EXCEPT ![u] = Stored([Updated(u) EXCEPT !.staked = @ - n])]
    /\ totalStaked' = totalStaked - n
    /\ held' = held - n
    /\ UNCHANGED <<paused, ledger, reference>>

\* Nothing to claim returns before anything is saved.
claim(u) ==
    /\ "CLAIM_REWARDS" \notin paused
    /\ Updated(u).accrued > 0
    /\ user' = [user EXCEPT ![u] = Stored([Updated(u) EXCEPT !.accrued = 0])]
    /\ reference' = [reference EXCEPT ![u] = 0]
    /\ UNCHANGED <<totalStaked, held, paused, ledger>>

\* Open whatever is paused; forfeits the rewards.
emergency_withdraw(u) ==
    /\ user[u].staked > 0 /\ held >= user[u].staked
    /\ totalStaked' = totalStaked - user[u].staked
    /\ held' = held - user[u].staked
    /\ user' = [user EXCEPT ![u] = NoState]
    /\ reference' = [reference EXCEPT ![u] = 0]
    /\ UNCHANGED <<paused, ledger>>

\* set_paused and set_claim_rewards_paused by the owner.
set_paused(op, on) ==
    /\ paused' = IF on THEN paused \cup {op} ELSE paused \ {op}
    /\ UNCHANGED <<user, totalStaked, held, ledger, reference>>

\* emergency_pause_all and resume_all by the committee.
set_all(on) ==
    /\ paused' = IF on THEN Operations ELSE {}
    /\ UNCHANGED <<user, totalStaked, held, ledger, reference>>

\* A ledger closes: the reference books the growth of that ledger.
Tick ==
    /\ ledger < MaxLedger
    /\ ledger' = ledger + 1
    /\ reference' = [u \in User |->
          IF user[u].staked > 0
          THEN (user[u].staked + reference[u]) * calculate_multiplier(ledger, ledger + 1) - user[u].staked
          ELSE reference[u]]
    /\ UNCHANGED <<user, totalStaked, held, paused>>

Next ==
    \/ \E u \in User, n \in 1 .. MaxStake : stake(u, n) \/ withdraw(u, n)
    \/ \E u \in User : claim(u) \/ emergency_withdraw(u)
    \/ \E op \in Operations, on \in BOOLEAN : set_paused(op, on)
    \/ \E on \in BOOLEAN : set_all(on)
    \/ Tick

Spec == Init /\ [][Next]_vars

----------------------------------------------------------------------------
(* The lazily computed rewards are exactly those of booking every ledger as *)
(* it closes: no call in between, no idle time without a stake and no time  *)
(* before the start block changes what a user is owed.                      *)
LazyAccrualExact == \A u \in User : Updated(u).accrued = reference[u]

(* The recorded total is the sum of the stakes and the contract holds all   *)
(* of it, so emergency_withdraw can pay every staker whatever was claimed   *)
(* or paused before.                                                        *)
PrincipalCovered ==
    /\ MapThenSumSet(LAMBDA u : user[u].staked, User) = totalStaked
    /\ held = totalStaked
=============================================================================
