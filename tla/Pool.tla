-------------------------------- MODULE Pool --------------------------------
(* The constant-product pool (contracts/liquidity_pool; the copy under      *)
(* Perigee/contracts is the one that compiles): deposits mint shares, swaps *)
(* pay a fee to the reserves, shares are withdrawn, burnt, transferred and  *)
(* staked.  A failed call reverts, so an action is a call that succeeds.    *)
(* Pausing is the subject of module Guard.                                  *)
EXTENDS Integers, FiniteSetsExt

CONSTANTS User,
          BPS, Fees,     \* fee scale and the fees set_fee may set
          MaxDeposit,    \* bound on one deposit
          MaxReserve     \* bound on each reserve

VARIABLES reserve,       \* PoolState.reserve_a and reserve_b
          totalShares, fee, balance, staked, totalStaked

vars == <<reserve, totalShares, fee, balance, staked, totalStaked>>

Side == {"a", "b"}
Other(s) == IF s = "a" THEN "b" ELSE "a"
Product(r) == r["a"] * r["b"]

\* sqrt: the integer root the Newton iteration stops at.
sqrt(n) == CHOOSE r \in 0 .. n : r * r <= n /\ (r + 1) * (r + 1) > n

Init ==
    /\ reserve = [s \in Side |-> 0]
    /\ totalShares = 0
    /\ fee \in Fees
    /\ balance = [u \in User |-> 0]
    /\ staked = [u \in User |-> 0]
    /\ totalStaked = 0

\* The first deposit mints the root of the product, later ones the smaller of
\* the two proportions; a reserve of zero makes the division fail.
SharesFor(put) ==
    IF totalShares = 0 THEN sqrt(Product(put))
    ELSE Min({(put[s] * totalShares) \div reserve[s] : s \in Side})

deposit(u, put) ==
    /\ totalShares # 0 => \A s \in Side : reserve[s] # 0
    /\ \A s \in Side : reserve[s] + put[s] <= MaxReserve
    /\ balance' = [balance EXCEPT ![u] = @ + SharesFor(put)]
    /\ totalShares' = totalShares + SharesFor(put)
    /\ reserve' = [s \in Side |-> reserve[s] + put[s]]
    /\ UNCHANGED <<fee, staked, totalStaked>>

\* Slip: the price is rounded down.
AmountInRoundedDown(s, out) ==
    (reserve[Other(s)] * out * BPS) \div ((reserve[s] - out) * (BPS - fee))

\* What a trader pays for out units of side s.
AmountIn(s, out) ==
    (reserve[Other(s)] * out * BPS) \div ((reserve[s] - out) * (BPS - fee)) + 1

swap(s, out) ==
    /\ out < reserve[s]
    /\ reserve[Other(s)] + AmountIn(s, out) <= MaxReserve
    /\ reserve' = [reserve EXCEPT ![s] = @ - out, ![Other(s)] = @ + AmountIn(s, out)]
    /\ UNCHANGED <<totalShares, fee, balance, staked, totalStaked>>

withdraw(u, n) ==
    /\ n <= balance[u] /\ totalShares > 0
    /\ balance' = [balance EXCEPT ![u] = @ - n]
    /\ totalShares' = totalShares - n
    /\ reserve' = [s \in Side |-> reserve[s] - (n * reserve[s]) \div totalShares]
    /\ UNCHANGED <<fee, staked, totalStaked>>

\* Burnt shares give up their part of the reserves.
burn(u, n) ==
    /\ n <= balance[u]
    /\ balance' = [balance EXCEPT ![u] = @ - n]
    /\ totalShares' = totalShares - n
    /\ UNCHANGED <<reserve, fee, staked, totalStaked>>

transfer(u, v, n) ==
    /\ n <= balance[u]
    /\ balance' = LET debited == [balance EXCEPT ![u] = @ - n]
                  IN  [debited EXCEPT ![v] = @ + n]
    /\ UNCHANGED <<reserve, totalShares, fee, staked, totalStaked>>

stake(u, n) ==
    /\ n <= balance[u]
    /\ balance' = [balance EXCEPT ![u] = @ - n]
    /\ staked' = [staked EXCEPT ![u] = @ + n]
    /\ totalStaked' = totalStaked + n
    /\ UNCHANGED <<reserve, totalShares, fee>>

unstake(u, n) ==
    /\ n <= staked[u]
    /\ balance' = [balance EXCEPT ![u] = @ + n]
    /\ staked' = [staked EXCEPT ![u] = @ - n]
    /\ totalStaked' = totalStaked - n
    /\ UNCHANGED <<reserve, totalShares, fee>>

\* set_fee by the administrator, or execute_fee_update after its timelock.
set_fee(f) ==
    /\ f # fee /\ fee' = f
    /\ UNCHANGED <<reserve, totalShares, balance, staked, totalStaked>>

Next ==
    \/ \E u \in User, put \in [Side -> 0 .. MaxDeposit] : deposit(u, put)
    \/ \E s \in Side, out \in 0 .. MaxReserve : swap(s, out)
    \/ \E u \in User, n \in 1 .. MaxReserve :
          \/ withdraw(u, n) \/ burn(u, n) \/ stake(u, n) \/ unstake(u, n)
          \/ \E v \in User : transfer(u, v, n)
    \/ \E f \in Fees : set_fee(f)

Spec == Init /\ [][Next]_vars

----------------------------------------------------------------------------
(* Every share is somewhere: the recorded supply is what users hold plus    *)
(* what they staked, and the staked total is the sum of the stakes.         *)
PoolShares ==
    /\ totalShares = MapThenSumSet(LAMBDA u : balance[u] + staked[u], User)
    /\ totalStaked = MapThenSumSet(LAMBDA u : staked[u], User)

(* What one share is worth, the reserves' product per square of the supply, *)
(* never falls: no deposit, swap, withdrawal or burn, in whatever order and *)
(* with whatever rounding and fee, takes value from the shares that stay.   *)
ShareValueNeverFalls ==
    [][(totalShares > 0 /\ totalShares' > 0) =>
         Product(reserve') * totalShares * totalShares
            >= Product(reserve) * totalShares' * totalShares']_vars
=============================================================================
