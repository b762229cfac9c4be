-------------------------------- MODULE Cdp --------------------------------
(* The collateralised debt positions (contracts/cdp): users lock            *)
(* collateral, mint stable coins against it, and are liquidated by others   *)
(* or by the protocol when the oracle price falls.  Interest is booked on a *)
(* position whenever a call touches it.  A failed call reverts, so an       *)
(* action is a call that succeeds.                                          *)
EXTENDS Integers, FiniteSetsExt

CONSTANTS User,
          BPS, PriceScale, LedgersPerYear,
          MinRatio, Incentive,                 \* RiskParams
          BaseRate, Slope1, Slope2, Optimal,   \* InterestRateModel
          Prices,                              \* what the oracle may answer
          MaxCollateral, MaxAmount, MaxLedger  \* bounds

VARIABLES position, stable,
          total,      \* the five totals of the contract
          held,       \* collateral tokens in the contract's account
          price, ledger,
          interest,   \* history: all interest ever booked
          absorbed    \* history: debt closed by self_liquidate against reserves

vars == <<position, stable, total, held, price, ledger, interest, absorbed>>

AtMost(a, b) == IF a <= b THEN a ELSE b

collateral_value(n) == (n * price) \div PriceScale

\* collateral_ratio_bps against the minimum; no debt is any ratio.
Safe(p) ==
    p.debt > 0 => (collateral_value(p.collateral) * BPS) \div p.debt >= MinRatio

utilization_bps ==
    LET value == collateral_value(total.collateral)
    IN  IF value <= 0 THEN 0 ELSE AtMost((total.debt * BPS) \div value, BPS)

borrow_rate_bps(util) ==
    IF util <= Optimal
    THEN BaseRate + (util * Slope1) \div Optimal
    ELSE BaseRate + Slope1 + ((util - Optimal) * Slope2) \div (BPS - Optimal)

\* The interest accrue_position books on u's position at this call.
Interest(u) ==
    LET p == position[u]
    IN  IF p.debt <= 0 \/ p.last >= ledger THEN 0
        ELSE ((p.debt * borrow_rate_bps(utilization_bps) * (ledger - p.last)) \div BPS)
                \div LedgersPerYear

accrue_position(u) ==
    [position[u] EXCEPT !.debt = @ + Interest(u), !.last = ledger]

Init ==
    /\ position = [u \in User |-> [collateral |-> 0, debt |-> 0, last |-> 0]]
    /\ stable = [u \in User |-> 0]
    /\ total = [collateral |-> 0, debt |-> 0, supply |-> 0, reserves |-> 0, bad |-> 0]
    /\ held = 0
    /\ price \in Prices
    /\ ledger = 0
    /\ interest = 0 /\ absorbed = 0

\* What every call that touches u's position books: its interest, plus the
\* call's own changes of debt d, collateral c and supply s.
Book(u, c, d, s) ==
    /\ position' = [position EXCEPT ![u] = [accrue_position(u) EXCEPT !.collateral = @ + c, !.debt = @ + d]]
    /\ total' = [total EXCEPT !.collateral = @ + c,
                              !.debt = @ + Interest(u) + d,
                              !.supply = @ + Interest(u) + s]
    /\ interest' = interest + Interest(u)
    /\ UNCHANGED <<price, ledger>>

deposit_collateral(u, n) ==
    /\ held + n <= MaxCollateral
    /\ Book(u, n, 0, 0)
    /\ held' = held + n
    /\ UNCHANGED <<stable, absorbed>>

withdraw_collateral(u, n) ==
    /\ n <= position[u].collateral
    /\ Safe([accrue_position(u) EXCEPT !.collateral = @ - n])
    /\ Book(u, -n, 0, 0)
    /\ held' = held - n
    /\ UNCHANGED <<stable, absorbed>>

mint_stable(u, n) ==
    /\ Safe([accrue_position(u) EXCEPT !.debt = @ + n])
    /\ Book(u, 0, n, n)
    /\ stable' = [stable EXCEPT ![u] = @ + n]
    /\ UNCHANGED <<held, absorbed>>

repay(u, n) ==
    LET paid == AtMost(AtMost(n, stable[u]), accrue_position(u).debt)
    IN  /\ paid > 0
        /\ Book(u, 0, -paid, -paid)
        /\ stable' = [stable EXCEPT ![u] = @ - paid]
        /\ UNCHANGED <<held, absorbed>>

transfer_stable(u, v, n) ==
    /\ stable[u] >= n
    /\ stable' = LET debited == [stable EXCEPT ![u] = @ - n]
                 IN  [debited EXCEPT ![v] = @ + n]
    /\ UNCHANGED <<position, total, held, price, ledger, interest, absorbed>>

\* What the collateral of an unsafe position can cover after the incentive.
Coverable(p) == (collateral_value(p.collateral) * BPS) \div (BPS + Incentive)

Seizable(p, paid) ==
    AtMost((((paid * (BPS + Incentive)) \div BPS) * PriceScale) \div price, p.collateral)

\* Repayable(u, n): the repay_amount of a quote.
Repayable(u, n) ==
    LET p == accrue_position(u) IN AtMost(n, AtMost(p.debt, Coverable(p)))

\* A quote is a call of its own: it books the interest and changes no more.
quote_liquidation(u, n) ==
    /\ ~Safe(accrue_position(u))
    /\ Repayable(u, n) > 0
    /\ Book(u, 0, 0, 0)
    /\ UNCHANGED <<stable, held, absorbed>>

liquidate(v, u, n) ==
    LET paid == Repayable(u, n)
        seized == Seizable(accrue_position(u), paid)
    IN  /\ ~Safe(accrue_position(u))
        /\ paid > 0 /\ stable[v] >= paid
        /\ Book(u, -seized, -paid, -paid)
        /\ stable' = [stable EXCEPT ![v] = @ - paid]
        /\ held' = held - seized
        /\ UNCHANGED absorbed

\* Slip: the part that is not covered leaves the total debt as well.
self_liquidateAll(u) ==
    LET p == accrue_position(u)
        bad == p.debt - AtMost(p.debt, Coverable(p))
    IN  /\ ~Safe(p)
        /\ position' = [position EXCEPT ![u] = [collateral |-> 0, debt |-> 0, last |-> ledger]]
        /\ total' = [collateral |-> total.collateral - p.collateral,
                     debt       |-> total.debt + Interest(u) - p.debt,
                     supply     |-> total.supply + Interest(u),
                     reserves   |-> total.reserves + p.collateral,
                     bad        |-> total.bad + bad]
        /\ interest' = interest + Interest(u)
        /\ absorbed' = absorbed + (p.debt - bad)
        /\ UNCHANGED <<stable, held, price, ledger>>

\* The protocol takes all the collateral and writes off what it cannot cover:
\* the uncovered part stays in the total debt as bad debt.
self_liquidate(u) ==
    LET p == accrue_position(u)
        bad == p.debt - AtMost(p.debt, Coverable(p))
    IN  /\ ~Safe(p)
        /\ position' = [position EXCEPT ![u] = [collateral |-> 0, debt |-> 0, last |-> ledger]]
        /\ total' = [collateral |-> total.collateral - p.collateral,
                     debt       |-> total.debt + Interest(u) - (p.debt - bad),
                     supply     |-> total.supply + Interest(u),
                     reserves   |-> total.reserves + p.collateral,
                     bad        |-> total.bad + bad]
        /\ interest' = interest + Interest(u)
        /\ absorbed' = absorbed + (p.debt - bad)
        /\ UNCHANGED <<stable, held, price, ledger>>

\* The price feed, also after set_oracle names another one.
OracleMoves == price' \in Prices \ {price} /\ UNCHANGED <<position, stable, total, held, ledger, interest, absorbed>>

Tick ==
    /\ ledger < MaxLedger
    /\ ledger' = ledger + 1
    /\ UNCHANGED <<position, stable, total, held, price, interest, absorbed>>

Next ==
    \/ \E u \in User, n \in 1 .. MaxAmount :
          \/ deposit_collateral(u, n) \/ withdraw_collateral(u, n)
          \/ mint_stable(u, n) \/ repay(u, n) \/ quote_liquidation(u, n)
          \/ \E v \in User : transfer_stable(u, v, n) \/ liquidate(v, u, n)
    \/ \E u \in User : self_liquidate(u)
    \/ OracleMoves
    \/ Tick

Spec == Init /\ [][Next]_vars

----------------------------------------------------------------------------
(* The contract's totals account for everything: the collateral held is     *)
(* that of the positions plus the reserves, the total debt is that of the   *)
(* positions plus the bad debt, and the recorded supply is what users hold  *)
(* plus the interest booked, matched by debt or by debt the protocol took   *)
(* over, through every order of liquidations, price moves and accruals.     *)
CdpBooksBalance ==
    /\ total.collateral = MapThenSumSet(LAMBDA u : position[u].collateral, User)
    /\ held = total.collateral + total.reserves
    /\ total.debt = MapThenSumSet(LAMBDA u : position[u].debt, User) + total.bad
    /\ total.supply = MapThenSumSet(LAMBDA u : stable[u], User) + interest
    /\ total.supply = total.debt + absorbed
=============================================================================
