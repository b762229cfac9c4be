----------------------------- MODULE Vault4626 -----------------------------
(* The tokenised vault (contracts/erc4626_vault): depositors pay the asset  *)
(* in and hold shares, priced by the recorded totals with a virtual offset  *)
(* on both sides; yield that arrives as a plain transfer counts only from   *)
(* the next harvest.  A call that fails reverts, so an action is a call     *)
(* that succeeds.  Callers' own token balances are outside the vault.       *)
EXTENDS Integers, FiniteSetsExt, Functions

CONSTANTS Account,
          Offset,        \* VIRTUAL_OFFSET (1000 in the code)
          BPS,           \* BPS_DENOMINATOR (10000 in the code)
          FeeRates,      \* the performance fees a deployment may choose
          MaxBalance,    \* bound on the assets the vault receives
          MaxSupply,     \* bound on the shares in existence
          MaxLedger      \* bound on the ledger sequence

ASSUME VaultAssumption == Offset \in Nat \ {0} /\ BPS \in Nat \ {0} /\ FeeRates \subseteq 0 .. BPS

VARIABLES shares,        \* DataKey::Shares
          totalSupply, totalAssets, paused,
          allowance,     \* [owner, spender] -> shares and expiry; 0 shares: none
          feeBps,        \* VaultConfig.performance_fee_bps
          balance,       \* what the asset contract records for the vault
          ledger

vars == <<shares, totalSupply, totalAssets, paused, allowance, feeBps, balance, ledger>>

NoAllowance == [shares |-> 0, until |-> 0]

\* i128 division truncates toward zero; the divisor is positive here.
mul_div_floor(a, b, c) == IF a * b >= 0 THEN (a * b) \div c ELSE -((-(a * b)) \div c)
mul_div_ceil(a, b, c) == mul_div_floor(a, b, c) + (IF (a * b) % c = 0 THEN 0 ELSE 1)

\* assets_to_shares_floor; an empty vault prices one for one.
assets_to_shares_floor(n) ==
    IF totalSupply = 0 /\ totalAssets = 0 THEN n
    ELSE mul_div_floor(n, totalSupply + Offset, totalAssets + Offset)
assets_to_shares_ceil(n) == mul_div_ceil(n, totalSupply + Offset, totalAssets + Offset)
shares_to_assets_floor(n) == mul_div_floor(n, totalAssets + Offset, totalSupply + Offset)

Init ==
    /\ shares = [a \in Account |-> 0]
    /\ totalSupply = 0 /\ totalAssets = 0 /\ paused = FALSE
    /\ allowance = [p \in Account \X Account |-> NoAllowance]
    /\ feeBps \in FeeRates
    /\ balance = 0 /\ ledger = 0

\* The common tail of deposit and mint: assets come in, shares are credited.
Enter(receiver, assets, n) ==
    /\ assets > 0 /\ n > 0 /\ ~paused
    /\ balance + assets <= MaxBalance /\ totalSupply + n <= MaxSupply
    /\ balance' = balance + assets
    /\ shares' = [shares EXCEPT ![receiver] = @ + n]
    /\ totalAssets' = totalAssets + assets
    /\ totalSupply' = totalSupply + n
    /\ UNCHANGED <<paused, allowance, feeBps, ledger>>

deposit(receiver, assets) == Enter(receiver, assets, assets_to_shares_floor(assets))

\* mint prices the requested shares with assets_to_shares_ceil, as the code does.
mint(receiver, n) == Enter(receiver, assets_to_shares_ceil(n), n)

\* authorize_share_spend and consume_allowance: a third party needs a live,
\* large enough allowance, which shrinks and disappears when used up.
SpendAllowance(spender, owner, n) ==
    LET al == allowance[owner, spender]
    IN  /\ al.shares >= n /\ al.shares > 0 /\ al.until > ledger
        /\ allowance' = [allowance EXCEPT ![owner, spender] =
                            IF al.shares = n THEN NoAllowance ELSE [@ EXCEPT !.shares = @ - n]]

authorize_share_spend(caller, owner, n) ==
    IF caller = owner THEN UNCHANGED allowance ELSE SpendAllowance(caller, owner, n)

\* The common part of withdraw, redeem and permit_withdraw.
Leave(owner, assets, n) ==
    /\ assets >= 0 /\ n > 0 /\ ~paused
    /\ shares[owner] >= n
    /\ balance >= assets
    /\ shares' = [shares EXCEPT ![owner] = @ - n]
    /\ balance' = balance - assets
    /\ totalAssets' = totalAssets - assets
    /\ totalSupply' = totalSupply - n
    /\ UNCHANGED <<paused, feeBps, ledger>>

withdraw(caller, owner, assets) ==
    /\ Leave(owner, assets, assets_to_shares_ceil(assets))
    /\ authorize_share_spend(caller, owner, assets_to_shares_ceil(assets))

redeem(caller, owner, n) ==
    /\ Leave(owner, shares_to_assets_floor(n), n)
    /\ authorize_share_spend(caller, owner, n)

permit_withdraw(spender, owner, assets) ==
    /\ Leave(owner, assets, assets_to_shares_ceil(assets))
    /\ SpendAllowance(spender, owner, assets_to_shares_ceil(assets))

approve(owner, spender, n, until) ==
    /\ n > 0 /\ until > ledger
    /\ allowance' = [allowance EXCEPT ![owner, spender] = [shares |-> n, until |-> until]]
    /\ UNCHANGED <<shares, totalSupply, totalAssets, paused, feeBps, balance, ledger>>

revoke(owner, spender) ==
    /\ allowance' = [allowance EXCEPT ![owner, spender] = NoAllowance]
    /\ UNCHANGED <<shares, totalSupply, totalAssets, paused, feeBps, balance, ledger>>

set_paused(on) ==
    /\ paused' = on
    /\ UNCHANGED <<shares, totalSupply, totalAssets, allowance, feeBps, balance, ledger>>

\* The surplus over the recorded total is profit; the fee leaves the vault and
\* the rest becomes the recorded total.
harvest ==
    LET profit == balance - totalAssets
        fee    == IF profit > 0 THEN mul_div_floor(profit, feeBps, BPS) ELSE 0
    IN  /\ balance' = balance - fee
        /\ totalAssets' = balance - fee
        /\ UNCHANGED <<shares, totalSupply, paused, allowance, feeBps, ledger>>

\* Yield arrives as a transfer to the vault's address, outside any vault call.
Yield(n) ==
    /\ balance + n <= MaxBalance
    /\ balance' = balance + n
    /\ UNCHANGED <<shares, totalSupply, totalAssets, paused, allowance, feeBps, ledger>>

Tick ==
    /\ ledger < MaxLedger
    /\ ledger' = ledger + 1
    /\ UNCHANGED <<shares, totalSupply, totalAssets, paused, allowance, feeBps, balance>>

Next ==
    \/ \E r \in Account, n \in 1 .. MaxBalance : deposit(r, n)
    \/ \E r \in Account, n \in 1 .. MaxSupply : mint(r, n)
    \/ \E c, o \in Account, n \in 1 .. MaxBalance : withdraw(c, o, n)
    \/ \E c, o \in Account, n \in 1 .. MaxSupply : redeem(c, o, n)
    \/ \E c, o \in Account, n \in 1 .. MaxBalance : permit_withdraw(c, o, n)
    \/ \E o, s \in Account, n \in 1 .. MaxSupply, u \in 1 .. MaxLedger + 1 : approve(o, s, n, u)
    \/ \E o, s \in Account : revoke(o, s)
    \/ \E on \in BOOLEAN : set_paused(on)
    \/ harvest
    \/ \E n \in 1 .. MaxBalance : Yield(n)
    \/ Tick

Spec == Init /\ [][Next]_vars

----------------------------------------------------------------------------
(* The shares of all holders add up to the recorded supply, the vault never *)
(* records more assets than the asset contract holds for it, and the priced *)
(* ratio keeps a positive divisor: what every conversion of the contract    *)
(* relies on, kept by nine handlers that each move two or three of them.    *)
SharesAccount ==
    /\ FoldFunction(+, 0, shares) = totalSupply
    /\ totalAssets <= balance
    /\ totalAssets + Offset > 0

\* Whether a step leaves assets per share, offsets included, at least as high.
PriceHeld == (totalAssets' + Offset) * (totalSupply + Offset) >= (totalAssets + Offset) * (totalSupply' + Offset)

(* Leaving never costs the holders who stay: withdraw, redeem and           *)
(* permit_withdraw round the shares burnt up and the assets paid down.      *)
LeavingRoundsForVault == [][totalSupply' < totalSupply => PriceHeld]_vars
=============================================================================
