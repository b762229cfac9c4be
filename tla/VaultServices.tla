---------------------------- MODULE VaultServices ----------------------------
(***************************************************************************)
(* Four contracts that serve vaults and share no state.  A failed call     *)
(* reverts, so an action is a call that succeeds.                          *)
(*                                                                         *)
(* The fee engine (contracts/fee_engine): management fees accrue with      *)
(* time, performance fees are charged above a high-water mark and clawed   *)
(* back on a loss.  The net asset value is reported by the caller, here    *)
(* truly: deposits less withdrawals plus what the strategy gained or lost. *)
(* The fee history and the rebate for staked tokens do not touch this      *)
(* state.                                                                  *)
(*                                                                         *)
(* The migration (contracts/vault_migration) of one vault: versions are    *)
(* added one after the other, an owner opts in to the latest one and       *)
(* migrates, and the position is copied from the adapter of the owner's    *)
(* version to that of the target.  The adapters are external: they hold    *)
(* positions that owners also change directly.                             *)
(*                                                                         *)
(* The insurance (contracts/vault_insurance): the administrator writes     *)
(* policies against a reserve, premiums accrue over whole epochs and are   *)
(* collected on withdrawal, claims are paid from the reserve.  Rates are   *)
(* one premium per epoch; a trigger is one the policy declares.            *)
(*                                                                         *)
(* The flash-loan vault (contracts/flash_loan_vault): a loan is paid out,  *)
(* the receiver's callback runs, and the call only succeeds if the balance *)
(* came back with the fee.  The callback is foreign code: it may pay the   *)
(* vault, and call the vault again.  A call that fails reverts everything  *)
(* since the loan began, the callback's own calls included.                *)
(***************************************************************************)
EXTENDS Integers

(* The fee engine.                                                         *)

CONSTANTS Vault,
          BPS, Rates,   \* fee scale; performance and management rates in use
          MaxAssets,    \* bound on a vault's assets and on its principal
          MaxTime       \* bound on the clock

VARIABLES state,        \* DataKey::Vault
          rate,         \* FeeConfig and tiers: the rate of both fees
          assets, now,
          charged       \* history: gain on which a performance fee was charged

feeVars == <<state, rate, assets, now, charged>>

Larger(a, b) == IF a >= b THEN a ELSE b

FeeInit ==
    /\ state = [v \in Vault |-> [principal |-> 0, mark |-> 0, last |-> 0, accrual |-> 0, paid |-> 0]]
    /\ rate \in Rates
    /\ assets = [v \in Vault |-> 0] /\ now = 0
    /\ charged = [v \in Vault |-> 0]

record_deposit(v, n) ==
    LET p == state[v].principal + n
        s == [state[v] EXCEPT !.principal = p, !.accrual = now]
    IN  /\ assets[v] + n <= MaxAssets /\ p <= MaxAssets
        /\ state' = [state EXCEPT ![v] = IF p > s.mark THEN [s EXCEPT !.mark = p, !.last = p] ELSE s]
        /\ assets' = [assets EXCEPT ![v] = @ + n]
        /\ UNCHANGED <<rate, now, charged>>

record_withdrawal(v, n) ==
    /\ n <= state[v].principal /\ n <= assets[v]
    /\ state' = [state EXCEPT ![v].principal = @ - n]
    /\ assets' = [assets EXCEPT ![v] = @ - n]
    /\ UNCHANGED <<rate, now, charged>>

\* The management fee for the time since the last accrual.
Accrued(v) ==
    [state[v] EXCEPT !.accrual = now,
                     !.paid = @ + (assets[v] * rate * (now - state[v].accrual)) \div BPS]

\* Charge above the mark, claw back below the last value.
Crystallized(s, nav) ==
    IF nav > s.mark
    THEN [s EXCEPT !.mark = nav, !.last = nav, !.paid = @ + ((nav - s.mark) * rate) \div BPS]
    ELSE [s EXCEPT !.last = IF nav < @ THEN nav ELSE @,
                   !.paid = @ - (Larger(s.last - nav, 0) * rate) \div BPS]

accrue_management_fee(v) ==
    /\ state' = [state EXCEPT ![v] = Accrued(v)]
    /\ UNCHANGED <<rate, assets, now, charged>>

ChargedMore(v) == charged' = [charged EXCEPT ![v] = @ + Larger(assets[v] - state[v].mark, 0)]

crystallize(v) ==
    /\ state' = [state EXCEPT ![v] = Crystallized(state[v], assets[v])]
    /\ ChargedMore(v)
    /\ UNCHANGED <<rate, assets, now>>

compute_fees(v) ==
    /\ state' = [state EXCEPT ![v] = Crystallized(Accrued(v), assets[v])]
    /\ ChargedMore(v)
    /\ UNCHANGED <<rate, assets, now>>

\* set_fee_config and set_perf_tiers.
set_fee_config(r) ==
    /\ rate' = r
    /\ UNCHANGED <<state, assets, now, charged>>

\* The strategy gains or loses.
Strategy(v, n) ==
    /\ assets[v] > 0
    /\ assets' = [assets EXCEPT ![v] = n]
    /\ UNCHANGED <<state, rate, now, charged>>

Tick ==
    /\ now < MaxTime
    /\ now' = now + 1
    /\ UNCHANGED <<state, rate, assets, charged>>

FeeNext ==
    \/ \E v \in Vault, n \in 1 .. MaxAssets : record_deposit(v, n) \/ record_withdrawal(v, n)
    \/ \E v \in Vault : accrue_management_fee(v) \/ crystallize(v) \/ compute_fees(v)
    \/ \E r \in Rates : set_fee_config(r)
    \/ \E v \in Vault, n \in 0 .. MaxAssets : Strategy(v, n)
    \/ Tick

FeeSpec == FeeInit /\ [][FeeNext]_feeVars

----------------------------------------------------------------------------
(* No gain is charged for twice, over any order of gains, losses, deposits  *)
(* and withdrawals: what was charged lies below the high-water mark, which  *)
(* a loss leaves where it is, so that a recovery is free.                   *)
GainChargedOnce == \A v \in Vault : charged[v] <= state[v].mark

-----------------------------------------------------------------------------
(* Migration.                                                              *)

CONSTANTS Owner,
          Legacy,        \* legacy_version
          MaxVersion,    \* bound on the versions registered
          MaxPosition    \* bound on a position

VARIABLES latest,     \* latest_version
          version,    \* UserVersion
          opt_in,     \* OptIn: the target version, 0 for none
          adapter     \* external: version -> owner -> position, 0 for none

migrationVars == <<latest, version, opt_in, adapter>>

Version  == Legacy..MaxVersion
Position == 0..MaxPosition

MigrationInit ==
    /\ latest = Legacy
    /\ version = [o \in Owner |-> Legacy]
    /\ opt_in = [o \in Owner |-> 0]
    /\ adapter \in [Version -> [Owner -> Position]]
    /\ \A v \in Version, o \in Owner : v > Legacy => adapter[v][o] = 0

register_version ==
    /\ latest < MaxVersion
    /\ latest' = latest + 1
    /\ UNCHANGED <<version, opt_in, adapter>>

\* Consent is to the latest version only.
OptIn(o) ==
    /\ version[o] < latest
    /\ opt_in' = [opt_in EXCEPT ![o] = latest]
    /\ UNCHANGED <<latest, version, adapter>>

cancel_opt_in(o) ==
    /\ opt_in[o] # 0
    /\ opt_in' = [opt_in EXCEPT ![o] = 0]
    /\ UNCHANGED <<latest, version, adapter>>

\* There is a position to export, the target must hold nothing for the owner,
\* and must hold what was exported after the import; otherwise the call reverts.
migrate(o) ==
    LET to == opt_in[o]
    IN  /\ to = latest /\ version[o] < to
        /\ adapter[to][o] = 0
        /\ adapter[version[o]][o] # 0
        /\ adapter' = [adapter EXCEPT ![to][o] = adapter[version[o]][o]]
        /\ version' = [version EXCEPT ![o] = to]
        /\ opt_in' = [opt_in EXCEPT ![o] = 0]
        /\ UNCHANGED latest

\* External: an owner trades on a vault, of any version.
Trade(o, v, p) ==
    /\ v <= latest
    /\ adapter' = [adapter EXCEPT ![v][o] = p]
    /\ UNCHANGED <<latest, version, opt_in>>

MigrationNext ==
    \/ register_version
    \/ \E o \in Owner : \/ OptIn(o) \/ cancel_opt_in(o) \/ migrate(o)
                        \/ \E v \in Version, p \in Position : Trade(o, v, p)

MigrationSpec == MigrationInit /\ [][MigrationNext]_migrationVars

-----------------------------------------------------------------------------
(* A migration never destroys a position: it writes only where the owner    *)
(* had none, takes the owner's whole position along, and happens only to    *)
(* the version the owner asked for last.                                    *)
PositionKept ==
    [][\A o \in Owner : version'[o] # version[o] =>
           /\ adapter[version'[o]][o] = 0
           /\ adapter'[version'[o]][o] = adapter[version[o]][o]
           /\ opt_in[o] = version'[o]]_migrationVars

----------------------------------------------------------------------------
(* The insurance.                                                          *)

CONSTANTS Insured,      \* the vaults with a policy
          Premium,      \* premium of one epoch
          Epoch,        \* EPOCH_LEDGERS
          MaxAmount,    \* bound on amounts and coverage
          MaxReserve,   \* bound on what enters the reserve
          MaxLedger     \* bound on the ledger sequence

VARIABLES policy, claim, reserve, ledger,
          funded        \* history: what fund paid in

insuranceVars == <<policy, claim, reserve, ledger, funded>>

Amount == 1 .. MaxAmount
NoPolicy == [coverage |-> 0, accrued |-> 0, last |-> 0, active |-> FALSE]
NoClaim == [amount |-> 0, settled |-> FALSE]

InsuranceInit ==
    /\ policy = [v \in Insured |-> NoPolicy]
    /\ claim = [v \in Insured |-> NoClaim]
    /\ reserve = [premiums_in |-> 0, payouts_out |-> 0, unclaimed |-> 0, outstanding |-> 0]
    /\ ledger = 0
    /\ funded = 0

write(v, c) ==
    /\ policy[v] = NoPolicy
    /\ reserve.outstanding + c <= reserve.unclaimed
    /\ policy' = [policy EXCEPT ![v] = [coverage |-> c, accrued |-> 0, last |-> ledger, active |-> TRUE]]
    /\ reserve' = [reserve EXCEPT !.outstanding = @ + c]
    /\ UNCHANGED <<claim, ledger, funded>>

cancel(v) ==
    /\ policy[v].active
    /\ policy' = [policy EXCEPT ![v].active = FALSE]
    /\ reserve' = [reserve EXCEPT !.outstanding = @ - policy[v].coverage]
    /\ UNCHANGED <<claim, ledger, funded>>

\* Before a whole epoch has passed the answer is what has accrued already.
assess_premium(v) ==
    LET elapsed == ledger - policy[v].last
    IN  IF elapsed < Epoch THEN policy[v].accrued ELSE Premium * (elapsed \div Epoch)

insurance_deposit(v) ==
    /\ policy[v].active
    /\ policy[v].accrued + assess_premium(v) <= MaxAmount
    /\ policy' = [policy EXCEPT ![v].accrued = @ + assess_premium(v)]
    /\ UNCHANGED <<claim, reserve, ledger, funded>>

\* An amount the premium uses up ends the policy.
insurance_withdraw(v, n) ==
    LET premium == IF policy[v].accrued <= n THEN policy[v].accrued ELSE n
        net == n - premium
    IN  /\ policy[v] # NoPolicy
        /\ reserve.unclaimed + premium <= MaxReserve
        /\ policy' = [policy EXCEPT ![v].accrued = @ - premium, ![v].last = ledger,
                                    ![v].active = @ /\ net # 0]
        /\ reserve' = [reserve EXCEPT !.premiums_in = @ + premium,
                                      !.unclaimed = @ + premium,
                                      !.outstanding = @ - IF net = 0 THEN policy[v].coverage ELSE 0]
        /\ UNCHANGED <<claim, ledger, funded>>

fund(n) ==
    /\ funded + n <= MaxReserve
    /\ reserve' = [reserve EXCEPT !.unclaimed = @ + n]
    /\ funded' = funded + n
    /\ UNCHANGED <<policy, claim, ledger>>

open_claim(v, n) ==
    /\ policy[v].active /\ n <= policy[v].coverage
    /\ claim[v] = NoClaim
    /\ claim' = [claim EXCEPT ![v] = [amount |-> n, settled |-> FALSE]]
    /\ UNCHANGED <<policy, reserve, ledger, funded>>

settle(v, n) ==
    /\ claim[v] # NoClaim /\ ~claim[v].settled
    /\ n <= claim[v].amount /\ n <= reserve.unclaimed
    /\ reserve' = [reserve EXCEPT !.unclaimed = @ - n, !.payouts_out = @ + n]
    /\ claim' = [claim EXCEPT ![v].settled = TRUE]
    /\ UNCHANGED <<policy, ledger, funded>>

close_claim(v) ==
    /\ claim' = [claim EXCEPT ![v] = NoClaim]
    /\ UNCHANGED <<policy, reserve, ledger, funded>>

CloseLedger ==
    /\ ledger < MaxLedger
    /\ ledger' = ledger + 1
    /\ UNCHANGED <<policy, claim, reserve, funded>>

InsuranceNext ==
    \/ \E v \in Insured, n \in Amount :
          write(v, n) \/ insurance_withdraw(v, n) \/ open_claim(v, n) \/ settle(v, n)
    \/ \E v \in Insured : cancel(v) \/ insurance_deposit(v) \/ close_claim(v)
    \/ \E n \in Amount : fund(n)
    \/ CloseLedger

InsuranceSpec == InsuranceInit /\ [][InsuranceNext]_insuranceVars

(* The reserve holds what was funded and collected and not yet paid out,    *)
(* and pays a claim once however often it is opened, settled and closed.    *)
ReserveAccounts ==
    /\ reserve.unclaimed = funded + reserve.premiums_in - reserve.payouts_out
    /\ reserve.unclaimed >= 0

----------------------------------------------------------------------------
(* The flash-loan vault; its fees are in basis points too.                 *)

CONSTANTS Receiver,
          MaxFee,        \* MAX_FEE_BPS
          MaxBalance     \* bound on the vault's token balance

VARIABLES deposited,     \* DataKey::TotalDeposited
          feeBps, borrowPaused,
          active,        \* DataKey::FlashLoanActive
          record,        \* DataKey::BorrowRecord: total_repayment by borrower
          balance,       \* what the token contract records for the vault
          loan           \* the frame of the running call; NoLoan: none

loanVars == <<deposited, feeBps, borrowPaused, active, record, balance, loan>>
stored == <<deposited, feeBps, borrowPaused, active, record, balance>>

NoLoan == [kind |-> "none"]

LoanInit ==
    /\ deposited = 0 /\ feeBps = 0 /\ borrowPaused = FALSE /\ active = FALSE
    /\ record = [r \in Receiver |-> 0]
    /\ balance = 0
    /\ loan = NoLoan

flash_deposit(n) ==
    /\ ~active
    /\ n > 0 /\ balance + n <= MaxBalance
    /\ balance' = balance + n
    /\ deposited' = deposited + n
    /\ UNCHANGED <<feeBps, borrowPaused, active, record, loan>>

flash_withdraw(n) ==
    /\ ~active
    /\ n > 0 /\ n <= deposited /\ n <= balance
    /\ balance' = balance - n
    /\ deposited' = deposited - n
    /\ UNCHANGED <<feeBps, borrowPaused, active, record, loan>>

set_fee(f) ==
    /\ ~active
    /\ f \in 0 .. MaxFee
    /\ feeBps' = f
    /\ UNCHANGED <<deposited, borrowPaused, active, record, balance, loan>>

\* pause_borrow and resume_borrow do not look at the running loan.
set_borrow_paused(on) ==
    /\ borrowPaused' = on
    /\ UNCHANGED <<deposited, feeBps, active, record, balance, loan>>

\* flash_loan and borrow up to the callback; borrow also keeps a record.
Begin(kind, r, n) ==
    LET fee == (n * feeBps) \div BPS
    IN  /\ ~borrowPaused /\ ~active
        /\ n > 0 /\ n <= balance
        /\ active' = TRUE
        /\ record' = IF kind = "borrow" THEN [record EXCEPT ![r] = n + fee] ELSE record
        /\ balance' = balance - n
        /\ loan' = [kind |-> kind, receiver |-> r, fee |-> fee, pre |-> balance, saved |-> stored]
        /\ UNCHANGED <<deposited, feeBps, borrowPaused>>

flash_loan(r, n) == Begin("flash_loan", r, n)
borrow(r, n) == Begin("borrow", r, n)

\* The callback, or anyone, transfers tokens to the vault.
Pay(n) ==
    /\ balance + n <= MaxBalance
    /\ balance' = balance + n
    /\ UNCHANGED <<deposited, feeBps, borrowPaused, active, record, loan>>

\* The callback returned and the balance is whole: the fee is booked.
Complete ==
    /\ loan # NoLoan
    /\ balance >= loan.pre + loan.fee
    /\ active' = FALSE
    /\ record' = IF loan.kind = "borrow" THEN [record EXCEPT ![loan.receiver] = 0] ELSE record
    /\ deposited' = deposited + loan.fee
    /\ loan' = NoLoan
    /\ UNCHANGED <<feeBps, borrowPaused, balance>>

\* The callback failed, or returned without the loan and its fee.
Fail ==
    /\ loan # NoLoan
    /\ deposited' = loan.saved[1] /\ feeBps' = loan.saved[2] /\ borrowPaused' = loan.saved[3]
    /\ active' = loan.saved[4] /\ record' = loan.saved[5] /\ balance' = loan.saved[6]
    /\ loan' = NoLoan

LoanNext ==
    \/ \E n \in 1 .. MaxBalance : flash_deposit(n) \/ flash_withdraw(n) \/ Pay(n)
    \/ \E f \in 0 .. MaxFee : set_fee(f)
    \/ \E on \in BOOLEAN : set_borrow_paused(on)
    \/ \E r \in Receiver, n \in 1 .. MaxBalance : flash_loan(r, n) \/ borrow(r, n)
    \/ Complete
    \/ Fail

LoanSpec == LoanInit /\ [][LoanNext]_loanVars

(* Whatever the callback did, the vault ends every call with at least what  *)
(* the administrator deposited and the fees booked for it, no loan flagged  *)
(* and no repayment on record.                                              *)
DepositsCovered ==
    loan = NoLoan => /\ balance >= deposited
                     /\ ~active
                     /\ \A r \in Receiver : record[r] = 0
=============================================================================
