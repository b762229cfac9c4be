--------------------------- MODULE TimelockEscrow ---------------------------
(***************************************************************************)
(* contracts/timelocked_escrow: one deposit, released to the beneficiary   *)
(* after the unlock ledger by Required of the guardians, or refunded.      *)
(* The guardians' list is fixed in length; approvals are a bitmap over     *)
(* positions in the list, so a rotation changes whom a bit stands for.     *)
(* Token transfers are calls to a token contract: `held` and `paid` are    *)
(* this contract's balance and what each party received from it.           *)
(***************************************************************************)
EXTENDS Naturals, Sequences, FiniteSets, Functions

CONSTANTS Account,     \* accounts that may be guardians
          Guardians,   \* REQUIRED_GUARDIANS
          Required,    \* REQUIRED_APPROVALS
          MaxAmount,   \* bound on a deposit
          Lock,        \* lock_ledgers
          MaxLedger,   \* bound on the ledger sequence
          MaxEpoch     \* bound on the rotations

VARIABLES config,      \* EscrowConfig
          guardians, approvals, epoch,
          ledger,
          held,        \* tokens of the contract
          paid,        \* tokens paid to the beneficiary and to the depositor
          approvers    \* history: who approved in this epoch

vars == <<config, guardians, approvals, epoch, ledger, held, paid, approvers>>

Init ==
  /\ config = [set |-> FALSE, amount |-> 0, unlock |-> 0, released |-> FALSE,
               cancelled |-> FALSE]
  /\ guardians = << >> /\ approvals = {} /\ epoch = 0 /\ ledger = 0
  /\ held = 0 /\ paid = [beneficiary |-> 0, depositor |-> 0]
  /\ approvers = {}

validate_guardians(gs) == Len(gs) = Guardians /\ IsInjective(gs)

Lists == {gs \in [1..Guardians -> Account] : validate_guardians(gs)}

require_active == config.set /\ ~config.released /\ ~config.cancelled
require_funded == config.amount # 0

initialize(gs) ==
  /\ ~config.set
  /\ validate_guardians(gs)
  /\ config' = [config EXCEPT !.set = TRUE, !.unlock = ledger + Lock]
  /\ guardians' = gs /\ approvals' = {} /\ epoch' = 0
  /\ UNCHANGED <<ledger, held, paid, approvers>>

deposit(amount) ==
  /\ require_active
  /\ ~(config.amount > 0)
  /\ held' = held + amount
  /\ config' = [config EXCEPT !.amount = amount]
  /\ UNCHANGED <<guardians, approvals, epoch, ledger, paid, approvers>>

guardian_index(g) == CHOOSE i \in 1..Len(guardians) : guardians[i] = g

approve(g) ==
  /\ require_active /\ require_funded
  /\ g \in Range(guardians)
  /\ guardian_index(g) \notin approvals
  /\ approvals' = approvals \union {guardian_index(g)}
  /\ approvers' = approvers \union {g}
  /\ UNCHANGED <<config, guardians, epoch, ledger, held, paid>>

has_quorum == Cardinality(approvals) >= Required

release ==
  /\ require_active /\ require_funded
  /\ ledger >= config.unlock
  /\ has_quorum
  /\ held' = held - config.amount
  /\ paid' = [paid EXCEPT !.beneficiary = @ + config.amount]
  /\ config' = [config EXCEPT !.amount = 0, !.released = TRUE]
  /\ UNCHANGED <<guardians, approvals, epoch, ledger, approvers>>

cancel ==
  /\ require_active /\ require_funded
  /\ ~(ledger >= config.unlock /\ approvals # {})
  /\ held' = held - config.amount
  /\ paid' = [paid EXCEPT !.depositor = @ + config.amount]
  /\ config' = [config EXCEPT !.amount = 0, !.cancelled = TRUE]
  /\ UNCHANGED <<guardians, approvals, epoch, ledger, approvers>>

\* Slip: the approvals outlive the guardians that gave them.
rotate_guardiansKeeps(gs, approving) ==
  /\ require_active
  /\ validate_guardians(gs)
  /\ Cardinality(approving) = Required
  /\ approving \subseteq Range(guardians)
  /\ epoch < MaxEpoch
  /\ guardians' = gs /\ epoch' = epoch + 1
  /\ approvers' = {}
  /\ UNCHANGED <<config, approvals, ledger, held, paid>>

rotate_guardians(gs, approving) ==
  /\ require_active
  /\ validate_guardians(gs)
  /\ Cardinality(approving) = Required
  /\ approving \subseteq Range(guardians)
  /\ epoch < MaxEpoch
  /\ guardians' = gs /\ approvals' = {} /\ epoch' = epoch + 1
  /\ approvers' = {}
  /\ UNCHANGED <<config, ledger, held, paid>>

Tick == ledger < MaxLedger /\ ledger' = ledger + 1
        /\ UNCHANGED <<config, guardians, approvals, epoch, held, paid, approvers>>

Next ==
  \/ \E gs \in Lists : initialize(gs)
  \/ \E n \in 0..MaxAmount : deposit(n)
  \/ \E g \in Account : approve(g)
  \/ release
  \/ cancel
  \/ \E gs \in Lists, ap \in SUBSET Account : rotate_guardians(gs, ap)
  \/ Tick

Spec == Init /\ [][Next]_vars
-----------------------------------------------------------------------------
\* The money leaves once, to one side: what was deposited is either still
\* in the contract or was paid to the beneficiary or refunded, never split
\* and never both; the recorded amount is what the contract holds.
PaidOnce ==
  /\ held = config.amount
  /\ ~(config.released /\ config.cancelled)
  /\ paid.beneficiary > 0 => config.released
  /\ paid.depositor > 0 => config.cancelled

\* A release rests on Required distinct accounts that are guardians now and
\* approved in this epoch: a bit left from an earlier guardian list never
\* counts for the account that took its position.
QuorumOfCurrent ==
  [][config'.released /\ ~config.released =>
       /\ ledger >= config.unlock
       /\ Cardinality(approvers \intersect Range(guardians)) >= Required]_vars
=============================================================================
