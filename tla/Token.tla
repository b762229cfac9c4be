------------------------------- MODULE Token -------------------------------
(***************************************************************************)
(* contracts/token: balances, allowances that expire, and a cached         *)
(* metadata URI, behind the pause mask of an embedded guard whose first    *)
(* member is the token's administrator.  Amounts are non-negative.         *)
(***************************************************************************)
EXTENDS Guard, FiniteSetsExt

CONSTANTS MaxSupply,    \* bound on what is minted
          MaxTtl,       \* MAX_URI_TTL
          MaxLedger,    \* bound on the ledger sequence
          NoAdmin       \* before initialize

VARIABLES admin,        \* DataKey::Admin
          balance,      \* DataKey::Balance
          allowance,    \* DataKey::Allowance; amount 0 when absent
          uri,          \* DataKey::UriCache: the ledger it was cached at, or None
          uriTtl,       \* DataKey::UriTtl
          ledger,
          minted        \* history: minted and not burnt

tokenVars == <<admin, balance, allowance, uri, uriTtl, ledger, minted>>
vars == <<guardVars, tokenVars>>

Pair == Address \X Address
NoAllowance == [amount |-> 0, expires |-> 0]
NoUri == MaxLedger + 1

Init ==
  /\ GuardInit
  /\ admin = NoAdmin
  /\ balance = [a \in Address |-> 0]
  /\ allowance = [p \in Pair |-> NoAllowance]
  /\ uri = NoUri /\ uriTtl = 1 /\ ledger = 0
  /\ minted = 0

require_not_paused(op) == admin # NoAdmin /\ op \notin paused

initialize(a) ==
  /\ admin = NoAdmin
  /\ admin' = a /\ init_guard(<<a>>, 1)
  /\ UNCHANGED <<balance, allowance, uri, uriTtl, ledger, minted>>

\* spend_balance, then receive_balance reads the balances it left.
Spend(b, from, n) == [b EXCEPT ![from] = @ - n]
Receive(b, to, n) == [b EXCEPT ![to] = @ + n]

mint(to, n) ==
  /\ require_not_paused("MINT")
  /\ minted + n <= MaxSupply
  /\ balance' = Receive(balance, to, n)
  /\ minted' = minted + n
  /\ UNCHANGED <<guardVars, admin, allowance, uri, uriTtl, ledger>>

\* The administrator signs alone for the rotation of the committee.
set_admin(a) ==
  /\ admin # NoAdmin
  /\ rotate_admin({admin}, admin, a)
  /\ admin' = a
  /\ UNCHANGED <<balance, allowance, uri, uriTtl, ledger, minted>>

guard_pause(a, mask, on) == set_pause_by_admin(a, mask, on) /\ UNCHANGED tokenVars

\* emergency_pause, guard_resume, guard_add_admin and guard_remove_admin.
guard_by_committee(approvers) ==
  /\ \/ emergency_pause_all(approvers)
     \/ resume_all(approvers)
     \/ \E a \in Address : add_admin(approvers, a) \/ remove_admin(approvers, a)
  /\ UNCHANGED tokenVars

write_allowance(from, spender, n, e) ==
  allowance' = [allowance EXCEPT ![<<from, spender>>] =
                  IF n > 0 THEN [amount |-> n, expires |-> e] ELSE NoAllowance]

approve(from, spender, n, e) ==
  /\ write_allowance(from, spender, n, e)
  /\ UNCHANGED <<guardVars, admin, balance, uri, uriTtl, ledger, minted>>

spend_allowance(from, spender, n) ==
  LET al == allowance[<<from, spender>>] IN
  /\ al.amount >= n
  /\ al.expires >= ledger
  /\ write_allowance(from, spender, al.amount - n, al.expires)

transfer(from, to, n) ==
  /\ require_not_paused("TRANSFER")
  /\ balance[from] >= n
  /\ balance' = Receive(Spend(balance, from, n), to, n)
  /\ UNCHANGED <<guardVars, admin, allowance, uri, uriTtl, ledger, minted>>

transfer_from(spender, from, to, n) ==
  /\ require_not_paused("TRANSFER")
  /\ spend_allowance(from, spender, n)
  /\ balance[from] >= n
  /\ balance' = Receive(Spend(balance, from, n), to, n)
  /\ UNCHANGED <<guardVars, admin, uri, uriTtl, ledger, minted>>

burn(from, n) ==
  /\ require_not_paused("BURN")
  /\ balance[from] >= n
  /\ balance' = Spend(balance, from, n)
  /\ minted' = minted - n
  /\ UNCHANGED <<guardVars, admin, allowance, uri, uriTtl, ledger>>

burn_from(spender, from, n) ==
  /\ require_not_paused("BURN")
  /\ spend_allowance(from, spender, n)
  /\ balance[from] >= n
  /\ balance' = Spend(balance, from, n)
  /\ minted' = minted - n
  /\ UNCHANGED <<guardVars, admin, uri, uriTtl, ledger>>

is_expired == ledger > uri + uriTtl

set_token_uri ==
  /\ require_not_paused("METADATA")
  /\ uri' = ledger
  /\ UNCHANGED <<guardVars, admin, balance, allowance, uriTtl, ledger, minted>>

\* A read that finds the entry stale anchors it anew.
token_uri ==
  /\ uri # NoUri /\ is_expired
  /\ uri' = ledger
  /\ UNCHANGED <<guardVars, admin, balance, allowance, uriTtl, ledger, minted>>

set_token_uri_ttl(ttl) ==
  /\ require_not_paused("METADATA")
  /\ uriTtl' = ttl
  /\ UNCHANGED <<guardVars, admin, balance, allowance, uri, ledger, minted>>

invalidate_token_uri ==
  /\ require_not_paused("METADATA")
  /\ uri' = NoUri
  /\ UNCHANGED <<guardVars, admin, balance, allowance, uriTtl, ledger, minted>>

Tick == ledger < MaxLedger /\ ledger' = ledger + 1
        /\ UNCHANGED <<guardVars, admin, balance, allowance, uri, uriTtl, minted>>

Next ==
  \/ \E a \in Address : initialize(a) \/ set_admin(a)
  \/ \E a \in Address, o \in Operation, on \in BOOLEAN : guard_pause(a, {o}, on)
  \/ \E ap \in SUBSET Address : guard_by_committee(ap)
  \/ \E n \in 0..MaxSupply :
       \/ \E a \in Address : mint(a, n) \/ burn(a, n)
       \/ \E a, b \in Address : \/ transfer(a, b, n) \/ burn_from(a, b, n)
                                \/ \E c \in Address : transfer_from(a, b, c, n)
                                \/ \E e \in 0..MaxLedger : a # b /\ approve(a, b, n, e)
  \/ set_token_uri \/ token_uri \/ invalidate_token_uri
  \/ \E ttl \in 1..MaxTtl : set_token_uri_ttl(ttl)
  \/ Tick

Spec == Init /\ [][Next]_vars
-----------------------------------------------------------------------------
\* Nothing is created or lost by moving it: the balances add up to what was
\* minted and not burnt, also when an account pays itself.
SupplyAccounts == MapThenSumSet(LAMBDA a : balance[a], Address) = minted

\* A paused operation stops the money, through every entry: with TRANSFER
\* set no amount changes hands, with BURN set the supply does not shrink,
\* with MINT set it does not grow.
PauseStopsMoney ==
  [][/\ "TRANSFER" \in paused /\ minted' = minted => balance' = balance
     /\ "BURN" \in paused => minted' >= minted
     /\ "MINT" \in paused => minted' <= minted]_vars
=============================================================================
