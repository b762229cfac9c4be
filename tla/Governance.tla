----------------------------- MODULE Governance -----------------------------
(***************************************************************************)
(* contracts/governance: quadratic voting on proposals, run by the signers *)
(* of an embedded guard (module Guard).  `admin` is the first signer; the  *)
(* entry points without an approver list act with <<admin>> alone.         *)
(***************************************************************************)
EXTENDS Guard, FiniteSetsExt

CONSTANTS Voter,          \* accounts that may be registered to vote
          Identity,       \* identity commitments other than the zero one
          Zero,           \* the all-zero commitment: no identity
          MinUnits,       \* min_voting_units
          Units,          \* the units a voter may be registered with
          Credits,        \* the credits a vote may spend
          Module,         \* the modules that may be enabled
          MaxProposals,   \* bound on NextProposalId
          MaxLedger       \* bound on the ledger sequence

VARIABLES admin,          \* DataKey::Admin, Zero before initialize
          identityRequired, \* DataKey::IdentityRequired
          voters,         \* Voter(a): units 0 when not registered
          identityOwner,  \* IdentityOwner(c), Zero when absent
          proposals,      \* the proposals by id, in order of creation
          receipts,       \* Receipt(p, v), credits 0 when absent
          modules,        \* the enabled modules
          ledger          \* the ledger sequence

govVars == <<admin, identityRequired, voters, identityOwner, proposals,
             receipts, modules, ledger>>
vars == <<guardVars, govVars>>

NoReceipt == [support |-> FALSE, credits |-> 0, votes |-> 0, units |-> 0]
Ids == 1..MaxProposals

Init ==
  /\ GuardInit
  /\ admin = Zero /\ identityRequired = FALSE
  /\ voters = [v \in Voter |-> [units |-> 0, identity |-> Zero]]
  /\ identityOwner = [c \in Identity |-> Zero]
  /\ proposals = << >>
  /\ receipts = [p \in Ids |-> [v \in Voter |-> NoReceipt]]
  /\ modules = {} /\ ledger = 0

\* The integer square root, as the Newton iteration computes it: the
\* largest r with r * r <= x.
sqrt(x) == Max({r \in 0..x : r * r <= x})

\* initialize and initialize_with_signers: the list has no duplicates.
initialize(as, t, required) ==
  /\ admin = Zero
  /\ IsInjective(as)
  /\ init_guard(as, t)
  /\ admin' = as[1] /\ identityRequired' = required
  /\ UNCHANGED <<voters, identityOwner, proposals, receipts, modules,
                 ledger>>

\* The previous commitment of the voter is freed, the new one claimed.
register_voter(approvers, v, units, identity) ==
  LET old == voters[v].identity
      freed == [c \in Identity |->
                  IF c = old /\ c # identity THEN Zero ELSE identityOwner[c]] IN
  /\ validate_multi_sig(approvers)
  /\ units >= MinUnits
  /\ identityRequired => identity # Zero
  /\ identity # Zero => identityOwner[identity] \in {Zero, v}
  /\ identityOwner' = IF identity = Zero THEN freed
                      ELSE [freed EXCEPT ![identity] = v]
  /\ voters' = [voters EXCEPT ![v] = [units |-> units, identity |-> identity]]
  /\ UNCHANGED <<guardVars, admin, identityRequired, proposals, receipts,
                 modules, ledger>>

create_proposal(approvers, ends) ==
  /\ validate_multi_sig(approvers)
  /\ ends > ledger
  /\ Len(proposals) < MaxProposals
  /\ proposals' = Append(proposals,
        [ends |-> ends, for |-> 0, against |-> 0, open |-> TRUE])
  /\ UNCHANGED <<guardVars, admin, identityRequired, voters, identityOwner,
                 receipts, modules, ledger>>

close_proposal(approvers, p) ==
  /\ validate_multi_sig(approvers)
  /\ proposals' = [proposals EXCEPT ![p].open = FALSE]
  /\ UNCHANGED <<guardVars, admin, identityRequired, voters, identityOwner,
                 receipts, modules, ledger>>

add_signer(approvers, a) ==
  /\ add_admin(approvers, a)
  /\ UNCHANGED govVars

remove_signer(approvers, a) ==
  /\ remove_admin(approvers, a)
  /\ admin' = IF a = admin THEN admins'[1] ELSE admin
  /\ UNCHANGED <<identityRequired, voters, identityOwner, proposals, receipts,
                 modules, ledger>>

set_signature_threshold(approvers, t) ==
  /\ validate_multi_sig(approvers)
  /\ t \in 1..Len(admins)
  /\ threshold' = t
  /\ UNCHANGED <<admins, paused, govVars>>

\* enable_module and disable_module.
set_module(approvers, m, on) ==
  /\ validate_multi_sig(approvers)
  /\ on = (m \notin modules)
  /\ modules' = IF on THEN modules \union {m} ELSE modules \ {m}
  /\ UNCHANGED <<guardVars, admin, identityRequired, voters, identityOwner,
                 proposals, receipts, ledger>>

\* The receipt a voter votes on: its own, or a fresh one that takes the
\* voter's units as they are at this first vote.
ReceiptOf(p, v) ==
  IF receipts[p][v] # NoReceipt THEN receipts[p][v]
  ELSE [NoReceipt EXCEPT !.units = voters[v].units]

\* Slip: every vote adds the root of its own credits.
cast_voteSeparately(p, v, support, spend) ==
  LET r == ReceiptOf(p, v)
      credits == r.credits + spend
      delta == sqrt(spend) IN
  /\ spend > 0
  /\ proposals[p].open /\ ledger <= proposals[p].ends
  /\ voters[v].units > 0
  /\ r.credits > 0 => r.support = support
  /\ credits <= r.units
  /\ delta > 0
  /\ proposals' = IF support
                  THEN [proposals EXCEPT ![p].for = @ + delta]
                  ELSE [proposals EXCEPT ![p].against = @ + delta]
  /\ receipts' = [receipts EXCEPT ![p][v] =
        [support |-> support, credits |-> credits, votes |-> sqrt(credits),
         units |-> r.units]]
  /\ UNCHANGED <<guardVars, admin, identityRequired, voters, identityOwner,
                 modules, ledger>>

cast_vote(p, v, support, spend) ==
  LET r == ReceiptOf(p, v)
      credits == r.credits + spend
      delta == sqrt(credits) - sqrt(r.credits) IN
  /\ spend > 0
  /\ proposals[p].open /\ ledger <= proposals[p].ends
  /\ voters[v].units > 0
  /\ r.credits > 0 => r.support = support
  /\ credits <= r.units
  /\ delta > 0
  /\ proposals' = IF support
                  THEN [proposals EXCEPT ![p].for = @ + delta]
                  ELSE [proposals EXCEPT ![p].against = @ + delta]
  /\ receipts' = [receipts EXCEPT ![p][v] =
        [support |-> support, credits |-> credits, votes |-> sqrt(credits),
         units |-> r.units]]
  /\ UNCHANGED <<guardVars, admin, identityRequired, voters, identityOwner,
                 modules, ledger>>

Tick == ledger < MaxLedger /\ ledger' = ledger + 1
        /\ UNCHANGED <<guardVars, admin, identityRequired, voters,
                       identityOwner, proposals, receipts, modules>>

\* Approvers: the admin alone, or any list given to a _with_approvals entry.
Next ==
  \/ \E n \in 0..MaxAdmins, t \in 1..MaxAdmins, r \in BOOLEAN :
        \E as \in [1..n -> Address] : initialize(as, t, r)
  \/ \E ap \in SUBSET Address :
       \/ \E v \in Voter, u \in Units, c \in Identity \union {Zero} :
             register_voter(ap, v, u, c)
       \/ \E e \in 1..MaxLedger : create_proposal(ap, e)
       \/ \E p \in 1..Len(proposals) : close_proposal(ap, p)
       \/ \E a \in Address : add_signer(ap, a) \/ remove_signer(ap, a)
       \/ \E t \in 1..MaxAdmins : set_signature_threshold(ap, t)
       \/ \E m \in Module, on \in BOOLEAN : set_module(ap, m, on)
  \/ \E p \in 1..Len(proposals), v \in Voter, s \in BOOLEAN, n \in Credits :
        cast_vote(p, v, s, n)
  \/ Tick

Spec == Init /\ [][Next]_vars
-----------------------------------------------------------------------------
\* The committee can always act and the default entry points name one of
\* its members: whatever sequence of add_signer, remove_signer and
\* set_signature_threshold ran, the threshold is met by distinct signers
\* and the admin that remove_signer promotes is one of them.
QuorumReachable ==
  admin # Zero => /\ IsInjective(admins)
                  /\ threshold \in 1..Cardinality(Range(admins))
                  /\ admin \in Range(admins)

\* The tallies cast_vote keeps by increments are what the receipts add up
\* to, the square root of the credits of every voter on that side, and no
\* voter spent more credits than the units on the receipt.
TalliesMatchReceipts ==
  \A p \in 1..Len(proposals) :
    LET side(s) == {v \in Voter : receipts[p][v].support = s}
        total(s) == MapThenSumSet(LAMBDA v : sqrt(receipts[p][v].credits), side(s))
    IN /\ proposals[p].for = total(TRUE)
       /\ proposals[p].against = total(FALSE)
       /\ \A v \in Voter : receipts[p][v].credits <= receipts[p][v].units

\* An identity votes once: IdentityOwner and the voters' profiles stay
\* inverse of each other over re-registrations that change, keep or drop
\* the commitment.
OneVoterPerIdentity ==
  \A c \in Identity, v \in Voter :
    voters[v].identity = c <=> identityOwner[c] = v
=============================================================================
