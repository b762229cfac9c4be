----------------------------- MODULE MCControl ------------------------------
(***************************************************************************)
(* Small instances of the contracts that decide and hold back: governance, *)
(* timelocks, guards, access lists and the governance of other chains.     *)
(* They share no state, so a behaviour exercises one of them and leaves    *)
(* the others where they start: a property of one contract reads only that *)
(* contract's variables.                                                   *)
(***************************************************************************)
EXTENDS ControlProofs, TLC

VARIABLES
    contract,                           \* the one this behaviour exercises
    root, limits, lockdown, tables      \* access control

voteVars == <<admins, threshold, paused, admin, identityRequired, voters, identityOwner,
              proposals, receipts, modules, ledger>>
timelockVars == <<delays, ops, now, stack, saved, invoked>>
escrowVars == <<escrow, guardians, approvals, epoch, eLedger, eHeld, paid, approvers>>
stopVars == <<guard, sLedger, since>>
aclVars == <<root, limits, lockdown, tables>>
bridgeVars == <<sent, outbound, inbound, processed, trusted, enabled, bPaused, delay,
                executions, synced, roots, latestRoot, bNow, applied, called>>
allVars == <<contract, voteVars, timelockVars, escrowVars, stopVars, aclVars, bridgeVars>>

MCLimits ==
    [grants |-> 2, perms |-> 2, members |-> 2, roles |-> 1, maxRoles |-> 1, batch |-> 2,
     wildcards |-> 1]

Acl ==
    INSTANCE AccessControl WITH Address <- {"a", "b"}, Role <- {"r"}, Function <- {"f"},
        Pattern <- {"n"}, Universal <- "*", Covers <- [p \in {"n"} |-> {"f"}],
        ProtocolRole <- {"r"}, Permissions <- [r \in {"r"} |-> {"f"}], Configs <- {MCLimits},
        None <- "-", config <- limits, t <- tables

-----------------------------------------------------------------------------

Contracts == {"vote", "timelock", "escrow", "stop", "acl", "bridge"}

\* A contract that is not exercised starts with the first of its settings.
MCInit ==
    /\ contract \in Contracts
    /\ Vote!Init /\ Timelock!Init /\ Escrow!Init /\ Stop!Init /\ Acl!Init /\ Bridge!Init
    /\ contract = "acl" \/ root = "a"
    /\ contract = "bridge" \/ delay = 0

MCNext ==
    /\ UNCHANGED contract
    /\ IF contract = "vote" THEN Vote!Next ELSE UNCHANGED voteVars
    /\ IF contract = "timelock" THEN Timelock!Next ELSE UNCHANGED timelockVars
    /\ IF contract = "escrow" THEN Escrow!Next ELSE UNCHANGED escrowVars
    /\ IF contract = "stop" THEN Stop!Next ELSE UNCHANGED stopVars
    /\ IF contract = "acl" THEN Acl!Next ELSE UNCHANGED aclVars
    /\ IF contract = "bridge" THEN Bridge!Next ELSE UNCHANGED bridgeVars

MCSpec == MCInit /\ [][MCNext]_allVars

\* Voters and identities differ in their names only.
Symmetry == Permutations(Voter) \union Permutations(Identity)

-----------------------------------------------------------------------------

\* The records of a vote add up, one identity has one voter, and the
\* committee can always act.
VotesAccount ==
    Vote!TalliesMatchReceipts /\ Vote!OneVoterPerIdentity /\ Vote!QuorumReachable

\* The access list's indexes and counters agree with its entries.
IndexesExact == Acl!IndexesAgree /\ Acl!WildcardUseExact

\* A trip or a lockdown stops what it says, through every entry.
StopsHold == Stop!TripHolds /\ Acl!LockdownFreezes
=============================================================================
