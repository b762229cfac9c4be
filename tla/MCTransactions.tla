--------------------------- MODULE MCTransactions ---------------------------
(***************************************************************************)
(* Small instances of the services that must do a thing once: nonces, the  *)
(* two-phase commit, idempotency keys, the idempotent consumer, refresh    *)
(* tokens and vault records.  They share no state, so a behaviour          *)
(* exercises one of them and leaves the others where they start: a         *)
(* property of one service reads only that service's variables.            *)
(***************************************************************************)
EXTENDS ServiceProofs

VARIABLE service        \* the one this behaviour exercises

nonceVars == <<committed, inflight, filling, committed_set, exhausted>>
keyVars == <<store, request, fresh, releases>>
consumerVars == <<processed, worker, delivered, ran>>
tokenVars == <<tokens, issued, rotating, now>>
recordVars == <<vaults, client, expired>>
allVars == <<service, rvars, nonceVars, keyVars, consumerVars, tokenVars, recordVars>>

\* Two participants share operation 2, the first one also runs operation 1.
MCSupports == {<<1, 1>>, <<1, 2>>, <<2, 2>>}

-----------------------------------------------------------------------------

Services == {"nonces", "two_phase", "keys", "consumer", "tokens", "records"}

\* A service that is not exercised starts with the first of its settings.
MCInit ==
    /\ service \in Services
    /\ RInit /\ Nonces!Init /\ Answers!Init /\ Consumer!Init /\ Tokens!Init /\ Records!Init
    /\ service = "two_phase" \/ tx.valid
    /\ service = "keys" \/ \A r \in Requests : request[r].fingerprint = "f"

MCNext ==
    /\ UNCHANGED service
    /\ IF service = "nonces" THEN Nonces!Next ELSE UNCHANGED nonceVars
    /\ IF service = "two_phase" THEN RNext ELSE UNCHANGED rvars
    /\ IF service = "keys" THEN Answers!Next ELSE UNCHANGED keyVars
    /\ IF service = "consumer" THEN Consumer!Next ELSE UNCHANGED consumerVars
    /\ IF service = "tokens" THEN Tokens!Next ELSE UNCHANGED tokenVars
    /\ IF service = "records" THEN Records!Next ELSE UNCHANGED recordVars

MCSpec == MCInit /\ [][MCNext]_allVars
=============================================================================
