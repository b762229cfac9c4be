----------------------------- MODULE VaultRecords -----------------------------
(***************************************************************************)
(* Vault records: core/src/vault_store.rs over the table of                *)
(* core/src/db/schema.rs.                                                  *)
(*                                                                         *)
(* A client reads a vault, edits it and sends the edit back with the       *)
(* version it read.  The handler loads the vault to check its owner and    *)
(* the expiry of its policy, the store updates the row WHERE id AND        *)
(* version match, and reads the row again for the answer: up to five       *)
(* requests to the database, between which other clients update, delete    *)
(* and restore.                                                            *)
(* A creation is one transaction keyed by the client's idempotency key.    *)
(* The content of a vault is abstracted to the edit that wrote it and to   *)
(* whether its policy has an end, which comes once.                        *)
(***************************************************************************)
EXTENDS Integers, Sequences

CONSTANTS Client, Key,
          MaxVaults,     \* bound on the rows
          MaxVersion     \* bound on the edits of a row

VARIABLES vaults,     \* the rows, by id
          client,     \* per client: its request, the base it read, its answer
          expired     \* the policies that carry an end have passed it

recordVars == <<vaults, client, expired>>

Ids  == DOMAIN vaults
Live(v) == v \in Ids /\ ~vaults[v].deleted
NoBase == [id |-> 0, version |-> 0, content |-> <<>>]

Init ==
    /\ vaults = << >>
    /\ client = [c \in Client |-> [at |-> "idle", base |-> NoBase, landed |-> FALSE, told |-> "none"]]
    /\ expired = FALSE

\* create_idempotent: the lookup sees live rows, the unique index all of them,
\* so a key whose vault was deleted is refused.
create(k) ==
    /\ Len(vaults) < MaxVaults
    /\ \A v \in Ids : vaults[v].key # k
    /\ \E ends \in BOOLEAN :
           vaults' = Append(vaults, [key |-> k, version |-> 1, deleted |-> FALSE,
                                     content |-> <<"created", ends>>])
    /\ UNCHANGED <<client, expired>>

\* The client's own GET, whose version its edit will carry.
get(c, v) ==
    /\ client[c].at \in {"idle", "read"}
    /\ Live(v)
    /\ client' = [client EXCEPT ![c] =
           [at |-> "read", landed |-> FALSE, told |-> "none",
            base |-> [id |-> v, version |-> vaults[v].version, content |-> vaults[v].content]]]
    /\ UNCHANGED <<vaults, expired>>

\* update_vault_handler loads the vault and checks the stored policy.
ensure_policy_active(c) ==
    LET v == client[c].base.id
        ok == Live(v) /\ ~(vaults[v].content[2] /\ expired)
    IN  /\ client[c].at = "read"
        /\ client' = [client EXCEPT ![c].at = IF ok THEN "updating" ELSE "idle",
                                    ![c].told = IF ok THEN "none" ELSE "refused"]
        /\ UNCHANGED <<vaults, expired>>

\* Slip: the version is not compared.
updateAnyVersion(c) ==
    LET v == client[c].base.id
    IN  /\ client[c].at = "updating"
        /\ vaults[v].version < MaxVersion
        /\ \E ends \in BOOLEAN :
               vaults' = [vaults EXCEPT ![v].content = <<c, ends>>, ![v].version = @ + 1]
        /\ client' = [client EXCEPT ![c].at = "answering", ![c].landed = TRUE]
        /\ UNCHANGED expired

\* The UPDATE statement; it does not look at deleted_at.
update(c) ==
    LET v == client[c].base.id
    IN  /\ client[c].at = "updating"
        /\ vaults[v].version < MaxVersion
        /\ IF vaults[v].version = client[c].base.version
           THEN /\ \E ends \in BOOLEAN :
                       vaults' = [vaults EXCEPT ![v].content = <<c, ends>>, ![v].version = @ + 1]
                /\ client' = [client EXCEPT ![c].at = "answering", ![c].landed = TRUE]
           ELSE /\ client' = [client EXCEPT ![c].at = "no_rows"]
                /\ UNCHANGED vaults
        /\ UNCHANGED expired

\* A landed update reads the row back, and takes a missing one for no rows.
answer(c) ==
    /\ client[c].at = "answering"
    /\ client' = IF Live(client[c].base.id)
                 THEN [client EXCEPT ![c].at = "idle", ![c].told = "ok"]
                 ELSE [client EXCEPT ![c].at = "no_rows"]
    /\ UNCHANGED <<vaults, expired>>

\* No rows: the store asks find_by_id whether that was 409 or 404.
no_rows(c) ==
    /\ client[c].at = "no_rows"
    /\ client' = [client EXCEPT ![c].at = "idle",
           ![c].told = IF Live(client[c].base.id) THEN "Conflict" ELSE "NotFound"]
    /\ UNCHANGED <<vaults, expired>>

soft_delete(v) ==
    /\ Live(v)
    /\ vaults' = [vaults EXCEPT ![v].deleted = TRUE]
    /\ UNCHANGED <<client, expired>>

restore(v) ==
    /\ v \in Ids
    /\ vaults' = [vaults EXCEPT ![v].deleted = FALSE]
    /\ UNCHANGED <<client, expired>>

PolicyEnds ==
    /\ ~expired
    /\ expired' = TRUE
    /\ UNCHANGED <<vaults, client>>

Next ==
    \/ \E k \in Key : create(k)
    \/ \E c \in Client : \/ \E v \in Ids : get(c, v)
                         \/ ensure_policy_active(c) \/ update(c)
                         \/ answer(c) \/ no_rows(c)
    \/ \E v \in Ids : soft_delete(v) \/ restore(v)
    \/ PolicyEnds

Spec == Init /\ [][Next]_recordVars

-----------------------------------------------------------------------------
(* No edit is lost: a client's edit replaces exactly the content that the   *)
(* client had read, whatever was updated, deleted or restored between its   *)
(* read and its write, and an answer "ok" is given only for an edit that    *)
(* landed.                                                                  *)
NoLostEdit ==
    [][/\ \A v \in Ids : vaults'[v].content # vaults[v].content =>
              \E c \in Client : /\ client[c].at = "updating" /\ client'[c].at = "answering"
                                /\ client[c].base.id = v
                                /\ client[c].base.content = vaults[v].content
       /\ \A c \in Client : client'[c].told = "ok" => client'[c].landed]_recordVars
=============================================================================
