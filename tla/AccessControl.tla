--------------------------- MODULE AccessControl ---------------------------
(***************************************************************************)
(* contracts/access_control: per-function permissions held directly or     *)
(* through roles.  A selector is a function name, a namespace pattern such *)
(* as vault.*, or the universal pattern *; which names a pattern covers is *)
(* the constant Covers.  Every table is stored twice, as flags that decide *)
(* and as an index that enumerates, and namespace patterns are counted so  *)
(* that one in use is not unregistered.                                    *)
(*                                                                         *)
(* `t` is the persistent storage.  The helpers apply_... take a storage    *)
(* and return the next one; a storage with ok = FALSE is a call that       *)
(* returned an error, whose writes are reverted.                           *)
(***************************************************************************)
EXTENDS Naturals, Sequences, FiniteSets, SequencesExt

CONSTANTS Address, Role,
          Function,     \* plain selectors
          Pattern,      \* namespace patterns
          Universal,          \* the selector *
          Covers,       \* Covers[p]: the functions in namespace p
          ProtocolRole, \* the roles setup_protocol_roles creates
          Permissions,  \* Permissions[r]: what a protocol role starts with
          Configs,      \* the AclConfig values root may set
          None          \* no admin of a role that does not exist

VARIABLES root,         \* DataKey::Admin
          config,       \* DataKey::Config
          lockdown,     \* DataKey::Lockdown
          t             \* the tables

vars == <<root, config, lockdown, t>>

Selector == Function \union Pattern \union {Universal}

Empty == [ok |-> TRUE,
          grant |-> {}, grants |-> [a \in Address |-> {}],
          member |-> {}, members |-> [r \in Role |-> {}],
          roles |-> [a \in Address |-> {}],
          perm |-> {}, perms |-> [r \in Role |-> {}],
          roleAdmin |-> [r \in Role |-> None],
          configured |-> FALSE, wildcards |-> {}, use |-> [p \in Pattern |-> 0]]

\* initialize: root is outside the tables.
Init == root \in Address /\ config \in Configs /\ lockdown = FALSE /\ t = Empty

role_exists(s, r) == s.roleAdmin[r] # None

validate_grantable(s, sel) == sel \in Pattern => sel \in s.wildcards

\* The counter saturates at zero.
track_wildcard_use(s, sel, up) ==
  IF sel \notin Pattern THEN s
  ELSE [s EXCEPT !.use[sel] = IF up THEN @ + 1 ELSE IF @ > 0 THEN @ - 1 ELSE 0]

Failed(s) == [s EXCEPT !.ok = FALSE]

apply_grant(s, a, sel) ==
  IF <<a, sel>> \in s.grant THEN s
  ELSE IF ~validate_grantable(s, sel) \/ Cardinality(s.grants[a]) >= config.grants
  THEN Failed(s)
  ELSE track_wildcard_use([s EXCEPT !.grant = @ \union {<<a, sel>>},
                                    !.grants[a] = @ \union {sel}], sel, TRUE)

apply_revoke(s, a, sel) ==
  IF <<a, sel>> \notin s.grant THEN s
  ELSE track_wildcard_use([s EXCEPT !.grant = @ \ {<<a, sel>>},
                                    !.grants[a] = @ \ {sel}], sel, FALSE)

apply_role_permission(s, r, sel) ==
  IF <<r, sel>> \in s.perm THEN s
  ELSE IF ~validate_grantable(s, sel) \/ Cardinality(s.perms[r]) >= config.perms
  THEN Failed(s)
  ELSE track_wildcard_use([s EXCEPT !.perm = @ \union {<<r, sel>>},
                                    !.perms[r] = @ \union {sel}], sel, TRUE)

\* Slip: the pattern's counter is not lowered.
apply_role_revokeUncounted(s, r, sel) ==
  IF <<r, sel>> \notin s.perm THEN s
  ELSE [s EXCEPT !.perm = @ \ {<<r, sel>>}, !.perms[r] = @ \ {sel}]

apply_role_revoke(s, r, sel) ==
  IF <<r, sel>> \notin s.perm THEN s
  ELSE track_wildcard_use([s EXCEPT !.perm = @ \ {<<r, sel>>},
                                    !.perms[r] = @ \ {sel}], sel, FALSE)

apply_role_member(s, r, a) ==
  IF <<r, a>> \in s.member THEN s
  ELSE IF \/ Cardinality(s.members[r]) >= config.members
          \/ Cardinality(s.roles[a]) >= config.roles
  THEN Failed(s)
  ELSE [s EXCEPT !.member = @ \union {<<r, a>>}, !.members[r] = @ \union {a},
                 !.roles[a] = @ \union {r}]

apply_role_member_revoke(s, r, a) ==
  IF <<r, a>> \notin s.member THEN s
  ELSE [s EXCEPT !.member = @ \ {<<r, a>>}, !.members[r] = @ \ {a},
                 !.roles[a] = @ \ {r}]

\* The helper applied to each item of a set in turn (the lists hold no
\* duplicates that matter: a second application of a helper changes nothing).
Each(Helper(_, _, _), s, k, items) ==
  FoldLeft(LAMBDA acc, x : Helper(acc, k, x), s, SetToSeq(items))

require_writable == ~lockdown
require_role_admin(actor, r) == role_exists(t, r) /\ actor \in {root, t.roleAdmin[r]}

Store(s) == s.ok /\ t' = s /\ UNCHANGED <<root, config, lockdown>>

transfer_admin(actor, a) ==
  /\ actor = root
  /\ root' = a /\ UNCHANGED <<config, lockdown, t>>

set_config(actor, c) ==
  /\ actor = root /\ require_writable
  /\ config' = c /\ UNCHANGED <<root, lockdown, t>>

set_lockdown(actor, active) ==
  /\ actor = root
  /\ lockdown' = active /\ UNCHANGED <<root, config, t>>

grant(actor, a, sel) ==
  /\ actor = root /\ require_writable
  /\ Store(apply_grant(t, a, sel))

revoke(actor, a, sel) ==
  /\ actor = root /\ require_writable
  /\ Store(apply_revoke(t, a, sel))

batch_grant(actor, entries) ==
  /\ actor = root /\ require_writable
  /\ Len(entries) \in 1..config.batch
  /\ Store(FoldLeft(LAMBDA s, e : apply_grant(s, e[1], e[2]), t, entries))

batch_revoke(actor, entries) ==
  /\ actor = root /\ require_writable
  /\ Len(entries) \in 1..config.batch
  /\ Store(FoldLeft(LAMBDA s, e : apply_revoke(s, e[1], e[2]), t, entries))

renounce(caller, sel) == Store(apply_revoke(t, caller, sel))

\* Both lists are read from the indexes.
renounce_all(caller) ==
  LET s == Each(apply_revoke, t, caller, t.grants[caller])
      drop(acc, a, r) == apply_role_member_revoke(acc, r, a)
  IN Store(Each(drop, s, caller, s.roles[caller]))

RolesFull(s) == Cardinality({q \in Role : role_exists(s, q)}) >= config.maxRoles

create_role(actor, r, a) ==
  /\ actor = root /\ require_writable
  /\ ~role_exists(t, r) /\ ~RolesFull(t)
  /\ Store([t EXCEPT !.roleAdmin[r] = a])

\* Root stays the admin of a protocol role.
provision_protocol_role(s, actor, r, a) ==
  IF role_exists(s, r) \/ RolesFull(s) THEN Failed(s)
  ELSE apply_role_member(Each(apply_role_permission,
                              [s EXCEPT !.roleAdmin[r] = actor], r, Permissions[r]),
                         r, a)

setup_protocol_roles(actor, first) ==
  /\ actor = root /\ require_writable
  /\ ~t.configured
  /\ Store(FoldLeft(LAMBDA s, r : provision_protocol_role(s, actor, r, first[r]),
                    [t EXCEPT !.configured = TRUE], SetToSeq(ProtocolRole)))

set_role_admin(actor, r, a) ==
  /\ actor = root /\ require_writable
  /\ role_exists(t, r)
  /\ Store([t EXCEPT !.roleAdmin[r] = a])

grant_role_permission(actor, r, sel) ==
  /\ require_role_admin(actor, r) /\ require_writable
  /\ Store(apply_role_permission(t, r, sel))

revoke_role_permission(actor, r, sel) ==
  /\ require_role_admin(actor, r) /\ require_writable
  /\ Store(apply_role_revoke(t, r, sel))

grant_role(actor, r, a) ==
  /\ require_role_admin(actor, r) /\ require_writable
  /\ Store(apply_role_member(t, r, a))

revoke_role(actor, r, a) ==
  /\ require_role_admin(actor, r) /\ require_writable
  /\ Store(apply_role_member_revoke(t, r, a))

renounce_role(caller, r) == Store(apply_role_member_revoke(t, r, caller))

destroy_role(actor, r) ==
  LET s == Each(apply_role_revoke, t, r, t.perms[r])
      u == Each(apply_role_member_revoke, s, r, t.members[r]) IN
  /\ actor = root /\ require_writable
  /\ role_exists(t, r)
  /\ Store([u EXCEPT !.roleAdmin[r] = None])

\* The members no longer listed leave first, then the listed ones join.
batch_set_members(actor, r, as) ==
  /\ require_role_admin(actor, r) /\ require_writable
  /\ Cardinality(as) \in 1..config.batch
  /\ Store(Each(apply_role_member,
                Each(apply_role_member_revoke, t, r, t.members[r] \ as), r, as))

batch_set_permissions(actor, r, sels) ==
  /\ require_role_admin(actor, r) /\ require_writable
  /\ Cardinality(sels) \in 1..config.batch
  /\ Store(Each(apply_role_permission,
                Each(apply_role_revoke, t, r, t.perms[r] \ sels), r, sels))

register_wildcard(actor, p) ==
  /\ actor = root /\ require_writable
  /\ p \in t.wildcards \/ Cardinality(t.wildcards) < config.wildcards
  /\ Store([t EXCEPT !.wildcards = @ \union {p}])

unregister_wildcard(actor, p) ==
  /\ actor = root /\ require_writable
  /\ p \in t.wildcards /\ t.use[p] = 0
  /\ Store([t EXCEPT !.wildcards = @ \ {p}])

Entries == SeqOf(Address \X Selector, 2) \ SeqOf(Address \X Selector, 1)

Next ==
  \E actor \in Address :
    \/ \E a \in Address : transfer_admin(actor, a)
    \/ \E c \in Configs : set_config(actor, c)
    \/ \E b \in BOOLEAN : set_lockdown(actor, b)
    \/ \E a \in Address, sel \in Selector : grant(actor, a, sel) \/ revoke(actor, a, sel)
    \/ \E es \in Entries : batch_grant(actor, es) \/ batch_revoke(actor, es)
    \/ \E sel \in Selector : renounce(actor, sel)
    \/ renounce_all(actor)
    \/ \E first \in [ProtocolRole -> Address] : setup_protocol_roles(actor, first)
    \/ \E p \in Pattern : register_wildcard(actor, p) \/ unregister_wildcard(actor, p)
    \/ \E r \in Role :
         \/ \E a \in Address : \/ create_role(actor, r, a) \/ set_role_admin(actor, r, a)
                               \/ grant_role(actor, r, a) \/ revoke_role(actor, r, a)
         \/ \E sel \in Selector : \/ grant_role_permission(actor, r, sel)
                                  \/ revoke_role_permission(actor, r, sel)
         \/ renounce_role(actor, r) \/ destroy_role(actor, r)
         \/ \E as \in SUBSET Address : batch_set_members(actor, r, as)
         \/ \E sels \in SUBSET Selector : batch_set_permissions(actor, r, sels)

Spec == Init /\ [][Next]_vars
-----------------------------------------------------------------------------
\* direct_matches and role_matches: the selector itself, the universal
\* pattern, or a registered namespace that covers it.
matches(held, f) ==
  f \in held \/ Universal \in held \/ \E p \in t.wildcards : f \in Covers[p] /\ p \in held

\* The decision flags, read for a holder.
GrantFlags(a) == {sel \in Selector : <<a, sel>> \in t.grant}
PermFlags(r) == {sel \in Selector : <<r, sel>> \in t.perm}

permits(a, f) ==
  \/ a = root
  \/ matches(GrantFlags(a), f)
  \/ \E r \in t.roles[a] : matches(PermFlags(r), f)

\* "Both are written by every mutation helper, so they cannot drift": the
\* flags that decide, the indexes that enumerate and the reverse index of
\* roles agree, and a role that was destroyed left nothing behind that a
\* role created later under its name would inherit.
IndexesAgree ==
  /\ \A a \in Address : t.grants[a] = GrantFlags(a)
  /\ \A r \in Role : t.perms[r] = PermFlags(r)
  /\ \A r \in Role, a \in Address :
       (<<r, a>> \in t.member) = (a \in t.members[r])
         /\ (a \in t.members[r]) = (r \in t.roles[a])
  /\ \A r \in Role : ~role_exists(t, r) => t.members[r] = {} /\ t.perms[r] = {}

\* A pattern's counter is the number of grants and role permissions that
\* name it, over every path that removes one (revoke, renounce_all,
\* destroy_role, a batch that replaces permissions), so a pattern is
\* unregistered only when unregistering disables no live permission.
WildcardUseExact ==
  \A p \in Pattern :
    LET live == Cardinality({a \in Address : <<a, p>> \in t.grant})
                + Cardinality({r \in Role : <<r, p>> \in t.perm})
    IN t.use[p] = live /\ (live > 0 => p \in t.wildcards)

\* While the list is frozen nobody's access grows, except that of an
\* address root is handed to; giving access up still works.
LockdownFreezes ==
  [][lockdown /\ lockdown' =>
       \A a \in Address, f \in Function :
         permits(a, f)' => permits(a, f) \/ a = root']_vars
=============================================================================
