---------------------------- MODULE RefreshTokens ----------------------------
(***************************************************************************)
(* The refresh tokens of core/src/auth.rs.  A token is used once: rotating *)
(* it leaves a tombstone and issues the next token of the same family, and *)
(* presenting a tombstone removes the whole family.  The store's lock is   *)
(* given back between the tombstone and the new token, so a rotation takes *)
(* two steps, and other calls run between them.                            *)
(***************************************************************************)
EXTENDS Integers, Sequences, FiniteSets, Functions

CONSTANTS Caller,
          Lifetime,      \* REFRESH_TOKEN_EXPIRY_SECS
          MaxTokens,     \* bound on the tokens issued
          MaxTime        \* bound on the clock

VARIABLES store,      \* token -> [active, family, expires_at]
          issued,     \* the number of tokens generated
          rotating,   \* per caller: the family it has to issue a token in
          now

tokenVars == <<store, issued, rotating, now>>

NoFamily == 0

Purged(s) == Restrict(s, {t \in DOMAIN s : s[t].expires_at >= now})

WithoutFamily(s, f) == Restrict(s, {t \in DOMAIN s : s[t].family # f})

\* A record inserted under the hash of token t.
Put(s, t, r) == [u \in DOMAIN s \cup {t} |-> IF u = t THEN r ELSE s[u]]

Init ==
    /\ store = << >>
    /\ issued = 0
    /\ rotating = [c \in Caller |-> NoFamily]
    /\ now = 0

\* The insertion of issue_token_pair_in_family, for a fresh token.
Insert(family) ==
    /\ issued < MaxTokens
    /\ issued' = issued + 1
    /\ store' = Put(Purged(store), issued', [active |-> TRUE, family |-> family,
                                             expires_at |-> now + Lifetime])

\* A login starts a family, named after its first token.
issue_token_pair ==
    /\ Insert(issued + 1)
    /\ UNCHANGED <<rotating, now>>

\* Slip: the token that was rotated stays active.
rotateKeepsActive(c, t) ==
    LET s == Purged(store)
    IN  /\ rotating[c] = NoFamily
        /\ t \in 1..issued
        /\ store' = IF t \in DOMAIN s /\ ~s[t].active THEN WithoutFamily(s, s[t].family) ELSE s
        /\ rotating' = IF t \in DOMAIN s /\ s[t].active
                       THEN [rotating EXCEPT ![c] = s[t].family] ELSE rotating
        /\ UNCHANGED <<issued, now>>

\* rotate_refresh_token up to the end of its locked block.
rotate_refresh_token(c, t) ==
    LET s == Purged(store)
    IN  /\ rotating[c] = NoFamily
        /\ t \in 1..issued
        /\ IF t \in DOMAIN s /\ s[t].active
           THEN /\ store' = [s EXCEPT ![t].active = FALSE]
                /\ rotating' = [rotating EXCEPT ![c] = s[t].family]
           ELSE /\ store' = IF t \in DOMAIN s THEN WithoutFamily(s, s[t].family) ELSE s
                /\ UNCHANGED rotating
        /\ UNCHANGED <<issued, now>>

\* ... and the new token, under the lock taken again.
issue_token_pair_in_family(c) ==
    /\ rotating[c] # NoFamily
    /\ Insert(rotating[c])
    /\ rotating' = [rotating EXCEPT ![c] = NoFamily]
    /\ UNCHANGED now

revoke_refresh_token(t) ==
    /\ t \in DOMAIN store
    /\ store' = WithoutFamily(store, store[t].family)
    /\ UNCHANGED <<issued, rotating, now>>

Tick ==
    /\ now < MaxTime
    /\ now' = now + 1
    /\ UNCHANGED <<store, issued, rotating>>

Next ==
    \/ issue_token_pair
    \/ \E c \in Caller : \/ \E t \in 1..MaxTokens : rotate_refresh_token(c, t)
                         \/ issue_token_pair_in_family(c)
    \/ \E t \in 1..MaxTokens : revoke_refresh_token(t)
    \/ Tick

Spec == Init /\ [][Next]_tokenVars

-----------------------------------------------------------------------------
(* However rotations of the same token overlap, a family never forks: it    *)
(* has at most one token that can be rotated, counting the rotation that    *)
(* has consumed a token and not issued the next one yet.                    *)
OneActivePerFamily ==
    \A f \in 1..MaxTokens :
        Cardinality({t \in DOMAIN store : store[t].active /\ store[t].family = f})
            + Cardinality({c \in Caller : rotating[c] = f}) <= 1
=============================================================================
