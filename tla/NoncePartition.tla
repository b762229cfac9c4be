--------------------------- MODULE NoncePartition ---------------------------
(***************************************************************************)
(* NoncePartition of core/src/nonce_partition.rs: per-domain nonces are    *)
(* handed out, committed in any order, released after a failure, or filled *)
(* with a no-op when a higher one has landed.  Callers commit, release and *)
(* fill only nonces they were handed.                                      *)
(***************************************************************************)
EXTENDS Naturals

CONSTANTS
    Domains,
    NONCE_MAX,      \* u64::MAX in the code
    None            \* no entry in `committed`

VARIABLES
    committed,      \* high-water mark per domain, None before the first commit
    inflight,       \* assigned, not committed
    filling,        \* gaps being filled with a no-op
    committed_set,  \* every committed nonce
    exhausted       \* domains that ran out

vars == <<committed, inflight, filling, committed_set, exhausted>>

Init ==
    /\ committed = [d \in Domains |-> None]
    /\ inflight = [d \in Domains |-> {}]
    /\ filling = [d \in Domains |-> {}]
    /\ committed_set = [d \in Domains |-> {}]
    /\ exhausted = {}

-----------------------------------------------------------------------------

SaturatingAdd(n) == IF n = NONCE_MAX THEN NONCE_MAX ELSE n + 1

NextExpected(d) == IF committed[d] = None THEN 0 ELSE SaturatingAdd(committed[d])

Held(d) == inflight[d] \union filling[d]

\* The first nonce from next_expected on that nobody holds.
NextAssignable(d) ==
    CHOOSE n \in NextExpected(d)..NONCE_MAX :
        n \notin Held(d) /\ NextExpected(d)..(n - 1) \subseteq Held(d)

\* Slip: the last value is handed out too.
IsExhaustedLate(d) == NextAssignable(d) > NONCE_MAX

IsExhausted(d) == NextAssignable(d) = NONCE_MAX

AssignNonce(d) ==
    /\ IF IsExhausted(d)
       THEN exhausted' = exhausted \union {d} /\ UNCHANGED inflight
       ELSE /\ inflight' = [inflight EXCEPT ![d] = @ \union {NextAssignable(d)}]
            /\ UNCHANGED exhausted
    /\ UNCHANGED <<committed, filling, committed_set>>

\* Slip: one commit moves the mark by one.
AdvanceOnce(mark, set) == IF mark + 1 \in set THEN mark + 1 ELSE mark

\* while set.contains(committed + 1) { committed += 1 }
Advance(mark, set) ==
    CHOOSE c \in mark..NONCE_MAX : (mark + 1)..c \subseteq set /\ c + 1 \notin set

\* A missing mark starts at 0.
CommitNonce(d, n) ==
    /\ inflight' = [inflight EXCEPT ![d] = @ \ {n}]
    /\ filling' = [filling EXCEPT ![d] = @ \ {n}]
    /\ committed_set' = [committed_set EXCEPT ![d] = @ \union {n}]
    /\ committed' = [committed EXCEPT ![d] =
                        Advance(IF @ = None THEN 0 ELSE @, committed_set'[d])]
    /\ UNCHANGED exhausted

ReleaseNonce(d, n) ==
    /\ inflight' = [inflight EXCEPT ![d] = @ \ {n}]
    /\ filling' = [filling EXCEPT ![d] = @ \ {n}]
    /\ UNCHANGED <<committed, committed_set, exhausted>>

\* Held nonces below the highest committed one.
DetectGaps(d) == {n \in Held(d) : \E m \in committed_set[d] : n < m}

FillGap(d, n) ==
    /\ inflight' = [inflight EXCEPT ![d] = @ \ {n}]
    /\ filling' = [filling EXCEPT ![d] = @ \union {n}]
    /\ UNCHANGED <<committed, committed_set, exhausted>>

ResetDomain(d) ==
    /\ committed' = [committed EXCEPT ![d] = None]
    /\ inflight' = [inflight EXCEPT ![d] = {}]
    /\ filling' = [filling EXCEPT ![d] = {}]
    /\ committed_set' = [committed_set EXCEPT ![d] = {}]
    /\ exhausted' = exhausted \ {d}

Next ==
    \E d \in Domains :
        \/ AssignNonce(d)
        \/ \E n \in Held(d) : CommitNonce(d, n) \/ ReleaseNonce(d, n)
        \/ \E n \in DetectGaps(d) : FillGap(d, n)
        \/ ResetDomain(d)

Spec == Init /\ [][Next]_vars

-----------------------------------------------------------------------------
(* Properties *)

\* assign_nonce never hands out a nonce that someone holds, whether its
\* transaction is in flight or a no-op fills its gap, and never the last
\* value of the type.
HeldOnce ==
    [][\A d \in Domains : \A n \in inflight'[d] \ inflight[d] :
          n \notin Held(d) /\ n # NONCE_MAX]_vars

\* The mark stands at the end of the run of committed nonces that starts at 1:
\* out-of-order commits and filled gaps move it past everything they close,
\* and never past a nonce that is missing.
MarkAtEndOfRun ==
    \A d \in Domains : committed[d] # None =>
        /\ 1..committed[d] \subseteq committed_set[d]
        /\ committed[d] + 1 \notin committed_set[d]
=============================================================================
