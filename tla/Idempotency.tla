---------------------------- MODULE Idempotency ----------------------------
(***************************************************************************)
(* The idempotency-key service of core/src/idempotency.rs for one storage  *)
(* key: requests begin, run their handler, and complete or abandon.  The   *)
(* store is the Redis one, whose claim is SET NX and, if that fails, a GET *)
(* (the in-memory one does both in one step); entries expire through their *)
(* TTL.  Time is kept as what is left of each TTL.                         *)
(***************************************************************************)
EXTENDS Naturals, FiniteSets

CONSTANTS
    Requests,       \* requests that carry the key
    Fingerprints,   \* what a request is for: method, path and body
    ttl_secs,       \* lifetime of an entry, in ticks
    Timely,         \* do handlers finish before their claim expires?
    MaxReleases,    \* bound: server errors and abandoned handlers
    None            \* no entry

ASSUME IdempotencyAssumption ==
    ttl_secs \in Nat \ {0} /\ Timely \in BOOLEAN /\ MaxReleases \in Nat

VARIABLES
    store,          \* the entry under the key
    request,        \* what each request is doing
    fresh,          \* history: ticks for which the last response must be remembered
    releases        \* claims released so far

vars == <<store, request, fresh, releases>>

InProgress(f) == [kind |-> "InProgress", fingerprint |-> f, left |-> ttl_secs]

Completed(f, r) ==
    [kind |-> "Completed", fingerprint |-> f, response |-> r, left |-> ttl_secs]

Entry ==
    [kind : {"InProgress"}, fingerprint : Fingerprints, left : 1..ttl_secs]
      \union [kind : {"Completed"}, fingerprint : Fingerprints, response : Requests,
              left : 1..ttl_secs]

Request ==
    [pc : {"new", "claimed", "taken", "rejected", "done", "replayed", "reused", "dead"},
     fingerprint : Fingerprints,
     left : 0..ttl_secs,                \* what is left of its claim
     answer : Requests \union {None}]   \* whose response it replayed

Init ==
    /\ store = None
    /\ request \in [Requests -> [pc : {"new"}, fingerprint : Fingerprints, left : {0}, answer : {None}]]
    /\ fresh = 0
    /\ releases = 0

Move(r, pc) == request' = [request EXCEPT ![r].pc = pc]

-----------------------------------------------------------------------------
(* begin *)

\* Slip: the claim does not ask for NX.
ClaimOverwrites(r) ==
    /\ request[r].pc = "new"
    /\ store' = InProgress(request[r].fingerprint)
    /\ request' = [request EXCEPT ![r].pc = "claimed", ![r].left = ttl_secs]
    /\ UNCHANGED <<fresh, releases>>

\* SET NX finds the key free: Proceed.
Claim(r) ==
    /\ request[r].pc = "new"
    /\ store = None
    /\ store' = InProgress(request[r].fingerprint)
    /\ request' = [request EXCEPT ![r].pc = "claimed", ![r].left = ttl_secs]
    /\ UNCHANGED <<fresh, releases>>

\* SET NX finds an entry; GET comes next.
ClaimFails(r) ==
    /\ request[r].pc = "new"
    /\ store # None
    /\ Move(r, "taken")
    /\ UNCHANGED <<store, fresh, releases>>

\* GET finds nothing (expired in between), or a request in progress: 409, and
\* the client retries.
Conflict(r) ==
    /\ request[r].pc = "taken"
    /\ \/ store = None
       \/ store # None /\ store.fingerprint = request[r].fingerprint /\ store.kind = "InProgress"
    /\ Move(r, "rejected")
    /\ UNCHANGED <<store, fresh, releases>>

\* The key belongs to a different request: 409 for good.
KeyReuse(r) ==
    /\ request[r].pc = "taken"
    /\ store # None
    /\ store.fingerprint # request[r].fingerprint
    /\ Move(r, "reused")
    /\ UNCHANGED <<store, fresh, releases>>

Replay(r) ==
    /\ request[r].pc = "taken"
    /\ store # None /\ store.kind = "Completed"
    /\ store.fingerprint = request[r].fingerprint
    /\ request' = [request EXCEPT ![r].pc = "replayed", ![r].answer = store.response]
    /\ UNCHANGED <<store, fresh, releases>>

Retry(r) ==
    /\ request[r].pc = "rejected"
    /\ Move(r, "new")
    /\ UNCHANGED <<store, fresh, releases>>

-----------------------------------------------------------------------------
(* The handler has run *)

\* Slip: the response is stored for less than the TTL.
CompleteShort(r) ==
    /\ request[r].pc = "claimed"
    /\ store' = [Completed(request[r].fingerprint, r) EXCEPT !.left = request[r].left]
    /\ fresh' = ttl_secs
    /\ Move(r, "done")
    /\ UNCHANGED releases

\* complete with a cacheable response: put, whatever the store holds by now.
Complete(r) ==
    /\ request[r].pc = "claimed"
    /\ store' = Completed(request[r].fingerprint, r)
    /\ fresh' = ttl_secs
    /\ Move(r, "done")
    /\ UNCHANGED releases

\* complete with a server error, or abandon: remove, whatever the store holds.
Release(r) ==
    /\ request[r].pc = "claimed"
    /\ releases < MaxReleases
    /\ releases' = releases + 1
    /\ store' = None
    /\ Move(r, "rejected")
    /\ UNCHANGED fresh

\* The process dies, or the backend does not answer put or remove.
Die(r) ==
    /\ request[r].pc = "claimed"
    /\ Move(r, "dead")
    /\ UNCHANGED <<store, fresh, releases>>

\* What a tick leaves of a remaining time.
Down(n) == IF n = 0 THEN 0 ELSE n - 1

\* Slip: only responses are given a TTL, claims are not.
ExpireResponses(s) ==
    IF s = None \/ s.kind = "InProgress" THEN s
    ELSE IF s.left = 1 THEN None ELSE [s EXCEPT !.left = @ - 1]

\* What a tick leaves of the entry.
Expire(s) == IF s = None \/ s.left = 1 THEN None ELSE [s EXCEPT !.left = @ - 1]

Tick ==
    /\ Timely => \A r \in Requests : request[r].pc = "claimed" => request[r].left > 1
    /\ store' = Expire(store)
    /\ request' = [r \in Requests |-> [request[r] EXCEPT !.left = Down(@)]]
    /\ fresh' = Down(fresh)
    /\ UNCHANGED releases

BeginStep(r) ==
    Claim(r) \/ ClaimFails(r) \/ Conflict(r) \/ KeyReuse(r) \/ Replay(r) \/ Retry(r)

HandlerStep(r) == Complete(r) \/ Release(r) \/ Die(r)

Next == (\E r \in Requests : BeginStep(r) \/ HandlerStep(r)) \/ Tick

Spec == Init /\ [][Next]_vars

\* Clients retry, handlers end one way or another, and time passes.
FairSpec ==
    /\ Spec
    /\ WF_vars(Tick)
    /\ \A r \in Requests : WF_vars(BeginStep(r)) /\ WF_vars(HandlerStep(r))

-----------------------------------------------------------------------------
(* Properties *)

Running == {r \in Requests : request[r].pc = "claimed"}

\* "of N simultaneous requests exactly one proceeds", for handlers that finish
\* while their claim lives.
OneProceeds == Cardinality(Running) <= 1

\* Two requests whose claims both still live never run at the same time.
LiveClaimsExclusive == Cardinality({r \in Running : request[r].left > 0}) <= 1

\* A request is answered with the response of a request for the same thing,
\* and only with one that completed.
ReplaysOwnResponse ==
    \A r \in Requests : request[r].pc = "replayed" =>
        /\ request[request[r].answer].pc = "done"
        /\ request[request[r].answer].fingerprint = request[r].fingerprint

\* Of the requests with one idempotency key one runs, and the others are
\* answered with its response if they ask for the same thing.
AnsweredByOne == OneProceeds /\ ReplaysOwnResponse

\* A stored response is remembered for its whole TTL: until then no request
\* with the key runs again, whoever fails, dies or releases meanwhile.
NoRerunWhileFresh ==
    [][\A r \in Requests :
          request[r].pc = "new" /\ request'[r].pc = "claimed" => fresh = 0]_vars

\* Every request is answered in the end: the claim of a request that died
\* blocks the key only until its TTL is over.
EventuallyAnswered ==
    \A r \in Requests :
        (request[r].pc = "taken") ~> (request[r].pc \in {"done", "replayed", "reused", "dead"})
=============================================================================
