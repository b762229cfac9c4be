--------------------------- MODULE RoutingProofs ----------------------------
(***************************************************************************)
(* Proofs about the services that decide whom a call goes to: the agent    *)
(* fleet, service discovery and the breaker of an RPC provider.  They      *)
(* share no state; each is instantiated with variables of its own.         *)
(*                                                                         *)
(* Every part has the same shape: what the constants must satisfy, the     *)
(* inductive invariant, a lemma per operation, and the theorem.            *)
(***************************************************************************)
EXTENDS Integers, Sequences, FiniteSets, TLAPS

-----------------------------------------------------------------------------
(* The agent fleet: agent_fleet.rs, failover.rs *)

CONSTANTS Agents, Vaults, Calls, Attestations, FailureThreshold, Preferences, MaxFailures,
          MaxRemovals

VARIABLES directory, health, admin, failures, pending, calls, reports, streak, removals, due

Fleet == INSTANCE AgentFleet

\* No agent is listed twice, and an agent's identifier is one part, without a colon.
FleetConstants ==
    /\ \A i, j \in DOMAIN Agents : Agents[i] = Agents[j] => i = j
    /\ \A i \in DOMAIN Agents : \E x : Agents[i] = <<x>>
    /\ \A v \in Vaults : \E S : v \in Seq(S)
    /\ FailureThreshold \in Int

AgentSet == Fleet!AgentSet

-----------------------------------------------------------------------------
(* Health. *)

Needed == Attestations \union {-1}

Status == [threshold : Needed, self_reported : BOOLEAN, peer_attestations : SUBSET AgentSet]

\* A health record stands for the reports since the agent was registered, and
\* none is left from an earlier registration when the next one begins.
HealthInv ==
    /\ health \in [AgentSet -> Status]
    /\ directory \in [AgentSet -> {"absent", "active", "revoked"}]
    /\ admin \in [AgentSet -> {"none", "register_health", "remove_health", "remove_failover"}]
    /\ reports \in [AgentSet -> SUBSET AgentSet]
    /\ \A a \in AgentSet :
          /\ directory[a] = "absent" /\ admin[a] = "none" => health[a] = Fleet!NoStatus
          /\ admin[a] = "register_health" =>
                directory[a] # "absent" /\ health[a] = Fleet!NoStatus /\ reports[a] = {}
          /\ admin[a] = "remove_failover" => health[a] = Fleet!NoStatus
          /\ health[a] # Fleet!NoStatus =>
                /\ health[a].peer_attestations = reports[a] \ {a}
                /\ health[a].self_reported => a \in reports[a]

\* A new record, and one that takes a report, is a record.
LEMMA StatusValues ==
    /\ Fleet!NoStatus \in Status
    /\ \A t \in Attestations :
          [threshold |-> t, self_reported |-> FALSE, peer_attestations |-> {}] \in Status
    /\ \A s \in Status, b \in AgentSet :
          /\ [s EXCEPT !.self_reported = TRUE] \in Status
          /\ [s EXCEPT !.peer_attestations = @ \union {b}] \in Status
  BY DEF Status, Needed, Fleet!NoStatus

\* Registration, reports and removal, in the steps the code takes them, keep the
\* health records in line with the reports.
LEMMA HealthStep ==
    ASSUME HealthInv, [Fleet!Next]_(Fleet!vars)
    PROVE  HealthInv'
<1>1. ASSUME NEW a \in AgentSet, Fleet!RegisterDirectory(a) PROVE HealthInv'
  BY <1>1 DEF Fleet!RegisterDirectory, HealthInv
<1>2. ASSUME NEW a \in AgentSet, Fleet!RegisterHealth(a) PROVE HealthInv'
  <2>1. PICK t \in Attestations : health' = [health EXCEPT ![a] =
           [threshold |-> t, self_reported |-> FALSE, peer_attestations |-> {}]]
    BY <1>2 DEF Fleet!RegisterHealth
  <2> DEFINE s == [threshold |-> t, self_reported |-> FALSE, peer_attestations |-> {}]
  <2>2. s \in Status /\ s.peer_attestations = {} /\ ~ s.self_reported
    BY StatusValues
  <2> HIDE DEF s
  <2>3. health' = [health EXCEPT ![a] = s]
    BY <2>1 DEF s
  <2> QED
    BY <1>2, <2>2, <2>3 DEF Fleet!RegisterHealth, HealthInv
<1>3. ASSUME NEW a \in AgentSet, Fleet!UnregisterDirectory(a) PROVE HealthInv'
  BY <1>3 DEF Fleet!UnregisterDirectory, HealthInv
<1>4. ASSUME NEW a \in AgentSet, Fleet!UnregisterHealth(a) PROVE HealthInv'
  BY <1>4, StatusValues DEF Fleet!UnregisterHealth, Fleet!HealthRemove, HealthInv
<1>5. ASSUME NEW a \in AgentSet, Fleet!UnregisterFailover(a) PROVE HealthInv'
  BY <1>5 DEF Fleet!UnregisterFailover, HealthInv
<1>6. ASSUME NEW a \in AgentSet, Fleet!Revoke(a) PROVE HealthInv'
  BY <1>6 DEF Fleet!Revoke, HealthInv
<1>7. ASSUME NEW a \in AgentSet, Fleet!SelfReport(a) PROVE HealthInv'
  <2> DEFINE s == [health[a] EXCEPT !.self_reported = TRUE]
  <2>1. health[a] \in Status /\ health[a] # Fleet!NoStatus
    BY <1>7 DEF HealthInv, Fleet!SelfReport
  <2>2. s \in Status /\ s.peer_attestations = health[a].peer_attestations
    BY <2>1, StatusValues DEF Status
  <2>3. health' = [health EXCEPT ![a] = s] /\ reports' = [reports EXCEPT ![a] = @ \union {a}]
        /\ UNCHANGED <<directory, admin>>
    BY <1>7 DEF Fleet!SelfReport
  <2> HIDE DEF s
  <2> QED  BY <2>1, <2>2, <2>3 DEF HealthInv
<1>8. ASSUME NEW a \in AgentSet, NEW b \in AgentSet, Fleet!PeerAttestation(a, b) PROVE HealthInv'
  <2> DEFINE s == [health[a] EXCEPT !.peer_attestations = @ \union {b}]
  <2>1. health[a] \in Status /\ health[a] # Fleet!NoStatus /\ b # a
    BY <1>8 DEF HealthInv, Fleet!PeerAttestation
  <2>2. s \in Status /\ s.peer_attestations = health[a].peer_attestations \union {b}
        /\ s.self_reported = health[a].self_reported
    BY <2>1, StatusValues DEF Status
  <2>3. health' = [health EXCEPT ![a] = s] /\ reports' = [reports EXCEPT ![a] = @ \union {b}]
        /\ UNCHANGED <<directory, admin>>
    BY <1>8 DEF Fleet!PeerAttestation
  <2> HIDE DEF s
  <2> QED  BY <2>1, <2>2, <2>3 DEF HealthInv
<1>9. CASE UNCHANGED <<directory, health, admin, reports>>
  BY <1>9 DEF HealthInv
<1>10. CASE \/ \E v \in Vaults : Fleet!ConfirmReauth(v)
            \/ \E c \in Calls :
                  \/ \E v \in Vaults, p \in Preferences : Fleet!List(c, v, p)
                  \/ Fleet!CheckHealth(c) \/ Fleet!CheckFailover(c) \/ Fleet!Attempt(c)
                  \/ Fleet!DropCall(c) \/ Fleet!RecordSuccess(c) \/ Fleet!RecordFailure(c)
                  \/ Fleet!InitiateFailover(c)
            \/ UNCHANGED Fleet!vars
  <2>1. UNCHANGED <<directory, health, admin, reports>>
    BY <1>10 DEF Fleet!ConfirmReauth, Fleet!List, Fleet!CheckHealth, Fleet!CheckFailover,
       Fleet!Attempt, Fleet!DropCall, Fleet!RecordSuccess, Fleet!RecordFailure,
       Fleet!InitiateFailover, Fleet!vars
  <2> QED  BY <1>9, <2>1
<1> QED
  BY <1>1, <1>2, <1>3, <1>4, <1>5, <1>6, <1>7, <1>8, <1>10 DEF Fleet!Next, AgentSet

-----------------------------------------------------------------------------
(* Calls. *)

FleetPc == {"health", "failover", "attempt", "success", "failure", "initiate"}

AgentLists == Seq(AgentSet)

Flag == BOOLEAN

FleetCall ==
    [pc : FleetPc, vault : Vaults, preferred : Preferences, at : Nat, candidates : AgentLists,
     todo : SUBSET DOMAIN Agents, blocked : Flag]

Distinct(s) == \A i, j \in DOMAIN s : s[i] = s[j] => i = j

\* A call past its filter found the vault free, its candidates are different
\* agents, none of them still to be looked at, and one it gives up on has failed
\* often enough.
CallOk(k, keys, earned) ==
    /\ k \in FleetCall
    /\ Fleet!can_execute(k.vault, keys) \/ k.candidates # << >> => ~ k.blocked
    /\ Distinct(k.candidates)
    /\ \A i \in DOMAIN k.candidates, j \in k.todo : k.candidates[i] # Agents[j]
    /\ k.pc \in {"health", "failover"} => k.at = 1
    /\ k.pc \notin {"health", "failover"} => k.at \in 1..Len(k.candidates)
    /\ k.pc = "initiate" => k.at < Len(k.candidates) /\ k.candidates[k.at] \in earned

\* A vault that waits was given up on by an agent that failed often enough and
\* is not the replacement.
FleetInv ==
    /\ HealthInv
    /\ failures \in [AgentSet -> Nat] /\ streak = failures
    /\ calls \in [Calls -> {Fleet!Idle} \union FleetCall]
    /\ \A c \in Calls : calls[c] # Fleet!Idle => CallOk(calls[c], pending, due)
    /\ Fleet!FailoverEarned

\* The values the steps of a call write are values a call may have.
LEMMA FleetValues ==
    /\ \A p \in {"health", "failover", "attempt", "success", "failure", "initiate"} : p \in FleetPc
    /\ FALSE \in Flag /\ TRUE \in Flag /\ << >> \in AgentLists /\ 1 \in Nat
    /\ \A k \in FleetCall : k.at + 1 \in Nat
    /\ Fleet!Idle \notin FleetCall /\ Fleet!Idle.pc = "idle"
  BY DEF FleetPc, Flag, AgentLists, FleetCall, Fleet!Idle

\* The preferred agent moves to the front of the list and no agent is lost or
\* listed twice.
LEMMA PreferredDistinct ==
    ASSUME NEW s \in Seq(AgentSet), Distinct(s), NEW p
    PROVE  LET t == Fleet!PreferredFirst(s, p)
           IN  t \in Seq(AgentSet) /\ Len(t) = Len(s) /\ Distinct(t)
<1> DEFINE places == {i \in DOMAIN s : s[i] = p}
           position == CHOOSE i \in places : \A j \in places : i <= j
<1>1. CASE places = {}
  BY <1>1 DEF Fleet!PreferredFirst
<1>2. CASE places # {}
  <2>1. PICK i \in places : TRUE
    BY <1>2
  <2>2. places = {i}
    BY <2>1 DEF Distinct
  <2>3. position = i
    <3>1. i \in places /\ \A j \in places : i <= j
      BY <2>1, <2>2
    <3>2. position \in places
      BY <3>1
    <3> QED  BY <2>2, <3>2
  <2>4. Fleet!PreferredFirst(s, p) = Fleet!ToFront(s, i)
    BY <1>2, <2>3 DEF Fleet!PreferredFirst
  <2>5. i \in 1..Len(s)
    BY <2>1
  <2> HIDE DEF places, position
  <2> DEFINE t == Fleet!ToFront(s, i)
  <2>6. t \in [1..Len(s) -> AgentSet]
    BY <2>5 DEF Fleet!ToFront
  <2>7. Distinct(t)
    BY <2>5 DEF Fleet!ToFront, Distinct
  <2> QED  BY <2>4, <2>6, <2>7
<1> QED  BY <1>1, <1>2

\* The filter, with an agent of the list done, keeps the call in order.
LEMMA FilteredOk ==
    ASSUME NEW k, CallOk(k, pending, due), k.pc \in {"health", "failover"}
    PROVE  \/ Fleet!Filtered(k) = Fleet!Idle
           \/ CallOk(Fleet!Filtered(k), pending, due)
<1> DEFINE t == Fleet!PreferredFirst(k.candidates, k.preferred)
<1>1. k \in FleetCall /\ k.candidates \in Seq(AgentSet)
  BY DEF CallOk, FleetCall, AgentLists
<1>2. CASE k.todo # {}
  <2>1. Fleet!Filtered(k) = [k EXCEPT !.pc = "health"]
    BY <1>2 DEF Fleet!Filtered
  <2>2. [k EXCEPT !.pc = "health"] \in FleetCall
    BY <1>1, FleetValues DEF FleetCall
  <2> QED  BY <1>1, <2>1, <2>2 DEF CallOk, FleetCall
<1>3. CASE k.todo = {} /\ k.candidates = << >>
  BY <1>3 DEF Fleet!Filtered
<1>4. CASE k.todo = {} /\ k.candidates # << >>
  <2> DEFINE m == [k EXCEPT !.pc = "attempt", !.candidates = t]
  <2>1. Fleet!Filtered(k) = m
    BY <1>4 DEF Fleet!Filtered
  <2>2. t \in AgentLists /\ Len(t) = Len(k.candidates) /\ Distinct(t)
    BY <1>1, PreferredDistinct DEF CallOk, AgentLists
  <2>3. Len(t) \in Nat \ {0} /\ t # << >>
    BY <1>1, <1>4, <2>2 DEF AgentLists
  <2> HIDE DEF t
  <2>4. m \in FleetCall
    BY <1>1, <2>2, FleetValues DEF FleetCall
  <2>5. /\ m.pc = "attempt" /\ m.candidates = t /\ m.at = k.at /\ m.todo = k.todo
        /\ m.vault = k.vault /\ m.blocked = k.blocked
    BY <1>1 DEF FleetCall
  <2> HIDE DEF m
  <2>6. CallOk(m, pending, due)
    BY <1>4, <2>2, <2>3, <2>4, <2>5 DEF CallOk
  <2> QED  BY <2>1, <2>6
<1> QED  BY <1>2, <1>3, <1>4

\* More keys that wait and more agents that failed leave a call in order.
LEMMA CallOkGrows ==
    ASSUME NEW k, NEW K, NEW L, NEW E, NEW F, CallOk(k, K, E), K \subseteq L, E \subseteq F
    PROVE  CallOk(k, L, F)
  BY DEF CallOk, Fleet!can_execute

\* The loop goes on to the next candidate or returns.
LEMMA NextCandidateOk ==
    ASSUME NEW k, NEW K, NEW E, CallOk(k, K, E), k.pc \notin {"health", "failover"}
    PROVE  Fleet!NextCandidate(k) = Fleet!Idle \/ CallOk(Fleet!NextCandidate(k), K, E)
<1> DEFINE m == [k EXCEPT !.pc = "attempt", !.at = @ + 1]
<1>1. k \in FleetCall /\ k.at \in 1..Len(k.candidates) /\ Len(k.candidates) \in Nat
  BY DEF CallOk, FleetCall, AgentLists
<1>2. m \in FleetCall
  BY <1>1, FleetValues DEF FleetCall
<1>3. /\ m.pc = "attempt" /\ m.candidates = k.candidates /\ m.at = k.at + 1 /\ m.todo = k.todo
      /\ m.vault = k.vault /\ m.blocked = k.blocked
  BY <1>1 DEF FleetCall
<1> HIDE DEF m
<1>4. k.at # Len(k.candidates) => CallOk(m, K, E)
  BY <1>1, <1>2, <1>3 DEF CallOk
<1> QED  BY <1>4 DEF Fleet!NextCandidate, m

\* A step of one call.
LEMMA OneCall ==
    ASSUME FleetInv, HealthInv', NEW c \in Calls, NEW m, NEW K, NEW E,
           m = Fleet!Idle \/ CallOk(m, K, E),
           calls' = [calls EXCEPT ![c] = m],
           pending' = K, due' = E, pending \subseteq K, due \subseteq E,
           failures' \in [AgentSet -> Nat], streak' = failures', Fleet!FailoverEarned'
    PROVE  FleetInv'
<1>1. m \in {Fleet!Idle} \union FleetCall
  BY DEF CallOk
<1>2. calls' \in [Calls -> {Fleet!Idle} \union FleetCall]
  BY <1>1 DEF FleetInv
<1>3. ASSUME NEW d \in Calls, calls'[d] # Fleet!Idle PROVE CallOk(calls'[d], K, E)
  <2>1. CASE d = c
    BY <1>3, <2>1 DEF FleetInv
  <2>2. CASE d # c
    <3>1. calls'[d] = calls[d] /\ CallOk(calls[d], pending, due)
      BY <1>3, <2>2 DEF FleetInv
    <3> QED  BY <3>1, CallOkGrows
  <2> QED  BY <2>1, <2>2
<1>4. ASSUME NEW d \in Calls, calls'[d] # Fleet!Idle PROVE CallOk(calls'[d], pending', due')
  BY <1>3, <1>4
<1> QED  BY <1>2, <1>4 DEF FleetInv, CallOk, Fleet!can_execute, Fleet!starts_with

\* A call that is not idle is in order.
LEMMA AtWork ==
    ASSUME FleetInv, NEW c \in Calls, calls[c].pc # "idle"
    PROVE  /\ calls[c] \in FleetCall /\ CallOk(calls[c], pending, due)
           /\ calls[c].candidates \in Seq(AgentSet)
<1>1. calls[c] # Fleet!Idle
  BY FleetValues
<1> QED  BY <1>1 DEF FleetInv, CallOk, FleetCall, AgentLists

\* Keys that leave pending_reauth free the calls whose vault may run again.
LEMMA ReleaseKeeps ==
    ASSUME FleetInv, HealthInv', NEW keys, Fleet!Release(keys), due' = due,
           failures' \in [AgentSet -> Nat], streak' = failures'
    PROVE  FleetInv'
<1> DEFINE K == pending \ keys
           freed(k) == [k EXCEPT !.blocked = FALSE]
<1>1. pending' = K /\ K \subseteq pending
  BY DEF Fleet!Release
<1>2. ASSUME NEW c \in Calls, calls[c] # Fleet!Idle
      PROVE  CallOk(calls'[c], K, due)
  <2>1. calls[c] \in FleetCall /\ CallOk(calls[c], pending, due)
    BY <1>2 DEF FleetInv, CallOk
  <2>2. CASE Fleet!can_execute(calls[c].vault, K)
    <3> DEFINE m == freed(calls[c])
    <3>1. calls'[c] = m
      BY <1>1, <1>2, <2>2 DEF Fleet!Release
    <3>2. m \in FleetCall
      BY <2>1, FleetValues DEF FleetCall
    <3>3. /\ m.pc = calls[c].pc /\ m.candidates = calls[c].candidates /\ m.at = calls[c].at
          /\ m.todo = calls[c].todo /\ m.vault = calls[c].vault /\ ~ m.blocked
      BY <2>1 DEF FleetCall
    <3> HIDE DEF m
    <3> QED  BY <2>1, <3>1, <3>2, <3>3 DEF CallOk
  <2>3. CASE ~ Fleet!can_execute(calls[c].vault, K)
    <3>1. calls'[c] = calls[c]
      BY <1>1, <1>2, <2>3 DEF Fleet!Release
    <3> QED  BY <2>1, <2>3, <3>1 DEF CallOk
  <2> QED  BY <2>2, <2>3
<1>3. ASSUME NEW c \in Calls, calls[c] = Fleet!Idle PROVE calls'[c] = Fleet!Idle
  BY <1>3 DEF Fleet!Release
<1>4. calls' \in [Calls -> {Fleet!Idle} \union FleetCall]
  <2>1. \A c \in Calls : calls'[c] \in {Fleet!Idle} \union FleetCall
    BY <1>2, <1>3 DEF CallOk
  <2>2. DOMAIN calls' = Calls /\ calls' = [c \in DOMAIN calls' |-> calls'[c]]
    BY DEF Fleet!Release
  <2> QED  BY <2>1, <2>2
<1>5. ASSUME NEW c \in Calls, calls'[c] # Fleet!Idle PROVE CallOk(calls'[c], pending', due')
  BY <1>1, <1>2, <1>3, <1>5
<1>6. Fleet!FailoverEarned'
  BY <1>1 DEF FleetInv, Fleet!FailoverEarned, Fleet!ends_with
<1> QED  BY <1>4, <1>5, <1>6 DEF FleetInv, CallOk, Fleet!can_execute, Fleet!starts_with

\* What the steps of a call that only moves on leave alone.
OnlyCalls == UNCHANGED <<failures, pending, streak, due>>

\* A step that only moves one call on keeps the invariant, if the call it leaves
\* is one the invariant allows.
LEMMA OnlyCall ==
    ASSUME FleetInv, HealthInv', OnlyCalls, NEW c \in Calls, NEW m,
           m = Fleet!Idle \/ CallOk(m, pending, due), calls' = [calls EXCEPT ![c] = m]
    PROVE  FleetInv'
<1>1. Fleet!FailoverEarned' /\ failures' \in [AgentSet -> Nat] /\ streak' = failures'
      /\ pending' = pending /\ due' = due
  BY DEF FleetInv, OnlyCalls, Fleet!FailoverEarned, Fleet!ends_with
<1> QED  BY <1>1, OneCall

\* A call starts with every active agent to be looked at.
LEMMA ListKeeps ==
    ASSUME FleetInv, HealthInv', NEW c \in Calls, NEW v \in Vaults, NEW p \in Preferences,
           Fleet!List(c, v, p)
    PROVE  FleetInv'
<1> DEFINE T == {i \in DOMAIN Agents : directory[Agents[i]] = "active"}
           b == ~ Fleet!can_execute(v, pending)
           m == [pc |-> "health", vault |-> v, preferred |-> p, at |-> 1, candidates |-> << >>,
                 todo |-> T, blocked |-> b]
<1>1. calls' = [calls EXCEPT ![c] = m] /\ OnlyCalls
  BY DEF Fleet!List, OnlyCalls
<1>2. T \in SUBSET DOMAIN Agents /\ b \in Flag
  BY DEF Flag
<1> HIDE DEF T
<1>3. m \in FleetCall
  BY <1>2, FleetValues DEF FleetCall
<1>4. m.pc = "health" /\ m.candidates = << >> /\ m.at = 1 /\ m.vault = v /\ m.blocked = b
  OBVIOUS
<1> HIDE DEF m
<1>5. Fleet!can_execute(m.vault, pending) => ~ m.blocked
  BY <1>4, Zenon
<1>6. DOMAIN m.candidates = {}
  BY <1>4
<1>7. CallOk(m, pending, due)
  <2> HIDE DEF b
  <2> QED  BY <1>3, <1>4, <1>5, <1>6 DEF CallOk, Distinct
<1> QED  BY <1>1, <1>7, OnlyCall

\* An agent that is not healthy leaves the list.
LEMMA CheckHealthKeeps ==
    ASSUME FleetInv, HealthInv', NEW c \in Calls, Fleet!CheckHealth(c)
    PROVE  FleetInv'
<1> DEFINE k == calls[c]
<1>1. k.pc = "health" /\ OnlyCalls
  BY DEF Fleet!CheckHealth, OnlyCalls
<1>2. k \in FleetCall /\ CallOk(k, pending, due)
  BY <1>1, AtWork
<1>3. CASE calls' = [calls EXCEPT ![c] = Fleet!Filtered(k)]
  BY <1>1, <1>2, <1>3, FilteredOk, OnlyCall
<1>4. ASSUME NEW i \in k.todo,
             calls' = [calls EXCEPT ![c] =
               IF Fleet!is_healthy(health[Agents[i]]) THEN [k EXCEPT !.pc = "failover"]
               ELSE Fleet!Filtered([k EXCEPT !.todo = @ \ {i}])]
      PROVE  FleetInv'
  <2> DEFINE f == [k EXCEPT !.pc = "failover"]
             m == [k EXCEPT !.todo = @ \ {i}]
  <2>1. f \in FleetCall /\ m \in FleetCall
    BY <1>2, FleetValues DEF FleetCall
  <2>2. /\ f.pc = "failover" /\ f.candidates = k.candidates /\ f.at = k.at /\ f.todo = k.todo
        /\ f.vault = k.vault /\ f.blocked = k.blocked
        /\ m.pc = k.pc /\ m.candidates = k.candidates /\ m.at = k.at /\ m.todo = k.todo \ {i}
        /\ m.vault = k.vault /\ m.blocked = k.blocked
    BY <1>2 DEF FleetCall
  <2>3. calls' = [calls EXCEPT ![c] = f] \/ calls' = [calls EXCEPT ![c] = Fleet!Filtered(m)]
    BY <1>4
  <2> HIDE DEF f, m, k
  <2>4. CallOk(f, pending, due) /\ CallOk(m, pending, due)
    BY <1>1, <1>2, <2>1, <2>2 DEF CallOk
  <2> QED  BY <1>1, <2>2, <2>3, <2>4, FilteredOk, OnlyCall
<1> QED  BY <1>3, <1>4 DEF Fleet!CheckHealth

\* An agent becomes a candidate only while the vault may run.
LEMMA CheckFailoverKeeps ==
    ASSUME FleetConstants, FleetInv, HealthInv', NEW c \in Calls, Fleet!CheckFailover(c)
    PROVE  FleetInv'
<1> DEFINE k == calls[c]
<1>1. k.pc = "failover" /\ OnlyCalls
  BY DEF Fleet!CheckFailover, OnlyCalls
<1>2. k \in FleetCall /\ CallOk(k, pending, due) /\ k.candidates \in Seq(AgentSet)
      /\ k.todo \subseteq DOMAIN Agents
  BY <1>1, AtWork DEF FleetCall
<1>3. PICK i \in k.todo : calls' = [calls EXCEPT ![c] =
            Fleet!Filtered([k EXCEPT !.todo = @ \ {i},
                                     !.candidates = IF Fleet!Runnable(k.vault, Agents[i])
                                                    THEN Append(@, Agents[i]) ELSE @])]
  BY DEF Fleet!CheckFailover
<1> DEFINE s == IF Fleet!Runnable(k.vault, Agents[i]) THEN Append(k.candidates, Agents[i])
                ELSE k.candidates
           m == [k EXCEPT !.todo = @ \ {i}, !.candidates = s]
<1>4. calls' = [calls EXCEPT ![c] = Fleet!Filtered(m)]
  BY <1>3
<1>5. Agents[i] \in AgentSet
  BY <1>2 DEF AgentSet, Fleet!AgentSet
<1>6. s \in AgentLists /\ s \in Seq(AgentSet)
  BY <1>2, <1>5 DEF AgentLists
<1>7. s # << >> => ~ k.blocked
  BY <1>2 DEF CallOk, Fleet!Runnable
<1>8. Distinct(s) /\ \A j \in DOMAIN s, n \in k.todo \ {i} : s[j] # Agents[n]
  <2>1. CASE s = k.candidates
    BY <1>2, <2>1 DEF CallOk
  <2>2. CASE s = Append(k.candidates, Agents[i])
    <3>1. ASSUME NEW n \in k.todo \ {i} PROVE Agents[n] # Agents[i]
      BY <1>2 DEF FleetConstants
    <3>2. /\ \A j \in DOMAIN k.candidates : k.candidates[j] # Agents[i]
          /\ \A j \in DOMAIN k.candidates, n \in k.todo : k.candidates[j] # Agents[n]
          /\ Distinct(k.candidates)
      BY <1>2 DEF CallOk
    <3>3. ASSUME NEW j \in DOMAIN s
          PROVE  \/ j \in DOMAIN k.candidates /\ s[j] = k.candidates[j]
                 \/ j = Len(k.candidates) + 1 /\ s[j] = Agents[i]
      BY <1>2, <1>5, <2>2
    <3> QED  BY <3>1, <3>2, <3>3 DEF Distinct
  <2> QED  BY <2>1, <2>2
<1> HIDE DEF s
<1>9. m \in FleetCall
  BY <1>2, <1>6 DEF FleetCall
<1>10. /\ m.pc = k.pc /\ m.candidates = s /\ m.at = k.at /\ m.todo = k.todo \ {i}
       /\ m.vault = k.vault /\ m.blocked = k.blocked
  BY <1>2 DEF FleetCall
<1> HIDE DEF m, k
<1>11. CallOk(m, pending, due)
  BY <1>1, <1>2, <1>7, <1>8, <1>9, <1>10 DEF CallOk
<1> QED  BY <1>1, <1>4, <1>10, <1>11, FilteredOk, OnlyCall

\* A key for one vault and agent ends with no other agent of one part.
LEMMA KeyEndsOnce ==
    ASSUME FleetConstants, NEW v \in Vaults, NEW a \in AgentSet, NEW b \in AgentSet, a # b
    PROVE  ~ Fleet!ends_with(v \o b, a)
<1>1. PICK x, y : a = <<x>> /\ b = <<y>>
  BY DEF FleetConstants, AgentSet, Fleet!AgentSet
<1>2. PICK S : v \in Seq(S)
  BY DEF FleetConstants
<1> DEFINE n == Len(v)
           key == v \o <<y>>
<1>3. n \in Nat /\ Len(key) = n + 1 /\ key[n + 1] = y /\ x # y
  BY <1>1, <1>2
<1>4. Len(<<x>>) = 1 /\ 1 \in 1..1 /\ <<x>>[1] = x /\ (n + 1) - 1 + 1 = n + 1
  BY <1>3
<1> HIDE DEF key, n
<1>5. ~ Fleet!ends_with(key, <<x>>)
  BY <1>3, <1>4 DEF Fleet!ends_with
<1> QED  BY <1>1, <1>5 DEF key

\* The agent a call is at.
LEMMA CurrentAgent ==
    ASSUME FleetInv, NEW c \in Calls, calls[c].pc \notin {"idle", "health", "failover"}
    PROVE  /\ calls[c] \in FleetCall /\ CallOk(calls[c], pending, due)
           /\ calls[c].at \in 1..Len(calls[c].candidates)
           /\ Len(calls[c].candidates) \in Nat
           /\ Fleet!Current(calls[c]) \in AgentSet
           /\ \A i \in 1..Len(calls[c].candidates) : calls[c].candidates[i] \in AgentSet
  BY AtWork DEF CallOk, Fleet!Current

\* The executor answers, or the caller goes away.
LEMMA AttemptKeeps ==
    ASSUME FleetInv, HealthInv', NEW c \in Calls, Fleet!Attempt(c) \/ Fleet!DropCall(c)
    PROVE  FleetInv'
<1> DEFINE k == calls[c]
<1>1. k.pc = "attempt" /\ OnlyCalls
  BY DEF Fleet!Attempt, Fleet!DropCall, OnlyCalls
<1>2. k \in FleetCall /\ CallOk(k, pending, due)
  BY <1>1, CurrentAgent
<1>3. CASE calls' = [calls EXCEPT ![c] = Fleet!Idle]
  BY <1>1, <1>3, OnlyCall
<1>4. ASSUME NEW p \in {"success", "failure"}, calls' = [calls EXCEPT ![c].pc = p]
      PROVE  FleetInv'
  <2> DEFINE m == [k EXCEPT !.pc = p]
  <2>1. m \in FleetCall
    BY <1>2, FleetValues DEF FleetCall
  <2>2. /\ m.pc = p /\ m.candidates = k.candidates /\ m.at = k.at /\ m.todo = k.todo
        /\ m.vault = k.vault /\ m.blocked = k.blocked
    BY <1>2 DEF FleetCall
  <2>3. calls' = [calls EXCEPT ![c] = m]
    BY <1>4
  <2> HIDE DEF m, k
  <2>4. CallOk(m, pending, due)
    BY <1>1, <1>2, <1>4, <2>1, <2>2 DEF CallOk
  <2> QED  BY <1>1, <2>3, <2>4, OnlyCall
<1> QED  BY <1>3, <1>4 DEF Fleet!Attempt, Fleet!DropCall

\* A success ends the streak and the count alike.
LEMMA RecordSuccessKeeps ==
    ASSUME FleetInv, HealthInv', NEW c \in Calls, Fleet!RecordSuccess(c)
    PROVE  FleetInv'
<1>1. calls[c].pc = "success" /\ calls' = [calls EXCEPT ![c] = Fleet!Idle] /\ pending' = pending
      /\ due' = due
  BY DEF Fleet!RecordSuccess
<1>2. failures' \in [AgentSet -> Nat] /\ streak' = failures'
  BY <1>1, CurrentAgent DEF FleetInv, Fleet!RecordSuccess, Fleet!CountAfterSuccess
<1>3. Fleet!FailoverEarned'
  BY <1>1 DEF FleetInv, Fleet!FailoverEarned, Fleet!ends_with
<1> QED  BY <1>1, <1>2, <1>3, OneCall

\* A failure that triggers a failover makes the agent one that failed often
\* enough.
LEMMA AttemptFailedKeeps ==
    ASSUME FleetInv, HealthInv', NEW c \in Calls, Fleet!RecordFailure(c)
    PROVE  FleetInv'
<1> DEFINE k == calls[c]
           a == Fleet!Current(k)
           m == IF failures[a] + 1 >= FailureThreshold /\ k.at < Len(k.candidates)
                THEN [k EXCEPT !.pc = "initiate"] ELSE Fleet!NextCandidate(k)
<1>1. /\ k.pc = "failure" /\ calls' = [calls EXCEPT ![c] = m] /\ pending' = pending
      /\ failures' = [failures EXCEPT ![a] = @ + 1] /\ streak' = [streak EXCEPT ![a] = @ + 1]
      /\ due' = IF streak[a] + 1 >= FailureThreshold THEN due \union {a} ELSE due
  BY DEF Fleet!RecordFailure
<1>2. k \in FleetCall /\ CallOk(k, pending, due) /\ a \in AgentSet
  BY <1>1, CurrentAgent
<1>3. due \subseteq due' /\ failures' \in [AgentSet -> Nat] /\ streak' = failures'
  BY <1>1, <1>2 DEF FleetInv
<1>4. Fleet!FailoverEarned'
  BY <1>1, <1>3 DEF FleetInv, Fleet!FailoverEarned, Fleet!ends_with
<1>5. CallOk(k, pending, due')
  BY <1>2, <1>3, CallOkGrows
<1>6. m = Fleet!Idle \/ CallOk(m, pending, due')
  <2>1. CASE failures[a] + 1 >= FailureThreshold /\ k.at < Len(k.candidates)
    <3> DEFINE f == [k EXCEPT !.pc = "initiate"]
    <3>1. f \in FleetCall
      BY <1>2, FleetValues DEF FleetCall
    <3>2. /\ f.pc = "initiate" /\ f.candidates = k.candidates /\ f.at = k.at /\ f.todo = k.todo
          /\ f.vault = k.vault /\ f.blocked = k.blocked
      BY <1>2 DEF FleetCall
    <3>3. k.candidates[k.at] \in due'
      BY <1>1, <2>1 DEF FleetInv, Fleet!Current
    <3>4. m = f
      BY <2>1
    <3> HIDE DEF f, m, k
    <3>5. CallOk(f, pending, due')
      BY <1>1, <1>5, <2>1, <3>1, <3>2, <3>3 DEF CallOk
    <3> QED  BY <3>4, <3>5
  <2>2. CASE ~(failures[a] + 1 >= FailureThreshold /\ k.at < Len(k.candidates))
    <3>1. m = Fleet!NextCandidate(k)
      BY <2>2
    <3> HIDE DEF m, k
    <3> QED  BY <1>1, <1>5, <3>1, NextCandidateOk
  <2> QED  BY <2>1, <2>2
<1> HIDE DEF m
<1> QED  BY <1>1, <1>3, <1>4, <1>6, OneCall

\* A failover names the next candidate, which is not the agent that failed.
LEMMA InitiateKeeps ==
    ASSUME FleetConstants, FleetInv, HealthInv', NEW c \in Calls, Fleet!InitiateFailover(c)
    PROVE  FleetInv'
<1> DEFINE k == calls[c]
           a == k.candidates[k.at]
           b == k.candidates[k.at + 1]
           key == k.vault \o b
           m == Fleet!NextCandidate(k)
<1>1. /\ k.pc = "initiate" /\ calls' = [calls EXCEPT ![c] = m]
      /\ pending' = pending \union {key} /\ UNCHANGED <<failures, streak, due>>
  BY DEF Fleet!InitiateFailover
<1>2. /\ k \in FleetCall /\ CallOk(k, pending, due) /\ k.at \in 1..Len(k.candidates)
      /\ Len(k.candidates) \in Nat
      /\ \A i \in 1..Len(k.candidates) : k.candidates[i] \in AgentSet
  BY <1>1, CurrentAgent
<1>3. k.at < Len(k.candidates) /\ a \in due /\ Distinct(k.candidates)
  BY <1>1, <1>2 DEF CallOk
<1>4. k.at + 1 \in 1..Len(k.candidates) /\ k.at + 1 # k.at
  BY <1>2, <1>3
<1>5. a \in AgentSet /\ b \in AgentSet /\ a # b /\ k.vault \in Vaults
  <2>1. DOMAIN k.candidates = 1..Len(k.candidates)
    BY <1>1, AtWork
  <2> QED  BY <1>2, <1>3, <1>4, <2>1 DEF Distinct, FleetCall
<1>6. ~ Fleet!ends_with(key, a)
  BY <1>5, KeyEndsOnce
<1> HIDE DEF key, a, b, k, m
<1>7. Fleet!FailoverEarned'
  <2>1. \A q \in pending' : \E x \in due' : ~ Fleet!ends_with(q, x)
    BY <1>1, <1>3, <1>6 DEF FleetInv, Fleet!FailoverEarned
  <2> QED  BY <2>1 DEF Fleet!FailoverEarned, Fleet!ends_with
<1>8. CallOk(k, pending', due')
  BY <1>1, <1>2, CallOkGrows
<1>9. m = Fleet!Idle \/ CallOk(m, pending', due')
  BY <1>1, <1>8, NextCandidateOk DEF m
<1>10. pending \subseteq pending' /\ due \subseteq due' /\ failures' \in [AgentSet -> Nat]
       /\ streak' = failures'
  BY <1>1 DEF FleetInv
<1> QED  BY <1>1, <1>7, <1>9, <1>10, OneCall

\* Every step of the administration and of a call.
LEMMA FleetStep ==
    FleetConstants /\ FleetInv /\ [Fleet!Next]_(Fleet!vars) => FleetInv'
<1> SUFFICES ASSUME FleetConstants, FleetInv, [Fleet!Next]_(Fleet!vars) PROVE FleetInv'
  OBVIOUS
<1>0. HealthInv'
  BY HealthStep DEF FleetInv
<1>1. CASE UNCHANGED <<failures, pending, calls, streak, due>>
  BY <1>0, <1>1 DEF FleetInv, CallOk, Fleet!can_execute, Fleet!starts_with,
     Fleet!FailoverEarned, Fleet!ends_with
<1>2. ASSUME NEW a \in AgentSet,
             \/ Fleet!RegisterDirectory(a) \/ Fleet!RegisterHealth(a)
             \/ Fleet!UnregisterDirectory(a) \/ Fleet!UnregisterHealth(a)
             \/ Fleet!Revoke(a) \/ Fleet!SelfReport(a)
             \/ \E peer \in AgentSet : Fleet!PeerAttestation(a, peer)
      PROVE  FleetInv'
  <2>1. UNCHANGED <<failures, pending, calls, streak, due>>
    BY <1>2 DEF Fleet!RegisterDirectory, Fleet!RegisterHealth, Fleet!UnregisterDirectory,
       Fleet!UnregisterHealth, Fleet!Revoke, Fleet!SelfReport, Fleet!PeerAttestation
  <2> QED  BY <1>1, <2>1
<1>3. ASSUME NEW a \in AgentSet, Fleet!UnregisterFailover(a) PROVE FleetInv'
  <2>1. failures' \in [AgentSet -> Nat] /\ streak' = failures' /\ due' = due
    BY <1>3 DEF Fleet!UnregisterFailover, FleetInv
  <2> QED  BY <1>0, <1>3, <2>1, ReleaseKeeps DEF Fleet!UnregisterFailover
<1>4. ASSUME NEW v \in Vaults, Fleet!ConfirmReauth(v) PROVE FleetInv'
  <2>1. failures' \in [AgentSet -> Nat] /\ streak' = failures' /\ due' = due
    BY <1>4 DEF Fleet!ConfirmReauth, FleetInv
  <2> QED  BY <1>0, <1>4, <2>1, ReleaseKeeps DEF Fleet!ConfirmReauth
<1>5. ASSUME NEW c \in Calls, NEW v \in Vaults, NEW p \in Preferences, Fleet!List(c, v, p)
      PROVE  FleetInv'
  BY <1>0, <1>5, ListKeeps
<1>6. ASSUME NEW c \in Calls,
             \/ Fleet!CheckHealth(c) \/ Fleet!CheckFailover(c) \/ Fleet!Attempt(c)
             \/ Fleet!DropCall(c)
      PROVE  FleetInv'
  BY <1>0, <1>6, CheckHealthKeeps, CheckFailoverKeeps, AttemptKeeps
<1>7. ASSUME NEW c \in Calls,
             Fleet!RecordSuccess(c) \/ Fleet!RecordFailure(c) \/ Fleet!InitiateFailover(c)
      PROVE  FleetInv'
  BY <1>0, <1>7, RecordSuccessKeeps, AttemptFailedKeeps, InitiateKeeps
<1>8. CASE UNCHANGED Fleet!vars
  BY <1>1, <1>8 DEF Fleet!vars
<1> QED
  BY <1>2, <1>3, <1>4, <1>5, <1>6, <1>7, <1>8 DEF Fleet!Next, AgentSet

\* What the fleet does to an agent or a vault is earned: health rests on
\* reports since the agent was registered, a vault that waits for
\* re-authorisation runs nothing, and a failover needs failures in a row.
FleetActsEarned == Fleet!HealthEarned /\ Fleet!BlockedVaultWaits /\ Fleet!FailoverEarned

\* For any list of agents and any vaults whose keys do not contain the colon
\* that separates the parts of a key, an agent is healthy only on its own word
\* and enough others', a vault waiting for re-authorisation starts nothing, and
\* a failover follows as many failures in a row as the threshold asks for.
THEOREM FleetEarnsActs == FleetConstants /\ Fleet!Spec => []FleetActsEarned
<1>1. Fleet!Init => FleetInv
  <2> SUFFICES ASSUME Fleet!Init PROVE FleetInv
    OBVIOUS
  <2>1. HealthInv
    BY StatusValues DEF Fleet!Init, HealthInv, AgentSet
  <2>2. failures \in [AgentSet -> Nat] /\ streak = failures
    BY DEF Fleet!Init, AgentSet
  <2> QED  BY <2>1, <2>2 DEF Fleet!Init, FleetInv, Fleet!FailoverEarned
<1>2. FleetConstants => FleetConstants'
  BY DEF FleetConstants
<1>3. ASSUME FleetInv PROVE FleetActsEarned
  <2>1. Fleet!HealthEarned
    <3> SUFFICES ASSUME NEW a \in AgentSet, Fleet!is_healthy(health[a])
                 PROVE  /\ a \in reports[a]
                        /\ Fleet!Cardinality(reports[a] \ {a}) >= health[a].threshold
      BY DEF Fleet!HealthEarned, AgentSet
    <3> QED  BY <1>3 DEF FleetInv, HealthInv, Fleet!is_healthy
  <2>2. Fleet!BlockedVaultWaits
    <3> SUFFICES ASSUME NEW c \in Calls, calls[c].pc \notin {"idle", "health", "failover"}
                 PROVE  ~ calls[c].blocked
      BY DEF Fleet!BlockedVaultWaits
    <3>1. CallOk(calls[c], pending, due) /\ calls[c].at \in 1..Len(calls[c].candidates)
      BY <1>3, CurrentAgent
    <3>2. calls[c].candidates # << >>
      BY <3>1
    <3> QED  BY <3>1, <3>2 DEF CallOk
  <2> QED  BY <1>3, <2>1, <2>2 DEF FleetActsEarned, FleetInv
<1> QED  BY <1>1, <1>2, <1>3, FleetStep, PTL DEF Fleet!Spec

-----------------------------------------------------------------------------
(* Service discovery: service_discovery.rs *)

INSTANCE WellFoundedInduction

\* Induction over the naturals, for a set.
LEMMA NatSet ==
    ASSUME NEW S, 0 \in S, \A n \in S : n \in Nat => n + 1 \in S
    PROVE  Nat \subseteq S
<1> DEFINE T == Nat \ S
           R == OpToRel(<, Nat)
<1> SUFFICES ASSUME T # {} PROVE FALSE
  OBVIOUS
<1>1. IsWellFoundedOn(R, Nat)
  BY NatLessThanWellFounded
<1>2. T \subseteq Nat
  OBVIOUS
<1> HIDE DEF T, R
<1>3. PICK x \in T : \A y \in T : ~(<<y, x>> \in R)
  BY <1>1, <1>2, WFMin
<1>4. \A m, n \in Nat : <<m, n>> \in R <=> m < n
  BY DEF R, OpToRel
<1>5. x \in Nat /\ x \notin S
  BY DEF T
<1>6. x # 0
  BY <1>5
<1>7. x - 1 \in Nat /\ x - 1 < x
  BY <1>5, <1>6
<1>8. x - 1 \notin T
  BY <1>3, <1>4, <1>5, <1>7
<1>9. x - 1 \in S
  BY <1>7, <1>8 DEF T
<1>10. (x - 1) + 1 \in S
  BY <1>7, <1>9
<1> QED  BY <1>5, <1>10

\* f, on 0..N with values in V, starts at v and goes on by the step g.
Iterates(f, N, V, v, g) ==
    /\ f \in [0..N -> V] /\ f[0] = v
    /\ \A m \in 1..N : f[m] = g[m][f[m - 1]]

\* There is such a function.
LEMMA Recursion ==
    ASSUME NEW V, NEW v \in V, NEW g \in [Nat -> [V -> V]], NEW N \in Nat
    PROVE  \E f : Iterates(f, N, V, v, g)
<1> DEFINE Good(n, f) == Iterates(f, n, V, v, g)
           S == {n \in Nat : \E f : Good(n, f)}
<1>1. 0 \in S
  <2>1. Good(0, [m \in 0..0 |-> v])
    BY DEF Iterates
  <2> QED  BY <2>1
<1>2. ASSUME NEW n \in S PROVE n + 1 \in S
  <2>1. PICK f : Good(n, f)
    BY <1>2
  <2> DEFINE h == [m \in 0..n + 1 |-> IF m = n + 1 THEN g[n + 1][f[n]] ELSE f[m]]
  <2>2. h \in [0..n + 1 -> V]
    BY <2>1 DEF Iterates
  <2>3. h[0] = v
    BY <2>1 DEF Iterates
  <2>4. ASSUME NEW m \in 1..n + 1 PROVE h[m] = g[m][h[m - 1]]
    <3>1. CASE m = n + 1
      BY <3>1
    <3>2. CASE m \in 1..n
      BY <2>1, <3>2 DEF Iterates
    <3> QED  BY <3>1, <3>2
  <2>5. Good(n + 1, h)
    BY <2>2, <2>3, <2>4 DEF Iterates
  <2> HIDE DEF h, Good
  <2> QED  BY <2>5
<1> HIDE DEF S
<1>3. N \in S
  BY <1>1, <1>2, NatSet
<1> QED  BY <1>3 DEF S

-----------------------------------------------------------------------------

CONSTANTS Instances, Callers, Threshold, ResetTimeout, Ttl, CursorWrap, Never, MaxTime

VARIABLES clock, entries, healthy, cache, breaker, callers, wasHealthy, letThrough

Discovery == INSTANCE ServiceDiscovery WITH None <- Never

DiscoveryConstants == Never \notin Int /\ Ttl \in Nat /\ CursorWrap \in Nat \ {0}

BreakerState == {"Closed", "Open", "HalfOpen"}

Breaker == [state : BreakerState, failure_count : Nat, last_failure : Nat \union {Never}]

Cached == [instances : Seq(Instances), fetched_at : Nat, rr_cursor : Nat]

CallerState ==
    {Discovery!Idle, [pc |-> "allowed"]}
        \union [pc : {"calling"}, at : Nat, instance : Instances]

\* When an instance was last known to be healthy is known and not before t.
HealthySince(i, t) == wasHealthy[i] # Never /\ t <= wasHealthy[i]

RegistryInv ==
    /\ clock \in Nat /\ entries \in Seq(Instances) /\ healthy \subseteq Instances
    /\ wasHealthy \in [Instances -> Nat \union {Never}]
    /\ \A i \in healthy : wasHealthy[i] = clock
    /\ \A i \in Instances : wasHealthy[i] # Never => wasHealthy[i] <= clock

\* The instances of a cached list were healthy when it was fetched.
CacheInv(e) ==
    /\ e \in Cached /\ e.fetched_at <= clock
    /\ \A k \in DOMAIN e.instances : HealthySince(e.instances[k], e.fetched_at)

DiscoveryInv ==
    /\ RegistryInv
    /\ cache # Never => CacheInv(cache)
    /\ callers \in [Callers -> CallerState]
    /\ \A c \in Callers : callers[c].pc = "calling" =>
          HealthySince(callers[c].instance, callers[c].at - Ttl)
    /\ breaker \in Breaker /\ letThrough \in Nat
    /\ Discovery!OneProbe

\* resolve lists instances that are registered and healthy now, whatever the
\* number of entries: the list of the first n is built by a loop over them.
LEMMA ResolvedHealthy ==
    ASSUME entries \in Seq(Instances), healthy \subseteq Instances
    PROVE  Discovery!Resolved \in Seq(healthy)
<1> DEFINE N == Len(entries)
           g == [n \in Nat |-> [s \in Seq(healthy) |->
                    IF n \in 1..N /\ entries[n] \in healthy THEN Append(s, entries[n]) ELSE s]]
           F(f) == [n \in 0..N |-> IF n = 0 THEN <<>> ELSE
                     IF entries[n] \in healthy THEN Append(f[n - 1], entries[n]) ELSE f[n - 1]]
           r == Discovery!Resolving
           V == Seq(healthy)
           v == << >>
<1>1. N \in Nat /\ v \in V /\ g \in [Nat -> [V -> V]]
  OBVIOUS
<1> HIDE DEF N, g, V, v
<1>2. PICK f : Iterates(f, N, V, v, g)
  BY <1>1, Recursion
<1>3. f = F(f)
  <2>1. ASSUME NEW n \in 0..N PROVE f[n] = F(f)[n]
    <3>1. CASE n = 0
      BY <1>2, <3>1 DEF v, Iterates
    <3>2. CASE n \in 1..N
      <4>1. f[n] = g[n][f[n - 1]] /\ f[n - 1] \in V
        BY <1>1, <1>2, <3>2 DEF Iterates
      <4> QED  BY <1>1, <3>2, <4>1 DEF g, V
    <3> QED  BY <1>1, <3>1, <3>2
  <2> QED  BY <1>2, <2>1 DEF Iterates
<1>4. r = F(r)
  BY <1>3 DEF Discovery!Resolving, N
<1> DEFINE S == {n \in Nat : n <= N => r[n] \in V}
<1> HIDE DEF r, F
<1>5. 0 \in S
  <2>1. r[0] = F(r)[0]
    BY <1>4
  <2>2. r[0] = v
    BY <1>1, <2>1 DEF F, v
  <2> QED  BY <1>1, <2>2
<1>6. ASSUME NEW n \in S PROVE n + 1 \in S
  <2>1. CASE n + 1 <= N
    <3>1. r[n] \in V
      BY <1>1, <1>6, <2>1
    <3>2. r[n + 1] = F(r)[n + 1]
      BY <1>4
    <3>3. n + 1 \in 1..N /\ (n + 1) - 1 = n
      BY <1>1, <1>6, <2>1
    <3>4. r[n + 1] = IF entries[n + 1] \in healthy THEN Append(r[n], entries[n + 1]) ELSE r[n]
      BY <1>1, <3>2, <3>3 DEF F
    <3>5. r[n + 1] \in V
      BY <3>1, <3>4 DEF V
    <3> QED  BY <1>6, <3>5
  <2>2. CASE ~(n + 1 <= N)
    BY <1>6, <2>2
  <2> QED  BY <2>1, <2>2
<1> HIDE DEF S
<1>7. N \in S
  BY <1>1, <1>5, <1>6, NatSet
<1> QED  BY <1>1, <1>7 DEF N, S, V, r, Discovery!Resolved

\* The clock, a registration and a deregistration keep the history of health in
\* order, and what was known of an instance stays known.
LEMMA RegistryStep ==
    ASSUME DiscoveryConstants, DiscoveryInv,
           Discovery!Tick \/ \E i \in Instances : Discovery!Register(i) \/ Discovery!Deregister(i)
    PROVE  /\ RegistryInv'
           /\ \A i \in Instances, t \in Int : HealthySince(i, t) => HealthySince(i, t)'
<1> USE DEF DiscoveryConstants, DiscoveryInv, RegistryInv, HealthySince
<1>1. CASE Discovery!Tick
  BY <1>1 DEF Discovery!Tick, Discovery!Seen
<1>2. ASSUME NEW i \in Instances, Discovery!Register(i)
      PROVE  /\ RegistryInv'
             /\ \A j \in Instances, t \in Int : HealthySince(j, t) => HealthySince(j, t)'
  BY <1>2 DEF Discovery!Register, Discovery!Seen
<1>3. ASSUME NEW i \in Instances, Discovery!Deregister(i)
      PROVE  /\ RegistryInv'
             /\ \A j \in Instances, t \in Int : HealthySince(j, t) => HealthySince(j, t)'
  BY <1>3 DEF Discovery!Deregister
<1> QED  BY <1>1, <1>2, <1>3

\* What callers and the cache rest on outlives those three steps.
LEMMA RegistryKeeps ==
    ASSUME DiscoveryConstants, DiscoveryInv,
           Discovery!Tick \/ \E i \in Instances : Discovery!Register(i) \/ Discovery!Deregister(i)
    PROVE  DiscoveryInv'
<1>1. /\ RegistryInv'
      /\ \A i \in Instances, t \in Int : HealthySince(i, t) => HealthySince(i, t)'
  BY RegistryStep
<1>2. UNCHANGED <<cache, breaker, callers, letThrough>> /\ clock \in Nat /\ clock' \in Nat
      /\ clock <= clock'
  BY DEF DiscoveryInv, RegistryInv, Discovery!Tick, Discovery!Register, Discovery!Deregister
<1>3. cache' # Never => CacheInv(cache)'
  BY <1>1, <1>2 DEF DiscoveryInv, CacheInv, Cached
<1>4. ASSUME NEW c \in Callers, callers[c].pc = "calling"
      PROVE  callers[c].instance \in Instances /\ callers[c].at - Ttl \in Int
  BY <1>4 DEF DiscoveryInv, DiscoveryConstants, CallerState, Discovery!Idle
<1> QED
  BY <1>1, <1>2, <1>3, <1>4 DEF DiscoveryInv, Discovery!OneProbe

\* A failure report counts, and starts the count of probes again when it opens
\* the breaker.
LEMMA RecordFailureKeeps ==
    ASSUME DiscoveryInv, Discovery!RecordFailure
    PROVE  breaker' \in Breaker /\ letThrough' \in Nat /\ Discovery!OneProbe'
<1>1. breaker \in Breaker /\ clock \in Nat /\ letThrough \in Nat
  BY DEF DiscoveryInv, RegistryInv
<1>2. breaker' = Discovery!Failed(breaker)
  BY DEF Discovery!RecordFailure
<1>3. breaker.failure_count + 1 \in Nat /\ "Open" \in BreakerState /\ breaker.state \in BreakerState
      /\ clock \in Nat \union {Never}
  BY <1>1 DEF Breaker, BreakerState
<1>4. breaker' \in Breaker
  BY <1>1, <1>2, <1>3 DEF Discovery!Failed, Breaker
<1>5. breaker'.state \in {"Open", breaker.state}
  BY <1>1, <1>2 DEF Discovery!Failed, Breaker
<1> QED
  BY <1>1, <1>4, <1>5 DEF Discovery!RecordFailure, Discovery!OneProbe, DiscoveryInv

\* The list a pick works on, cached or fetched now, is fresh: its instances were
\* healthy when it was fetched and that is within the time to live.
LEMMA RefreshedFresh ==
    ASSUME DiscoveryConstants, DiscoveryInv
    PROVE  /\ CacheInv(Discovery!Refreshed)
           /\ clock - Discovery!Refreshed.fetched_at <= Ttl
<1>1. clock \in Nat /\ Discovery!Resolved \in Seq(healthy) /\ healthy \subseteq Instances
  BY ResolvedHealthy DEF DiscoveryInv, RegistryInv
<1>2. ASSUME NEW k \in Nat
      PROVE  CacheInv(Discovery!Fetched(k)) /\ Discovery!Fetched(k).fetched_at = clock
  <2>1. Discovery!Fetched(k) \in Cached
    BY <1>1 DEF Discovery!Fetched, Cached
  <2>2. \A j \in DOMAIN Discovery!Resolved : Discovery!Resolved[j] \in healthy
    BY <1>1
  <2> QED
    BY <1>1, <2>1, <2>2 DEF Discovery!Fetched, CacheInv, HealthySince, DiscoveryInv, RegistryInv,
       DiscoveryConstants
<1>3. CASE cache = Never
  <2>1. Discovery!Refreshed = Discovery!Fetched(0)
    BY <1>3 DEF Discovery!Refreshed
  <2> QED  BY <1>1, <1>2, <2>1 DEF DiscoveryConstants
<1>4. CASE cache # Never /\ clock - cache.fetched_at > Ttl
  <2>1. Discovery!Refreshed = Discovery!Fetched(cache.rr_cursor)
    BY <1>4 DEF Discovery!Refreshed
  <2>2. cache.rr_cursor \in Nat
    BY <1>4 DEF DiscoveryInv, CacheInv, Cached
  <2> QED  BY <1>1, <1>2, <2>1, <2>2 DEF DiscoveryConstants
<1>5. CASE cache # Never /\ ~(clock - cache.fetched_at > Ttl)
  <2>1. Discovery!Refreshed = cache
    BY <1>5 DEF Discovery!Refreshed
  <2> QED  BY <1>1, <1>5, <2>1 DEF DiscoveryConstants, DiscoveryInv, CacheInv, Cached
<1> QED  BY <1>3, <1>4, <1>5

\* A pick sends the caller to an instance of that list.
LEMMA PickKeeps ==
    ASSUME DiscoveryConstants, DiscoveryInv, NEW c \in Callers, Discovery!Pick(c)
    PROVE  DiscoveryInv'
<1> DEFINE e == Discovery!Refreshed
           n == Len(e.instances)
           k == (e.rr_cursor % n) + 1
<1>1. CacheInv(e) /\ clock - e.fetched_at <= Ttl
  BY RefreshedFresh
<1>2. UNCHANGED <<clock, entries, healthy, wasHealthy>>
  BY DEF Discovery!Pick
<1>3. RegistryInv' /\ \A i, t : HealthySince(i, t)' <=> HealthySince(i, t)
  BY <1>2 DEF DiscoveryInv, RegistryInv, HealthySince
<1>4. CASE n = 0
  <2>1. cache' = e /\ Discovery!RecordFailure /\ callers' = [callers EXCEPT ![c] = Discovery!Idle]
    BY <1>4 DEF Discovery!Pick
  <2> HIDE DEF e
  <2>2. CacheInv(cache)'
    BY <1>1, <1>2, <1>3, <2>1 DEF CacheInv
  <2> QED
    BY <1>3, <2>1, <2>2, RecordFailureKeeps DEF DiscoveryInv, CallerState, Discovery!Idle
<1>5. CASE n # 0
  <2> DEFINE to == [pc |-> "calling", at |-> clock, instance |-> e.instances[k]]
  <2>1. /\ cache' = [e EXCEPT !.rr_cursor = Discovery!Advanced(@)]
        /\ callers' = [callers EXCEPT ![c] = to]
        /\ UNCHANGED <<breaker, letThrough>>
    BY <1>5 DEF Discovery!Pick
  <2> HIDE DEF e
  <2>2. e \in Cached /\ n \in Nat \ {0} /\ e.rr_cursor \in Nat /\ clock \in Nat
    BY <1>1, <1>5 DEF CacheInv, Cached, DiscoveryInv, RegistryInv
  <2>3. k \in DOMAIN e.instances /\ e.instances[k] \in Instances
    BY <2>2 DEF Cached
  <2>4. Discovery!Advanced(e.rr_cursor) \in Nat
    BY <2>2 DEF Discovery!Advanced, DiscoveryConstants
  <2>5. cache' \in Cached /\ cache'.fetched_at = e.fetched_at /\ cache'.instances = e.instances
    BY <2>1, <2>2, <2>4 DEF Cached
  <2>6. CacheInv(cache)'
    BY <1>1, <1>2, <1>3, <2>5 DEF CacheInv
  <2>7. HealthySince(e.instances[k], clock - Ttl)
    BY <1>1, <2>2, <2>3 DEF CacheInv, Cached, HealthySince, DiscoveryInv, RegistryInv,
       DiscoveryConstants
  <2> HIDE DEF k
  <2>8. callers' \in [Callers -> CallerState]
    BY <2>1, <2>2, <2>3 DEF CallerState, DiscoveryInv
  <2>9. ASSUME NEW d \in Callers, callers'[d].pc = "calling"
        PROVE  LET t == wasHealthy'[callers'[d].instance]
               IN  t # Never /\ callers'[d].at - Ttl <= t
    BY <1>2, <2>1, <2>7, <2>9 DEF DiscoveryInv, HealthySince
  <2> QED
    BY <1>3, <2>1, <2>6, <2>8, <2>9 DEF DiscoveryInv, Discovery!OneProbe, HealthySince
<1> QED  BY <1>4, <1>5

\* Every step of a caller and of the registry.
LEMMA DiscoveryStep ==
    DiscoveryConstants /\ DiscoveryInv /\ [Discovery!Next]_(Discovery!vars) => DiscoveryInv'
<1> SUFFICES ASSUME DiscoveryConstants, DiscoveryInv, [Discovery!Next]_(Discovery!vars)
             PROVE  DiscoveryInv'
  OBVIOUS
<1>1. CASE Discovery!Tick \/ \E i \in Instances : Discovery!Register(i) \/ Discovery!Deregister(i)
  BY <1>1, RegistryKeeps
<1>2. ASSUME NEW c \in Callers, Discovery!AllowRequest(c) PROVE DiscoveryInv'
  <2>1. breaker' \in Breaker /\ letThrough' \in Nat /\ Discovery!OneProbe'
    BY <1>2 DEF Discovery!AllowRequest, Discovery!Allowed, DiscoveryInv, Breaker, BreakerState,
       Discovery!OneProbe
  <2> QED
    BY <1>2, <2>1 DEF Discovery!AllowRequest, DiscoveryInv, RegistryInv, CacheInv, HealthySince,
       CallerState
<1>3. ASSUME NEW c \in Callers, Discovery!Pick(c) PROVE DiscoveryInv'
  BY <1>3, PickKeeps
<1>4. ASSUME NEW c \in Callers, Discovery!ReportSuccess(c) \/ Discovery!ReportFailure(c)
      PROVE  DiscoveryInv'
  <2>1. breaker' \in Breaker /\ letThrough' \in Nat /\ Discovery!OneProbe'
    BY <1>4, RecordFailureKeeps DEF Discovery!ReportSuccess, Discovery!ReportFailure,
       Discovery!Succeeded, Breaker, BreakerState, Discovery!OneProbe
  <2> QED
    BY <1>4, <2>1 DEF Discovery!ReportSuccess, Discovery!ReportFailure, DiscoveryInv, RegistryInv,
       CacheInv, HealthySince, CallerState, Discovery!Idle
<1>5. ASSUME NEW c \in Callers, Discovery!Forget(c) PROVE DiscoveryInv'
  BY <1>5 DEF Discovery!Forget, DiscoveryInv, RegistryInv, CacheInv, HealthySince, CallerState,
     Discovery!Idle, Discovery!OneProbe
<1>6. CASE UNCHANGED Discovery!vars
  BY <1>6 DEF Discovery!vars, DiscoveryInv, RegistryInv, CacheInv, HealthySince,
     Discovery!OneProbe
<1> QED
  BY <1>1, <1>2, <1>3, <1>4, <1>5, <1>6 DEF Discovery!Next

\* A caller is sent to an instance that was healthy within the time to live,
\* and through a half-open breaker one at a time.
CallsGuarded == Discovery!OneProbe /\ Discovery!FreshEnough

\* For any instances, callers, threshold, timeout and time to live, callers are
\* sent to instances that were healthy within the time to live, and one probe
\* at most passes a breaker that is not closed.
THEOREM DiscoveryGuardsCalls == DiscoveryConstants /\ Discovery!Spec => []CallsGuarded
<1>1. DiscoveryConstants /\ Discovery!Init => DiscoveryInv
  BY DEF DiscoveryConstants, Discovery!Init, DiscoveryInv, RegistryInv, CallerState, Breaker,
     BreakerState, Discovery!Idle, Discovery!OneProbe
<1>2. DiscoveryConstants => DiscoveryConstants'
  BY DEF DiscoveryConstants
<1>3. ASSUME DiscoveryConstants, DiscoveryInv PROVE CallsGuarded
  <2>1. ASSUME NEW c \in Callers, callers[c].pc = "calling"
        PROVE  /\ callers[c].instance \in Instances /\ callers[c].at \in Nat
               /\ HealthySince(callers[c].instance, callers[c].at - Ttl)
    BY <1>3, <2>1 DEF DiscoveryInv, CallerState, Discovery!Idle
  <2>2. Discovery!FreshEnough
    BY <1>3, <2>1 DEF Discovery!FreshEnough, HealthySince, DiscoveryInv, RegistryInv,
       DiscoveryConstants
  <2> QED  BY <1>3, <2>2 DEF CallsGuarded, DiscoveryInv
<1> QED  BY <1>1, <1>2, <1>3, DiscoveryStep, PTL DEF Discovery!Spec

-----------------------------------------------------------------------------
(* The breaker of an RPC provider: rpc_provider.rs *)

CONSTANTS Call, failure_threshold, recovery_timeout, success_threshold,
          half_open_max_calls, max_attempts, MaxPermits

VARIABLES circuit, strikes, call, now

Rpc == INSTANCE RpcBreaker WITH failures <- strikes

RpcConstants == recovery_timeout \in Nat /\ half_open_max_calls \in Nat \ {0}

Phase == {"Closed", "Open", "HalfOpen"}

Stamp == Int

Count == Nat

Circuit ==
    [state : Phase, opened_at : Stamp, half_open_started_at : Stamp,
     closed_in_flight : Count, closed_in_flight_since : Stamp,
     half_open_in_flight : Count, half_open_successes : Count]

\* No time stamp of the circuit lies ahead of t, and permits that are out from
\* a closed period have a stamp.
Timely(c, t) ==
    /\ c.opened_at <= t /\ c.half_open_started_at <= t /\ c.closed_in_flight_since <= t
    /\ c.closed_in_flight > 0 => c.closed_in_flight_since # Rpc!Unset

Stamped(c, t) == c \in Circuit /\ Timely(c, t)

RpcInv == now \in Nat /\ Stamped(circuit, now)

\* The values the fields of a circuit take, and what its fields are.
LEMMA CircuitValues ==
    /\ Rpc!Unset \in Stamp /\ 0 \in Count /\ 1 \in Count
    /\ \A p \in {"Closed", "Open", "HalfOpen"} : p \in Phase
    /\ \A t \in Nat : t \in Stamp
    /\ \A c \in Circuit : /\ c.closed_in_flight \in Nat /\ c.half_open_in_flight \in Nat
                          /\ c.closed_in_flight + 1 \in Count
                          /\ c.half_open_in_flight + 1 \in Count
                          /\ c.half_open_successes + 1 \in Count
                          /\ c.closed_in_flight > 0 => c.closed_in_flight - 1 \in Count
                          /\ c.half_open_in_flight > 0 => c.half_open_in_flight - 1 \in Count
  BY DEF Rpc!Unset, Stamp, Count, Phase, Circuit

\* Forgetting stale permits, opening halfway, renewing a half-open period and
\* closing leave the stamps of a circuit in order.
LEMMA CircuitStamped ==
    ASSUME NEW c, NEW t \in Nat, Stamped(c, t)
    PROVE  /\ Stamped(Rpc!ForgetStale(c, t), t) /\ Stamped(Rpc!Renewed(c, t), t)
           /\ \A n \in {0, 1} : Stamped(Rpc!HalfOpened(c, t, n), t)
           /\ c.closed_in_flight = 0 => Stamped(Rpc!Closed(c), t)
<1>1. Stamped(Rpc!ForgetStale(c, t), t)
  <2>1. Rpc!ForgetStale(c, t) \in Circuit
    BY CircuitValues DEF Circuit, Stamped, Rpc!ForgetStale
  <2> QED
    BY <2>1 DEF Circuit, Stamped, Timely, Rpc!ForgetStale, Rpc!Unset, Phase, Stamp, Count
<1>2. Stamped(Rpc!Renewed(c, t), t)
  <2>1. Rpc!Renewed(c, t) \in Circuit
    BY CircuitValues DEF Circuit, Stamped, Rpc!Renewed
  <2> QED
    BY <2>1 DEF Circuit, Stamped, Timely, Rpc!Renewed, Rpc!Unset, Phase, Stamp, Count
<1>3. ASSUME NEW n \in {0, 1} PROVE Stamped(Rpc!HalfOpened(c, t, n), t)
  <2>1. Rpc!HalfOpened(c, t, n) \in Circuit
    BY CircuitValues DEF Circuit, Stamped, Rpc!HalfOpened
  <2> QED
    BY <2>1 DEF Circuit, Stamped, Timely, Rpc!HalfOpened, Rpc!Unset, Phase, Stamp, Count
<1>4. ASSUME c.closed_in_flight = 0 PROVE Stamped(Rpc!Closed(c), t)
  <2>1. Rpc!Closed(c) \in Circuit
    BY CircuitValues DEF Circuit, Stamped, Rpc!Closed
  <2> QED
    BY <1>4, <2>1 DEF Circuit, Stamped, Timely, Rpc!Closed, Rpc!Unset, Phase, Stamp, Count
<1> QED  BY <1>1, <1>2, <1>3, <1>4

\* Taking a permit, or being refused one, keeps the stamps.
LEMMA AcquireStamped ==
    ASSUME NEW c, NEW t \in Nat, Stamped(c, t)
    PROVE  Stamped(Rpc!Acquired(c, t), t)
<1>1. CASE c.state = "Closed"
  <2> DEFINE d == [c EXCEPT !.closed_in_flight = @ + 1,
                       !.closed_in_flight_since = IF c.closed_in_flight = 0 THEN t ELSE @]
  <2>1. Rpc!Acquired(c, t) = d
    BY <1>1 DEF Rpc!Acquired
  <2>2. d \in Circuit
    BY CircuitValues DEF Circuit, Stamped
  <2>3. Timely(d, t)
    BY DEF Circuit, Stamped, Timely, Rpc!Unset, Phase, Stamp, Count
  <2> QED  BY <2>1, <2>2, <2>3 DEF Stamped
<1>2. CASE c.state = "Open"
  <2>1. Rpc!Acquired(c, t) \in {Rpc!HalfOpened(Rpc!ForgetStale(c, t), t, 1), Rpc!ForgetStale(c, t)}
    BY <1>2 DEF Rpc!Acquired
  <2> QED  BY <2>1, CircuitStamped
<1>3. CASE c.state = "HalfOpen"
  <2> DEFINE r == Rpc!Renewed(c, t)
  <2>1. Stamped(r, t)
    BY CircuitStamped
  <2>2. Rpc!Acquired(c, t) \in {[r EXCEPT !.half_open_in_flight = @ + 1], r}
    BY <1>3 DEF Rpc!Acquired
  <2> HIDE DEF r
  <2>3. [r EXCEPT !.half_open_in_flight = @ + 1] \in Circuit
    BY <2>1, CircuitValues DEF Circuit, Stamped
  <2>4. Timely([r EXCEPT !.half_open_in_flight = @ + 1], t)
    BY <2>1 DEF Circuit, Stamped, Timely, Phase, Stamp, Count
  <2> QED  BY <2>1, <2>2, <2>3, <2>4 DEF Stamped
<1> QED  BY <1>1, <1>2, <1>3 DEF Stamped, Circuit, Phase

\* A permit given back takes the stamp with it when it is the last.
LEMMA ReleaseStamped ==
    ASSUME NEW c, NEW t \in Nat, Stamped(c, t)
    PROVE  /\ Stamped(Rpc!Released(c), t)
           /\ c.closed_in_flight = 0 => Rpc!Released(c).closed_in_flight = 0
<1>1. Rpc!Released(c) \in Circuit
  BY CircuitValues DEF Circuit, Stamped, Rpc!Released
<1> QED
  BY <1>1 DEF Circuit, Stamped, Timely, Rpc!Released, Rpc!Unset, Phase, Stamp, Count

\* A success closes the circuit only when no permit of a closed period is out.
LEMMA SuccessStamped ==
    ASSUME NEW c, NEW t \in Nat, Stamped(c, t)
    PROVE  Stamped(Rpc!Succeeded(c), t)
<1> DEFINE r == Rpc!Released(c)
           s == [r EXCEPT !.half_open_successes = @ + 1]
<1>1. Stamped(r, t) /\ (c.closed_in_flight = 0 => r.closed_in_flight = 0)
  BY ReleaseStamped
<1>2. \/ Rpc!Succeeded(c) \in {r, s}
      \/ c.closed_in_flight = 0 /\ Rpc!Succeeded(c) \in {Rpc!Closed(r), Rpc!Closed(s)}
  <2> DEFINE k == Rpc!Counts(c)
  <2>1. k /\ c.state \in {"Open", "HalfOpen"} => c.closed_in_flight = 0
    BY DEF Rpc!Counts
  <2>2. CASE c.state = "Closed" \/ ~k
    BY <2>2 DEF Rpc!Succeeded
  <2>3. CASE c.state = "Open" /\ k
    <3>1. Rpc!Succeeded(c) = Rpc!Closed(r)
      BY <2>3 DEF Rpc!Succeeded
    <3> QED  BY <2>1, <2>3, <3>1
  <2>4. CASE c.state = "HalfOpen" /\ k
    <3>1. Rpc!Succeeded(c) = s \/ Rpc!Succeeded(c) = Rpc!Closed(s)
      BY <2>4 DEF Rpc!Succeeded
    <3> QED  BY <2>1, <2>4, <3>1
  <2> QED  BY <2>2, <2>3, <2>4 DEF Stamped, Circuit, Phase
<1> HIDE DEF r
<1>3. s \in Circuit
  BY <1>1, CircuitValues DEF Circuit, Stamped
<1>4. Timely(s, t) /\ s.closed_in_flight = r.closed_in_flight
  BY <1>1 DEF Circuit, Stamped, Timely, Phase, Stamp, Count
<1> HIDE DEF s
<1> QED  BY <1>1, <1>2, <1>3, <1>4, CircuitStamped DEF Stamped

\* A failure opens the circuit at the present time or leaves it.
LEMMA FailureStamped ==
    ASSUME RpcInv, NEW seen
    PROVE  Stamped(Rpc!Failed(circuit, seen), now)
<1> DEFINE r == Rpc!Released(circuit)
           o == [r EXCEPT !.state = "Open", !.opened_at = now,
                          !.half_open_started_at = Rpc!Unset, !.half_open_successes = 0]
<1>1. Stamped(r, now)
  BY ReleaseStamped DEF RpcInv
<1>2. Rpc!Failed(circuit, seen) \in {r, o}
  BY DEF Rpc!Failed
<1> HIDE DEF r
<1>3. o \in Circuit
  BY <1>1, CircuitValues DEF Circuit, Stamped, RpcInv
<1>4. Timely(o, now)
  BY <1>1 DEF Circuit, Stamped, Timely, RpcInv, Rpc!Unset, Phase, Stamp, Count
<1> QED  BY <1>1, <1>2, <1>3, <1>4 DEF Stamped

\* Every step of a call, of the refresh and of the clock.
LEMMA RpcStep == RpcConstants /\ RpcInv /\ [Rpc!Next]_(Rpc!breakerVars) => RpcInv'
<1> SUFFICES ASSUME RpcConstants, RpcInv, [Rpc!Next]_(Rpc!breakerVars)
             PROVE  RpcInv'
  OBVIOUS
<1>0. now \in Nat /\ Stamped(circuit, now)
  BY DEF RpcInv
<1>1. ASSUME NEW k \in Call, Rpc!try_acquire_provider(k) PROVE RpcInv'
  BY <1>0, <1>1, AcquireStamped DEF Rpc!try_acquire_provider, RpcInv, Stamped
<1>2. ASSUME NEW k \in Call, Rpc!Cancel(k) \/ Rpc!ResetFailures(k) \/ Rpc!CountFailure(k)
      PROVE  RpcInv'
  BY <1>0, <1>2 DEF Rpc!Cancel, Rpc!ResetFailures, Rpc!CountFailure, RpcInv, Stamped
<1>3. ASSUME NEW k \in Call, Rpc!report_success(k) PROVE RpcInv'
  BY <1>0, <1>3, SuccessStamped DEF Rpc!report_success, RpcInv, Stamped
<1>4. ASSUME NEW k \in Call, Rpc!report_failure(k) PROVE RpcInv'
  BY <1>0, <1>4, FailureStamped DEF Rpc!report_failure, RpcInv, Stamped
<1>5. ASSUME NEW k \in Call, Rpc!release_provider(k) PROVE RpcInv'
  BY <1>0, <1>5, ReleaseStamped DEF Rpc!release_provider, RpcInv, Stamped
<1>6. CASE Rpc!refresh_circuit_state
  <2> DEFINE c == Rpc!ForgetStale(circuit, now)
           d == [c EXCEPT !.closed_in_flight_since = Rpc!Unset]
  <2>1. Stamped(c, now)
    BY <1>0, CircuitStamped
  <2> HIDE DEF c
  <2>2. /\ now' = now
        /\ \/ circuit' = c
           \/ /\ c.closed_in_flight = 0
              /\ circuit' = Rpc!HalfOpened(d, now, 0)
    BY <1>6 DEF Rpc!refresh_circuit_state, c
  <2>3. d \in Circuit
    BY <2>1, CircuitValues DEF Circuit, Stamped
  <2>4. ASSUME c.closed_in_flight = 0 PROVE Timely(d, now)
    BY <1>0, <2>1, <2>4 DEF Circuit, Stamped, Timely, Rpc!Unset, Phase, Stamp, Count
  <2> HIDE DEF d
  <2> QED  BY <1>0, <2>1, <2>2, <2>3, <2>4, CircuitStamped DEF RpcInv, Stamped
<1>7. CASE Rpc!Tick
  BY <1>0, <1>7 DEF Rpc!Tick, RpcInv, Stamped, Timely, Circuit, Stamp
<1>8. CASE UNCHANGED Rpc!breakerVars
  BY <1>0, <1>8 DEF Rpc!breakerVars, RpcInv, Stamped
<1> QED
  BY <1>1, <1>2, <1>3, <1>4, <1>5, <1>6, <1>7, <1>8 DEF Rpc!Next

\* Lost permits never lock an RPC provider out for good: try_acquire_provider
\* grants one when recovery_timeout has passed.
NeverWedged == Rpc!NeverWedged

\* However many calls there are, wherever they are cancelled and whatever the
\* thresholds and limits, the provider is never locked out for good.
THEOREM RpcNeverWedged == RpcConstants /\ Rpc!Spec => []NeverWedged
<1>1. Rpc!Init => RpcInv
  BY DEF Rpc!Init, RpcInv, Stamped, Timely, Circuit, Phase, Stamp, Count, Rpc!Unset
<1>2. RpcConstants => RpcConstants'
  BY DEF RpcConstants
<1>3. ASSUME RpcConstants, RpcInv PROVE NeverWedged
  <2> DEFINE t == now + recovery_timeout
  <2> USE <1>3 DEF RpcConstants, RpcInv, Stamped, Timely, Circuit, Phase, Stamp, Count,
      Rpc!Elapsed, Rpc!Unset
  <2>1. CASE circuit.state = "Closed"
    BY <2>1 DEF NeverWedged, Rpc!NeverWedged, Rpc!Admits
  <2>2. CASE circuit.state = "Open"
    <3>1. Rpc!ForgetStale(circuit, t).closed_in_flight = 0
      BY DEF Rpc!ForgetStale
    <3>2. circuit.opened_at = Rpc!Unset \/ Rpc!Elapsed(circuit.opened_at, t)
      OBVIOUS
    <3> QED  BY <2>2, <3>1, <3>2 DEF NeverWedged, Rpc!NeverWedged, Rpc!Admits
  <2>3. CASE circuit.state = "HalfOpen"
    <3>1. Rpc!Renewed(circuit, t).half_open_in_flight = 0
      BY DEF Rpc!Renewed
    <3> QED  BY <2>3, <3>1 DEF NeverWedged, Rpc!NeverWedged, Rpc!Admits
  <2> QED  BY <2>1, <2>2, <2>3
<1> QED  BY <1>1, <1>2, <1>3, RpcStep, PTL DEF Rpc!Spec
=============================================================================
