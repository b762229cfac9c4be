----------------------------- MODULE AgentFleet -----------------------------
(***************************************************************************)
(* The agent fleet (core/src/agent_fleet.rs): a directory, a health         *)
(* registry, a failover manager and a reputation store, each behind a lock  *)
(* of its own, and the calls of `execute` that run across them.  A call     *)
(* takes and drops one lock per step, so registrations, reports, operators  *)
(* and other calls run between any two of its steps.                        *)
(*                                                                          *)
(* An identifier is the sequence of its colon-separated parts: the failover *)
(* manager joins a vault and an agent with a colon and later looks for the  *)
(* vault as a prefix and for the agent as a suffix of the joined key.       *)
(***************************************************************************)
EXTENDS Integers, Sequences, FiniteSets

CONSTANTS Agents,       \* the agents' identifiers, in the order the directory lists them
          Vaults,       \* the vaults' identifiers
          Calls,        \* concurrent calls of execute
          Attestations, \* the thresholds agents are registered with
          FailureThreshold, \* failures in a row that trigger a failover
          Preferences,  \* what execute is given as the preferred agent: an agent or none
          MaxFailures,  \* bound: failures of one agent in a row
          MaxRemovals   \* bound: agents unregistered

VARIABLES directory,    \* agent -> absent, active or revoked
          health,       \* agent -> its HealthStatus, or NoStatus
          admin,        \* agent -> the step its registration or removal is at
          failures,     \* agent -> consecutive_failures
          pending,      \* pending_reauth, a set of keys
          calls,        \* call -> where execute is
          reports,      \* agent -> who vouched for it since it was last registered
          streak,       \* agent -> history: failures recorded since it last succeeded
          removals,     \* agents unregistered so far
          due           \* history: agents that have failed FailureThreshold times in a row

vars == <<directory, health, admin, failures, pending, calls, reports,
          removals, streak, due>>

AgentSet == {Agents[i] : i \in DOMAIN Agents}
NoStatus == [threshold |-> -1, self_reported |-> FALSE, peer_attestations |-> {}]
Idle == [pc |-> "idle"]

Init ==
  /\ directory = [a \in AgentSet |-> "absent"]
  /\ health = [a \in AgentSet |-> NoStatus]
  /\ admin = [a \in AgentSet |-> "none"]
  /\ failures = [a \in AgentSet |-> 0]
  /\ pending = {}
  /\ calls = [c \in Calls |-> Idle]
  /\ reports = [a \in AgentSet |-> {}]
  /\ streak = [a \in AgentSet |-> 0]
  /\ removals = 0
  /\ due = {}

-----------------------------------------------------------------------------
(* Failover manager.                                                        *)

\* A key starts with an identifier and a colon, or ends with a colon and one.
starts_with(key, id) == Len(id) < Len(key) /\ \A i \in 1..Len(id) : key[i] = id[i]

ends_with(key, id) ==
  Len(id) < Len(key) /\ \A i \in 1..Len(id) : key[Len(key) - Len(id) + i] = id[i]

\* A vault may run while no pending key starts with it.
can_execute(v, keys) == \A key \in keys : ~ starts_with(key, v)

\* Keys leave pending_reauth; a call remembers whether its vault was blocked all along.
Release(keys) ==
  /\ pending' = pending \ keys
  /\ calls' = [c \in Calls |->
       IF calls[c] # Idle /\ can_execute(calls[c].vault, pending')
       THEN [calls[c] EXCEPT !.blocked = FALSE] ELSE calls[c]]

ConfirmReauth(v) ==
  /\ ~ can_execute(v, pending)
  /\ Release({key \in pending : starts_with(key, v)})
  /\ UNCHANGED <<directory, health, admin, failures, reports, removals, streak, due>>

-----------------------------------------------------------------------------
(* Directory and health registry.                                           *)

is_healthy(status) ==
  /\ status # NoStatus
  /\ status.self_reported
  /\ Cardinality(status.peer_attestations) >= status.threshold

\* register: the directory entry first, the health record under a second lock.
RegisterDirectory(a) ==
  /\ admin[a] = "none" /\ directory[a] = "absent"
  /\ directory' = [directory EXCEPT ![a] = "active"]
  /\ admin' = [admin EXCEPT ![a] = "register_health"]
  /\ reports' = [reports EXCEPT ![a] = {}]
  /\ UNCHANGED <<health, failures, pending, calls, removals, streak, due>>

RegisterHealth(a) ==
  /\ admin[a] = "register_health"
  /\ \E t \in Attestations :
       health' = [health EXCEPT ![a] =
                    [threshold |-> t, self_reported |-> FALSE, peer_attestations |-> {}]]
  /\ admin' = [admin EXCEPT ![a] = "none"]
  /\ UNCHANGED <<directory, failures, pending, calls, reports, removals, streak, due>>

\* unregister: the directory, then the three stores that know the agent, lock by lock.
UnregisterDirectory(a) ==
  /\ admin[a] = "none" /\ directory[a] # "absent"
  /\ removals < MaxRemovals /\ removals' = removals + 1
  /\ directory' = [directory EXCEPT ![a] = "absent"]
  /\ admin' = [admin EXCEPT ![a] = "remove_health"]
  /\ UNCHANGED <<health, failures, pending, calls, reports, streak, due>>

\* The default of the HealthRegistry trait: remove does nothing.
HealthRemove(a) == NoStatus

UnregisterHealth(a) ==
  /\ admin[a] = "remove_health"
  /\ health' = [health EXCEPT ![a] = HealthRemove(a)]
  /\ admin' = [admin EXCEPT ![a] = "remove_failover"]
  /\ UNCHANGED <<directory, failures, pending, calls, reports, removals, streak, due>>

\* FailoverManager::remove_agent drops every key that ends in the agent.
UnregisterFailover(a) ==
  /\ admin[a] = "remove_failover"
  /\ failures' = [failures EXCEPT ![a] = 0]
  /\ Release({key \in pending : ends_with(key, a)})
  /\ admin' = [admin EXCEPT ![a] = "none"]
  /\ streak' = [streak EXCEPT ![a] = 0]
  /\ UNCHANGED <<directory, health, reports, removals, due>>

Revoke(a) ==
  /\ directory[a] = "active"
  /\ directory' = [directory EXCEPT ![a] = "revoked"]
  /\ UNCHANGED <<health, admin, failures, pending, calls, reports, removals, streak, due>>

\* A report about an agent with no health record is dropped.
SelfReport(a) ==
  /\ health[a] # NoStatus
  /\ health' = [health EXCEPT ![a].self_reported = TRUE]
  /\ reports' = [reports EXCEPT ![a] = @ \union {a}]
  /\ UNCHANGED <<directory, admin, failures, pending, calls, removals, streak, due>>

PeerAttestation(a, peer) ==
  /\ peer # a
  /\ health[a] # NoStatus
  /\ health' = [health EXCEPT ![a].peer_attestations = @ \union {peer}]
  /\ reports' = [reports EXCEPT ![a] = @ \union {peer}]
  /\ UNCHANGED <<directory, admin, failures, pending, calls, removals, streak, due>>

-----------------------------------------------------------------------------
(* execute.                                                                 *)

\* healthy_agents lists the active agents under the directory lock; todo holds their places.
List(c, v, preferred) ==
  /\ calls[c].pc = "idle"
  /\ calls' = [calls EXCEPT ![c] =
       [pc |-> "health", vault |-> v, preferred |-> preferred, at |-> 1, candidates |-> <<>>,
        todo |-> {i \in DOMAIN Agents : directory[Agents[i]] = "active"},
        blocked |-> ~ can_execute(v, pending)]]
  /\ UNCHANGED <<directory, health, admin, failures, pending, reports, removals, streak, due>>

\* The agent at the place of the preferred one is removed and inserted in front.
ToFront(s, place) ==
  [i \in DOMAIN s |-> IF i = 1 THEN s[place] ELSE IF i <= place THEN s[i - 1] ELSE s[i]]

PreferredFirst(s, preferred) ==
  LET places == {i \in DOMAIN s : s[i] = preferred}
      position == CHOOSE i \in places : \A j \in places : i <= j
  IN  IF places = {} THEN s ELSE ToFront(s, position)

\* The filter over the list is done: order the candidates, or fail with NoHealthyAgent.
Filtered(call) ==
  IF call.todo # {} THEN [call EXCEPT !.pc = "health"]
  ELSE IF call.candidates = <<>> THEN Idle
  ELSE [call EXCEPT !.pc = "attempt",
                    !.candidates = PreferredFirst(call.candidates, call.preferred)]

\* The agent the list is at.
IsNext(i, call) == \A j \in call.todo : i <= j

\* An empty list is filtered at once; otherwise the next listed agent is asked for under the
\* health lock.
CheckHealth(c) ==
  LET call == calls[c] IN
  /\ call.pc = "health"
  /\ \/ call.todo = {} /\ calls' = [calls EXCEPT ![c] = Filtered(call)]
     \/ \E i \in call.todo :
          /\ IsNext(i, call)
          /\ calls' = [calls EXCEPT ![c] =
               IF is_healthy(health[Agents[i]]) THEN [call EXCEPT !.pc = "failover"]
               ELSE Filtered([call EXCEPT !.todo = @ \ {i}])]
  /\ UNCHANGED <<directory, health, admin, failures, pending, reports, removals, streak, due>>

\* ... and kept if the vault may run, under the failover lock.
Runnable(v, a) == can_execute(v, pending)

CheckFailover(c) ==
  LET call == calls[c] IN
  /\ call.pc = "failover"
  /\ \E i \in call.todo :
       /\ IsNext(i, call)
       /\ calls' = [calls EXCEPT ![c] =
            Filtered([call EXCEPT !.todo = @ \ {i},
                                  !.candidates = IF Runnable(call.vault, Agents[i])
                                                 THEN Append(@, Agents[i]) ELSE @])]
  /\ UNCHANGED <<directory, health, admin, failures, pending, reports, removals, streak, due>>

Current(call) == call.candidates[call.at]

\* The executor answers; its outcome is recorded in a later step.
Attempt(c) ==
  /\ calls[c].pc = "attempt"
  /\ \E next \in {"success", "failure"} : calls' = [calls EXCEPT ![c].pc = next]
  /\ UNCHANGED <<directory, health, admin, failures, pending, reports, removals, streak, due>>

\* The caller drops the future while the executor runs.
DropCall(c) ==
  /\ calls[c].pc = "attempt"
  /\ calls' = [calls EXCEPT ![c] = Idle]
  /\ UNCHANGED <<directory, health, admin, failures, pending, reports, removals, streak, due>>

\* record_health_success forgets the failures so far.
CountAfterSuccessKept(a) == failures[a]
CountAfterSuccess(a) == 0

RecordSuccess(c) ==
  LET a == Current(calls[c]) IN
  /\ calls[c].pc = "success"
  /\ failures' = [failures EXCEPT ![a] = CountAfterSuccess(a)]
  /\ streak' = [streak EXCEPT ![a] = 0]
  /\ calls' = [calls EXCEPT ![c] = Idle]
  /\ UNCHANGED <<directory, health, admin, pending, reports, removals, due>>

\* The loop goes on to the next candidate, or returns the last error.
NextCandidate(call) ==
  IF call.at = Len(call.candidates) THEN Idle
  ELSE [call EXCEPT !.pc = "attempt", !.at = @ + 1]

\* record_failure counts under the failover lock and says whether the threshold is met.
RecordFailure(c) ==
  LET call == calls[c]
      a == Current(call)
      triggered == failures[a] + 1 >= FailureThreshold IN
  /\ call.pc = "failure" /\ streak[a] < MaxFailures
  /\ failures' = [failures EXCEPT ![a] = @ + 1]
  /\ streak' = [streak EXCEPT ![a] = @ + 1]
  /\ due' = IF streak[a] + 1 >= FailureThreshold THEN due \union {a} ELSE due
  /\ calls' = [calls EXCEPT ![c] = IF triggered /\ call.at < Len(call.candidates)
                                   THEN [call EXCEPT !.pc = "initiate"] ELSE NextCandidate(call)]
  /\ UNCHANGED <<directory, health, admin, pending, reports, removals>>

\* initiate_failover takes the lock again.
InitiateFailover(c) ==
  LET call == calls[c] IN
  /\ call.pc = "initiate"
  /\ pending' = pending \union {call.vault \o call.candidates[call.at + 1]}
  /\ calls' = [calls EXCEPT ![c] = NextCandidate(call)]
  /\ UNCHANGED <<directory, health, admin, failures, reports, removals, streak, due>>

Next ==
  \/ \E a \in AgentSet :
       \/ RegisterDirectory(a) \/ RegisterHealth(a)
       \/ UnregisterDirectory(a) \/ UnregisterHealth(a)
       \/ UnregisterFailover(a)
       \/ Revoke(a) \/ SelfReport(a)
       \/ \E peer \in AgentSet : PeerAttestation(a, peer)
  \/ \E v \in Vaults : ConfirmReauth(v)
  \/ \E c \in Calls :
       \/ \E v \in Vaults, p \in Preferences : List(c, v, p)
       \/ CheckHealth(c) \/ CheckFailover(c) \/ Attempt(c) \/ DropCall(c)
       \/ RecordSuccess(c) \/ RecordFailure(c) \/ InitiateFailover(c)

Spec == Init /\ [][Next]_vars

-----------------------------------------------------------------------------
(* Properties.                                                              *)

\* An agent counts as healthy only on reports made since it was last registered: its own, and
\* those of as many peers as its threshold asks for.  Nothing is left of an earlier registration.
HealthEarned ==
  \A a \in AgentSet : directory[a] # "absent" /\ is_healthy(health[a]) =>
    a \in reports[a] /\ Cardinality(reports[a] \ {a}) >= health[a].threshold

\* A call that runs an agent found its vault free at some moment since it started: a vault that
\* waits for re-authorisation throughout starts nothing.
BlockedVaultWaits ==
  \A c \in Calls : calls[c].pc \notin {"idle", "health", "failover"} => ~ calls[c].blocked

\* A vault is failed over only after some agent, not the replacement, failed FailureThreshold
\* times in a row, whichever calls recorded the failures.
FailoverEarned ==
  \A key \in pending : \E a \in due : ~ ends_with(key, a)
=============================================================================
