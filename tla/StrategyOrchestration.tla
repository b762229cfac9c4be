------------------------ MODULE StrategyOrchestration ------------------------
(***************************************************************************)
(* contracts/strategy_orchestration, two of its contracts.                 *)
(*                                                                         *)
(* RotationEngine, for one vault: the targets and the policy an            *)
(* administrator stores, and plan_rotation, the selection of the legs      *)
(* worth moving.                                                           *)
(*                                                                         *)
(* CrossChainYield: funds deployed to vaults on other chains over a        *)
(* bridge.  The contract books a deployment as pending, the relayer        *)
(* confirms it, and a recall lowers what is confirmed.  The bridge and the *)
(* relayer are external: messages are delivered later and in any order,    *)
(* and the relayer confirms deliveries, possibly several at a time or in   *)
(* parts, but each unit once.                                              *)
(***************************************************************************)
EXTENDS Integers, Sequences, SequencesExt, FiniteSetsExt

CONSTANTS BPS,
          Strategies,     \* the number of strategies of the vault
          MaxVolume,      \* bound on the volume recorded
          Chain,
          Caps,           \* max_allocation_bps of each chain
          Totals,         \* the books the administrator may report
          MAX_CHAINS,
          MaxReturning    \* bound on the units on their way home

VARIABLES targets,    \* weight per strategy, << >> before set_targets
          policy,     \* RotationPolicy, or the record NoPolicy
          volume

VARIABLES total,      \* TotalManaged
          chains,     \* chain -> "none", "active", "inactive"
          position,   \* chain -> [pending, confirmed]
          bridge      \* external, per chain: units on their way out, units
                      \* there, of them reported, and units on their way home

-----------------------------------------------------------------------------
(* RotationEngine *)

rotationVars == <<targets, policy, volume>>

Strategy == 1..Strategies
Weights  == [Strategy -> 0..BPS]
Sum(w)   == FoldLeft(LAMBDA a, b : a + b, 0, w)
NoPolicy == [drift |-> BPS + 1, slippage |-> 0, legs |-> 0, floor |-> 0]

RotationInit ==
    /\ targets = << >>
    /\ policy = NoPolicy
    /\ volume = 0

\* validate_policy: thresholds within the scale, at least one leg.
set_policy(p) ==
    /\ p.legs > 0
    /\ policy' = p
    /\ UNCHANGED <<targets, volume>>

\* validate_targets: the weights of distinct strategies make up the whole.
set_targets(w) ==
    /\ Sum(w) = BPS
    /\ targets' = w
    /\ UNCHANGED <<policy, volume>>

\* record_rotation refuses a move that lost more than the slippage allowed.
record_rotation(amount, received) ==
    /\ policy # NoPolicy
    /\ received >= (amount * (BPS - policy.slippage)) \div BPS
    /\ volume + amount <= MaxVolume
    /\ volume' = volume + amount
    /\ UNCHANGED <<targets, policy>>

RotationNext ==
    \/ \E p \in [drift : 0..BPS, slippage : {0, 1}, legs : Strategy, floor : 0..BPS] : set_policy(p)
    \/ \E w \in Weights : set_targets(w)
    \/ \E n \in 1..MaxVolume, m \in 0..MaxVolume : record_rotation(n, m)

RotationSpec == RotationInit /\ [][RotationNext]_rotationVars

-----------------------------------------------------------------------------
(* plan_rotation, on what is stored and the weights observed *)

Abs(x) == IF x < 0 THEN -x ELSE x

Drift(current, s) == Abs(targets[s] - current[s])

Candidate(current, s) ==
    /\ Drift(current, s) >= policy.drift
    /\ targets[s] >= policy.floor \/ current[s] >= policy.floor

Candidates(current) == {s \in Strategy : Candidate(current, s)}

\* Slip: the first candidate is taken, whatever its drift.
BestFirstListed(current, left) ==
    CHOOSE s \in left : \A t \in left : s <= t

\* One round of the selection: the first of the largest drifts not yet used.
Best(current, left) ==
    CHOOSE s \in left : \A t \in left :
        \/ Drift(current, t) < Drift(current, s)
        \/ Drift(current, t) = Drift(current, s) /\ s <= t

\* The legs: as many rounds as the policy and the candidates allow.
plan_rotation(current) ==
    LET limit == Min({policy.legs, Cardinality(Candidates(current))})
        round(legs, i) == Append(legs, Best(current, Candidates(current) \ ToSet(legs)))
    IN  FoldLeft(round, << >>, [i \in 1..limit |-> i])

-----------------------------------------------------------------------------
(* For every allocation that can be observed, the plan is what the policy   *)
(* asks for: no strategy twice, never more than max_legs, never a leg below *)
(* the thresholds, and no leg left for the next cycle that drifted more     *)
(* than one that is moved.                                                  *)
LargestDriftsFirst ==
    (targets # << >> /\ policy # NoPolicy) =>
        \A current \in Weights :
            LET legs == plan_rotation(current)
            IN  /\ IsInjective(legs)
                /\ Len(legs) <= policy.legs
                /\ \A i \in DOMAIN legs : Candidate(current, legs[i])
                /\ \A i \in DOMAIN legs : \A s \in Candidates(current) \ ToSet(SubSeq(legs, 1, i)) :
                       Drift(current, s) <= Drift(current, legs[i])

-----------------------------------------------------------------------------
(* CrossChainYield *)

yieldVars == <<total, chains, position, bridge>>

YieldInit ==
    /\ total = 0
    /\ chains = [c \in Chain |-> "none"]
    /\ position = [c \in Chain |-> [pending |-> 0, confirmed |-> 0]]
    /\ bridge = [c \in Chain |-> [out |-> 0, there |-> 0, reported |-> 0, home |-> 0]]

set_total_managed(v) ==
    /\ total' = v
    /\ UNCHANGED <<chains, position, bridge>>

add_chain(c) ==
    /\ chains[c] = "none"
    /\ Cardinality({d \in Chain : chains[d] # "none"}) < MAX_CHAINS
    /\ chains' = [chains EXCEPT ![c] = "active"]
    /\ UNCHANGED <<total, position, bridge>>

set_chain_active(c, active) ==
    /\ chains[c] # "none"
    /\ chains' = [chains EXCEPT ![c] = IF active THEN "active" ELSE "inactive"]
    /\ UNCHANGED <<total, position, bridge>>

chain_cap(c) == (total * Caps[c]) \div BPS

deploy(c, n) ==
    /\ chains[c] = "active"
    /\ position[c].confirmed + position[c].pending + n <= chain_cap(c)
    /\ bridge' = [bridge EXCEPT ![c].out = @ + n]
    /\ position' = [position EXCEPT ![c].pending = @ + n]
    /\ UNCHANGED <<total, chains>>

\* The relayer reports n delivered units that it has not reported yet.
confirm(c, n) ==
    /\ n <= bridge[c].there - bridge[c].reported
    /\ n <= position[c].pending
    /\ bridge' = [bridge EXCEPT ![c].reported = @ + n]
    /\ position' = [position EXCEPT ![c].pending = @ - n, ![c].confirmed = @ + n]
    /\ UNCHANGED <<total, chains>>

\* A recall burns the remote units; they are then on their way home.
withdraw(c, n) ==
    /\ chains[c] = "active"
    /\ n <= position[c].confirmed
    /\ bridge[c].home + n <= MaxReturning
    /\ position' = [position EXCEPT ![c].confirmed = @ - n]
    /\ bridge' = [bridge EXCEPT ![c].there = @ - n, ![c].reported = @ - n, ![c].home = @ + n]
    /\ UNCHANGED <<total, chains>>

\* External: the bridge delivers, on either side.
Deliver(c) ==
    /\ bridge[c].out > 0
    /\ bridge' = [bridge EXCEPT ![c].out = @ - 1, ![c].there = @ + 1]
    /\ UNCHANGED <<total, chains, position>>

Return(c) ==
    /\ bridge[c].home > 0
    /\ bridge' = [bridge EXCEPT ![c].home = @ - 1]
    /\ UNCHANGED <<total, chains, position>>

YieldNext ==
    \/ \E v \in Totals : set_total_managed(v)
    \/ \E c \in Chain :
          \/ add_chain(c) \/ Deliver(c) \/ Return(c)
          \/ \E b \in BOOLEAN : set_chain_active(c, b)
          \/ \E n \in 1..Max(Totals) : deploy(c, n) \/ confirm(c, n) \/ withdraw(c, n)

YieldSpec == YieldInit /\ [][YieldNext]_yieldVars

-----------------------------------------------------------------------------
(* With deliveries, confirmations and recalls in any order, the books stay  *)
(* those of the bridge: what is confirmed is on the chain and was reported, *)
(* what is pending is still under way or not reported, and no recall asks   *)
(* for more than is there.                                                  *)
PositionsMatchBridge ==
    \A c \in Chain :
        /\ position[c].confirmed = bridge[c].reported
        /\ position[c].pending = bridge[c].out + bridge[c].there - bridge[c].reported
        /\ bridge[c].there >= 0
=============================================================================
