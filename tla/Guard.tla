------------------------------- MODULE Guard -------------------------------
(***************************************************************************)
(* The guard core of contracts/guards, embedded by the emergency_guard,    *)
(* governance and token contracts in their own instance storage: a bitmask *)
(* of paused operations and a committee of administrators whose members    *)
(* act together once `threshold` of them have signed.                      *)
(*                                                                         *)
(* A contract call that returns an error or panics reverts every write, so *)
(* it is a stutter; each action below is a call that succeeds.  A list of  *)
(* approvers is the set of its members: validate_multi_sig counts each     *)
(* address once and refuses a list with a stranger in it.                  *)
(***************************************************************************)
EXTENDS Naturals, Sequences, FiniteSets, Functions

CONSTANTS Address,      \* the accounts that may sign
          Operation,    \* the bits of the pause mask
          MaxAdmins     \* bound on the length of the committee

VARIABLES admins,       \* GuardDataKey::Admins, << >> before init_guard
          threshold,    \* GuardDataKey::SignatureThreshold
          paused        \* GuardDataKey::PauseState, as a set of bits

guardVars == <<admins, threshold, paused>>

GuardInit == admins = << >> /\ threshold = 0 /\ paused = {}

validate_multi_sig(approvers) ==
  /\ threshold > 0
  /\ approvers \subseteq Range(admins)
  /\ Cardinality(approvers) >= threshold

init_guard(as, t) ==
  /\ admins = << >>
  /\ t \in 1..Len(as)
  /\ admins' = as /\ threshold' = t /\ paused' = {}

set_pause_by_admin(a, mask, on) ==
  /\ a \in Range(admins)
  /\ paused' = IF on THEN paused \union mask ELSE paused \ mask
  /\ UNCHANGED <<admins, threshold>>

emergency_pause_all(approvers) ==
  /\ validate_multi_sig(approvers)
  /\ paused' = Operation
  /\ UNCHANGED <<admins, threshold>>

resume_all(approvers) ==
  /\ validate_multi_sig(approvers)
  /\ paused' = {}
  /\ UNCHANGED <<admins, threshold>>

add_admin(approvers, a) ==
  /\ validate_multi_sig(approvers)
  /\ Len(admins) < MaxAdmins
  /\ admins' = IF a \in Range(admins) THEN admins ELSE Append(admins, a)
  /\ UNCHANGED <<threshold, paused>>

Without(s, a) == SelectSeq(s, LAMBDA x : x # a)

remove_admin(approvers, a) ==
  /\ validate_multi_sig(approvers)
  /\ Len(admins) > threshold
  /\ a \in Range(admins)
  /\ admins' = Without(admins, a)
  /\ UNCHANGED <<threshold, paused>>

rotate_admin(approvers, old, new) ==
  /\ validate_multi_sig(approvers)
  /\ old \in Range(admins)
  /\ admins' = Append(Without(Without(admins, old), new), new)
  /\ Len(admins') >= threshold
  /\ UNCHANGED <<threshold, paused>>

=============================================================================
