------------------------- MODULE TimelockController -------------------------
(***************************************************************************)
(* contracts/timelock_controller: calls are queued, wait for the minimum   *)
(* delay in force when they were queued, and are then executed or          *)
(* cancelled.                                                              *)
(*                                                                         *)
(* execute marks the operation Executing, invokes the target and marks it  *)
(* Done when the call returns.  The model takes the comment on execute at  *)
(* its word and lets the target call the controller back meanwhile:        *)
(* `stack` holds the operations being invoked, innermost first.  A target  *)
(* that fails takes the whole transaction with it, back to `saved`.        *)
(***************************************************************************)
EXTENDS Naturals, Sequences, FiniteSets

CONSTANTS OpId,        \* operation ids (hashes of target, function, args, salt)
          Account,     \* accounts that may hold a role
          Delays,      \* the minimum delays an admin may choose, all > 0
          MaxTime,     \* bound on the ledger timestamp
          MaxRequeue   \* bound on how often an operation is queued

VARIABLES config,      \* ControllerConfig; min_delay 0 before initialize
          ops,         \* Operation(id), status "None" when absent
          now,         \* ledger timestamp
          stack,       \* operations whose invocation is in progress
          saved,       \* what a failing invocation restores
          invoked      \* history: completed invocations of each operation

vars == <<config, ops, now, stack, saved, invoked>>
store == <<config, ops, invoked>>

NoOp == [status |-> "None", ready_at |-> 0, queued_at |-> 0, delay |-> 0, times |-> 0]

Init ==
  /\ config = [min_delay |-> 0]
  /\ ops = [o \in OpId |-> NoOp]
  /\ now = 0 /\ stack = << >>
  /\ invoked = [o \in OpId |-> 0]
  /\ saved = << >>

initialize(a, p, e, c, d) ==
  /\ config.min_delay = 0
  /\ config' = [admin |-> a, proposer |-> p, executor |-> e, canceller |-> c,
                min_delay |-> d]
  /\ UNCHANGED <<ops, now, stack, saved, invoked>>

\* `delay` and `times` are history: the delay in force at this call, and how
\* often the operation was queued.
queue(caller, o) ==
  /\ config.min_delay > 0 /\ caller = config.proposer
  /\ ops[o].status \in {"None", "Canceled"}
  /\ ops[o].times < MaxRequeue
  /\ ops' = [ops EXCEPT ![o] =
       [status |-> "Pending", queued_at |-> now, ready_at |-> now + config.min_delay,
        delay |-> config.min_delay, times |-> @.times + 1]]
  /\ UNCHANGED <<config, now, stack, saved, invoked>>

\* Slip: the operation is marked only after its invocation returns.
executeMarksLate(caller, o) ==
  /\ config.min_delay > 0 /\ caller = config.executor
  /\ ops[o].status = "Pending"
  /\ now >= ops[o].ready_at
  /\ saved' = IF stack = << >> THEN store ELSE saved
  /\ stack' = <<o>> \o stack
  /\ UNCHANGED <<config, ops, now, invoked>>

execute(caller, o) ==
  /\ config.min_delay > 0 /\ caller = config.executor
  /\ ops[o].status = "Pending"
  /\ now >= ops[o].ready_at
  /\ saved' = IF stack = << >> THEN store ELSE saved
  /\ ops' = [ops EXCEPT ![o].status = "Executing"]
  /\ stack' = <<o>> \o stack
  /\ UNCHANGED <<config, now, invoked>>

\* The invocation on top returns and execute goes on with its own copy of
\* the operation.
ExecuteReturns ==
  /\ stack # << >>
  /\ ops' = [ops EXCEPT ![Head(stack)].status = "Done"]
  /\ invoked' = [invoked EXCEPT ![Head(stack)] = @ + 1]
  /\ stack' = Tail(stack)
  /\ saved' = IF stack' = << >> THEN << >> ELSE saved
  /\ UNCHANGED <<config, now>>

ExecuteFails ==
  /\ stack # << >>
  /\ config' = saved[1] /\ ops' = saved[2] /\ invoked' = saved[3]
  /\ stack' = << >> /\ saved' = << >>
  /\ UNCHANGED now

cancel(caller, o) ==
  /\ config.min_delay > 0 /\ caller = config.canceller
  /\ ops[o].status = "Pending"
  /\ ops' = [ops EXCEPT ![o].status = "Canceled"]
  /\ UNCHANGED <<config, now, stack, saved, invoked>>

set_min_delay(caller, d) ==
  /\ config.min_delay > 0 /\ caller = config.admin
  /\ config' = [config EXCEPT !.min_delay = d]
  /\ UNCHANGED <<ops, now, stack, saved, invoked>>

set_roles(caller, p, e, c) ==
  /\ config.min_delay > 0 /\ caller = config.admin
  /\ config' = [config EXCEPT !.proposer = p, !.executor = e, !.canceller = c]
  /\ UNCHANGED <<ops, now, stack, saved, invoked>>

transfer_admin(caller, a) ==
  /\ config.min_delay > 0 /\ caller = config.admin
  /\ config' = [config EXCEPT !.admin = a]
  /\ UNCHANGED <<ops, now, stack, saved, invoked>>

\* Time passes between transactions, never inside one.
Tick == now < MaxTime /\ stack = << >> /\ now' = now + 1
        /\ UNCHANGED <<config, ops, stack, saved, invoked>>

Next ==
  \/ \E a, p, e, c \in Account, d \in Delays : initialize(a, p, e, c, d)
  \/ \E k \in Account :
       \/ \E o \in OpId : queue(k, o) \/ execute(k, o) \/ cancel(k, o)
       \/ \E d \in Delays : set_min_delay(k, d)
       \/ \E p, e, c \in Account : set_roles(k, p, e, c)
       \/ \E a \in Account : transfer_admin(k, a)
  \/ ExecuteReturns
  \/ ExecuteFails
  \/ Tick

Spec == Init /\ [][Next]_vars
-----------------------------------------------------------------------------
\* A queued call is made at most once, also when its target calls the
\* controller back or when a nested call fails, and it is made or under way
\* exactly when its status says so.
InvokedOnce ==
  \A o \in OpId :
    /\ invoked[o] + Cardinality({i \in 1..Len(stack) : stack[i] = o}) <= 1
    /\ (ops[o].status = "Done") = (invoked[o] = 1)

\* An operation that is being executed, or was, waited for the delay that
\* was in force when it was last queued: not for one lowered later, and not
\* for the remainder of a wait from before it was cancelled.
DelayServed ==
  \A o \in OpId :
    ops[o].status = "Executing" => now >= ops[o].queued_at + ops[o].delay
=============================================================================
