--------------------------- MODULE TwoPhaseCommit ---------------------------
(***************************************************************************)
(* TwoPhaseCoordinator of core/src/two_phase_commit.rs: execute prepares   *)
(* and commits one call at a time and compensates on failure, abort and    *)
(* recover undo what may be left.  Every participant call is an await: it  *)
(* may fail with or without its effect, and the caller may drop the future *)
(* while a call is in flight.                                              *)
(*                                                                         *)
(* Its Reconciler: a transaction that was handed to it is inspected,       *)
(* rolled back or prepared again without a call to a participant, and      *)
(* discarded once it is terminal.  Ownership of the TwoPhaseTx moves       *)
(* between the caller, who may run the coordinator on it, and the          *)
(* reconciler: Init and Next are the coordinator by itself, RSpec is the   *)
(* two together.                                                           *)
(*                                                                         *)
(* An entry <<p, o>> is operation o at participant p; the code visits the  *)
(* entries by participant, then by operation.                              *)
(***************************************************************************)
EXTENDS Naturals

CONSTANTS
    Operations,     \* tx.operations, numbered in order
    Supports        \* entries <<p, o>> with participants[p].supports(o)

VARIABLES
    tx,         \* TwoPhaseTx: phase, completed_ops, age of prepared_at
    co,         \* the coordinator call that is running
    effect,     \* what each participant has done
    torn,       \* history: an abort of the committed transaction was dropped
    owner       \* "caller", "reconciler" or "discarded"

vars == <<tx, co, effect, torn>>

TxPhase == {"Prepared", "Committing", "Committed", "Aborting", "RolledBack", "Failed"}

TwoPhaseTx ==
    [phase : TxPhase, completed_ops : SUBSET Operations,
     prepared_at : {"none", "fresh", "stale"},
     valid : BOOLEAN]               \* what validate_definition answers

Coordinator ==
    [pc : {"idle", "preparing", "committing", "aborting"},
     prepared : SUBSET Supports,    \* the entries pushed so far
     todo : SUBSET Supports,        \* the entries the loop has not visited
     errors : BOOLEAN]              \* did an abort call fail?

Idle == [pc |-> "idle", prepared |-> {}, todo |-> {}, errors |-> FALSE]

Aborting(entries) ==
    [pc |-> "aborting", prepared |-> {}, todo |-> entries, errors |-> FALSE]

Init ==
    /\ \E valid \in BOOLEAN :
          tx = [phase |-> "Prepared", completed_ops |-> {}, prepared_at |-> "fresh", valid |-> valid]
    /\ co = Idle
    /\ effect = [e \in Supports |-> "none"]
    /\ torn = FALSE

-----------------------------------------------------------------------------
(* TwoPhaseTx *)

CanPrepare(t) == t.phase \in {"Prepared", "Failed", "RolledBack"} /\ t.valid

\* prepare: the new transaction, also when it answers false.
Prepare(t) ==
    IF t.phase \notin {"Prepared", "Failed", "RolledBack"} THEN t
    ELSE [t EXCEPT !.phase = IF t.valid THEN "Prepared" ELSE "Failed", !.completed_ops = {},
                   !.prepared_at = IF t.valid THEN "fresh" ELSE "none"]

RecordCommitOp(t, o) ==
    [t EXCEPT !.phase = "Committing", !.completed_ops = @ \union {o}]

AbortTx(t) ==
    IF t.phase = "RolledBack" THEN t
    ELSE [t EXCEPT !.phase = "RolledBack", !.completed_ops = {}, !.prepared_at = "none"]

MarkCleanupFailed(t) ==
    [t EXCEPT !.phase = "Aborting", !.completed_ops = {},
              !.prepared_at = IF @ = "none" THEN "fresh" ELSE @]

IsFullyCommitted(t) == t.phase = "Committed" /\ t.completed_ops = Operations

IsStale(t) == t.prepared_at = "stale"

-----------------------------------------------------------------------------
(* execute *)

Precedes(e, f) == e[1] < f[1] \/ (e[1] = f[1] /\ e[2] < f[2])

First(e, s) == e \in s /\ \A f \in s : f = e \/ Precedes(e, f)

Last(e, s) == e \in s /\ \A f \in s : f = e \/ Precedes(f, e)

Supported == {e[2] : e \in Supports}

\* execute up to its first await.  An operation nobody supports ends it.
Execute ==
    /\ co.pc = "idle"
    /\ tx' = IF CanPrepare(tx) /\ Supported # Operations
             THEN AbortTx(Prepare(tx)) ELSE Prepare(tx)
    /\ co' = IF CanPrepare(tx) /\ Supported = Operations
             THEN [Idle EXCEPT !.pc = "preparing", !.todo = Supports] ELSE co
    /\ UNCHANGED <<effect, torn>>

\* A call to a participant: it succeeds with its effect, or it fails and the
\* effect may have happened all the same.
Call(e, ok, done) ==
    \/ ok /\ effect' = [effect EXCEPT ![e] = done]
    \/ ~ok /\ effect' \in {effect, [effect EXCEPT ![e] = done]}

\* What prepare leaves at a participant.
PreparedAt(e) == IF effect[e] = "none" THEN "prepared" ELSE effect[e]

\* participant.prepare; the entry is in `prepared` before the call.
PrepareCall(e, ok) ==
    /\ co.pc = "preparing"
    /\ First(e, co.todo)
    /\ Call(e, ok, PreparedAt(e))
    /\ LET prepared == co.prepared \union {e}
           todo == co.todo \ {e}
       IN  co' = CASE ~ok -> Aborting(prepared)
                   [] ok /\ todo # {} -> [co EXCEPT !.prepared = prepared, !.todo = todo]
                   [] OTHER -> [pc |-> "committing", prepared |-> prepared,
                                todo |-> prepared, errors |-> FALSE]
    /\ UNCHANGED <<tx, torn>>

\* Slip: only the entries whose commit answered are compensated.
CompensatedAnswered == IF co.todo = co.prepared THEN co.prepared ELSE co.prepared \ co.todo

\* What a failed commit undoes: everything that was prepared.
Compensated == co.prepared

\* e is the last entry of the loop.
LastCommit(e) == co.todo = {e}

\* participant.commit, the record of the operation, and tx.commit after the
\* last one.
CommitCall(e, ok) ==
    /\ co.pc = "committing"
    /\ First(e, co.todo)
    /\ Call(e, ok, "committed")
    /\ LET recorded == RecordCommitOp(tx, e[2])
           complete == recorded.completed_ops = Operations
           last == LastCommit(e)
       IN  /\ tx' = CASE ~ok -> tx
                      [] ok /\ last /\ complete -> [recorded EXCEPT !.phase = "Committed"]
                      [] OTHER -> recorded
           /\ co' = CASE ~ok \/ (last /\ ~complete) -> Aborting(Compensated)
                      [] ok /\ ~last -> [co EXCEPT !.todo = @ \ {e}]
                      [] OTHER -> Idle
    /\ UNCHANGED torn

\* Slip: only the last cleanup error counts.
CleanupErrorsLast(ok) == ~ok

\* An error of any abort call makes the cleanup fail.
CleanupErrors(ok) == co.errors \/ ~ok

\* One iteration of abort_entries (last entry first); the last one ends
\* finish_abort.
AbortCall(e, ok) ==
    /\ co.pc = "aborting"
    /\ Last(e, co.todo)
    /\ Call(e, ok, "none")
    /\ LET errors == CleanupErrors(ok) IN
       IF co.todo = {e}
       THEN /\ tx' = IF errors THEN MarkCleanupFailed(tx) ELSE AbortTx(tx)
            /\ co' = Idle
            /\ torn' = FALSE
       ELSE /\ co' = [co EXCEPT !.todo = @ \ {e}, !.errors = errors]
            /\ UNCHANGED <<tx, torn>>

\* TwoPhaseCoordinator::abort, whatever the phase.
Abort ==
    /\ co.pc = "idle"
    /\ co' = Aborting(Supports)
    /\ UNCHANGED <<tx, effect, torn>>

\* recover on a transaction that failed validation.
RecoverFailed ==
    /\ co.pc = "idle"
    /\ tx.phase = "Failed"
    /\ tx' = IF CanPrepare(tx) THEN Prepare(tx) ELSE AbortTx(Prepare(tx))
    /\ UNCHANGED <<co, effect, torn>>

\* recover on one that is stale or whose cleanup failed; it retains any other.
Recover ==
    /\ co.pc = "idle"
    /\ ~IsFullyCommitted(tx)
    /\ tx.phase \notin {"RolledBack", "Failed"}
    /\ tx.phase = "Aborting" \/ IsStale(tx)
    /\ co' = Aborting(Supports)
    /\ UNCHANGED <<tx, effect, torn>>

\* The caller drops the future (timeout, cancellation): the call in flight
\* may or may not have its effect, the transaction object stays.
Drop ==
    /\ co.pc # "idle"
    /\ \E e \in co.todo :
          \/ co.pc = "preparing" /\ First(e, co.todo) /\ Call(e, FALSE, PreparedAt(e))
          \/ co.pc = "committing" /\ First(e, co.todo) /\ Call(e, FALSE, "committed")
          \/ co.pc = "aborting" /\ Last(e, co.todo) /\ Call(e, FALSE, "none")
    /\ torn' = (torn \/ tx.phase = "Committed")
    /\ co' = Idle
    /\ UNCHANGED tx

\* STALE_TX_MINUTES pass.
GrowStale ==
    /\ tx.prepared_at = "fresh"
    /\ tx' = [tx EXCEPT !.prepared_at = "stale"]
    /\ UNCHANGED <<co, effect, torn>>

-----------------------------------------------------------------------------

CallStep(e) ==
    \E ok \in BOOLEAN : PrepareCall(e, ok) \/ CommitCall(e, ok) \/ AbortCall(e, ok)

Next ==
    \/ Execute \/ Abort \/ RecoverFailed \/ Recover
    \/ \E e \in co.todo : CallStep(e)
    \/ Drop
    \/ GrowStale

-----------------------------------------------------------------------------
(* Reconciler *)

rvars == <<tx, co, effect, torn, owner>>

RInit == Init /\ owner = "caller"

IsTerminal(t) == t.phase \in {"Committed", "RolledBack"}

\* pending_txs.retain(|tx| !tx.is_terminal())
Retain(t) == owner' = IF IsTerminal(t) THEN "discarded" ELSE "reconciler"

\* The caller drives the coordinator.
CallerStep == owner = "caller" /\ Next /\ UNCHANGED owner

Register ==
    /\ owner = "caller" /\ co.pc = "idle"
    /\ owner' = "reconciler"
    /\ UNCHANGED <<tx, co, effect, torn>>

TakePending ==
    /\ owner = "reconciler"
    /\ owner' = "caller"
    /\ UNCHANGED <<tx, co, effect, torn>>

\* Slip: a transaction whose cleanup failed is prepared again like any other.
ReconciledRetriesAborting(t) ==
    CASE IsFullyCommitted(t) -> t
      [] ~IsFullyCommitted(t) /\ IsStale(t) -> AbortTx(t)
      [] OTHER -> IF CanPrepare(t) \/ t.phase = "Aborting"
                  THEN [t EXCEPT !.phase = "Prepared", !.prepared_at = "fresh"] ELSE t

\* What one iteration of reconcile makes of the transaction.
Reconciled(t) ==
    IF IsFullyCommitted(t) \/ t.phase = "Aborting" THEN t
    ELSE IF IsStale(t) THEN AbortTx(t)
    ELSE IF t.phase \notin {"Failed", "RolledBack"} THEN t
    ELSE IF CanPrepare(t) THEN Prepare(t)
    ELSE AbortTx(Prepare(t))

Reconcile ==
    /\ owner = "reconciler"
    /\ tx' = Reconciled(tx)
    /\ Retain(tx')
    /\ UNCHANGED <<co, effect, torn>>

RecoverOrphaned ==
    /\ owner = "reconciler"
    /\ tx' = IF tx.phase \in {"Prepared", "Committing"} /\ IsStale(tx) THEN AbortTx(tx) ELSE tx
    /\ Retain(tx')
    /\ UNCHANGED <<co, effect, torn>>

CleanupTerminal ==
    /\ owner = "reconciler"
    /\ Retain(tx)
    /\ UNCHANGED <<tx, co, effect, torn>>

\* Time also passes for a registered transaction.
Wait == owner = "reconciler" /\ GrowStale /\ UNCHANGED owner

RNext ==
    \/ CallerStep \/ Register \/ TakePending
    \/ Reconcile \/ RecoverOrphaned \/ CleanupTerminal \/ Wait

RSpec == RInit /\ [][RNext]_rvars

-----------------------------------------------------------------------------
(* Properties *)

Committed == {e \in Supports : effect[e] = "committed"}

\* What the record tells its owner.  The reconciler also marks a stale
\* transaction RolledBack, without a call to a participant, but discards the
\* record in the same step: nobody reads that phase.
Outcome ==
    CASE co.pc # "aborting" /\ tx.phase = "Committed" /\ ~torn -> "committed"
      [] co.pc # "aborting" /\ tx.phase = "RolledBack" /\ owner # "discarded" -> "rolled_back"
      [] OTHER -> "open"

\* The coordinator and the reconciler keep what a transaction promises: a
\* committed transaction has every effect and a rolled-back one none, through
\* failed calls with unknown outcome, dropped futures, retries, recoveries and
\* changes of owner.
Atomic == INSTANCE AtomicTx WITH Effects <- Supports, outcome <- Outcome, done <- Committed

ImplementsAtomicTx == Atomic!Spec

\* Neither reconcile nor recover_orphaned gives up on a failed cleanup: the
\* transaction stays Aborting until a recover has undone every participant.
CleanupRemembered ==
    [][tx.phase = "Aborting" /\ tx'.phase # "Aborting"
         => tx'.phase = "RolledBack" /\ \A e \in Supports : effect'[e] = "none"]_rvars

\* A transaction the reconciler discards as committed has every effect, unless
\* the caller dropped an abort of it half way.
DiscardedCommitted ==
    owner = "discarded" /\ tx.phase = "Committed" /\ ~torn => Committed = Supports

\* The reconciler forgets nothing: what it discards as committed has every
\* effect, and a failed cleanup is remembered until it has succeeded.
NothingForgotten == []DiscardedCommitted /\ CleanupRemembered
=============================================================================
