--------------------------- MODULE ServiceProofs ----------------------------
(***************************************************************************)
(* Proofs about the services of the backend that must do a thing once, or  *)
(* lose none: the two-phase commit, vault records, nonces, idempotency     *)
(* keys, refresh tokens and the idempotent consumer.  They share no state; *)
(* each but the two-phase commit is instantiated with variables of its     *)
(* own.                                                                    *)
(*                                                                         *)
(* Every part has the same shape: what the constants must satisfy, the     *)
(* inductive invariant, a lemma per operation, and the theorems.           *)
(***************************************************************************)
EXTENDS TwoPhaseCommit, Integers, Sequences, FiniteSets, TLAPS

-----------------------------------------------------------------------------
(* The two-phase commit coordinator and its reconciler, for any set of      *)
(* operations and any participants that support them: two_phase_commit.rs   *)

\* Participants and operations are numbered.
Numbered == Operations \subseteq Nat /\ Supports \subseteq Nat \X Operations

TwoPhaseTypeOK ==
    /\ tx \in TwoPhaseTx
    /\ co \in Coordinator
    /\ effect \in [Supports -> {"none", "prepared", "committed"}]
    /\ torn \in BOOLEAN

\* execute runs on a transaction that it prepared and that was not decided.
ExecuteUndecided ==
    /\ co.pc = "preparing" => tx.phase = "Prepared"
    /\ co.pc = "committing" => tx.phase \in {"Prepared", "Committing"}

\* The prepare loop has visited what it has pushed; the commit loop starts
\* with every entry pushed.
Loops ==
    /\ co.pc = "preparing" => co.prepared \union co.todo = Supports
    /\ co.pc = "preparing" => co.todo = Supports \/ \A e \in Supports : First(e, Supports) => e \in co.prepared
    /\ co.pc = "committing" =>
          /\ co.prepared = Supports
          /\ \A e \in Supports \ co.todo : effect[e] = "committed"
          /\ tx.phase = "Prepared" => co.todo = Supports

\* Until a commit call has answered, only the first entry may be committed.
OnlyFirstCommitted == tx.phase = "Prepared" => \A e \in Committed : First(e, Supports)

\* What cannot be prepared, or is not supported throughout, never runs.
NeverRun ==
    ~tx.valid \/ Supported # Operations =>
        co.pc \notin {"preparing", "committing"} /\ Committed = {}

\* A cleanup without errors so far has undone the entries it has visited, and
\* the entries it does not visit were not committed.
CleanupSoFar ==
    co.pc = "aborting" /\ ~co.errors =>
        \A e \in Supports \ co.todo :
            /\ effect[e] # "committed"
            /\ tx.phase = "Aborting" => effect[e] = "none"

Decided ==
    /\ tx.phase \in {"RolledBack", "Failed"} => Committed = {}
    /\ tx.phase = "Committed" /\ ~torn /\ co.pc # "aborting" => Committed = Supports

TwoPhaseInv ==
    /\ TwoPhaseTypeOK /\ ExecuteUndecided /\ Loops /\ OnlyFirstCommitted
    /\ NeverRun /\ CleanupSoFar /\ Decided

\* The reconciler gives up ownership of what it has decided: only of a
\* transaction that is gone may the phase and the effects disagree.
ReconcilerInv ==
    /\ owner \in {"caller", "reconciler", "discarded"}
    /\ owner # "discarded" => TwoPhaseInv
    /\ owner = "reconciler" => co.pc = "idle"
    /\ DiscardedCommitted

\* A participant call touches one entry, and has its effect when it answers.
LEMMA CallEffect ==
    ASSUME effect \in [Supports -> {"none", "prepared", "committed"}],
           NEW e \in Supports, NEW ok \in BOOLEAN,
           NEW done \in {"none", "prepared", "committed"}, Call(e, ok, done)
    PROVE  /\ effect' \in [Supports -> {"none", "prepared", "committed"}]
           /\ \A f \in Supports : f # e => effect'[f] = effect[f]
           /\ effect'[e] \in {effect[e], done}
           /\ ok => effect'[e] = done
  BY DEF Call

\* The entries are visited in a total order: one of them comes first.
LEMMA FirstUnique ==
    ASSUME Numbered, NEW S \in SUBSET Supports, NEW e, NEW f, First(e, S), First(f, S)
    PROVE  e = f
<1>1. e \in Nat \X Nat /\ f \in Nat \X Nat
  BY Zenon DEF First, Numbered
<1>2. e[1] \in Nat /\ e[2] \in Nat /\ f[1] \in Nat /\ f[2] \in Nat
  BY <1>1
<1>3. ~(Precedes(e, f) /\ Precedes(f, e))
  BY <1>2 DEF Precedes
<1> QED  BY <1>3 DEF First

\* The transaction's own operations keep its type and its validity.
LEMMA TxTyped ==
    ASSUME NEW t \in TwoPhaseTx
    PROVE  /\ Prepare(t) \in TwoPhaseTx /\ Prepare(t).valid = t.valid
           /\ AbortTx(t) \in TwoPhaseTx /\ AbortTx(t).valid = t.valid
           /\ AbortTx(t).phase = "RolledBack"
           /\ MarkCleanupFailed(t) \in TwoPhaseTx /\ MarkCleanupFailed(t).valid = t.valid
           /\ MarkCleanupFailed(t).phase = "Aborting"
           /\ Prepare(t).phase =
                 IF t.phase \notin {"Prepared", "Failed", "RolledBack"} THEN t.phase
                 ELSE IF t.valid THEN "Prepared" ELSE "Failed"
           /\ \A o \in Operations :
                 /\ RecordCommitOp(t, o) \in TwoPhaseTx
                 /\ RecordCommitOp(t, o).valid = t.valid
                 /\ RecordCommitOp(t, o).phase = "Committing"
  BY Zenon DEF TwoPhaseTx, TxPhase, Prepare, AbortTx, MarkCleanupFailed, RecordCommitOp

\* A cleanup starts with all its entries before it.
LEMMA AbortingTyped ==
    ASSUME NEW S \in SUBSET Supports
    PROVE  /\ Aborting(S) \in Coordinator /\ Aborting(S).pc = "aborting"
           /\ Aborting(S).todo = S /\ Aborting(S).errors = FALSE
  BY DEF Aborting, Coordinator

\* The steps of the coordinator that await nothing.
LEMMA LocalStep ==
    ASSUME Numbered, TwoPhaseInv, Execute \/ Abort \/ RecoverFailed \/ Recover \/ GrowStale
    PROVE  TwoPhaseInv'
<1> USE DEF TwoPhaseInv, TwoPhaseTypeOK
<1>1. effect' = effect /\ torn' = torn /\ Committed' = Committed
  BY DEF Execute, Abort, RecoverFailed, Recover, GrowStale, Committed
<1>2. CASE Execute
  <2>1. co.pc = "idle" /\ co' \in Coordinator /\ co'.pc \in {"idle", "preparing"}
    BY <1>2, Zenon DEF Execute, Coordinator, Idle
  <2>2. CASE CanPrepare(tx) /\ Supported = Operations
    <3>1. /\ tx' = Prepare(tx) /\ tx'.phase = "Prepared" /\ tx.valid
          /\ co'.pc = "preparing" /\ co'.prepared = {} /\ co'.todo = Supports
      BY <1>2, <2>2, TxTyped DEF Execute, CanPrepare, Idle
    <3>2. tx' \in TwoPhaseTx /\ tx'.valid
      BY <3>1, TxTyped
    <3>3. \A e \in Committed : First(e, Supports)
      BY <2>2 DEF OnlyFirstCommitted, Decided, CanPrepare
    <3> QED
      BY <1>1, <2>1, <2>2, <3>1, <3>2, <3>3
      DEF ExecuteUndecided, Loops, OnlyFirstCommitted, NeverRun, CleanupSoFar, Decided
  <2>3. CASE CanPrepare(tx) /\ Supported # Operations
    <3>1. tx' = AbortTx(Prepare(tx)) /\ co' = co
      BY <1>2, <2>3 DEF Execute
    <3>2. tx' \in TwoPhaseTx /\ tx'.phase = "RolledBack" /\ tx'.valid = tx.valid
      BY <3>1, TxTyped
    <3>3. Committed = {}
      BY <2>3 DEF NeverRun
    <3> QED
      BY <1>1, <2>1, <3>1, <3>2, <3>3
      DEF ExecuteUndecided, Loops, OnlyFirstCommitted, NeverRun, CleanupSoFar, Decided
  <2>4. CASE ~CanPrepare(tx)
    <3>1. tx' = Prepare(tx) /\ co' = co
      BY <1>2, <2>4 DEF Execute
    <3>2. tx' \in TwoPhaseTx /\ tx'.valid = tx.valid
      BY <3>1, TxTyped
    <3>3. tx'.phase = tx.phase \/ (tx'.phase = "Failed" /\ ~tx.valid)
      BY <2>4, <3>1, TxTyped DEF CanPrepare
    <3>4. CASE tx'.phase = tx.phase
      BY <1>1, <2>1, <3>1, <3>2, <3>4
      DEF ExecuteUndecided, Loops, OnlyFirstCommitted, NeverRun, CleanupSoFar, Decided
    <3>5. CASE tx'.phase = "Failed" /\ ~tx.valid
      BY <1>1, <2>1, <3>1, <3>2, <3>5
      DEF ExecuteUndecided, Loops, OnlyFirstCommitted, NeverRun, CleanupSoFar, Decided
    <3> QED  BY <3>3, <3>4, <3>5
  <2> QED  BY <2>2, <2>3, <2>4
<1>3. CASE Abort \/ Recover
  <2>1. /\ tx' = tx /\ co.pc = "idle"
        /\ co' \in Coordinator /\ co'.pc = "aborting" /\ co'.todo = Supports
    <3>1. tx' = tx /\ co.pc = "idle" /\ co' = Aborting(Supports)
      BY <1>3 DEF Abort, Recover
    <3> QED  BY <3>1, AbortingTyped, Zenon
  <2> QED
    BY <1>1, <2>1
    DEF ExecuteUndecided, Loops, OnlyFirstCommitted, NeverRun, CleanupSoFar, Decided
<1>4. CASE RecoverFailed
  <2>1. co' = co /\ co.pc = "idle" /\ tx.phase = "Failed" /\ Committed = {}
    BY <1>4 DEF RecoverFailed, Decided
  <2>2. tx' \in TwoPhaseTx /\ tx'.valid = tx.valid /\ tx'.phase \in {"Prepared", "RolledBack"}
    BY <1>4, <2>1, TxTyped DEF RecoverFailed, CanPrepare
  <2> QED
    BY <1>1, <2>1, <2>2
    DEF ExecuteUndecided, Loops, OnlyFirstCommitted, NeverRun, CleanupSoFar, Decided
<1>5. CASE GrowStale
  <2>1. /\ co' = co /\ tx' \in TwoPhaseTx
        /\ tx'.phase = tx.phase /\ tx'.valid = tx.valid
    BY <1>5 DEF GrowStale, TwoPhaseTx
  <2> QED
    BY <1>1, <2>1
    DEF ExecuteUndecided, Loops, OnlyFirstCommitted, NeverRun, CleanupSoFar, Decided
<1> QED  BY <1>2, <1>3, <1>4, <1>5

\* A prepare call changes no entry's commitment, and starts the cleanup if it
\* fails and the commits if it was the last one.
LEMMA PrepareStep ==
    ASSUME Numbered, TwoPhaseInv, NEW e \in co.todo, NEW ok \in BOOLEAN, PrepareCall(e, ok)
    PROVE  TwoPhaseInv'
<1> USE DEF TwoPhaseInv, TwoPhaseTypeOK
<1>1. /\ co.pc = "preparing" /\ First(e, co.todo) /\ Call(e, ok, PreparedAt(e))
      /\ tx' = tx /\ torn' = torn /\ e \in Supports
  BY DEF PrepareCall, Coordinator
<1>2. PreparedAt(e) \in {"none", "prepared", "committed"}
  BY <1>1 DEF PreparedAt
<1>3. /\ effect' \in [Supports -> {"none", "prepared", "committed"}]
      /\ \A f \in Supports : f # e => effect'[f] = effect[f]
      /\ effect'[e] \in {effect[e], PreparedAt(e)}
  BY <1>1, <1>2, CallEffect
<1>4. Committed' = Committed
  BY <1>1, <1>3 DEF Committed, PreparedAt
<1>5. tx.phase = "Prepared" /\ tx.valid /\ Supported = Operations
  BY <1>1 DEF ExecuteUndecided, NeverRun, TwoPhaseTx
<1> DEFINE prepared == co.prepared \union {e}
           todo == co.todo \ {e}
<1>6. prepared \in SUBSET Supports /\ todo \in SUBSET Supports /\ prepared \union todo = Supports
  BY <1>1 DEF Coordinator, Loops
<1>7. \A f \in Supports : First(f, Supports) => f \in prepared
  BY <1>1, FirstUnique DEF Loops
<1>8. \A f \in Committed : f \in prepared
  BY <1>5, <1>7 DEF OnlyFirstCommitted, Committed
<1>9. CASE ~ok
  <2>1. co' = Aborting(prepared)
    BY <1>9 DEF PrepareCall
  <2>2. co' \in Coordinator /\ co'.pc = "aborting" /\ co'.todo = prepared
    BY <1>6, <2>1, AbortingTyped, Zenon
  <2>3. \A f \in Supports \ prepared : effect'[f] # "committed"
    BY <1>3, <1>8 DEF Committed
  <2> QED
    BY <1>1, <1>3, <1>4, <1>5, <2>2, <2>3
    DEF ExecuteUndecided, Loops, OnlyFirstCommitted, NeverRun, CleanupSoFar, Decided
<1>10. CASE ok /\ todo # {}
  <2>1. co' = [co EXCEPT !.prepared = prepared, !.todo = todo]
    BY <1>10 DEF PrepareCall
  <2>2. co' \in Coordinator /\ co'.pc = "preparing" /\ co'.prepared = prepared /\ co'.todo = todo
    BY <1>1, <1>6, <2>1, Zenon DEF Coordinator
  <2> QED
    BY <1>1, <1>3, <1>4, <1>5, <1>6, <1>7, <2>2
    DEF ExecuteUndecided, Loops, OnlyFirstCommitted, NeverRun, CleanupSoFar, Decided
<1>11. CASE ok /\ todo = {}
  <2>1. co' = [pc |-> "committing", prepared |-> prepared, todo |-> prepared, errors |-> FALSE]
    BY <1>11 DEF PrepareCall
  <2>2. /\ co' \in Coordinator /\ co'.pc = "committing"
        /\ co'.prepared = Supports /\ co'.todo = Supports
    BY <1>6, <1>11, <2>1 DEF Coordinator
  <2> QED
    BY <1>1, <1>3, <1>4, <1>5, <2>2
    DEF ExecuteUndecided, Loops, OnlyFirstCommitted, NeverRun, CleanupSoFar, Decided
<1> QED  BY <1>9, <1>10, <1>11

\* A commit call: the first one to answer leaves the phase Prepared behind,
\* the last one decides, and one that fails starts a cleanup of every entry.
LEMMA CommitStep ==
    ASSUME Numbered, TwoPhaseInv, NEW e \in co.todo, NEW ok \in BOOLEAN, CommitCall(e, ok)
    PROVE  TwoPhaseInv'
<1> USE DEF TwoPhaseInv, TwoPhaseTypeOK
<1>1. /\ co.pc = "committing" /\ First(e, co.todo) /\ Call(e, ok, "committed")
      /\ torn' = torn /\ e \in Supports
  BY DEF CommitCall, Coordinator
<1>2. /\ effect' \in [Supports -> {"none", "prepared", "committed"}]
      /\ \A f \in Supports : f # e => effect'[f] = effect[f]
      /\ effect'[e] \in {effect[e], "committed"}
      /\ ok => effect'[e] = "committed"
  BY <1>1, CallEffect
<1>3. co.prepared = Supports /\ \A f \in Supports \ co.todo : effect[f] = "committed"
  BY <1>1 DEF Loops
<1>4. /\ tx.phase \in {"Prepared", "Committing"} /\ tx.valid /\ Supported = Operations
      /\ tx.phase = "Prepared" => co.todo = Supports
  BY <1>1 DEF ExecuteUndecided, NeverRun, TwoPhaseTx, Loops
<1> DEFINE recorded == RecordCommitOp(tx, e[2])
           complete == recorded.completed_ops = Operations
           last == co.todo = {e}
<1>5. recorded \in TwoPhaseTx /\ recorded.phase = "Committing" /\ recorded.valid = tx.valid
  <2>1. e[2] \in Operations
    BY <1>1 DEF Numbered
  <2> QED  BY <2>1, TxTyped
<1>6. \A f \in Committed' : f \in Committed \/ f = e
  BY <1>2 DEF Committed
<1>7. CASE ~ok
  <2>1. tx' = tx /\ co' = Aborting(Supports)
    BY <1>3, <1>7 DEF CommitCall, Compensated
  <2>2. co' \in Coordinator /\ co'.pc = "aborting" /\ co'.todo = Supports
    BY <2>1, AbortingTyped, Zenon
  <2>3. OnlyFirstCommitted'
    BY <1>1, <1>4, <1>6, <2>1 DEF OnlyFirstCommitted, First
  <2> QED
    BY <1>1, <1>2, <1>4, <2>1, <2>2, <2>3
    DEF ExecuteUndecided, Loops, NeverRun, CleanupSoFar, Decided
<1>8. CASE ok /\ last /\ complete
  <2>1. tx' = [recorded EXCEPT !.phase = "Committed"] /\ co' = Idle
    BY <1>8 DEF CommitCall, LastCommit
  <2>2. /\ tx' \in TwoPhaseTx /\ tx'.phase = "Committed" /\ tx'.valid = tx.valid
        /\ co' \in Coordinator /\ co'.pc = "idle"
    <3> HIDE DEF recorded
    <3> QED  BY <1>5, <2>1 DEF TwoPhaseTx, TxPhase, Idle, Coordinator
  <2>3. Committed' = Supports
    BY <1>2, <1>3, <1>8 DEF Committed
  <2> QED
    BY <1>1, <1>2, <1>4, <2>2, <2>3
    DEF ExecuteUndecided, Loops, OnlyFirstCommitted, NeverRun, CleanupSoFar, Decided
<1>9. CASE ok /\ last /\ ~complete
  <2>1. tx' = recorded /\ co' = Aborting(Supports)
    BY <1>3, <1>9 DEF CommitCall, LastCommit, Compensated
  <2>2. co' \in Coordinator /\ co'.pc = "aborting" /\ co'.todo = Supports
    BY <2>1, AbortingTyped, Zenon
  <2> QED
    BY <1>1, <1>2, <1>4, <1>5, <2>1, <2>2, Zenon
    DEF ExecuteUndecided, Loops, OnlyFirstCommitted, NeverRun, CleanupSoFar, Decided
<1>10. CASE ok /\ ~last
  <2>1. tx' = recorded /\ co' = [co EXCEPT !.todo = @ \ {e}]
    BY <1>10 DEF CommitCall, LastCommit
  <2>2. /\ co' \in Coordinator /\ co'.pc = "committing" /\ co'.prepared = Supports
        /\ co'.todo = co.todo \ {e}
    BY <1>1, <1>3, <2>1 DEF Coordinator
  <2>3. \A f \in Supports \ co'.todo : effect'[f] = "committed"
    BY <1>2, <1>3, <1>10, <2>2
  <2> QED
    BY <1>1, <1>2, <1>4, <1>5, <2>1, <2>2, <2>3, Zenon
    DEF ExecuteUndecided, Loops, OnlyFirstCommitted, NeverRun, CleanupSoFar, Decided
<1> QED  BY <1>7, <1>8, <1>9, <1>10

\* A cleanup call takes an effect back or leaves it; the last one decides.
LEMMA AbortStep ==
    ASSUME Numbered, TwoPhaseInv, NEW e \in co.todo, NEW ok \in BOOLEAN, AbortCall(e, ok)
    PROVE  /\ TwoPhaseInv'
           /\ tx.phase = "Aborting" /\ tx'.phase # "Aborting" =>
                 tx'.phase = "RolledBack" /\ \A f \in Supports : effect'[f] = "none"
<1> USE DEF TwoPhaseInv, TwoPhaseTypeOK
<1>1. co.pc = "aborting" /\ Call(e, ok, "none") /\ e \in Supports
  BY DEF AbortCall, Coordinator
<1>2. /\ effect' \in [Supports -> {"none", "prepared", "committed"}]
      /\ \A f \in Supports : f # e => effect'[f] = effect[f]
      /\ effect'[e] \in {effect[e], "none"}
      /\ ok => effect'[e] = "none"
  BY <1>1, CallEffect
<1>3. Committed' \subseteq Committed
  BY <1>2 DEF Committed
<1> DEFINE errors == co.errors \/ ~ok
<1>4. ~errors => \A f \in Supports \ (co.todo \ {e}) :
         /\ effect'[f] # "committed"
         /\ tx.phase = "Aborting" => effect'[f] = "none"
  BY <1>1, <1>2 DEF CleanupSoFar
<1>5. CASE co.todo = {e}
  <2>1. /\ tx' = IF errors THEN MarkCleanupFailed(tx) ELSE AbortTx(tx)
        /\ co' = Idle /\ torn' = FALSE
    BY <1>5 DEF AbortCall, CleanupErrors
  <2>2. /\ tx' \in TwoPhaseTx /\ tx'.valid = tx.valid
        /\ tx'.phase = IF errors THEN "Aborting" ELSE "RolledBack"
    BY <2>1, TxTyped
  <2>3. co' \in Coordinator /\ co'.pc = "idle"
    BY <2>1 DEF Idle, Coordinator
  <2>4. ~errors => Committed' = {}
    BY <1>4, <1>5 DEF Committed
  <2>5. TwoPhaseInv'
    BY <1>1, <1>2, <1>3, <2>1, <2>2, <2>3, <2>4, Zenon
    DEF ExecuteUndecided, Loops, OnlyFirstCommitted, NeverRun, CleanupSoFar, Decided
  <2> QED  BY <1>4, <1>5, <2>2, <2>5
<1>6. CASE co.todo # {e}
  <2>1. co' = [co EXCEPT !.todo = @ \ {e}, !.errors = errors] /\ tx' = tx /\ torn' = torn
    BY <1>6 DEF AbortCall, CleanupErrors
  <2>2. /\ co' \in Coordinator /\ co'.pc = "aborting"
        /\ co'.todo = co.todo \ {e} /\ co'.errors = errors
    BY <1>1, <2>1, Zenon DEF Coordinator
  <2>3. TwoPhaseInv'
    BY <1>1, <1>2, <1>3, <1>4, <2>1, <2>2, Zenon
    DEF ExecuteUndecided, Loops, OnlyFirstCommitted, NeverRun, CleanupSoFar, Decided
  <2> QED  BY <2>1, <2>3
<1> QED  BY <1>5, <1>6

\* A dropped future leaves one call whose outcome is not known.
LEMMA DropStep ==
    ASSUME Numbered, TwoPhaseInv, Drop
    PROVE  TwoPhaseInv'
<1> USE DEF TwoPhaseInv, TwoPhaseTypeOK
<1>1. PICK e \in co.todo :
         \/ co.pc = "preparing" /\ First(e, co.todo) /\ Call(e, FALSE, PreparedAt(e))
         \/ co.pc = "committing" /\ First(e, co.todo) /\ Call(e, FALSE, "committed")
         \/ co.pc = "aborting" /\ Last(e, co.todo) /\ Call(e, FALSE, "none")
  BY Zenon DEF Drop
<1>2. e \in Supports /\ PreparedAt(e) \in {"none", "prepared", "committed"}
  BY <1>1 DEF Coordinator, PreparedAt
<1>3. /\ tx' = tx /\ co' = Idle /\ torn' = (torn \/ tx.phase = "Committed")
      /\ co' \in Coordinator /\ co'.pc = "idle" /\ torn' \in BOOLEAN
  BY DEF Drop, Idle, Coordinator
<1>4. CASE co.pc = "preparing" /\ Call(e, FALSE, PreparedAt(e))
  <2>1. /\ effect' \in [Supports -> {"none", "prepared", "committed"}]
        /\ \A f \in Supports : f # e => effect'[f] = effect[f]
        /\ effect'[e] \in {effect[e], PreparedAt(e)}
    BY <1>2, <1>4, CallEffect, Zenon
  <2>2. Committed' = Committed
    BY <1>2, <2>1 DEF Committed, PreparedAt
  <2> QED
    BY <1>3, <1>4, <2>1, <2>2
    DEF ExecuteUndecided, Loops, OnlyFirstCommitted, NeverRun, CleanupSoFar, Decided
<1>5. CASE co.pc = "committing" /\ First(e, co.todo) /\ Call(e, FALSE, "committed")
  <2>1. /\ effect' \in [Supports -> {"none", "prepared", "committed"}]
        /\ \A f \in Supports : f # e => effect'[f] = effect[f]
    BY <1>2, <1>5, CallEffect, Zenon
  <2>2. \A f \in Committed' : f \in Committed \/ f = e
    BY <2>1 DEF Committed
  <2>3. OnlyFirstCommitted'
    BY <1>3, <1>5, <2>2 DEF OnlyFirstCommitted, Loops, First
  <2> QED
    BY <1>3, <1>5, <2>1, <2>3
    DEF ExecuteUndecided, Loops, NeverRun, CleanupSoFar, Decided
<1>6. CASE co.pc = "aborting" /\ Call(e, FALSE, "none")
  <2>1. /\ effect' \in [Supports -> {"none", "prepared", "committed"}]
        /\ \A f \in Supports : f # e => effect'[f] = effect[f]
        /\ effect'[e] \in {effect[e], "none"}
    BY <1>2, <1>6, CallEffect, Zenon
  <2>2. Committed' \subseteq Committed
    BY <2>1 DEF Committed
  <2> QED
    BY <1>3, <1>6, <2>1, <2>2, Zenon
    DEF ExecuteUndecided, Loops, OnlyFirstCommitted, NeverRun, CleanupSoFar, Decided
<1> QED  BY <1>1, <1>4, <1>5, <1>6, Zenon

\* Every step of the coordinator keeps the invariant.
LEMMA CoordinatorStep ==
    ASSUME Numbered, TwoPhaseInv, [Next]_vars
    PROVE  TwoPhaseInv'
<1>1. CASE UNCHANGED vars
  BY <1>1 DEF vars, TwoPhaseInv, TwoPhaseTypeOK, ExecuteUndecided, Loops, OnlyFirstCommitted,
              NeverRun, CleanupSoFar, Decided, Committed
<1> QED
  BY <1>1, LocalStep, PrepareStep, CommitStep, AbortStep, DropStep DEF Next, CallStep

\* Nothing is prepared and the coordinator is idle.
LEMMA CoordinatorInit == Init => TwoPhaseInv
<1> SUFFICES ASSUME Init PROVE TwoPhaseInv
  OBVIOUS
<1>1. tx \in TwoPhaseTx /\ tx.phase = "Prepared"
  BY DEF Init, TwoPhaseTx, TxPhase
<1>2. co \in Coordinator /\ co.pc = "idle"
  BY DEF Init, Idle, Coordinator
<1>3. /\ effect \in [Supports -> {"none", "prepared", "committed"}]
      /\ torn = FALSE /\ Committed = {}
  BY DEF Init, Committed
<1> QED
  BY <1>1, <1>2, <1>3, Zenon DEF TwoPhaseInv, TwoPhaseTypeOK, ExecuteUndecided, Loops,
     OnlyFirstCommitted, NeverRun, CleanupSoFar, Decided

\* While a transaction counts as decided no participant is called.
LEMMA DecidedStill ==
    ASSUME TwoPhaseInv, Next, Outcome # "open"
    PROVE  co.pc = "idle" /\ effect' = effect /\ torn' = torn
<1>1. co.pc # "aborting" /\ tx.phase \in {"Committed", "RolledBack"}
  BY DEF Outcome
<1>2. co.pc = "idle"
  BY <1>1 DEF TwoPhaseInv, TwoPhaseTypeOK, Coordinator, ExecuteUndecided
<1> QED
  BY <1>2 DEF Next, Execute, Abort, RecoverFailed, Recover, CallStep, PrepareCall, CommitCall,
              AbortCall, Drop, GrowStale

\* Every step of the coordinator is a step of the atomic transaction.
LEMMA StepSimulated ==
    ASSUME TwoPhaseInv, TwoPhaseInv', [Next]_vars, owner' = owner
    PROVE  [Atomic!Next]_(Atomic!vars)
<1> USE DEF Atomic!Next, Atomic!vars
<1>1. CASE UNCHANGED vars
  BY <1>1 DEF vars, Outcome, Committed
<1>2. CASE Next /\ Outcome = "open"
  <2>1. Outcome' = "committed" => Committed' = Supports
    BY DEF Outcome, TwoPhaseInv, Decided
  <2>2. Outcome' = "rolled_back" => Committed' = {}
    BY DEF Outcome, TwoPhaseInv, Decided
  <2>3. Outcome' \in {"open", "committed", "rolled_back"} /\ Committed' \in SUBSET Supports
    BY DEF Outcome, Committed
  <2> QED
    BY <1>2, <2>1, <2>2, <2>3 DEF Atomic!Progress, Atomic!Commit, Atomic!RollBack
<1>3. CASE Next /\ Outcome # "open"
  <2>1. co.pc = "idle" /\ effect' = effect /\ torn' = torn /\ Committed' = Committed
    BY <1>3, DecidedStill DEF Committed
  <2>2. tx.phase \in {"Committed", "RolledBack"}
    BY <1>3 DEF Outcome
  <2>3. Outcome' \in {Outcome, "open"}
    <3>1. CASE tx'.phase = tx.phase
      BY <1>3, <2>1, <3>1 DEF Outcome
    <3>2. CASE tx'.phase # tx.phase
      <4>1. (CanPrepare(tx) /\ tx' = AbortTx(Prepare(tx))) \/ tx' = Prepare(tx)
        BY <1>3, <2>1, <2>2, <3>2
        DEF Next, Execute, Abort, RecoverFailed, Recover, CallStep, PrepareCall, CommitCall,
            AbortCall, Drop, GrowStale, TwoPhaseInv, TwoPhaseTypeOK, TwoPhaseTx
      <4>2. tx'.phase \in {"Prepared", "Failed", "RolledBack"} /\ tx.phase = "RolledBack"
        BY <2>2, <3>2, <4>1, TxTyped DEF TwoPhaseInv, TwoPhaseTypeOK, CanPrepare
      <4> QED  BY <2>2, <3>2, <4>2 DEF Outcome
    <3> QED  BY <3>1, <3>2
  <2> QED  BY <1>3, <2>1, <2>3 DEF Atomic!Reopen
<1> QED  BY <1>1, <1>2, <1>3

\* What the reconciler's own calls make of a transaction nobody works on.
LEMMA ReconcilerOwnStep ==
    ASSUME TwoPhaseInv, co.pc = "idle", owner = "reconciler",
           UNCHANGED <<co, effect, torn>>, Retain(tx'),
           tx' \in {tx, AbortTx(tx), Prepare(tx), AbortTx(Prepare(tx))},
           tx.phase = "Aborting" => tx' = tx,
           tx.phase = "Committed" => tx' = tx \/ tx' = AbortTx(tx)
    PROVE  ReconcilerInv' /\ (tx.phase = "Aborting" => tx'.phase = "Aborting")
<1>1. tx \in TwoPhaseTx /\ tx' \in TwoPhaseTx /\ tx'.valid = tx.valid
  BY TxTyped DEF TwoPhaseInv, TwoPhaseTypeOK
<1>2. /\ owner' = IF tx'.phase \in {"Committed", "RolledBack"} THEN "discarded" ELSE "reconciler"
      /\ co' = co /\ effect' = effect /\ torn' = torn /\ Committed' = Committed
  BY DEF Retain, IsTerminal, Committed
<1>3. tx'.phase \in {tx.phase, "RolledBack", "Prepared", "Failed"}
  BY <1>1, TxTyped
<1>4. tx'.phase \in {"Prepared", "Failed"} =>
         tx'.phase = tx.phase \/ tx.phase \in {"Prepared", "Failed", "RolledBack"}
  BY <1>1, TxTyped
<1>5. CASE tx'.phase = "Committed"
  <2>1. tx.phase = "Committed"
    BY <1>3, <1>5
  <2> QED
    BY <1>2, <1>5, <2>1 DEF ReconcilerInv, DiscardedCommitted, TwoPhaseInv, Decided
<1>6. CASE tx'.phase = "RolledBack"
  BY <1>2, <1>6, TxTyped DEF ReconcilerInv, DiscardedCommitted
<1>7. CASE tx'.phase \notin {"Committed", "RolledBack"}
  <2>1. owner' = "reconciler" /\ tx'.phase \in {tx.phase, "Prepared", "Failed"}
    BY <1>2, <1>3, <1>7
  <2>2. tx'.phase # tx.phase => tx.phase \in {"Prepared", "Failed", "RolledBack"}
    BY <1>4, <2>1
  <2>3. tx'.phase # tx.phase => Committed = {} \/ tx'.phase = "Failed"
    BY <2>1, <2>2 DEF TwoPhaseInv, Decided
  <2>4. tx'.phase = "Failed" => Committed = {}
    BY <1>1, <1>4, <2>1, TxTyped DEF TwoPhaseInv, Decided, NeverRun
  <2>5. TwoPhaseInv'
    BY <1>1, <1>2, <1>7, <2>1, <2>3, <2>4 DEF TwoPhaseInv, TwoPhaseTypeOK, ExecuteUndecided,
       Loops, OnlyFirstCommitted, NeverRun, CleanupSoFar, Decided
  <2> QED  BY <1>2, <1>7, <2>1, <2>5 DEF ReconcilerInv, DiscardedCommitted
<1> QED  BY <1>5, <1>6, <1>7

\* The coordinator leaves a failed cleanup only by undoing every participant.
LEMMA CleanupLeft ==
    ASSUME Numbered, TwoPhaseInv, Next, tx.phase = "Aborting", tx'.phase # "Aborting"
    PROVE  tx'.phase = "RolledBack" /\ \A e \in Supports : effect'[e] = "none"
<1>1. co.pc \notin {"preparing", "committing"}
  BY SMTT(30) DEF TwoPhaseInv, ExecuteUndecided
<1>2. PICK e \in co.todo, ok \in BOOLEAN : AbortCall(e, ok)
  BY <1>1, Zenon DEF Next, Execute, Prepare, CanPrepare, Abort, RecoverFailed, Recover,
     CallStep,
     PrepareCall, CommitCall, Drop, GrowStale, TwoPhaseInv, TwoPhaseTypeOK, TwoPhaseTx
<1> QED  BY <1>2, AbortStep

\* Every step of the reconciler keeps its invariant.
LEMMA ReconcilerStep ==
    ASSUME Numbered, ReconcilerInv, [RNext]_rvars
    PROVE  /\ ReconcilerInv'
           /\ tx.phase = "Aborting" /\ tx'.phase # "Aborting" =>
                 tx'.phase = "RolledBack" /\ \A e \in Supports : effect'[e] = "none"
<1> USE DEF ReconcilerInv
<1>1. CASE CallerStep
  BY <1>1, CoordinatorStep, CleanupLeft DEF CallerStep, DiscardedCommitted
<1>2. CASE Register \/ TakePending
  <2>1. UNCHANGED vars /\ TwoPhaseInv
    BY <1>2 DEF Register, TakePending, vars
  <2>2. TwoPhaseInv'
    BY <2>1, CoordinatorStep
  <2> QED  BY <1>2, <2>1, <2>2 DEF Register, TakePending, vars, DiscardedCommitted
<1>3. CASE Reconcile
  <2>1. /\ tx' \in {tx, AbortTx(tx), Prepare(tx), AbortTx(Prepare(tx))}
        /\ tx.phase = "Aborting" => tx' = tx
        /\ tx.phase = "Committed" => tx' = tx \/ tx' = AbortTx(tx)
    BY <1>3 DEF Reconcile, Reconciled
  <2> QED  BY <1>3, <2>1, ReconcilerOwnStep DEF Reconcile
<1>4. CASE RecoverOrphaned
  BY <1>4, ReconcilerOwnStep DEF RecoverOrphaned
<1>5. CASE CleanupTerminal
  <2>1. tx' = tx /\ Retain(tx')
    BY <1>5 DEF CleanupTerminal
  <2> QED  BY <1>5, <2>1, ReconcilerOwnStep DEF CleanupTerminal
<1>6. CASE Wait
  <2>1. Next /\ owner' = owner /\ co' = co
    BY <1>6 DEF Wait, Next, GrowStale
  <2>2. owner = "reconciler" /\ TwoPhaseInv
    BY <1>6 DEF Wait
  <2> QED  BY <2>1, <2>2, CoordinatorStep, CleanupLeft DEF DiscardedCommitted
<1>7. CASE UNCHANGED rvars
  <2>1. UNCHANGED vars /\ owner' = owner /\ Committed' = Committed
    BY <1>7 DEF rvars, vars, Committed
  <2>2. owner # "discarded" => TwoPhaseInv'
    BY <2>1, CoordinatorStep
  <2> QED  BY <2>1, <2>2 DEF vars, DiscardedCommitted
<1> QED  BY <1>1, <1>2, <1>3, <1>4, <1>5, <1>6, <1>7 DEF RNext

\* What the reconciler makes of a transaction leaves the participants alone; it
\* tells its owner that the transaction is open again, or nothing new.
LEMMA OwnStepSimulated ==
    ASSUME TwoPhaseInv, owner = "reconciler",
           UNCHANGED <<co, effect, torn>>, Retain(tx'),
           tx' \in {tx, AbortTx(tx), Prepare(tx), AbortTx(Prepare(tx))},
           tx.phase = "Committed" => tx' = tx \/ tx' = AbortTx(tx)
    PROVE  [Atomic!Next]_(Atomic!vars)
<1>1. Committed' = Committed /\ Committed \in SUBSET Supports
  BY DEF Committed
<1>2. /\ owner' = IF tx'.phase \in {"Committed", "RolledBack"} THEN "discarded" ELSE "reconciler"
      /\ co' = co /\ torn' = torn
  BY DEF Retain, IsTerminal
<1>3. tx'.phase \in {tx.phase, "RolledBack", "Prepared", "Failed"}
  BY TxTyped DEF TwoPhaseInv, TwoPhaseTypeOK
<1>4. Outcome' \in {Outcome, "open"}
  BY <1>2, <1>3 DEF Outcome
<1> QED
  BY <1>1, <1>4 DEF Atomic!Next, Atomic!vars, Atomic!Progress, Atomic!Reopen

\* Every step of the coordinator and of the reconciler is a step of the atomic
\* transaction.
LEMMA ReconcilerSimulated ==
    ASSUME Numbered, ReconcilerInv, ReconcilerInv', [RNext]_rvars
    PROVE  [Atomic!Next]_(Atomic!vars)
<1> USE DEF ReconcilerInv
<1>1. CASE CallerStep
  BY <1>1, StepSimulated DEF CallerStep
<1>2. CASE Register \/ TakePending
  BY <1>2 DEF Register, TakePending, Outcome, Committed, Atomic!vars
<1>3. CASE Reconcile
  <2>1. /\ tx' \in {tx, AbortTx(tx), Prepare(tx), AbortTx(Prepare(tx))}
        /\ tx.phase = "Committed" => tx' = tx \/ tx' = AbortTx(tx)
    BY <1>3 DEF Reconcile, Reconciled
  <2> QED  BY <1>3, <2>1, OwnStepSimulated DEF Reconcile
<1>4. CASE RecoverOrphaned
  BY <1>4, OwnStepSimulated DEF RecoverOrphaned
<1>5. CASE CleanupTerminal
  <2>1. tx' = tx /\ Retain(tx')
    BY <1>5 DEF CleanupTerminal
  <2> QED  BY <1>5, <2>1, OwnStepSimulated DEF CleanupTerminal
<1>6. CASE Wait
  BY <1>6, StepSimulated DEF Wait, Next
<1>7. CASE UNCHANGED rvars
  BY <1>7 DEF rvars, Outcome, Committed, Atomic!vars
<1> QED  BY <1>1, <1>2, <1>3, <1>4, <1>5, <1>6, <1>7 DEF RNext

\* TwoPhaseCoordinator and Reconciler keep their invariant for every set of
\* participants and operations.
THEOREM TwoPhaseInvariant == Numbered /\ RSpec => []ReconcilerInv
<1>1. RInit => ReconcilerInv
  BY CoordinatorInit, Zenon DEF RInit, Init, ReconcilerInv, DiscardedCommitted
<1>2. Numbered /\ ReconcilerInv /\ [RNext]_rvars => ReconcilerInv'
  BY ReconcilerStep
<1>3. Numbered => Numbered'
  BY DEF Numbered
<1> QED  BY <1>1, <1>2, <1>3, PTL DEF RSpec

\* The coordinator and the reconciler implement an atomic transaction, whatever
\* calls fail with or without their effect, wherever the future is dropped and
\* whoever owns the transaction.
THEOREM TwoPhaseImplementsAtomicTx == Numbered /\ RSpec => ImplementsAtomicTx
<1>1. RInit => Atomic!Init
  BY DEF RInit, Init, Idle, Atomic!Init, Outcome, Committed
<1>2. Numbered /\ ReconcilerInv /\ ReconcilerInv' /\ [RNext]_rvars => [Atomic!Next]_(Atomic!vars)
  BY ReconcilerSimulated
<1>3. Numbered => []Numbered
  <2>1. Numbered => Numbered'
    BY DEF Numbered
  <2> QED  BY <2>1, PTL
<1> QED
  BY <1>1, <1>2, <1>3, TwoPhaseInvariant, PTL DEF RSpec, ImplementsAtomicTx, Atomic!Spec

\* The reconciler discards nothing that is half committed, and a failed cleanup
\* is remembered until a recover has undone every participant.
THEOREM ReconcilerForgetsNothing == Numbered /\ RSpec => NothingForgotten
<1>1. Numbered /\ ReconcilerInv /\ [RNext]_rvars =>
         [tx.phase = "Aborting" /\ tx'.phase # "Aborting"
            => tx'.phase = "RolledBack" /\ \A e \in Supports : effect'[e] = "none"]_rvars
  BY ReconcilerStep
<1>2. ReconcilerInv => DiscardedCommitted
  BY DEF ReconcilerInv
<1>3. Numbered => Numbered'
  BY DEF Numbered
<1> QED
  BY <1>1, <1>2, <1>3, TwoPhaseInvariant, PTL DEF RSpec, NothingForgotten, CleanupRemembered

-----------------------------------------------------------------------------
(* The idempotent consumer: outbox.rs *)

CONSTANTS Consumers, Keys, Workers, MaxDeliveries

VARIABLES processed, worker, delivered, ran

Consumer == INSTANCE IdempotentConsumer

WorkerState ==
    [pc : {"idle"}] \union [pc : {"handling", "recording"}, key : Keys]

ConsumerTypeOK ==
    /\ processed \subseteq Consumer!Pairs
    /\ worker \in [Consumers \X Workers -> WorkerState]
    /\ ran \in [Consumer!Pairs -> Nat]

\* The workers of consumer c that, in wk, handle or are about to record key k.
Handling(wk, c, k) ==
    {w \in Workers : wk[<<c, w>>].pc = "handling" /\ wk[<<c, w>>].key = k}

Recording(wk, c, k) ==
    {w \in Workers : wk[<<c, w>>].pc = "recording" /\ wk[<<c, w>>].key = k}

\* Until a key is recorded, every effect belongs to a worker about to record
\* it; from then on only the workers that had looked it up may add one.
EffectsCounted ==
    \A c \in Consumers, k \in Keys :
        /\ <<c, k>> \notin processed => ran[<<c, k>>] = Cardinality(Recording(worker, c, k))
        /\ ran[<<c, k>>] + Cardinality(Handling(worker, c, k)) <= Cardinality(Workers)

ConsumerInv == ConsumerTypeOK /\ EffectsCounted

\* What the proof uses of there being finitely many workers.
WorkersCounted ==
    /\ Cardinality({}) = 0
    /\ \A S \in SUBSET Workers : Cardinality(S) \in Nat
    /\ \A S \in SUBSET Workers, w \in Workers :
          w \notin S => Cardinality(S \union {w}) = Cardinality(S) + 1
    /\ \A S, T \in SUBSET Workers :
          /\ S \subseteq T => Cardinality(S) <= Cardinality(T)
          /\ S \intersect T = {} => Cardinality(S) + Cardinality(T) <= Cardinality(Workers)

\* No worker is both handling and recording.
LEMMA HandlingOrRecording ==
    ASSUME WorkersCounted, NEW wk, NEW c, NEW k
    PROVE  LET H == Handling(wk, c, k)
               R == Recording(wk, c, k)
           IN  /\ H \subseteq Workers /\ Cardinality(H) \in Nat
               /\ R \subseteq Workers /\ Cardinality(R) \in Nat
               /\ Cardinality(Workers) \in Nat
               /\ Cardinality(H) + Cardinality(R) <= Cardinality(Workers)
<1> DEFINE H == Handling(wk, c, k)
           R == Recording(wk, c, k)
<1>1. H \subseteq Workers /\ R \subseteq Workers /\ H \intersect R = {}
  BY DEF Handling, Recording
<1> HIDE DEF H, R
<1>2. /\ Cardinality(H) \in Nat /\ Cardinality(R) \in Nat /\ Cardinality(Workers) \in Nat
      /\ Cardinality(H) + Cardinality(R) <= Cardinality(Workers)
  BY <1>1, Zenon DEF WorkersCounted
<1> QED  BY <1>1, <1>2 DEF H, R

\* A worker's step moves that worker.
LEMMA WorkerMoves ==
    ASSUME ConsumerTypeOK, NEW c \in Consumers, NEW w \in Workers, NEW s \in WorkerState,
           worker' = [worker EXCEPT ![<<c, w>>] = s]
    PROVE  /\ worker' \in [Consumers \X Workers -> WorkerState]
           /\ worker'[<<c, w>>] = s
           /\ \A d \in Consumers, v \in Workers :
                 d # c \/ v # w => worker'[<<d, v>>] = worker[<<d, v>>]
  BY DEF ConsumerTypeOK

\* A worker that finds the key unrecorded sets out to handle it: one more
\* effect may come, and this worker accounts for it.
LEMMA LookUpStep ==
    ASSUME WorkersCounted, ConsumerInv, NEW c \in Consumers, NEW w \in Workers, NEW k \in Keys,
           Consumer!LookUp(c, w, k)
    PROVE  ConsumerInv'
<1> DEFINE s == [pc |-> "handling", key |-> k]
<1>1. /\ worker[<<c, w>>].pc = "idle" /\ <<c, k>> \notin processed
      /\ worker' = [worker EXCEPT ![<<c, w>>] = s] /\ processed' = processed /\ ran' = ran
  BY DEF Consumer!LookUp
<1>2. s \in WorkerState /\ s.pc = "handling" /\ s.key = k
  BY DEF WorkerState
<1> HIDE DEF s
<1>3. /\ ConsumerTypeOK'
      /\ \A d \in Consumers, j \in Keys :
            /\ Recording(worker', d, j) = Recording(worker, d, j)
            /\ d # c \/ j # k => Handling(worker', d, j) = Handling(worker, d, j)
  <2>0. /\ worker' \in [Consumers \X Workers -> WorkerState]
        /\ worker'[<<c, w>>] = s
        /\ \A d \in Consumers, v \in Workers :
              d # c \/ v # w => worker'[<<d, v>>] = worker[<<d, v>>]
    BY <1>1, <1>2, WorkerMoves, Zenon DEF ConsumerInv
  <2>1. ASSUME NEW d \in Consumers, NEW j \in Keys
        PROVE  /\ Recording(worker', d, j) = Recording(worker, d, j)
               /\ d # c \/ j # k => Handling(worker', d, j) = Handling(worker, d, j)
    BY <1>1, <1>2, <2>0 DEF Handling, Recording
  <2>2. ConsumerTypeOK'
    BY <1>1, <2>0 DEF ConsumerInv, ConsumerTypeOK
  <2> QED  BY <2>1, <2>2
<1>4. ran[<<c, k>>] + Cardinality(Handling(worker', c, k)) <= Cardinality(Workers)
  <2>1. ran[<<c, k>>] = Cardinality(Recording(worker', c, k))
    BY <1>1, <1>3, Zenon DEF ConsumerInv, EffectsCounted
  <2> QED  BY <2>1, HandlingOrRecording
<1>5. EffectsCounted'
  BY <1>1, <1>3, <1>4, ZenonT(60) DEF ConsumerInv, EffectsCounted
<1> QED  BY <1>3, <1>5 DEF ConsumerInv

\* A handler that fails has no effect, and its worker is free again.
LEMMA HandlerFailsStep ==
    ASSUME WorkersCounted, ConsumerInv, NEW c \in Consumers, NEW w \in Workers,
           Consumer!HandlerFails(c, w)
    PROVE  ConsumerInv'
<1> DEFINE s == [pc |-> "idle"]
<1>1. /\ worker[<<c, w>>].pc = "handling"
      /\ worker' = [worker EXCEPT ![<<c, w>>] = s] /\ processed' = processed /\ ran' = ran
  BY DEF Consumer!HandlerFails
<1>2. s \in WorkerState /\ s.pc = "idle"
  BY DEF WorkerState
<1> HIDE DEF s
<1>3. /\ ConsumerTypeOK'
      /\ \A d \in Consumers, j \in Keys :
            /\ Recording(worker', d, j) = Recording(worker, d, j)
            /\ Handling(worker', d, j) \subseteq Handling(worker, d, j)
  <2>0. /\ worker' \in [Consumers \X Workers -> WorkerState]
        /\ worker'[<<c, w>>] = s
        /\ \A d \in Consumers, v \in Workers :
              d # c \/ v # w => worker'[<<d, v>>] = worker[<<d, v>>]
    BY <1>1, <1>2, WorkerMoves, Zenon DEF ConsumerInv
  <2>1. ASSUME NEW d \in Consumers, NEW j \in Keys
        PROVE  /\ Recording(worker', d, j) = Recording(worker, d, j)
               /\ Handling(worker', d, j) \subseteq Handling(worker, d, j)
    BY <1>1, <1>2, <2>0 DEF Handling, Recording
  <2>2. ConsumerTypeOK'
    BY <1>1, <2>0 DEF ConsumerInv, ConsumerTypeOK
  <2> QED  BY <2>1, <2>2
<1>4. ASSUME NEW d \in Consumers, NEW j \in Keys
      PROVE  ran[<<d, j>>] + Cardinality(Handling(worker', d, j)) <= Cardinality(Workers)
  <2>1. /\ Handling(worker, d, j) \subseteq Workers /\ Cardinality(Handling(worker, d, j)) \in Nat
        /\ Cardinality(Handling(worker', d, j)) \in Nat /\ Cardinality(Workers) \in Nat
    BY HandlingOrRecording
  <2>2. Cardinality(Handling(worker', d, j)) <= Cardinality(Handling(worker, d, j))
    BY <1>3, <2>1 DEF WorkersCounted
  <2>3. ran[<<d, j>>] \in Nat
    BY DEF ConsumerInv, ConsumerTypeOK, Consumer!Pairs
  <2>4. ran[<<d, j>>] + Cardinality(Handling(worker, d, j)) <= Cardinality(Workers)
    BY DEF ConsumerInv, EffectsCounted
  <2> QED  BY <2>1, <2>2, <2>3, <2>4
<1>5. EffectsCounted'
  BY <1>1, <1>3, <1>4, Zenon DEF ConsumerInv, EffectsCounted
<1> QED  BY <1>3, <1>5 DEF ConsumerInv

\* A handler that succeeds adds one effect, and its worker goes on to record
\* the key.
LEMMA HandlerSucceedsStep ==
    ASSUME WorkersCounted, ConsumerInv, NEW c \in Consumers, NEW w \in Workers,
           Consumer!HandlerSucceeds(c, w)
    PROVE  ConsumerInv'
<1> DEFINE s == [worker[<<c, w>>] EXCEPT !.pc = "recording"]
           k == worker[<<c, w>>].key
<1>1. /\ worker[<<c, w>>].pc = "handling" /\ processed' = processed
      /\ worker[<<c, w>>] \in [pc : {"handling", "recording"}, key : Keys]
      /\ worker' = [worker EXCEPT ![<<c, w>>] = s]
      /\ ran' = [ran EXCEPT ![<<c, k>>] = @ + 1]
  BY DEF Consumer!HandlerSucceeds, ConsumerInv, ConsumerTypeOK, WorkerState
<1>2. s \in WorkerState /\ s.pc = "recording" /\ s.key = k /\ k \in Keys
  BY <1>1 DEF WorkerState
<1> HIDE DEF s, k
<1> DEFINE H == Handling(worker, c, k)
           R == Recording(worker, c, k)
<1>3. /\ worker' \in [Consumers \X Workers -> WorkerState]
      /\ Handling(worker', c, k) = H \ {w} /\ Recording(worker', c, k) = R \union {w}
      /\ w \in H /\ w \notin R
      /\ \A d \in Consumers, j \in Keys : d # c \/ j # k =>
            /\ Recording(worker', d, j) = Recording(worker, d, j)
            /\ Handling(worker', d, j) = Handling(worker, d, j)
  <2>0. /\ worker' \in [Consumers \X Workers -> WorkerState]
        /\ worker'[<<c, w>>] = s
        /\ \A d \in Consumers, v \in Workers :
              d # c \/ v # w => worker'[<<d, v>>] = worker[<<d, v>>]
    BY <1>1, <1>2, WorkerMoves, Zenon DEF ConsumerInv
  <2>1. ASSUME NEW d \in Consumers, NEW j \in Keys, d # c \/ j # k
        PROVE  /\ Recording(worker', d, j) = Recording(worker, d, j)
               /\ Handling(worker', d, j) = Handling(worker, d, j)
    <3>1. CASE d # c
      BY <2>0, <3>1 DEF Handling, Recording
    <3>2. CASE d = c /\ j # k
      BY <1>1, <1>2, <2>0, <3>2, SMTT(30) DEF Handling, Recording, k
    <3> QED  BY <2>1, <3>1, <3>2
  <2>2. Handling(worker', c, k) = H \ {w} /\ w \in H
    BY <1>1, <1>2, <2>0 DEF Handling, k
  <2>3. Recording(worker', c, k) = R \union {w} /\ w \notin R
    BY <1>1, <1>2, <2>0 DEF Recording, k
  <2> QED  BY <2>0, <2>1, <2>2, <2>3
<1>4. /\ ran' \in [Consumer!Pairs -> Nat] /\ ran[<<c, k>>] \in Nat /\ ran'[<<c, k>>] = ran[<<c, k>>] + 1
      /\ \A d \in Consumers, j \in Keys : d # c \/ j # k => ran'[<<d, j>>] = ran[<<d, j>>]
  BY <1>1, <1>2 DEF ConsumerInv, ConsumerTypeOK, Consumer!Pairs
<1>5. ConsumerTypeOK'
  BY <1>1, <1>3, <1>4 DEF ConsumerInv, ConsumerTypeOK
<1>6. H \subseteq Workers /\ Cardinality(H) \in Nat /\ R \subseteq Workers /\ Cardinality(R) \in Nat
  BY HandlingOrRecording
<1>7. Cardinality(H \ {w}) = Cardinality(H) - 1 /\ Cardinality(R \union {w}) = Cardinality(R) + 1
  <2> HIDE DEF H, R
  <2>1. w \in H /\ w \notin R
    BY <1>3
  <2>2. Cardinality(R \union {w}) = Cardinality(R) + 1
    BY <1>6, <2>1 DEF WorkersCounted
  <2>3. (H \ {w}) \union {w} = H /\ H \ {w} \subseteq Workers
    BY <1>6, <2>1
  <2>4. Cardinality(H \ {w}) \in Nat /\ Cardinality(H) = Cardinality(H \ {w}) + 1
    BY <2>3, Zenon DEF WorkersCounted
  <2> QED  BY <2>2, <2>4
<1>8. /\ <<c, k>> \notin processed => ran[<<c, k>>] = Cardinality(R)
      /\ ran[<<c, k>>] + Cardinality(H) <= Cardinality(Workers)
  BY <1>2 DEF ConsumerInv, EffectsCounted
<1>9. /\ <<c, k>> \notin processed => ran'[<<c, k>>] = Cardinality(Recording(worker', c, k))
      /\ ran'[<<c, k>>] + Cardinality(Handling(worker', c, k)) <= Cardinality(Workers)
  <2> HIDE DEF H, R
  <2> QED  BY <1>3, <1>4, <1>6, <1>7, <1>8
<1> HIDE DEF H, R
<1>10. EffectsCounted'
  <2> SUFFICES ASSUME NEW d \in Consumers, NEW j \in Keys
               PROVE  /\ <<d, j>> \notin processed => ran'[<<d, j>>] = Cardinality(Recording(worker', d, j))
                      /\ ran'[<<d, j>>] + Cardinality(Handling(worker', d, j)) <= Cardinality(Workers)
    BY <1>1, Zenon DEF EffectsCounted
  <2>1. CASE d = c /\ j = k
    BY <1>9, <2>1
  <2>2. CASE d # c \/ j # k
    BY <1>3, <1>4, <2>2 DEF ConsumerInv, EffectsCounted
  <2> QED  BY <2>1, <2>2
<1> QED  BY <1>5, <1>10 DEF ConsumerInv

\* The key is recorded, by a worker whose effect is counted.
LEMMA RecordKeyStep ==
    ASSUME WorkersCounted, ConsumerInv, NEW c \in Consumers, NEW w \in Workers,
           Consumer!Record(c, w)
    PROVE  ConsumerInv'
<1> DEFINE s == [pc |-> "idle"]
           k == worker[<<c, w>>].key
<1>1. /\ worker[<<c, w>>].pc = "recording" /\ processed' = processed \union {<<c, k>>}
      /\ k \in Keys
      /\ worker' = [worker EXCEPT ![<<c, w>>] = s] /\ ran' = ran
  BY DEF Consumer!Record, ConsumerInv, ConsumerTypeOK, WorkerState
<1>2. s \in WorkerState /\ s.pc = "idle"
  BY DEF WorkerState
<1> HIDE DEF s, k
<1>3. /\ worker' \in [Consumers \X Workers -> WorkerState]
      /\ \A d \in Consumers, j \in Keys :
            /\ d # c \/ j # k => Recording(worker', d, j) = Recording(worker, d, j)
            /\ Handling(worker', d, j) = Handling(worker, d, j)
  <2>0. /\ worker' \in [Consumers \X Workers -> WorkerState]
        /\ worker'[<<c, w>>] = s
        /\ \A d \in Consumers, v \in Workers :
              d # c \/ v # w => worker'[<<d, v>>] = worker[<<d, v>>]
    BY <1>1, <1>2, WorkerMoves, Zenon DEF ConsumerInv
  <2>1. ASSUME NEW d \in Consumers, NEW j \in Keys
        PROVE  /\ d # c \/ j # k => Recording(worker', d, j) = Recording(worker, d, j)
               /\ Handling(worker', d, j) = Handling(worker, d, j)
    BY <1>1, <1>2, <2>0 DEF Handling, Recording, k
  <2> QED  BY <2>0, <2>1
<1>4. ConsumerTypeOK'
  BY <1>1, <1>3 DEF ConsumerInv, ConsumerTypeOK, Consumer!Pairs
<1>5. EffectsCounted'
  BY <1>1, <1>3, ZenonT(60) DEF ConsumerInv, EffectsCounted
<1> QED  BY <1>4, <1>5 DEF ConsumerInv

\* Every step of the consumer keeps the count.
LEMMA ConsumerStep ==
    ASSUME WorkersCounted, ConsumerInv, [Consumer!Next]_(Consumer!vars)
    PROVE  ConsumerInv'
<1>1. CASE UNCHANGED Consumer!vars
  BY <1>1 DEF Consumer!vars, ConsumerInv, ConsumerTypeOK, EffectsCounted
<1>2. ASSUME NEW c, NEW w, NEW k, Consumer!Duplicate(c, w, k) PROVE ConsumerInv'
  BY <1>2 DEF Consumer!Duplicate, ConsumerInv, ConsumerTypeOK, EffectsCounted
<1> QED
  BY <1>1, <1>2, LookUpStep, HandlerFailsStep, HandlerSucceedsStep,
     RecordKeyStep DEF Consumer!Next

\* At first there is no effect and no worker at work.
LEMMA ConsumerInit ==
    ASSUME WorkersCounted, Consumer!Init
    PROVE  ConsumerInv
<1>1. ConsumerTypeOK
  BY DEF Consumer!Init, ConsumerTypeOK, WorkerState
<1>2. ASSUME NEW c \in Consumers, NEW k \in Keys
      PROVE  Cardinality(Handling(worker, c, k)) = 0 /\ Cardinality(Recording(worker, c, k)) = 0
  <2>1. \A w \in Workers : worker[<<c, w>>].pc = "idle"
    BY DEF Consumer!Init
  <2>2. Handling(worker, c, k) = {} /\ Recording(worker, c, k) = {}
    BY <2>1 DEF Handling, Recording
  <2> QED  BY <2>2 DEF WorkersCounted
<1>3. Cardinality(Workers) \in Nat
  BY DEF WorkersCounted
<1>4. \A c \in Consumers, k \in Keys : ran[<<c, k>>] = 0
  BY DEF Consumer!Init, Consumer!Pairs
<1> QED  BY <1>1, <1>2, <1>3, <1>4 DEF ConsumerInv, EffectsCounted

-----------------------------------------------------------------------------
(* Idempotency keys: idempotency.rs *)

CONSTANTS Requests, Fingerprints, ttl_secs, Timely, MaxReleases, None

VARIABLES store, request, fresh, releases

Answers == INSTANCE Idempotency

\* An entry lives for some time, and "no entry" is no entry.
KeyConstants == ttl_secs \in Nat \ {0} /\ None \notin Answers!Entry

KeyTypeOK ==
    /\ store \in Answers!Entry \union {None}
    /\ request \in [Requests -> Answers!Request]
    /\ fresh \in 0..ttl_secs
    /\ releases \in Nat

\* A handler that is timely runs under its own claim, and alone.
ClaimHeld ==
    /\ \A r \in Answers!Running :
          /\ store \in Answers!Entry /\ store.kind = "InProgress"
          /\ store.fingerprint = request[r].fingerprint
          /\ store.left = request[r].left
    /\ \A r, s \in Answers!Running : r = s

\* A stored response is that of a request that completed.
ResponseEarned ==
    store \in Answers!Entry /\ store.kind = "Completed" =>
        /\ store.response \in Requests
        /\ request[store.response].pc = "done"
        /\ request[store.response].fingerprint = store.fingerprint

\* A replayed response is one, too.
ReplayEarned ==
    \A r \in Requests : request[r].pc = "replayed" =>
        /\ request[r].answer \in Requests
        /\ request[request[r].answer].pc = "done"
        /\ request[request[r].answer].fingerprint = request[r].fingerprint

\* A response that must be remembered is stored for at least as long.
Remembered ==
    fresh > 0 => store \in Answers!Entry /\ store.kind = "Completed" /\ store.left >= fresh

KeyInv == KeyTypeOK /\ ClaimHeld /\ ResponseEarned /\ ReplayEarned /\ Remembered

\* A request that moves on changes nothing but where it is.
LEMMA Moved ==
    ASSUME request \in [Requests -> Answers!Request], NEW r \in Requests,
           NEW pc \in {"new", "claimed", "taken", "rejected", "done", "replayed", "reused", "dead"},
           Answers!Move(r, pc)
    PROVE  /\ request' \in [Requests -> Answers!Request]
           /\ \A s \in Requests : s # r => request'[s] = request[s]
           /\ request'[r].pc = pc
           /\ request'[r].fingerprint = request[r].fingerprint
           /\ request'[r].left = request[r].left
           /\ request'[r].answer = request[r].answer
<1>1. request[r] \in Answers!Request /\ request' = [request EXCEPT ![r] = [request[r] EXCEPT !.pc = pc]]
  BY DEF Answers!Move
<1>2. request'[r] = [request[r] EXCEPT !.pc = pc]
  BY <1>1
<1>3. [request[r] EXCEPT !.pc = pc] \in Answers!Request
  BY <1>1 DEF Answers!Request
<1> QED  BY <1>1, <1>2, <1>3 DEF Answers!Request

\* The steps of begin that claim nothing, and the end of a process, leave the
\* store alone.
LEMMA StoreKept ==
    ASSUME KeyInv, NEW r \in Requests, NEW pc \in {"new", "taken", "rejected", "reused", "dead"},
           request[r].pc \notin {"done", "replayed"}, Answers!Move(r, pc), UNCHANGED <<store, fresh, releases>>
    PROVE  KeyInv'
<1>1. /\ request' \in [Requests -> Answers!Request]
      /\ \A s \in Requests : s # r => request'[s] = request[s]
      /\ request'[r].pc = pc
      /\ request'[r].fingerprint = request[r].fingerprint
  BY Moved DEF KeyInv, KeyTypeOK
<1>2. Answers!Running' \subseteq Answers!Running /\ \A s \in Answers!Running' : request'[s] = request[s]
  BY <1>1 DEF Answers!Running
<1>3. \A s \in Requests : request[s].pc \in {"done", "replayed"} => request'[s] = request[s]
  BY <1>1
<1>4. \A s \in Requests : request'[s].pc = "replayed" => request'[s] = request[s]
  BY <1>1
<1>5. KeyTypeOK' /\ Remembered' /\ ClaimHeld'
  BY <1>1, <1>2 DEF KeyInv, KeyTypeOK, Remembered, ClaimHeld
<1>6. ResponseEarned'
  BY <1>3 DEF KeyInv, ResponseEarned
<1>7. ReplayEarned'
  BY <1>3, <1>4 DEF KeyInv, ReplayEarned
<1> QED  BY <1>5, <1>6, <1>7 DEF KeyInv

\* A request that finds no entry claims the key: no other handler runs then.
LEMMA ClaimStep ==
    ASSUME KeyConstants, KeyInv, NEW r \in Requests, Answers!Claim(r)
    PROVE  KeyInv' /\ fresh = 0
<1> USE DEF KeyConstants
<1>1. store = None /\ store' = Answers!InProgress(request[r].fingerprint) /\ fresh' = fresh /\ releases' = releases
  BY DEF Answers!Claim
<1>2. Answers!Running = {} /\ fresh = 0
  BY <1>1 DEF KeyInv, KeyTypeOK, ClaimHeld, Remembered
<1>3. request[r] \in Answers!Request
  BY DEF KeyInv, KeyTypeOK
<1>4. /\ store' \in Answers!Entry /\ store'.kind = "InProgress" /\ store'.left = ttl_secs
      /\ store'.fingerprint = request[r].fingerprint
  BY <1>1, <1>3 DEF Answers!InProgress, Answers!Entry, Answers!Request
<1>5. /\ request' \in [Requests -> Answers!Request]
      /\ \A s \in Requests : s # r => request'[s] = request[s]
      /\ request'[r].pc = "claimed" /\ request'[r].left = ttl_secs
      /\ request'[r].fingerprint = request[r].fingerprint
  <2>1. request' = [request EXCEPT ![r] = [request[r] EXCEPT !.pc = "claimed", !.left = ttl_secs]]
    BY Zenon DEF Answers!Claim, KeyInv, KeyTypeOK
  <2>2. [request[r] EXCEPT !.pc = "claimed", !.left = ttl_secs] \in Answers!Request
    <3>1. ttl_secs \in 0..ttl_secs
      OBVIOUS
    <3> QED  BY <1>3, <3>1, Zenon DEF Answers!Request
  <2> QED  BY <1>3, <2>1, <2>2 DEF KeyInv, KeyTypeOK, Answers!Request
<1>6. Answers!Running' = {r}
  BY <1>2, <1>5 DEF Answers!Running
<1>7. KeyTypeOK' /\ ClaimHeld' /\ ResponseEarned' /\ Remembered'
  BY <1>1, <1>2, <1>4, <1>5, <1>6 DEF KeyInv, KeyTypeOK, ClaimHeld, ResponseEarned, Remembered
<1>8. request[r].pc = "new"
  BY DEF Answers!Claim
<1>9. ReplayEarned'
  BY <1>5, <1>8 DEF KeyInv, ReplayEarned
<1> QED  BY <1>2, <1>7, <1>9 DEF KeyInv

\* A request that finds a stored response answers with it.
LEMMA ReplayStep ==
    ASSUME KeyConstants, KeyInv, NEW r \in Requests, Answers!Replay(r)
    PROVE  KeyInv'
<1> USE DEF KeyConstants
<1>1. /\ store \in Answers!Entry /\ store.kind = "Completed" /\ store.fingerprint = request[r].fingerprint
      /\ request[r].pc = "taken" /\ store' = store /\ fresh' = fresh /\ releases' = releases
  BY DEF Answers!Replay, KeyInv, KeyTypeOK
<1>2. /\ store.response \in Requests /\ request[store.response].pc = "done"
      /\ request[store.response].fingerprint = request[r].fingerprint
  BY <1>1 DEF KeyInv, ResponseEarned
<1>3. /\ request' \in [Requests -> Answers!Request]
      /\ \A s \in Requests : s # r => request'[s] = request[s]
      /\ request'[r].pc = "replayed" /\ request'[r].answer = store.response
      /\ request'[r].fingerprint = request[r].fingerprint
  <2>1. request' = [request EXCEPT ![r] = [request[r] EXCEPT !.pc = "replayed", !.answer = store.response]]
    BY Zenon DEF Answers!Replay, KeyInv, KeyTypeOK
  <2>2. [request[r] EXCEPT !.pc = "replayed", !.answer = store.response] \in Answers!Request
    <3>1. request[r] \in Answers!Request
      BY DEF KeyInv, KeyTypeOK
    <3> QED  BY ONLY <1>2, <3>1, Zenon DEF Answers!Request
  <2> QED  BY <2>1, <2>2 DEF KeyInv, KeyTypeOK, Answers!Request
<1>4. Answers!Running' = Answers!Running /\ \A s \in Answers!Running : request'[s] = request[s]
  BY <1>1, <1>3 DEF Answers!Running
<1>5. KeyTypeOK' /\ ClaimHeld' /\ Remembered'
  BY <1>1, <1>3, <1>4 DEF KeyInv, KeyTypeOK, ClaimHeld, Remembered
<1>6. ResponseEarned'
  BY <1>1, <1>2, <1>3 DEF KeyInv, ResponseEarned
<1>7. ReplayEarned'
  <2> SUFFICES ASSUME NEW s \in Requests, request'[s].pc = "replayed"
               PROVE  /\ request'[s].answer \in Requests
                      /\ request'[request'[s].answer].pc = "done"
                      /\ request'[request'[s].answer].fingerprint = request'[s].fingerprint
    BY DEF ReplayEarned
  <2>1. CASE s = r
    BY <1>1, <1>2, <1>3, <2>1
  <2>2. CASE s # r
    BY <1>1, <1>3, <2>2 DEF KeyInv, ReplayEarned
  <2> QED  BY <2>1, <2>2
<1> QED  BY <1>5, <1>6, <1>7 DEF KeyInv

\* complete and remove leave the running request alone in the store's past.
LEMMA CompleteStep ==
    ASSUME KeyConstants, KeyInv, NEW r \in Requests, Answers!Complete(r)
    PROVE  KeyInv'
<1> USE DEF KeyConstants
<1>1. /\ request[r].pc = "claimed" /\ store' = Answers!Completed(request[r].fingerprint, r)
      /\ fresh' = ttl_secs /\ releases' = releases /\ Answers!Move(r, "done")
  BY DEF Answers!Complete
<1>2. request[r] \in Answers!Request
  BY DEF KeyInv, KeyTypeOK
<1>3. /\ store' \in Answers!Entry /\ store'.kind = "Completed" /\ store'.left = ttl_secs
      /\ store'.response = r /\ store'.fingerprint = request[r].fingerprint
  BY <1>1, <1>2 DEF Answers!Completed, Answers!Entry, Answers!Request
<1>4. /\ request' \in [Requests -> Answers!Request]
      /\ \A s \in Requests : s # r => request'[s] = request[s]
      /\ request'[r].pc = "done" /\ request'[r].fingerprint = request[r].fingerprint
  BY <1>1, Moved DEF KeyInv, KeyTypeOK
<1>5. Answers!Running' = {}
  BY <1>1, <1>4 DEF KeyInv, ClaimHeld, Answers!Running
<1>6. KeyTypeOK' /\ ClaimHeld' /\ ResponseEarned' /\ Remembered'
  BY <1>1, <1>3, <1>4, <1>5 DEF KeyInv, KeyTypeOK, ClaimHeld, ResponseEarned, Remembered
<1>7. ReplayEarned'
  BY <1>1, <1>4 DEF KeyInv, ReplayEarned
<1> QED  BY <1>6, <1>7 DEF KeyInv

\* A handler that fails gives up its claim.
LEMMA ReleaseStep ==
    ASSUME KeyConstants, KeyInv, NEW r \in Requests, Answers!Release(r)
    PROVE  KeyInv'
<1> USE DEF KeyConstants
<1>1. /\ request[r].pc = "claimed" /\ store' = None /\ r \in Answers!Running
      /\ fresh' = fresh /\ releases' = releases + 1 /\ Answers!Move(r, "rejected")
  BY DEF Answers!Release, Answers!Running
<1>2. store.kind = "InProgress" /\ fresh = 0
  BY <1>1 DEF KeyInv, KeyTypeOK, ClaimHeld, Remembered
<1>3. /\ request' \in [Requests -> Answers!Request]
      /\ \A s \in Requests : s # r => request'[s] = request[s]
      /\ request'[r].pc = "rejected"
  BY <1>1, Moved DEF KeyInv, KeyTypeOK
<1>4. Answers!Running' = {}
  BY <1>1, <1>3 DEF KeyInv, ClaimHeld, Answers!Running
<1>5. KeyTypeOK' /\ ClaimHeld' /\ ResponseEarned' /\ Remembered'
  BY <1>1, <1>2, <1>3, <1>4 DEF KeyInv, KeyTypeOK, ClaimHeld, ResponseEarned, Remembered
<1>6. ReplayEarned'
  BY <1>1, <1>3 DEF KeyInv, ReplayEarned
<1> QED  BY <1>5, <1>6 DEF KeyInv

\* A tick takes the same from a claim, from its entry and from what must be
\* remembered.
LEMMA TickStep ==
    ASSUME KeyConstants, Timely, KeyInv, Answers!Tick
    PROVE  KeyInv'
<1> USE DEF KeyConstants
<1>1. /\ store' = Answers!Expire(store) /\ fresh' = Answers!Down(fresh) /\ releases' = releases
      /\ \A r \in Answers!Running : request[r].left > 1
  BY DEF Answers!Tick, Answers!Running
<1>2. \A r \in Requests : request[r] \in Answers!Request
  BY DEF KeyInv, KeyTypeOK
<1>3. /\ request' \in [Requests -> Answers!Request]
      /\ \A r \in Requests : /\ request'[r].pc = request[r].pc
                             /\ request'[r].fingerprint = request[r].fingerprint
                             /\ request'[r].answer = request[r].answer
                             /\ request'[r].left = Answers!Down(request[r].left)
  <2>1. ASSUME NEW r \in Requests
        PROVE  /\ request'[r] \in Answers!Request
               /\ request'[r].pc = request[r].pc
               /\ request'[r].fingerprint = request[r].fingerprint
               /\ request'[r].answer = request[r].answer
               /\ request'[r].left = Answers!Down(request[r].left)
    <3>1. request'[r] = [request[r] EXCEPT !.left = Answers!Down(request[r].left)]
      BY DEF Answers!Tick
    <3>2. Answers!Down(request[r].left) \in 0..ttl_secs
      BY <1>2 DEF Answers!Request, Answers!Down
    <3> QED  BY <1>2, <3>1, <3>2 DEF Answers!Request
  <2>2. request' = [r \in Requests |-> request'[r]]
    BY DEF Answers!Tick
  <2> QED  BY <2>1, <2>2
<1>4. Answers!Running' = Answers!Running
  BY <1>3 DEF Answers!Running
<1>5. store = None => store' = None
  BY <1>1 DEF Answers!Expire
<1>6. ASSUME store \in Answers!Entry
      PROVE  /\ store.left \in 1..ttl_secs
             /\ store.left = 1 => store' = None
             /\ store.left # 1 =>
                  /\ store' \in Answers!Entry /\ store'.kind = store.kind
                  /\ store'.fingerprint = store.fingerprint /\ store'.left = store.left - 1
                  /\ store.kind = "Completed" => store'.response = store.response
  <2>1. CASE store \in [kind : {"InProgress"}, fingerprint : Fingerprints, left : 1..ttl_secs]
    <3>1. store # None /\ store.left \in 1..ttl_secs
      BY <1>6, <2>1
    <3>2. CASE store.left # 1
      <4>1. store' = [store EXCEPT !.left = store.left - 1] /\ store.left - 1 \in 1..ttl_secs
        BY <1>1, <3>1, <3>2 DEF Answers!Expire
      <4> QED  BY <2>1, <3>2, <4>1 DEF Answers!Entry
    <3> QED  BY <1>1, <3>1, <3>2 DEF Answers!Expire
  <2>2. CASE store \in [kind : {"Completed"}, fingerprint : Fingerprints, response : Requests,
                        left : 1..ttl_secs]
    <3>1. store # None /\ store.left \in 1..ttl_secs
      BY <1>6, <2>2
    <3>2. CASE store.left # 1
      <4>1. store' = [store EXCEPT !.left = store.left - 1] /\ store.left - 1 \in 1..ttl_secs
        BY <1>1, <3>1, <3>2 DEF Answers!Expire
      <4> QED  BY <2>2, <3>1, <3>2, <4>1 DEF Answers!Entry
    <3> QED  BY <1>1, <3>1, <3>2 DEF Answers!Expire
  <2> QED  BY <1>6, <2>1, <2>2, SMTT(30) DEF Answers!Entry
<1>7. KeyTypeOK'
  BY <1>1, <1>3, <1>5, <1>6 DEF KeyInv, KeyTypeOK, Answers!Down
<1>8. ClaimHeld'
  <2>1. \A r \in Answers!Running : Answers!Down(request[r].left) = request[r].left - 1
    BY <1>1, <1>2 DEF Answers!Running, Answers!Request, Answers!Down
  <2> QED  BY <1>1, <1>3, <1>4, <1>6, <2>1 DEF KeyInv, ClaimHeld, Answers!Running
<1>9. ResponseEarned'
  <2>1. store' \in Answers!Entry /\ store'.kind = "Completed" =>
           /\ store \in Answers!Entry /\ store.kind = "Completed"
           /\ store'.response = store.response /\ store'.fingerprint = store.fingerprint
    BY <1>5, <1>6 DEF KeyInv, KeyTypeOK
  <2> QED  BY <1>3, <2>1 DEF KeyInv, ResponseEarned
<1>10. ReplayEarned'
  BY <1>3 DEF KeyInv, ReplayEarned
<1>11. Remembered'
  BY <1>1, <1>6 DEF KeyInv, KeyTypeOK, Remembered, Answers!Down
<1> QED  BY <1>7, <1>8, <1>9, <1>10, <1>11 DEF KeyInv

\* No request has begun and nothing is stored.
LEMMA KeyInit == KeyConstants /\ Answers!Init => KeyInv
<1> SUFFICES ASSUME KeyConstants, Answers!Init PROVE KeyInv
  OBVIOUS
<1> USE DEF KeyConstants
<1>1. \A r \in Requests : request[r].pc = "new" /\ request[r] \in Answers!Request
  BY DEF Answers!Init, Answers!Request
<1>2. request \in [Requests -> Answers!Request]
  BY <1>1 DEF Answers!Init
<1>3. KeyTypeOK /\ Remembered
  BY <1>2 DEF Answers!Init, KeyTypeOK, Remembered
<1> QED  BY <1>1, <1>3 DEF Answers!Init, KeyInv, ClaimHeld, Answers!Running, ResponseEarned,
            ReplayEarned

\* Every step keeps the invariant, and no handler starts while a stored
\* response is fresh.
LEMMA KeyStep ==
    ASSUME KeyConstants, Timely, KeyInv, [Answers!Next]_(Answers!vars)
    PROVE  /\ KeyInv'
           /\ \A r \in Requests :
                 request[r].pc = "new" /\ request'[r].pc = "claimed" => fresh = 0
<1>1. CASE UNCHANGED Answers!vars
  BY <1>1 DEF Answers!vars, KeyInv, KeyTypeOK, ClaimHeld, Answers!Running, ResponseEarned,
     ReplayEarned, Remembered
<1>2. CASE Answers!Tick
  <2>1. \A r \in Requests : request'[r].pc = request[r].pc
    BY <1>2 DEF Answers!Tick, KeyInv, KeyTypeOK, Answers!Request
  <2> QED  BY <1>2, <2>1, TickStep
<1>3. ASSUME NEW r \in Requests, Answers!BeginStep(r) \/ Answers!HandlerStep(r), ~Answers!Claim(r)
      PROVE  KeyInv' /\ \A s \in Requests : request[s].pc = "new" => request'[s].pc # "claimed"
  <2>1. CASE Answers!ClaimFails(r) \/ Answers!Conflict(r) \/ Answers!KeyReuse(r) \/ Answers!Retry(r) \/ Answers!Die(r)
    <3>1. PICK pc \in {"new", "taken", "rejected", "reused", "dead"} :
             Answers!Move(r, pc) /\ request[r].pc \notin {"done", "replayed"} /\ UNCHANGED <<store, fresh, releases>>
      BY <2>1 DEF Answers!ClaimFails, Answers!Conflict, Answers!KeyReuse, Answers!Retry,
         Answers!Die
    <3>2. \A s \in Requests : request[s].pc = "new" => request'[s].pc # "claimed"
      BY <3>1, Moved DEF KeyInv, KeyTypeOK
    <3> QED  BY <3>1, <3>2, StoreKept
  <2>2. CASE Answers!Replay(r)
    <3>1. \A s \in Requests : request[s].pc = "new" => request'[s].pc # "claimed"
      BY <2>2 DEF Answers!Replay, KeyInv, KeyTypeOK, Answers!Request
    <3> QED  BY <2>2, <3>1, ReplayStep
  <2>3. CASE Answers!Complete(r)
    <3>1. \A s \in Requests : request[s].pc = "new" => request'[s].pc # "claimed"
      BY <2>3, Moved DEF Answers!Complete, KeyInv, KeyTypeOK
    <3> QED  BY <2>3, <3>1, CompleteStep
  <2>4. CASE Answers!Release(r)
    <3>1. \A s \in Requests : request[s].pc = "new" => request'[s].pc # "claimed"
      BY <2>4, Moved DEF Answers!Release, KeyInv, KeyTypeOK
    <3> QED  BY <2>4, <3>1, ReleaseStep
  <2> QED  BY <1>3, <2>1, <2>2, <2>3, <2>4 DEF Answers!BeginStep, Answers!HandlerStep
<1> QED  BY <1>1, <1>2, <1>3, ClaimStep DEF Answers!Next

\* A remembered response keeps its request from running again: complete stores
\* it for the key's whole time to live.
NoRerunWhileFresh == Answers!NoRerunWhileFresh

\* A response that was stored keeps every request with the key from running
\* until its time is over.
THEOREM KeyNoRerunWhileFresh == KeyConstants /\ Timely /\ Answers!Spec => NoRerunWhileFresh
<1>1. KeyConstants /\ Timely /\ KeyInv /\ [Answers!Next]_(Answers!vars) => KeyInv'
  BY KeyStep
<1>2. KeyConstants /\ Timely => KeyConstants' /\ Timely'
  BY DEF KeyConstants, Answers!Entry
<1>3. KeyConstants /\ Timely /\ KeyInv /\ [Answers!Next]_(Answers!vars) =>
        [\A r \in Requests : request[r].pc = "new" /\ request'[r].pc = "claimed" => fresh = 0]_(Answers!vars)
  BY KeyStep
<1> QED  BY <1>1, <1>2, <1>3, KeyInit, PTL DEF Answers!Spec, NoRerunWhileFresh,
    Answers!NoRerunWhileFresh

-----------------------------------------------------------------------------
(* Vault records: vault_store.rs *)

CONSTANTS Client, Key, MaxVaults, MaxVersion

VARIABLES vaults, client, expired

Records == INSTANCE VaultRecords

Content == (Client \union {"created"}) \X BOOLEAN

Row == [key : Key, version : Nat, deleted : BOOLEAN, content : Content]

Base == [id : Nat, version : Nat, content : Content \union {<<>>}]

Editing == {"read", "updating", "answering", "no_rows"}

ClientState ==
    [at : Editing \union {"idle"}, base : Base, landed : BOOLEAN,
     told : {"none", "refused", "ok", "Conflict", "NotFound"}]

RecordTypeOK ==
    /\ vaults \in Seq(Row)
    /\ client \in [Client -> ClientState]
    /\ expired \in BOOLEAN

\* What a client has read is a version of the row, and the row's present
\* content if the version is the present one.
BaseRead ==
    \A c \in Client : client[c].at \in Editing =>
        /\ client[c].base.id \in 1..Len(vaults)
        /\ LET v == vaults[client[c].base.id]
           IN  /\ client[c].base.version <= v.version
               /\ client[c].base.version = v.version => client[c].base.content = v.content

ToldLanded ==
    \A c \in Client :
        client[c].at = "answering" \/ client[c].told = "ok" => client[c].landed

RecordInv == RecordTypeOK /\ BaseRead /\ ToldLanded

\* The effect of a step of NoLostEdit.
EditStep ==
    /\ \A v \in Records!Ids : vaults'[v].content # vaults[v].content =>
           \E c \in Client : /\ client[c].at = "updating" /\ client'[c].at = "answering"
                             /\ client[c].base.id = v
                             /\ client[c].base.content = vaults[v].content
    /\ \A c \in Client : client'[c].told = "ok" => client'[c].landed

\* There are no vaults, and no client has begun.
LEMMA RecordInit == Records!Init => RecordInv
<1> SUFFICES ASSUME Records!Init PROVE RecordInv
  OBVIOUS
<1>1. Records!NoBase \in Base
  BY DEF Records!NoBase, Base
<1>2. \A c \in Client : client[c] \in ClientState /\ client[c].at = "idle" /\ client[c].told = "none"
  BY <1>1 DEF Records!Init, ClientState
<1>3. client \in [Client -> ClientState]
  BY <1>2, Zenon DEF Records!Init
<1>4. vaults \in Seq(Row) /\ expired \in BOOLEAN
  <2>1. vaults \in Seq(Row)
    BY DEF Records!Init
  <2>2. expired \in BOOLEAN
    BY Zenon DEF Records!Init
  <2> QED  BY <2>1, <2>2, Zenon
<1> QED  BY <1>2, <1>3, <1>4 DEF RecordInv, RecordTypeOK, BaseRead, ToldLanded, Editing

\* A step of one client's request leaves the rows alone, or is the update.
LEMMA ClientStep ==
    ASSUME RecordInv, NEW c \in Client, NEW s \in ClientState,
           client' = [client EXCEPT ![c] = s], UNCHANGED <<vaults, expired>>,
           s.at \in Editing =>
               /\ s.base.id \in 1..Len(vaults)
               /\ s.base.version <= vaults[s.base.id].version
               /\ s.base.version = vaults[s.base.id].version =>
                     s.base.content = vaults[s.base.id].content,
           s.at = "answering" \/ s.told = "ok" => s.landed
    PROVE  RecordInv' /\ EditStep
<1>1. /\ client' \in [Client -> ClientState] /\ client'[c] = s
      /\ \A d \in Client : d # c => client'[d] = client[d]
  BY DEF RecordInv, RecordTypeOK
<1>2. RecordTypeOK' /\ ToldLanded'
  BY <1>1 DEF RecordInv, RecordTypeOK, ToldLanded
<1>3. BaseRead'
  BY <1>1 DEF RecordInv, BaseRead
<1> QED  BY <1>2, <1>3 DEF RecordInv, EditStep, ToldLanded

\* The rows grow or change, and no client learns of it.
LEMMA RowStep ==
    ASSUME RecordInv, UNCHANGED <<client, expired>>, vaults' \in Seq(Row),
           Len(vaults') >= Len(vaults),
           \A v \in 1..Len(vaults) : /\ vaults'[v].version = vaults[v].version
                                     /\ vaults'[v].content = vaults[v].content
    PROVE  RecordInv' /\ EditStep
<1>1. Len(vaults) \in Nat /\ Len(vaults') \in Nat /\ Records!Ids = 1..Len(vaults)
  BY DEF RecordInv, RecordTypeOK, Records!Ids
<1>2. RecordTypeOK' /\ ToldLanded'
  BY DEF RecordInv, RecordTypeOK, ToldLanded
<1>3. BaseRead'
  <2> SUFFICES ASSUME NEW c \in Client, client[c].at \in Editing
               PROVE  /\ client[c].base.id \in 1..Len(vaults')
                      /\ client[c].base.version <= vaults'[client[c].base.id].version
                      /\ client[c].base.version = vaults'[client[c].base.id].version =>
                            client[c].base.content = vaults'[client[c].base.id].content
    BY DEF BaseRead
  <2>1. /\ client[c].base.id \in 1..Len(vaults)
        /\ client[c].base.version <= vaults[client[c].base.id].version
        /\ client[c].base.version = vaults[client[c].base.id].version =>
              client[c].base.content = vaults[client[c].base.id].content
    BY DEF RecordInv, BaseRead
  <2> QED  BY <1>1, <2>1
<1>4. EditStep
  BY <1>1 DEF EditStep, RecordInv, ToldLanded
<1> QED  BY <1>2, <1>3, <1>4 DEF RecordInv

\* The UPDATE statement that finds its version.
LEMMA UpdateStep ==
    ASSUME RecordInv, NEW c \in Client, Records!update(c),
           vaults[client[c].base.id].version = client[c].base.version
    PROVE  RecordInv' /\ EditStep
<1> DEFINE v == client[c].base.id
           s == [client[c] EXCEPT !.at = "answering", !.landed = TRUE]
<1>1. /\ client[c] \in ClientState /\ client[c].at = "updating" /\ expired' = expired
      /\ client' = [client EXCEPT ![c] = s]
  BY Zenon DEF RecordInv, RecordTypeOK, Records!update
<1>2. s \in ClientState /\ s.at = "answering" /\ s.landed = TRUE /\ s.base = client[c].base
  BY <1>1, Zenon DEF ClientState, Editing
<1>3. /\ client' \in [Client -> ClientState] /\ client'[c] = s
      /\ \A d \in Client : d # c => client'[d] = client[d]
  BY <1>1, <1>2 DEF RecordInv, RecordTypeOK
<1>4. v \in 1..Len(vaults) /\ client[c].base.content = vaults[v].content /\ Len(vaults) \in Nat
  BY <1>1, SMTT(30) DEF RecordInv, RecordTypeOK, BaseRead, Editing
<1>5. PICK ends \in BOOLEAN :
         vaults' = [vaults EXCEPT ![v].content = <<c, ends>>, ![v].version = @ + 1]
  BY Zenon DEF Records!update
<1>6. vaults[v] \in Row
  BY <1>4 DEF RecordInv, RecordTypeOK
<1> DEFINE r == [vaults[v] EXCEPT !.content = <<c, ends>>, !.version = @ + 1]
<1>7. r \in Row /\ r.version = vaults[v].version + 1 /\ vaults' = [vaults EXCEPT ![v] = r]
  <2>1. <<c, ends>> \in Content /\ vaults[v].version + 1 \in Nat
    BY <1>6 DEF Content, Row
  <2>2. r \in Row /\ r.version = vaults[v].version + 1
    BY <1>6, <2>1, Zenon DEF Row
  <2>3. vaults' = [vaults EXCEPT ![v] = r]
    BY <1>4, <1>5, Zenon DEF RecordInv, RecordTypeOK
  <2> QED  BY <2>2, <2>3
<1>8. /\ vaults' \in Seq(Row) /\ Len(vaults') = Len(vaults) /\ vaults'[v] = r
      /\ \A u \in 1..Len(vaults) : u # v => vaults'[u] = vaults[u]
  <2> HIDE DEF r, v
  <2> QED  BY <1>4, <1>7 DEF RecordInv, RecordTypeOK
<1>9. RecordTypeOK' /\ ToldLanded'
  BY <1>1, <1>2, <1>3, <1>8, SMTT(30) DEF RecordInv, RecordTypeOK, ToldLanded
<1>10. BaseRead'
  <2> SUFFICES ASSUME NEW d \in Client, client'[d].at \in Editing
               PROVE  /\ client'[d].base.id \in 1..Len(vaults')
                      /\ client'[d].base.version <= vaults'[client'[d].base.id].version
                      /\ client'[d].base.version = vaults'[client'[d].base.id].version =>
                            client'[d].base.content = vaults'[client'[d].base.id].content
    BY DEF BaseRead
  <2>1. client'[d].base = client[d].base /\ client[d].at \in Editing
    BY <1>1, <1>2, <1>3, SMTT(30) DEF Editing
  <2>2. /\ client[d].base.id \in 1..Len(vaults)
        /\ client[d].base.version <= vaults[client[d].base.id].version
        /\ client[d].base.version = vaults[client[d].base.id].version =>
              client[d].base.content = vaults[client[d].base.id].content
    BY <2>1 DEF RecordInv, BaseRead
  <2>3. client[d].base.version \in Nat /\ vaults[v].version \in Nat
    BY <1>6, SMTT(30) DEF RecordInv, RecordTypeOK, ClientState, Base, Row
  <2>4. CASE client[d].base.id = v
    <3> HIDE DEF r
    <3> QED  BY <1>7, <1>8, <2>1, <2>2, <2>3, <2>4, SMTT(30)
  <2>5. CASE client[d].base.id # v
    BY <1>8, <2>1, <2>2, <2>5
  <2> QED  BY <2>4, <2>5
<1>11. EditStep
  <2>1. Records!Ids = 1..Len(vaults)
    BY DEF RecordInv, RecordTypeOK, Records!Ids
  <2>2. \A u \in 1..Len(vaults) : vaults'[u].content # vaults[u].content => u = v
    BY <1>8
  <2>3. client'[c].at = "answering"
    BY <1>2, <1>3
  <2> QED  BY <1>1, <1>4, <1>9, <2>1, <2>2, <2>3 DEF EditStep, ToldLanded
<1> QED  BY <1>9, <1>10, <1>11 DEF RecordInv

\* Every step keeps the invariant, and an update lands on what its author had
\* read.
LEMMA RecordStep ==
    ASSUME RecordInv, [Records!Next]_(Records!recordVars)
    PROVE  RecordInv' /\ [EditStep]_(Records!recordVars)
<1>0. vaults \in Seq(Row) /\ Len(vaults) \in Nat /\ Records!Ids = 1..Len(vaults)
  BY SMTT(30) DEF RecordInv, RecordTypeOK, Records!Ids
<1>1. ASSUME NEW k \in Key, Records!create(k) PROVE RecordInv' /\ EditStep
  <2>1. PICK ends \in BOOLEAN :
           vaults' = Append(vaults, [key |-> k, version |-> 1, deleted |-> FALSE,
                                     content |-> <<"created", ends>>])
    BY <1>1, Zenon DEF Records!create
  <2> DEFINE r == [key |-> k, version |-> 1, deleted |-> FALSE, content |-> <<"created", ends>>]
  <2>2. r \in Row
    BY DEF Row, Content
  <2>3. /\ vaults' \in Seq(Row) /\ Len(vaults') = Len(vaults) + 1
        /\ \A v \in 1..Len(vaults) : vaults'[v] = vaults[v]
    <3> HIDE DEF r
    <3> QED  BY <1>0, <2>1, <2>2 DEF r
  <2>4. UNCHANGED <<client, expired>>
    BY <1>1 DEF Records!create
  <2> QED  BY <1>0, <2>3, <2>4, RowStep
<1>2. ASSUME NEW v \in Records!Ids, Records!soft_delete(v) \/ Records!restore(v)
      PROVE  RecordInv' /\ EditStep
  <2>1. PICK b \in BOOLEAN : vaults' = [vaults EXCEPT ![v].deleted = b]
    BY <1>2, Zenon DEF Records!soft_delete, Records!restore
  <2>2. vaults[v] \in Row
    BY <1>0
  <2> DEFINE r == [vaults[v] EXCEPT !.deleted = b]
  <2>3. /\ r \in Row /\ r.version = vaults[v].version /\ r.content = vaults[v].content
        /\ vaults' = [vaults EXCEPT ![v] = r]
    BY <1>0, <2>1, <2>2 DEF Row
  <2>4. /\ vaults' \in Seq(Row) /\ Len(vaults') = Len(vaults) /\ vaults'[v] = r
        /\ \A u \in 1..Len(vaults) : u # v => vaults'[u] = vaults[u]
    <3> HIDE DEF r
    <3> QED  BY <1>0, <2>3
  <2>5. UNCHANGED <<client, expired>>
    BY <1>2 DEF Records!soft_delete, Records!restore
  <2> HIDE DEF r
  <2> QED  BY <1>0, <2>3, <2>4, <2>5, RowStep
<1>3. ASSUME NEW c \in Client, NEW v \in Records!Ids, Records!get(c, v)
      PROVE  RecordInv' /\ EditStep
  <2> DEFINE b == [id |-> v, version |-> vaults[v].version, content |-> vaults[v].content]
             s == [at |-> "read", landed |-> FALSE, told |-> "none", base |-> b]
  <2>1. vaults[v] \in Row /\ v \in Nat
    BY <1>0
  <2>2. b \in Base
    BY <2>1 DEF Base, Row
  <2>3. s \in ClientState
    <3> HIDE DEF b
    <3> QED  BY <2>2 DEF ClientState, Editing
  <2>4. client' = [client EXCEPT ![c] = s] /\ UNCHANGED <<vaults, expired>>
    BY <1>3 DEF Records!get
  <2>5. s.base.version <= vaults[s.base.id].version
    BY <2>1 DEF Row
  <2> QED  BY <1>0, <2>3, <2>4, <2>5, ClientStep, Zenon DEF Editing
<1>4. ASSUME NEW c \in Client,
             Records!ensure_policy_active(c) \/ Records!update(c) \/ Records!answer(c) \/ Records!no_rows(c)
      PROVE  RecordInv' /\ EditStep
  <2>1. client[c] \in ClientState /\ client \in [Client -> ClientState]
    BY DEF RecordInv, RecordTypeOK
  <2>2. CASE Records!update(c) /\ vaults[client[c].base.id].version = client[c].base.version
    BY <2>2, UpdateStep
  <2>3. CASE ~(Records!update(c) /\ vaults[client[c].base.id].version = client[c].base.version)
    <3>1. PICK at \in Editing \union {"idle"}, told \in {"none", "refused", "ok", "Conflict", "NotFound"} :
             /\ client' = [client EXCEPT ![c] = [client[c] EXCEPT !.at = at, !.told = told]]
             /\ UNCHANGED <<vaults, expired>>
             /\ client[c].at \in Editing
             /\ at # "answering"
             /\ told = "ok" => client[c].at = "answering" \/ client[c].told = "ok"
      <4>1. CASE Records!ensure_policy_active(c)
        BY <2>1, <4>1, ZenonT(60) DEF Records!ensure_policy_active, Editing
      <4>2. CASE Records!update(c)
        <5>1. /\ client' = [client EXCEPT ![c] = [client[c] EXCEPT !.at = "no_rows"]]
              /\ UNCHANGED <<vaults, expired>> /\ client[c].at \in Editing
          BY <2>1, <2>3, <4>2, Zenon DEF Records!update, Editing
        <5>2. [client[c] EXCEPT !.at = "no_rows"]
                = [client[c] EXCEPT !.at = "no_rows", !.told = client[c].told]
          BY <2>1, Zenon DEF ClientState
        <5> QED  BY <2>1, <5>1, <5>2, ZenonT(60) DEF ClientState, Editing
      <4>3. CASE Records!answer(c)
        <5>1. /\ \/ client' = [client EXCEPT ![c] = [client[c] EXCEPT !.at = "idle", !.told = "ok"]]
                 \/ client' = [client EXCEPT ![c] = [client[c] EXCEPT !.at = "no_rows"]]
              /\ UNCHANGED <<vaults, expired>> /\ client[c].at = "answering"
          BY <2>1, <4>3, Zenon DEF Records!answer, Editing
        <5>2. [client[c] EXCEPT !.at = "no_rows"]
                = [client[c] EXCEPT !.at = "no_rows", !.told = client[c].told]
          BY <2>1, Zenon DEF ClientState
        <5>3. CASE client' = [client EXCEPT ![c] = [client[c] EXCEPT !.at = "idle", !.told = "ok"]]
          BY <5>1, <5>3 DEF Editing
        <5>4. CASE client' = [client EXCEPT ![c] = [client[c] EXCEPT !.at = "no_rows"]]
          BY <2>1, <5>1, <5>2, <5>4, ZenonT(60) DEF ClientState, Editing
        <5> QED  BY <5>1, <5>3, <5>4, Zenon
      <4>4. CASE Records!no_rows(c)
        BY <2>1, <4>4, Zenon DEF Records!no_rows, Editing
      <4> QED  BY <1>4, <4>1, <4>2, <4>3, <4>4, Zenon
    <3> DEFINE s == [client[c] EXCEPT !.at = at, !.told = told]
    <3>2. /\ s \in ClientState /\ s.at = at /\ s.told = told
          /\ s.base = client[c].base /\ s.landed = client[c].landed
      BY <2>1, Zenon DEF ClientState
    <3>3. client[c].at = "answering" \/ client[c].told = "ok" => client[c].landed
      BY DEF RecordInv, ToldLanded
    <3>4. /\ client[c].base.id \in 1..Len(vaults)
          /\ client[c].base.version <= vaults[client[c].base.id].version
          /\ client[c].base.version = vaults[client[c].base.id].version =>
                client[c].base.content = vaults[client[c].base.id].content
      BY <3>1, SMTT(30) DEF RecordInv, BaseRead
    <3> HIDE DEF s
    <3> QED  BY <3>1, <3>2, <3>3, <3>4, ClientStep, ZenonT(60) DEF s
  <2> QED  BY <2>2, <2>3
<1>5. CASE Records!PolicyEnds
  <2>1. UNCHANGED <<vaults, client>> /\ expired' \in BOOLEAN
    BY <1>5, SMTT(30) DEF Records!PolicyEnds
  <2> QED  BY <2>1 DEF RecordInv, RecordTypeOK, BaseRead, ToldLanded, EditStep
<1>6. CASE UNCHANGED Records!recordVars
  BY <1>6 DEF Records!recordVars, RecordInv, RecordTypeOK, BaseRead, ToldLanded
<1> QED  BY <1>1, <1>2, <1>3, <1>4, <1>5, <1>6 DEF Records!Next

\* An edit of a vault replaces exactly what its author had read: update and
\* delete compare the version.
NoLostEdit == Records!NoLostEdit

\* An edit of a vault replaces exactly what its author had read, and only an
\* edit that landed is answered with ok: for any number of clients, rows and
\* versions.
THEOREM RecordNoLostEdit == Records!Spec => NoLostEdit
<1>1. RecordInv /\ [Records!Next]_(Records!recordVars) => RecordInv' /\ [EditStep]_(Records!recordVars)
  BY RecordStep
<1> QED  BY <1>1, RecordInit, PTL DEF Records!Spec, NoLostEdit, Records!NoLostEdit, EditStep

-----------------------------------------------------------------------------
(* Refresh tokens: auth.rs *)

CONSTANTS Caller, Lifetime, MaxTokens, MaxTime

VARIABLES tokens, issued, rotating, now

Tokens == INSTANCE RefreshTokens WITH store <- tokens

Token == [active : BOOLEAN, family : Nat, expires_at : Int]

TokenTypeOK ==
    /\ issued \in Nat /\ now \in Nat
    /\ DOMAIN tokens \subseteq Nat
    /\ \A t \in DOMAIN tokens :
          t <= issued /\ tokens[t] \in Token /\ tokens[t].family \in 1..issued
    /\ rotating \in [Caller -> 0..issued]

\* A family is carried by one token that can be rotated, or by one rotation.
Unforked ==
    /\ \A t, u \in DOMAIN tokens :
          tokens[t].active /\ tokens[u].active /\ tokens[t].family = tokens[u].family => t = u
    /\ \A c, d \in Caller : rotating[c] # 0 /\ rotating[c] = rotating[d] => c = d
    /\ \A t \in DOMAIN tokens, c \in Caller : tokens[t].active => tokens[t].family # rotating[c]

TokenInv == TokenTypeOK /\ Unforked

\* Purging and removing a family keep a part of the store.
LEMMA PartKept ==
    ASSUME NEW s, NEW f
    PROVE  /\ DOMAIN Tokens!Purged(s) \subseteq DOMAIN s
           /\ \A t \in DOMAIN Tokens!Purged(s) : Tokens!Purged(s)[t] = s[t]
           /\ DOMAIN Tokens!WithoutFamily(s, f) \subseteq DOMAIN s
           /\ \A t \in DOMAIN Tokens!WithoutFamily(s, f) : Tokens!WithoutFamily(s, f)[t] = s[t]
  BY DEF Tokens!Purged, Tokens!WithoutFamily, Tokens!Restrict

\* Dropping tokens forks nothing.
LEMMA ForgetStep ==
    ASSUME TokenInv, UNCHANGED <<issued, rotating, now>>, DOMAIN tokens' \subseteq DOMAIN tokens,
           \A t \in DOMAIN tokens' : tokens'[t] = tokens[t]
    PROVE  TokenInv'
  BY DEF TokenInv, TokenTypeOK, Unforked

\* The insertion of a token into a family that nobody carries.
LEMMA InsertStep ==
    ASSUME Lifetime \in Nat, TokenInv, NEW f \in 1..(issued + 1), Tokens!Insert(f),
           now' = now, rotating' \in [Caller -> 0..issued],
           \A c \in Caller : rotating'[c] \in {rotating[c], 0} /\ rotating'[c] # f,
           \A t \in DOMAIN tokens : tokens[t].active => tokens[t].family # f
    PROVE  TokenInv'
<1> DEFINE s == Tokens!Purged(tokens)
           r == [active |-> TRUE, family |-> f, expires_at |-> now + Lifetime]
<1>1. issued' = issued + 1 /\ tokens' = Tokens!Put(s, issued + 1, r)
  BY DEF Tokens!Insert
<1>2. r \in Token
  BY DEF TokenInv, TokenTypeOK, Token
<1>3. /\ DOMAIN s \subseteq DOMAIN tokens
      /\ \A t \in DOMAIN s : s[t] = tokens[t]
  BY PartKept
<1>4. /\ DOMAIN tokens' = DOMAIN s \union {issued + 1}
      /\ issued + 1 \notin DOMAIN tokens
      /\ tokens'[issued + 1] = r
      /\ \A t \in DOMAIN s : tokens'[t] = tokens[t]
  <2> HIDE DEF s, r
  <2>1. issued + 1 \notin DOMAIN tokens
    BY DEF TokenInv, TokenTypeOK
  <2> QED  BY <1>1, <1>3, <2>1 DEF Tokens!Put
<1> HIDE DEF s
<1>5. TokenTypeOK'
  <2>1. \A t \in DOMAIN tokens' :
           t <= issued + 1 /\ tokens'[t] \in Token /\ tokens'[t].family \in 1..(issued + 1)
    BY <1>2, <1>3, <1>4 DEF TokenInv, TokenTypeOK
  <2>2. rotating' \in [Caller -> 0..issued'] /\ DOMAIN tokens' \subseteq Nat
    BY <1>1, <1>3, <1>4 DEF TokenInv, TokenTypeOK
  <2>3. issued' \in Nat /\ now' \in Nat
    BY <1>1 DEF TokenInv, TokenTypeOK
  <2> QED  BY <1>1, <2>1, <2>2, <2>3, Zenon DEF TokenTypeOK
<1>6. Unforked'
  BY <1>3, <1>4 DEF TokenInv, TokenTypeOK, Unforked
<1> QED  BY <1>5, <1>6 DEF TokenInv

\* rotate_refresh_token consumes an active token for its caller's rotation.
LEMMA RotateStep ==
    ASSUME TokenInv, NEW c \in Caller, NEW t, Tokens!rotate_refresh_token(c, t)
    PROVE  TokenInv'
<1> DEFINE s == Tokens!Purged(tokens)
<1>1. /\ DOMAIN s \subseteq DOMAIN tokens
      /\ \A u \in DOMAIN s : s[u] = tokens[u]
  BY PartKept
<1>2. CASE t \in DOMAIN s /\ s[t].active
  <2>1. /\ tokens' = [s EXCEPT ![t].active = FALSE] /\ rotating' = [rotating EXCEPT ![c] = s[t].family]
        /\ issued' = issued /\ now' = now /\ rotating[c] = 0
    BY <1>2 DEF Tokens!rotate_refresh_token, Tokens!NoFamily
  <2> HIDE DEF s
  <2>2. s[t] = tokens[t] /\ tokens[t] \in Token /\ tokens[t].family \in 1..issued /\ tokens[t].active
    BY <1>1, <1>2 DEF TokenInv, TokenTypeOK
  <2>3. /\ DOMAIN tokens' = DOMAIN s
        /\ \A u \in DOMAIN s : u # t => tokens'[u] = tokens[u]
        /\ tokens'[t] = [tokens[t] EXCEPT !.active = FALSE]
    BY <1>1, <1>2, <2>1, <2>2
  <2>4. /\ tokens'[t] \in Token /\ tokens'[t].family = tokens[t].family
        /\ tokens'[t].active = FALSE
    BY <2>2, <2>3, Zenon DEF Token
  <2>5. /\ rotating' \in [Caller -> 0..issued] /\ rotating'[c] = tokens[t].family
        /\ \A d \in Caller : d # c => rotating'[d] = rotating[d]
    BY <2>1, <2>2 DEF TokenInv, TokenTypeOK
  <2>6. TokenTypeOK'
    BY <1>1, <2>1, <2>2, <2>3, <2>4, <2>5, SMTT(30) DEF TokenInv, TokenTypeOK
  <2>7. Unforked'
    <3>1. \A u \in DOMAIN tokens' : tokens'[u].active =>
             u # t /\ u \in DOMAIN tokens /\ tokens'[u] = tokens[u] /\ tokens[u].family # tokens[t].family
      BY <1>1, <1>2, <2>2, <2>3, <2>4, Zenon DEF TokenInv, Unforked
    <3>2. \A d \in Caller : d # c => rotating'[d] # tokens[t].family
      BY <1>1, <1>2, <2>2, <2>5 DEF TokenInv, Unforked
    <3> QED  BY <2>5, <3>1, <3>2 DEF TokenInv, Unforked
  <2> QED  BY <2>6, <2>7 DEF TokenInv
<1>3. CASE ~(t \in DOMAIN s /\ s[t].active)
  <2>1. /\ tokens' = s \/ tokens' = Tokens!WithoutFamily(s, s[t].family)
        /\ UNCHANGED <<issued, rotating, now>>
    BY <1>3 DEF Tokens!rotate_refresh_token
  <2> HIDE DEF s
  <2>2. DOMAIN tokens' \subseteq DOMAIN tokens /\ \A u \in DOMAIN tokens' : tokens'[u] = tokens[u]
    BY <1>1, <2>1, PartKept
  <2> QED  BY <2>1, <2>2, ForgetStep
<1> QED  BY <1>2, <1>3

\* Logins, rotations, revocations and expiries fork no family.
LEMMA TokenStep ==
    ASSUME Lifetime \in Nat, TokenInv, [Tokens!Next]_(Tokens!tokenVars)
    PROVE  TokenInv'
<1>1. CASE Tokens!issue_token_pair
  <2>1. /\ Tokens!Insert(issued + 1) /\ rotating' = rotating /\ now' = now
        /\ issued + 1 \in 1..(issued + 1)
    BY <1>1 DEF Tokens!issue_token_pair, TokenInv, TokenTypeOK
  <2>2. /\ \A c \in Caller : rotating[c] # issued + 1
        /\ \A t \in DOMAIN tokens : tokens[t].family # issued + 1
        /\ rotating \in [Caller -> 0..issued]
    BY DEF TokenInv, TokenTypeOK
  <2> QED  BY <2>1, <2>2, InsertStep
<1>2. ASSUME NEW c \in Caller, Tokens!issue_token_pair_in_family(c)
      PROVE  TokenInv'
  <2>1. /\ rotating[c] # 0 /\ Tokens!Insert(rotating[c]) /\ now' = now
        /\ rotating' = [rotating EXCEPT ![c] = 0]
    BY <1>2 DEF Tokens!issue_token_pair_in_family, Tokens!NoFamily
  <2>2. rotating[c] \in 1..(issued + 1) /\ rotating' \in [Caller -> 0..issued]
    BY <2>1 DEF TokenInv, TokenTypeOK
  <2>3. \A d \in Caller : rotating'[d] \in {rotating[d], 0} /\ rotating'[d] # rotating[c]
    BY <2>1 DEF TokenInv, TokenTypeOK, Unforked
  <2>4. \A t \in DOMAIN tokens : tokens[t].active => tokens[t].family # rotating[c]
    BY DEF TokenInv, Unforked
  <2> QED  BY <2>1, <2>2, <2>3, <2>4, InsertStep
<1>3. ASSUME NEW t, Tokens!revoke_refresh_token(t)
      PROVE  TokenInv'
  BY <1>3, PartKept, ForgetStep DEF Tokens!revoke_refresh_token
<1>4. CASE Tokens!Tick
  BY <1>4 DEF Tokens!Tick, TokenInv, TokenTypeOK, Unforked
<1>5. CASE UNCHANGED Tokens!tokenVars
  BY <1>5 DEF Tokens!tokenVars, TokenInv, TokenTypeOK, Unforked
<1> QED  BY <1>1, <1>2, <1>3, <1>4, <1>5, RotateStep, SMTT(30) DEF Tokens!Next

-----------------------------------------------------------------------------
(* Counting.  Keys, tokens and the consumer, concluded. *)

INSTANCE FiniteSetTheorems

\* A set in which all elements are equal has none or one.
LEMMA AtMostOne ==
    ASSUME NEW S, \A x, y \in S : x = y
    PROVE  Cardinality(S) \in {0, 1} /\ (S = {} => Cardinality(S) = 0)
<1>1. CASE S = {}
  BY <1>1, FS_EmptySet
<1>2. CASE S # {}
  <2>1. PICK x \in S : TRUE
    BY <1>2
  <2>2. S = {x}
    BY <2>1
  <2> QED  BY <1>2, <2>2, FS_Singleton, SMTT(30)
<1> QED  BY <1>1, <1>2

\* Of the requests with one idempotency key one runs, and the others are
\* answered with its response if they ask for the same thing.
AnsweredByOne == Answers!AnsweredByOne

\* Of the requests that carry one idempotency key at most one runs its handler,
\* and the response a request replays is that of one for the same thing which
\* completed, when handlers finish while their claim lives.
THEOREM KeyAnsweredByOne == KeyConstants /\ Timely /\ Answers!Spec => []AnsweredByOne
<1>1. KeyConstants /\ Timely /\ KeyInv /\ [Answers!Next]_(Answers!vars) => KeyInv'
  BY KeyStep
<1>2. KeyConstants /\ Timely => KeyConstants' /\ Timely'
  BY DEF KeyConstants, Answers!Entry
<1>3. KeyInv => AnsweredByOne
  <2> SUFFICES ASSUME KeyInv PROVE Answers!AnsweredByOne
    BY DEF AnsweredByOne
  <2>1. Cardinality(Answers!Running) \in {0, 1}
    BY AtMostOne, SMTT(30) DEF KeyInv, ClaimHeld
  <2>2. Answers!Cardinality(Answers!Running) <= 1
    BY <2>1 DEF Answers!Cardinality, Cardinality
  <2> QED  BY <2>2 DEF Answers!AnsweredByOne, Answers!OneProceeds, Answers!ReplaysOwnResponse,
                       KeyInv, ReplayEarned
<1> QED  BY <1>1, <1>2, <1>3, KeyInit, PTL DEF Answers!Spec

\* Counting is the same in the instantiated module.
LEMMA TokensCounted == \A S : Tokens!Cardinality(S) = Cardinality(S)
  BY DEF Tokens!Cardinality, Cardinality

\* A family of refresh tokens never forks: rotate_refresh_token retires the
\* token it replaces.
OneActivePerFamily == Tokens!OneActivePerFamily

\* However rotations, logins, revocations and expiries overlap, a family of
\* refresh tokens never forks: any number of callers and tokens.
THEOREM TokenOneActivePerFamily ==
    Lifetime \in Nat /\ Tokens!Spec => []OneActivePerFamily
<1>1. Tokens!Init => TokenInv
  BY DEF Tokens!Init, Tokens!NoFamily, TokenInv, TokenTypeOK, Unforked
<1>2. Lifetime \in Nat /\ TokenInv /\ [Tokens!Next]_(Tokens!tokenVars) => TokenInv'
  BY TokenStep
<1>3. TokenInv => OneActivePerFamily
  <2> SUFFICES ASSUME TokenInv, NEW f \in 1..MaxTokens
               PROVE  Cardinality({t \in DOMAIN tokens : tokens[t].active /\ tokens[t].family = f})
                        + Cardinality({c \in Caller : rotating[c] = f}) <= 1
    BY TokensCounted DEF OneActivePerFamily, Tokens!OneActivePerFamily
  <2> DEFINE A == {t \in DOMAIN tokens : tokens[t].active /\ tokens[t].family = f}
             R == {c \in Caller : rotating[c] = f}
  <2>1. \A t, u \in A : t = u
    BY DEF TokenInv, Unforked
  <2>2. \A c, d \in R : c = d
    BY DEF TokenInv, Unforked
  <2>3. A = {} \/ R = {}
    BY DEF TokenInv, Unforked
  <2> HIDE DEF A, R
  <2>4. Cardinality(A) \in {0, 1} /\ (A = {} => Cardinality(A) = 0)
    BY <2>1, AtMostOne, SMTT(30)
  <2>5. Cardinality(R) \in {0, 1} /\ (R = {} => Cardinality(R) = 0)
    BY <2>2, AtMostOne
  <2>6. Cardinality(A) + Cardinality(R) <= 1
    BY <2>3, <2>4, <2>5
  <2> QED  BY <2>6, SMTT(30) DEF A, R
<1>4. Lifetime \in Nat => (Lifetime \in Nat)'
  OBVIOUS
<1> QED  BY <1>1, <1>2, <1>3, <1>4, PTL DEF Tokens!Spec

\* Finitely many workers can be counted.
LEMMA WorkersCount == IsFiniteSet(Workers) => WorkersCounted
<1> SUFFICES ASSUME IsFiniteSet(Workers)  PROVE WorkersCounted
  OBVIOUS
<1>1. \A S \in SUBSET Workers : IsFiniteSet(S)
  BY FS_Subset
<1>2. ASSUME NEW S \in SUBSET Workers, NEW T \in SUBSET Workers, S \intersect T = {}
      PROVE  Cardinality(S) + Cardinality(T) <= Cardinality(Workers)
  <2>1. Cardinality(S \union T) = Cardinality(S) + Cardinality(T) - Cardinality(S \intersect T)
    BY <1>1, FS_Union, SMTT(30)
  <2>2. Cardinality(S \intersect T) = 0
    BY <1>2, FS_EmptySet
  <2>3. Cardinality(S \union T) <= Cardinality(Workers)
    BY FS_Subset
  <2>4. /\ Cardinality(S) \in Nat /\ Cardinality(T) \in Nat
        /\ Cardinality(Workers) \in Nat
    BY <1>1, FS_CardinalityType, SMTT(30)
  <2> QED  BY <2>1, <2>2, <2>3, <2>4, SMTT(30)
<1>3. ASSUME NEW T \in SUBSET Workers, NEW S \in SUBSET T
      PROVE  Cardinality(S) <= Cardinality(T)
  BY <1>1, FS_Subset
<1>4. \A S \in SUBSET Workers : Cardinality(S) \in Nat
  BY <1>1, FS_CardinalityType, SMTT(30)
<1>5. \A S \in SUBSET Workers, w \in Workers :
        w \notin S => Cardinality(S \union {w}) = Cardinality(S) + 1
  BY <1>1, FS_AddElement, SMTT(30)
<1> QED  BY <1>2, <1>3, <1>4, <1>5, FS_EmptySet, SMTT(30) DEF WorkersCounted

\* Counting is the same in the instantiated module.
LEMMA ConsumerCounted == Consumer!Cardinality(Workers) = Cardinality(Workers)
  BY DEF Consumer!Cardinality, Cardinality

\* A message has at most one effect per worker of its IdempotentConsumer.
OncePerWorker == Consumer!OncePerWorker

\* A message has at most one effect per worker of a consumer, however often it
\* is delivered: any number of workers, keys and deliveries.
THEOREM ConsumerOncePerWorker ==
    IsFiniteSet(Workers) /\ Consumer!Spec => []OncePerWorker
<1>1. WorkersCounted /\ Consumer!Init => ConsumerInv
  BY ConsumerInit
<1>2. WorkersCounted /\ ConsumerInv /\ [Consumer!Next]_(Consumer!vars) => ConsumerInv'
  BY ConsumerStep, SMTT(30)
<1>3. WorkersCounted /\ ConsumerInv => OncePerWorker
  <2> SUFFICES ASSUME WorkersCounted, ConsumerInv, NEW c \in Consumers, NEW k \in Keys
               PROVE  ran[<<c, k>>] <= Cardinality(Workers)
    BY ConsumerCounted DEF OncePerWorker, Consumer!OncePerWorker, Consumer!Pairs
  <2>1. ran[<<c, k>>] \in Nat
    BY SMTT(30) DEF ConsumerInv, ConsumerTypeOK, Consumer!Pairs
  <2>2. ran[<<c, k>>] + Cardinality(Handling(worker, c, k)) <= Cardinality(Workers)
    BY DEF ConsumerInv, EffectsCounted
  <2> QED  BY <2>1, <2>2, HandlingOrRecording, SMTT(30)
<1>4. WorkersCounted => WorkersCounted'
  BY DEF WorkersCounted
<1> QED  BY <1>1, <1>2, <1>3, <1>4, WorkersCount, PTL DEF Consumer!Spec

-----------------------------------------------------------------------------
(* Nonces: nonce_partition.rs *)

CONSTANTS Domains, NONCE_MAX

VARIABLES committed, inflight, filling, committed_set, exhausted

Nonces == INSTANCE NoncePartition

\* The type of nonces has a last value, and no entry is none of them.
NonceConstants == NONCE_MAX \in Nat /\ None \notin Nat

\* The nonces assign_nonce may hand out: all but the last value of the type.
Numbers == {n \in Nat : n < NONCE_MAX}

NonceTypeOK ==
    /\ committed \in [Domains -> Numbers \union {None}]
    /\ inflight \in [Domains -> SUBSET Numbers]
    /\ filling \in [Domains -> SUBSET Numbers]
    /\ committed_set \in [Domains -> SUBSET Numbers]

NonceInv == NonceTypeOK /\ Nonces!MarkAtEndOfRun

\* A non-empty set of numbers has a least one.
LEMMA LeastNumber ==
    ASSUME NEW S, S \subseteq Nat, S # {}
    PROVE  \E m \in S : \A n \in S : m <= n
<1>1. PICK m \in S : \A n \in S : ~ (<<n, m>> \in OpToRel(<, Nat))
  BY WFMin, NatLessThanWellFounded, Zenon
<1>2. \A n \in S : ~ (n < m)
  BY <1>1, Zenon DEF OpToRel
<1>3. \A n \in S : m <= n
  BY <1>2
<1> QED  BY <1>3, SMTT(30)

\* The loops of assign_nonce and commit_nonce end: from any start they meet
\* the first number outside a set of nonces, and all they passed was in it.
LEMMA FirstOutside ==
    ASSUME NonceConstants, NEW S, S \subseteq Numbers, NEW a \in 0..NONCE_MAX
    PROVE  \E m \in a..NONCE_MAX : m \notin S /\ a..(m - 1) \subseteq S
<1> USE DEF NonceConstants
<1> DEFINE T == {n \in a..NONCE_MAX : n \notin S}
<1>1. NONCE_MAX \notin S
  BY DEF Numbers
<1>2. T # {} /\ T \subseteq Nat
  BY <1>1
<1>3. PICK m \in T : \A n \in T : m <= n
  <2> HIDE DEF T
  <2> QED  BY <1>2, LeastNumber, Zenon
<1>4. m \in a..NONCE_MAX /\ m \notin S
  OBVIOUS
<1>5. ASSUME NEW n \in a..(m - 1) PROVE n \in S
  <2>1. n \in a..NONCE_MAX /\ ~ (m <= n)
    BY <1>4, SMTT(30)
  <2> QED  BY <1>3, <2>1, SMTT(30)
<1> QED  BY <1>4, <1>5

\* assign_nonce looks at a nonce that nobody holds.
LEMMA AssignableFree ==
    ASSUME NonceConstants, NonceTypeOK, NEW d \in Domains
    PROVE  Nonces!NextAssignable(d) \in 0..NONCE_MAX /\ Nonces!NextAssignable(d) \notin Nonces!Held(d)
<1> USE DEF NonceConstants
<1>1. Nonces!NextExpected(d) \in 0..NONCE_MAX
  BY DEF Nonces!NextExpected, Nonces!SaturatingAdd, NonceTypeOK, Numbers
<1>2. Nonces!Held(d) \subseteq Numbers
  BY DEF Nonces!Held, NonceTypeOK
<1>3. \E m \in Nonces!NextExpected(d)..NONCE_MAX :
         m \notin Nonces!Held(d) /\ Nonces!NextExpected(d)..(m - 1) \subseteq Nonces!Held(d)
  BY <1>1, <1>2, FirstOutside, Zenon
<1>4. Nonces!NextAssignable(d) \in Nonces!NextExpected(d)..NONCE_MAX /\ Nonces!NextAssignable(d) \notin Nonces!Held(d)
  BY <1>3, SMTT(30) DEF Nonces!NextAssignable
<1> QED  BY <1>1, <1>4, SMTT(30)

\* commit_nonce leaves the mark at the end of the run it stands in.
LEMMA AdvanceToEnd ==
    ASSUME NonceConstants, NEW S, S \subseteq Numbers, NEW a \in Numbers
    PROVE  /\ Nonces!Advance(a, S) \in Numbers /\ Nonces!Advance(a, S) >= a
           /\ (a + 1)..Nonces!Advance(a, S) \subseteq S
           /\ Nonces!Advance(a, S) + 1 \notin S
<1> USE DEF NonceConstants
<1>1. a + 1 \in 0..NONCE_MAX
  BY DEF Numbers
<1>2. PICK m \in (a + 1)..NONCE_MAX : m \notin S /\ (a + 1)..(m - 1) \subseteq S
  BY <1>1, FirstOutside, SMTT(30)
<1>3. m - 1 \in a..NONCE_MAX /\ (m - 1) + 1 = m
  BY <1>1, <1>2, SMTT(30) DEF Numbers
<1>4. \E c \in a..NONCE_MAX : (a + 1)..c \subseteq S /\ c + 1 \notin S
  BY <1>2, <1>3, SMTT(30)
<1>5. /\ Nonces!Advance(a, S) \in a..NONCE_MAX
      /\ (a + 1)..Nonces!Advance(a, S) \subseteq S /\ Nonces!Advance(a, S) + 1 \notin S
  BY <1>4 DEF Nonces!Advance
<1>6. Nonces!Advance(a, S) \in Numbers
  <2>1. CASE Nonces!Advance(a, S) = a
    BY <2>1
  <2>2. CASE Nonces!Advance(a, S) # a
    <3>1. Nonces!Advance(a, S) \in (a + 1)..Nonces!Advance(a, S)
      BY <1>5, <2>2, SMTT(30) DEF Numbers
    <3> QED  BY <1>5, <3>1, SMTT(30)
  <2> QED  BY <2>1, <2>2, SMTT(30)
<1> QED  BY <1>5, <1>6, SMTT(30) DEF Numbers

\* What a step of each operation does to the invariant.
LEMMA NonceStep == NonceConstants /\ NonceInv /\ [Nonces!Next]_(Nonces!vars) => NonceInv'
<1> SUFFICES ASSUME NonceConstants, NonceInv, [Nonces!Next]_(Nonces!vars) PROVE NonceInv'
  OBVIOUS
<1> USE DEF NonceConstants, NonceInv
<1>1. ASSUME NEW d \in Domains, Nonces!AssignNonce(d) PROVE NonceInv'
  <2>1. Nonces!NextAssignable(d) \in 0..NONCE_MAX
    BY AssignableFree
  <2>2. ~Nonces!IsExhausted(d) => Nonces!NextAssignable(d) \in Numbers
    BY <2>1 DEF Nonces!IsExhausted, Numbers
  <2>3. NonceTypeOK'
    BY <1>1, <2>2, SMTT(30) DEF Nonces!AssignNonce, NonceTypeOK
  <2>4. Nonces!MarkAtEndOfRun'
    BY <1>1 DEF Nonces!AssignNonce, Nonces!MarkAtEndOfRun
  <2> QED  BY <2>3, <2>4, SMTT(30)
<1>2. ASSUME NEW d \in Domains, NEW n \in Nonces!Held(d), Nonces!CommitNonce(d, n) PROVE NonceInv'
  <2> DEFINE mark == IF committed[d] = None THEN 0 ELSE committed[d]
             set == committed_set[d] \union {n}
  <2>1. n \in Numbers
    BY DEF Nonces!Held, NonceTypeOK
  <2>2. mark \in Numbers /\ set \subseteq Numbers
    BY <2>1, SMTT(30) DEF NonceTypeOK, Numbers
  <2>3. /\ committed_set' = [committed_set EXCEPT ![d] = set]
        /\ committed' = [committed EXCEPT ![d] = Nonces!Advance(mark, set)]
    BY <1>2 DEF Nonces!CommitNonce, NonceTypeOK
  <2>4. /\ Nonces!Advance(mark, set) \in Numbers /\ Nonces!Advance(mark, set) >= mark
        /\ (mark + 1)..Nonces!Advance(mark, set) \subseteq set
        /\ Nonces!Advance(mark, set) + 1 \notin set
    <3> HIDE DEF mark, set
    <3> QED  BY <2>2, AdvanceToEnd, SMTT(30)
  <2>5. 1..mark \subseteq set
    BY <2>2 DEF Nonces!MarkAtEndOfRun
  <2> HIDE DEF mark, set
  <2>6. 1..Nonces!Advance(mark, set) \subseteq set
    BY <2>2, <2>4, <2>5, SMTT(30) DEF Numbers
  <2>7. NonceTypeOK'
    BY <1>2, <2>2, <2>3, <2>4, SMTT(30) DEF Nonces!CommitNonce, NonceTypeOK
  <2>8. Nonces!MarkAtEndOfRun'
    BY <2>3, <2>4, <2>6, SMTT(30) DEF Nonces!MarkAtEndOfRun, NonceTypeOK
  <2> QED  BY <2>7, <2>8, SMTT(30)
<1>3. ASSUME NEW d \in Domains, NEW n \in Nonces!Held(d), Nonces!ReleaseNonce(d, n) PROVE NonceInv'
  BY <1>3, SMTT(30) DEF Nonces!ReleaseNonce, NonceTypeOK, Nonces!MarkAtEndOfRun
<1>4. ASSUME NEW d \in Domains, NEW n \in Nonces!DetectGaps(d), Nonces!FillGap(d, n) PROVE NonceInv'
  <2>1. n \in Numbers
    BY DEF Nonces!DetectGaps, Nonces!Held, NonceTypeOK
  <2> QED  BY <1>4, <2>1, SMTT(30) DEF Nonces!FillGap, NonceTypeOK, Nonces!MarkAtEndOfRun
<1>5. ASSUME NEW d \in Domains, Nonces!ResetDomain(d) PROVE NonceInv'
  BY <1>5 DEF Nonces!ResetDomain, NonceTypeOK, Nonces!MarkAtEndOfRun
<1>6. CASE UNCHANGED Nonces!vars
  BY <1>6 DEF Nonces!vars, NonceTypeOK, Nonces!MarkAtEndOfRun
<1> QED  BY <1>1, <1>2, <1>3, <1>4, <1>5, <1>6, SMTT(30) DEF Nonces!Next

\* The nonces of a domain are numbers of their type, and its mark stands at
\* the end of the run of committed ones, through every assignment, commit,
\* release and reset.
THEOREM NonceInvariant == NonceConstants /\ Nonces!Spec => []NonceInv
<1>1. Nonces!Init => NonceInv
  BY DEF Nonces!Init, NonceInv, NonceTypeOK, Nonces!MarkAtEndOfRun
<1>2. NonceConstants => NonceConstants'
  BY DEF NonceConstants
<1> QED  BY <1>1, <1>2, NonceStep, PTL DEF Nonces!Spec

\* The mark of a domain stands at the end of its run of committed nonces.
MarkAtEndOfRun == Nonces!MarkAtEndOfRun

\* For any number of domains and any width of the nonce type, the mark of a
\* domain stands at the end of the run of its committed nonces.
THEOREM NonceMark == NonceConstants /\ Nonces!Spec => []MarkAtEndOfRun
  BY NonceInvariant, PTL DEF NonceInv, MarkAtEndOfRun

\* assign_nonce never hands out a nonce that someone holds.
HeldOnce == Nonces!HeldOnce

\* assign_nonce hands out neither a nonce that is held nor the last value.
THEOREM NonceHeldOnce == NonceConstants /\ Nonces!Spec => HeldOnce
<1> DEFINE New == \A d \in Domains : \A n \in inflight'[d] \ inflight[d] :
                    n \notin Nonces!Held(d) /\ n # NONCE_MAX
<1>1. NonceConstants /\ NonceInv /\ [Nonces!Next]_(Nonces!vars) => [New]_(Nonces!vars)
  <2> SUFFICES ASSUME NonceConstants, NonceInv, Nonces!Next, NEW e \in Domains, NEW n \in inflight'[e] \ inflight[e]
               PROVE  n \notin Nonces!Held(e) /\ n # NONCE_MAX
    BY DEF New
  <2>1. ASSUME NEW d \in Domains, Nonces!AssignNonce(d) PROVE n \notin Nonces!Held(e) /\ n # NONCE_MAX
    BY <2>1, AssignableFree, SMTT(30) DEF Nonces!AssignNonce, Nonces!IsExhausted, NonceConstants, NonceInv, NonceTypeOK
  <2>2. ASSUME NEW d \in Domains, NEW m, Nonces!CommitNonce(d, m) \/ Nonces!ReleaseNonce(d, m) \/ Nonces!FillGap(d, m)
        PROVE  FALSE
    BY <2>2, SMTT(30) DEF Nonces!CommitNonce, Nonces!ReleaseNonce, Nonces!FillGap, NonceInv, NonceTypeOK
  <2>3. ASSUME NEW d \in Domains, Nonces!ResetDomain(d) PROVE FALSE
    BY <2>3 DEF Nonces!ResetDomain, NonceInv, NonceTypeOK
  <2> QED  BY <2>1, <2>2, <2>3, Zenon DEF Nonces!Next
<1>2. NonceConstants => NonceConstants'
  BY DEF NonceConstants
<1> QED  BY <1>1, <1>2, NonceInvariant, PTL DEF Nonces!Spec, HeldOnce, Nonces!HeldOnce
=============================================================================
