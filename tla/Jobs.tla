-------------------------------- MODULE Jobs --------------------------------
(***************************************************************************)
(* The SQL and Redis job queue of core/src/jobs.rs.  A submission inserts  *)
(* the row and pushes the id as the two operations of a two-phase          *)
(* transaction (first the database commits, then Redis; compensation runs  *)
(* backwards).  A worker moves an id from the queue to the processing list *)
(* and spawns a task for it; clients cancel jobs; a sweep deletes old rows. *)
(* Every database or Redis command is a step of its own.                   *)
(***************************************************************************)
EXTENDS Integers, Sequences, FiniteSets

CONSTANTS
    Ids,            \* jobs, one submission each
    Workers,
    Tasks,          \* permits of the semaphore: max_concurrent_jobs
    MaxFaults,      \* bound: database errors met by tasks
    MaxStops,       \* bound: shutdowns or crashes of the process
    None

VARIABLES
    submission,     \* how far submit has come with each job
    row,            \* status column of each job, None without a row
    queue,          \* Perigee:jobs:queue, pushed at the head, popped at the end
    processing,     \* Perigee:jobs:processing
    held,           \* id a worker has popped and not yet spawned a task for
    task,           \* what each task is doing
    canceller,      \* status cancel has read, None if it is not running
    faults, stops,
    ran             \* history: jobs whose execution ended with a result

vars == <<submission, row, queue, processing, held, task, canceller, faults, stops, ran>>

store == <<row, queue, processing>>
workers == <<held, task>>

JobStatus == {"QUEUED", "PROCESSING", "COMPLETED", "FAILED", "CANCELLED"}

Terminal == {"COMPLETED", "FAILED", "CANCELLED"}

Idle == [pc |-> "idle", job |-> None]

Init ==
    /\ submission = [j \in Ids |-> "new"]
    /\ row = [j \in Ids |-> None]
    /\ queue = <<>> /\ processing = <<>>
    /\ held = [w \in Workers |-> None]
    /\ task = [t \in Tasks |-> Idle]
    /\ canceller = [j \in Ids |-> None]
    /\ faults = 0 /\ stops = 0
    /\ ran = {}

Listed(list, j) == \E i \in DOMAIN list : list[i] = j

\* lrem key 1 id
Lrem(list, j) ==
    LET found == {i \in DOMAIN list : list[i] = j}
        first == CHOOSE i \in found : \A k \in found : i <= k
    IN  IF found = {} THEN list
        ELSE [i \in 1..(Len(list) - 1) |-> IF i < first THEN list[i] ELSE list[i + 1]]

-----------------------------------------------------------------------------
(* submit: the calls of execute at the two participants *)

Submitted(j, pc) == submission' = [submission EXCEPT ![j] = pc]

\* insert_submission; an error leaves open whether the row is there.
InsertRow(j) ==
    /\ submission[j] = "new"
    /\ \/ row' = [row EXCEPT ![j] = "QUEUED"] /\ Submitted(j, "inserted")
       \/ row' \in {row, [row EXCEPT ![j] = "QUEUED"]} /\ Submitted(j, "undo_row")
    /\ UNCHANGED <<queue, processing, workers, canceller, faults, stops, ran>>

\* enqueue_submission, likewise; on success the client gets the id.
PushId(j) ==
    /\ submission[j] = "inserted"
    /\ \/ queue' = <<j>> \o queue /\ Submitted(j, "accepted")
       \/ queue' \in {queue, <<j>> \o queue} /\ Submitted(j, "undo_queue")
    /\ UNCHANGED <<row, processing, workers, canceller, faults, stops, ran>>

\* dequeue_submission takes the id out of the queue, then out of the
\* processing list; the first error ends it.
UndoQueue(j) ==
    /\ submission[j] = "undo_queue"
    /\ \/ queue' = Lrem(queue, j) /\ Submitted(j, "undo_processing")
       \/ queue' \in {queue, Lrem(queue, j)} /\ Submitted(j, "undo_row_dirty")
    /\ UNCHANGED <<row, processing, workers, canceller, faults, stops, ran>>

UndoProcessing(j) ==
    /\ submission[j] = "undo_processing"
    /\ \/ processing' = Lrem(processing, j) /\ Submitted(j, "undo_row")
       \/ processing' \in {processing, Lrem(processing, j)} /\ Submitted(j, "undo_row_dirty")
    /\ UNCHANGED <<row, queue, workers, canceller, faults, stops, ran>>

\* delete_submission; the transaction is rolled back if every undo answered.
UndoRow(j) ==
    /\ submission[j] \in {"undo_row", "undo_row_dirty"}
    /\ \/ /\ row' = [row EXCEPT ![j] = None]
          /\ Submitted(j, IF submission[j] = "undo_row" THEN "rolled_back" ELSE "aborting")
       \/ row' \in {row, [row EXCEPT ![j] = None]} /\ Submitted(j, "aborting")
    /\ UNCHANGED <<queue, processing, workers, canceller, faults, stops, ran>>

Submit(j) ==
    InsertRow(j) \/ PushId(j) \/ UndoQueue(j) \/ UndoProcessing(j) \/ UndoRow(j)

Submitting == {"inserted", "undo_queue", "undo_processing", "undo_row", "undo_row_dirty"}

\* The request is cancelled and its future dropped: nobody goes on with the
\* transaction.
DropSubmit(j) ==
    /\ submission[j] \in Submitting
    /\ Submitted(j, "dropped")
    /\ UNCHANGED <<store, workers, canceller, faults, stops, ran>>

-----------------------------------------------------------------------------
(* The worker loop and its tasks *)

\* Slip: the id is not kept in the processing list.
PopForgets(w) ==
    /\ held[w] = None /\ queue # <<>>
    /\ held' = [held EXCEPT ![w] = queue[Len(queue)]]
    /\ queue' = SubSeq(queue, 1, Len(queue) - 1)
    /\ UNCHANGED <<submission, row, processing, task, canceller, faults, stops, ran>>

\* Slip: the id is copied to the processing list and stays in the queue.
PopCopies(w) ==
    /\ held[w] = None /\ queue # <<>>
    /\ held' = [held EXCEPT ![w] = queue[Len(queue)]]
    /\ processing' = <<queue[Len(queue)]>> \o processing
    /\ UNCHANGED <<submission, row, queue, task, canceller, faults, stops, ran>>

\* brpoplpush
Pop(w) ==
    /\ held[w] = None /\ queue # <<>>
    /\ held' = [held EXCEPT ![w] = queue[Len(queue)]]
    /\ processing' = <<queue[Len(queue)]>> \o processing
    /\ queue' = SubSeq(queue, 1, Len(queue) - 1)
    /\ UNCHANGED <<submission, row, task, canceller, faults, stops, ran>>

\* A permit is free.
Spawn(w, t) ==
    /\ held[w] # None /\ task[t] = Idle
    /\ task' = [task EXCEPT ![t] = [pc |-> "get", job |-> held[w]]]
    /\ held' = [held EXCEPT ![w] = None]
    /\ UNCHANGED <<submission, store, canceller, faults, stops, ran>>

Goto(t, pc) == task' = [task EXCEPT ![t].pc = pc]

\* UPDATE jobs SET status = .. WHERE id = ..
Update(j, status) == row' = IF row[j] = None THEN row ELSE [row EXCEPT ![j] = status]

\* A database error ends process_job.
DbError(t) ==
    /\ task[t].pc \in {"get", "mark", "complete", "fail"}
    /\ faults < MaxFaults /\ faults' = faults + 1
    /\ Goto(t, "remove")
    /\ UNCHANGED <<submission, store, held, canceller, stops, ran>>

\* process_job: the job is read; NotFound ends it.
GetJob(t) ==
    /\ task[t].pc = "get"
    /\ Goto(t, IF row[task[t].job] = None THEN "remove" ELSE "mark")
    /\ UNCHANGED <<submission, store, held, canceller, faults, stops, ran>>

MarkProcessing(t) ==
    /\ task[t].pc = "mark"
    /\ Update(task[t].job, "PROCESSING")
    /\ Goto(t, "execute")
    /\ UNCHANGED <<submission, queue, processing, held, canceller, faults, stops, ran>>

\* execute_job runs twice and the outcome of the second run counts: a result,
\* or an error or timeout.
Execute(t) ==
    /\ task[t].pc = "execute"
    /\ \/ Goto(t, "complete") /\ ran' = ran \union {task[t].job}
       \/ Goto(t, "fail") /\ UNCHANGED ran
    /\ UNCHANGED <<submission, store, held, canceller, faults, stops>>

Reported(pc) == IF pc = "complete" THEN "COMPLETED" ELSE "FAILED"

\* complete or fail; the retry that follows a failure returns at once and the
\* webhook is not waited for, since the token both look at was cancelled after
\* the execution.
Report(t) ==
    /\ task[t].pc \in {"complete", "fail"}
    /\ Update(task[t].job, Reported(task[t].pc))
    /\ Goto(t, IF task[t].pc = "complete" THEN "remove" ELSE "remove_failed")
    /\ UNCHANGED <<submission, queue, processing, held, canceller, faults, stops, ran>>

\* Slip: the permit is not given back.
UnlistKeepsPermit(t) ==
    /\ task[t].pc \in {"remove", "remove_failed"}
    /\ processing' = Lrem(processing, task[t].job)
    /\ Goto(t, "done")
    /\ UNCHANGED <<submission, row, queue, held, canceller, faults, stops, ran>>

\* The id leaves the processing list and the permit is free again.
Unlist(t) ==
    /\ task[t].pc \in {"remove", "remove_failed"}
    /\ processing' = Lrem(processing, task[t].job)
    /\ task' = [task EXCEPT ![t] = Idle]
    /\ UNCHANGED <<submission, row, queue, held, canceller, faults, stops, ran>>

TaskStep(t) == GetJob(t) \/ MarkProcessing(t) \/ Execute(t) \/ Report(t) \/ Unlist(t)

-----------------------------------------------------------------------------
(* Cancellation, retention, shutdown *)

\* cancel, asked for by a client who was given the id, reads the job ...
CancelRead(j) ==
    /\ submission[j] = "accepted"
    /\ canceller[j] = None /\ row[j] \in {"QUEUED", "PROCESSING"}
    /\ canceller' = [canceller EXCEPT ![j] = row[j]]
    /\ UNCHANGED <<submission, store, workers, faults, stops, ran>>

\* ... updates it, and answers with the row if it is still there.
CancelWrite(j) ==
    /\ canceller[j] # None
    /\ Update(j, "CANCELLED")
    /\ canceller' = [canceller EXCEPT ![j] = None]
    /\ UNCHANGED <<submission, queue, processing, workers, faults, stops, ran>>

\* The row of a finished job is older than the retention time.
Cleanup(j) ==
    /\ row[j] \in Terminal
    /\ row' = [row EXCEPT ![j] = None]
    /\ UNCHANGED <<submission, queue, processing, workers, canceller, faults, stops, ran>>

\* The process stops, by request or not, and starts again: futures are gone, the
\* table and the lists stay as they are.
Stop ==
    /\ stops < MaxStops /\ stops' = stops + 1
    /\ held' = [w \in Workers |-> None]
    /\ task' = [t \in Tasks |-> Idle]
    /\ canceller' = [j \in Ids |-> None]
    /\ submission' = [j \in Ids |-> IF submission[j] \in Submitting THEN "dropped" ELSE submission[j]]
    /\ UNCHANGED <<store, faults, ran>>

WorkerStep(w) == Pop(w) \/ \E t \in Tasks : Spawn(w, t)

Next ==
    \/ \E j \in Ids : Submit(j) \/ DropSubmit(j) \/ CancelRead(j) \/ CancelWrite(j) \/ Cleanup(j)
    \/ \E w \in Workers : WorkerStep(w)
    \/ \E t \in Tasks : TaskStep(t) \/ DbError(t)
    \/ Stop

Spec == Init /\ [][Next]_vars

\* Workers and the tasks they spawned keep running.
FairSpec ==
    /\ Spec
    /\ \A w \in Workers : WF_vars(WorkerStep(w))
    /\ \A t \in Tasks : WF_vars(TaskStep(t))

-----------------------------------------------------------------------------
(* Properties *)

\* A submission that was rolled back left nothing behind: no row and no id in
\* either list, even if a worker had popped the id in the meantime.
RolledBackGone ==
    \A j \in Ids : submission[j] = "rolled_back" =>
        row[j] = None /\ ~Listed(queue, j) /\ ~Listed(processing, j)

\* No job is run by two tasks, and its id is in the lists at most once.
OneTaskPerJob ==
    \A j \in Ids :
        /\ Cardinality({t \in Tasks : task[t].job = j}) + Cardinality({w \in Workers : held[w] = j}) <= 1
        /\ Cardinality({i \in DOMAIN queue : queue[i] = j})
             + Cardinality({i \in DOMAIN processing : processing[i] = j}) <= 1

\* An accepted job whose row says QUEUED is in one of the lists, also after a
\* stop of the process, unless a database error took it.
QueuedNotLost ==
    faults = 0 => \A j \in Ids : submission[j] = "accepted" /\ row[j] = "QUEUED" =>
        Listed(queue, j) \/ Listed(processing, j)

\* Only a job whose execution ended with a result is COMPLETED.
CompletedWasRun == \A j \in Ids : row[j] = "COMPLETED" => j \in ran

\* Every accepted job reaches a terminal status, if nothing breaks.
EventuallyTerminal ==
    \A j \in Ids : (submission[j] = "accepted") ~> (row[j] \in Terminal \union {None})

\* "Retry a failed job": a failed task with retries left puts its job back.
FailedIsRetried ==
    \A t \in Tasks : task[t].pc = "remove_failed" => row[task[t].job] # "FAILED"
=============================================================================
