---------------------------- MODULE RedisProofs -----------------------------
(***************************************************************************)
(* Proofs about the job queue in Redis and the database, for any jobs,     *)
(* workers and permits: what a push and a pop do to the two lists, the     *)
(* invariant, a lemma per kind of step, and the theorems.                  *)
(***************************************************************************)
EXTENDS Integers, Sequences, FiniteSets, TLAPS

CONSTANTS JobIds, Pollers, Tasks, MaxFaults, MaxStops, Absent

VARIABLES submission, row, queue, processing, held, task, canceller, faults, stops, executed

Redis ==
    INSTANCE Jobs WITH Ids <- JobIds, Workers <- Pollers, None <- Absent, ran <- executed

\* The absence of a value is neither a job nor a status.
RedisConstants == Absent \notin JobIds /\ Absent \notin Redis!JobStatus

Once(s) == \A i, k \in DOMAIN s : s[i] = s[k] => i = k

Listed(s, x) == Redis!Listed(s, x)

\* t is the list s after x was pushed at its head, or popped from its end.
Lpush(s, t, x) == t = <<x>> \o s
Rpop(s, t, x) == s # << >> /\ t = SubSeq(s, 1, Len(s) - 1) /\ x = s[Len(s)]

\* t is s, of n elements, with x put in front.
Prefixed(s, t, x, n) ==
    DOMAIN t = 1..(n + 1) /\ DOMAIN s = 1..n /\ t[1] = x /\ \A i \in 1..n : t[i + 1] = s[i]

\* t is s, of n elements, without the last one, which is x.
Shortened(s, t, x, n) ==
    n # 0 /\ DOMAIN t = 1..(n - 1) /\ DOMAIN s = 1..n /\ s[n] = x /\ \A i \in 1..(n - 1) : t[i] = s[i]

\* What lpush does to a list that does not have the id.
LEMMA PushedMembers ==
    ASSUME NEW s, NEW t, NEW x, NEW n \in Nat, Once(s), ~ Listed(s, x), Prefixed(s, t, x, n)
    PROVE  Once(t) /\ \A y : Listed(t, y) <=> Listed(s, y) \/ y = x
<1>0. DOMAIN t = 1..(n + 1) /\ DOMAIN s = 1..n /\ t[1] = x /\ \A i \in 1..n : t[i + 1] = s[i]
  BY DEF Prefixed
<1>1. \A i \in 1..n : i + 1 \in 1..(n + 1)
  OBVIOUS
<1>2. \A i \in 1..(n + 1) : i = 1 \/ (i - 1 \in 1..n /\ t[i] = s[i - 1])
  BY <1>0
<1>3. 1 \in 1..(n + 1)
  OBVIOUS
<1>4. \A i \in 1..n : s[i] # x
  BY <1>0 DEF Listed, Redis!Listed
<1>5. ASSUME NEW i \in 1..(n + 1), NEW k \in 1..(n + 1), t[i] = t[k] PROVE i = k
  <2>1. CASE i = 1 \/ k = 1
    BY <1>0, <1>2, <1>4, <1>5, <2>1
  <2>2. CASE i # 1 /\ k # 1
    <3>1. i - 1 \in 1..n /\ k - 1 \in 1..n /\ s[i - 1] = s[k - 1]
      BY <1>2, <1>5, <2>2
    <3>2. i - 1 = k - 1
      BY <1>0, <3>1 DEF Once
    <3> QED  BY <3>2
  <2> QED  BY <2>1, <2>2
<1>6. ASSUME NEW y PROVE (\E i \in 1..(n + 1) : t[i] = y) <=> (\E i \in 1..n : s[i] = y) \/ y = x
  BY <1>0, <1>1, <1>2, <1>3
<1> QED  BY <1>0, <1>5, <1>6 DEF Once, Listed, Redis!Listed

\* LPUSH of an id that is not in the list adds that id and nothing else.
LEMMA Pushed ==
    ASSUME NEW A, NEW s \in Seq(A), NEW x \in A, Once(s), ~ Listed(s, x), NEW t, Lpush(s, t, x)
    PROVE  t \in Seq(A) /\ Once(t) /\ \A y : Listed(t, y) <=> Listed(s, y) \/ y = x
<1>1. PICK n \in Nat : n = Len(s)
  OBVIOUS
<1>2. t \in Seq(A) /\ Prefixed(s, t, x, n)
  BY <1>1 DEF Prefixed, Lpush
<1> QED  BY <1>2, PushedMembers

\* What brpoplpush takes from the end of a list.
LEMMA PoppedMembers ==
    ASSUME NEW s, NEW t, NEW x, NEW n \in Nat, Once(s), Shortened(s, t, x, n)
    PROVE  Listed(s, x) /\ Once(t) /\ \A y : Listed(t, y) <=> Listed(s, y) /\ y # x
<1>0. /\ n # 0 /\ DOMAIN t = 1..(n - 1) /\ DOMAIN s = 1..n /\ s[n] = x
      /\ \A i \in 1..(n - 1) : t[i] = s[i]
  BY DEF Shortened
<1>1. n \in 1..n /\ \A i \in 1..(n - 1) : i \in 1..n /\ i # n
  BY <1>0
<1>2. \A i \in 1..n : i = n \/ i \in 1..(n - 1)
  OBVIOUS
<1>3. \A i \in 1..(n - 1) : s[i] # x
  BY <1>0, <1>1 DEF Once
<1> QED  BY <1>0, <1>1, <1>2, <1>3 DEF Once, Listed, Redis!Listed

\* RPOP takes an id that is in the list, and leaves all the others.
LEMMA Popped ==
    ASSUME NEW A, NEW s \in Seq(A), Once(s), NEW t, NEW x, Rpop(s, t, x)
    PROVE  /\ x \in A /\ Listed(s, x) /\ t \in Seq(A) /\ Once(t)
           /\ \A y : Listed(t, y) <=> Listed(s, y) /\ y # x
<1>1. PICK n \in Nat : n = Len(s)
  OBVIOUS
<1>2. t \in Seq(A) /\ Shortened(s, t, x, n) /\ x \in A
  BY <1>1 DEF Shortened, Rpop
<1> QED  BY <1>2, PoppedMembers

\* What lrem does to a list that has no id twice.
LEMMA Removed ==
    ASSUME NEW A, NEW s \in Seq(A), Once(s), NEW x, NEW t, t = Redis!Lrem(s, x)
    PROVE  t \in Seq(A) /\ Once(t) /\ \A y : Listed(t, y) <=> Listed(s, y) /\ y # x
<1>1. PICK n \in Nat : n = Len(s)
  OBVIOUS
<1>2. DOMAIN s = 1..n
  BY <1>1
<1>3. CASE ~ Listed(s, x)
  <2>1. t = s
    BY <1>3 DEF Redis!Lrem, Listed, Redis!Listed
  <2> QED  BY <1>3, <2>1
<1>4. CASE Listed(s, x)
  <2>1. PICK f \in 1..n : s[f] = x
    BY <1>2, <1>4 DEF Listed, Redis!Listed
  <2>2. \A i \in 1..n : s[i] = x <=> i = f
    BY <1>2, <2>1 DEF Once
  <2>3. t = [i \in 1..(n - 1) |-> IF i < f THEN s[i] ELSE s[i + 1]]
    <3>1. {i \in DOMAIN s : s[i] = x} = {f}
      BY <1>2, <2>2
    <3>2. (CHOOSE i \in {f} : \A k \in {f} : i <= k) = f
      BY <2>1
    <3> QED  BY <1>1, <3>1, <3>2 DEF Redis!Lrem
  <2>4. \A i \in 1..(n - 1) : i \in 1..n /\ i + 1 \in 1..n
    OBVIOUS
  <2>5. t \in [1..(n - 1) -> A]
    BY <1>2, <2>3, <2>4
  <2>6. t \in Seq(A) /\ DOMAIN t = 1..(n - 1)
    BY <2>1, <2>5
  <2>7. ASSUME NEW i \in 1..(n - 1), NEW k \in 1..(n - 1), t[i] = t[k] PROVE i = k
    <3> DEFINE at(j) == IF j < f THEN j ELSE j + 1
    <3>1. t[i] = s[at(i)] /\ t[k] = s[at(k)]
      BY <2>3
    <3>2. at(i) \in 1..n /\ at(k) \in 1..n
      BY <2>4
    <3>3. at(i) = at(k)
      BY <1>2, <2>7, <3>1, <3>2 DEF Once
    <3> QED  BY <2>1, <3>3
  <2>8. ASSUME NEW y PROVE (\E i \in 1..(n - 1) : t[i] = y) <=> (\E i \in 1..n : s[i] = y) /\ y # x
    <3>1. ASSUME NEW i \in 1..(n - 1), t[i] = y PROVE (\E k \in 1..n : s[k] = y) /\ y # x
      <4>1. CASE i < f
        BY <2>2, <2>3, <2>4, <3>1, <4>1
      <4>2. CASE ~(i < f)
        <5>1. i + 1 # f /\ i + 1 \in 1..n /\ s[i + 1] = y
          BY <2>1, <2>3, <2>4, <3>1, <4>2
        <5> QED  BY <2>2, <5>1
      <4> QED  BY <4>1, <4>2
    <3>2. ASSUME NEW i \in 1..n, s[i] = y, y # x PROVE \E k \in 1..(n - 1) : t[k] = y
      <4>1. i # f
        BY <2>2, <3>2
      <4>2. CASE i < f
        <5>1. i \in 1..(n - 1)
          BY <2>1, <4>2
        <5> QED  BY <2>3, <3>2, <4>2, <5>1
      <4>3. CASE i > f
        <5>1. i - 1 \in 1..(n - 1) /\ ~(i - 1 < f) /\ (i - 1) + 1 = i
          BY <2>1, <4>3
        <5> QED  BY <2>3, <3>2, <5>1
      <4> QED  BY <2>1, <4>1, <4>2, <4>3
    <3> QED  BY <3>1, <3>2
  <2> QED  BY <1>2, <2>6, <2>7, <2>8 DEF Once, Listed, Redis!Listed
<1> QED  BY <1>3, <1>4

SubmissionPc ==
    {"new", "inserted", "accepted", "undo_queue", "undo_processing", "undo_row", "undo_row_dirty",
     "rolled_back", "aborting", "dropped"}

TaskPc == {"idle", "get", "mark", "execute", "complete", "fail", "remove", "remove_failed"}

RedisShape ==
    /\ submission \in [JobIds -> SubmissionPc]
    /\ row \in [JobIds -> Redis!JobStatus \union {Absent}]
    /\ queue \in Seq(JobIds) /\ Once(queue)
    /\ processing \in Seq(JobIds) /\ Once(processing)
    /\ held \in [Pollers -> JobIds \union {Absent}]
    /\ task \in [Tasks -> [pc : TaskPc, job : JobIds \union {Absent}]]
    /\ \A t \in Tasks : task[t].pc = "idle" <=> task[t].job = Absent
    /\ canceller \in [JobIds -> Redis!JobStatus \union {Absent}]
    /\ faults \in Nat

\* An id is in one of the lists, and at one worker or task once it left the queue.
OneHolder ==
    /\ \A j \in JobIds : Listed(queue, j) => /\ ~ Listed(processing, j)
                                             /\ \A w \in Pollers : held[w] # j
                                             /\ \A t \in Tasks : task[t].job # j
    /\ \A w, x \in Pollers : held[w] = held[x] /\ held[w] # Absent => w = x
    /\ \A t, u \in Tasks : task[t].job = task[u].job /\ task[t].job # Absent => t = u
    /\ \A w \in Pollers, t \in Tasks : held[w] = task[t].job => held[w] = Absent

\* Nobody knows of a job before its id was pushed; undoing a submission takes
\* its id out of one list after the other, and the row last.
UndoneInOrder ==
    \A j \in JobIds :
        /\ submission[j] \in {"new", "inserted"} =>
              /\ ~ Listed(queue, j) /\ ~ Listed(processing, j)
              /\ \A w \in Pollers : held[w] # j
              /\ \A t \in Tasks : task[t].job # j
        /\ submission[j] = "undo_processing" => ~ Listed(queue, j)
        /\ submission[j] \in {"undo_row", "rolled_back"} => ~ Listed(queue, j) /\ ~ Listed(processing, j)
        /\ submission[j] \in {"new", "rolled_back"} => row[j] = Absent

\* A task that has marked its job leaves no QUEUED row, and it reports a
\* result only if there was one.
RowsTold ==
    /\ \A t \in Tasks :
          /\ faults = 0 /\ task[t].pc \in {"execute", "complete", "fail", "remove", "remove_failed"}
                => row[task[t].job] # "QUEUED"
          /\ task[t].pc = "complete" => task[t].job \in executed
    /\ \A j \in JobIds : row[j] = "COMPLETED" => j \in executed
    /\ faults = 0 => \A j \in JobIds : submission[j] = "accepted" /\ row[j] = "QUEUED" =>
          Listed(queue, j) \/ Listed(processing, j)

RedisInv == RedisShape /\ OneHolder /\ UndoneInOrder /\ RowsTold

\* The calls of a submission.
LEMMA SubmitKeeps ==
    ASSUME RedisConstants, RedisInv, NEW j \in JobIds, Redis!Submit(j) \/ Redis!DropSubmit(j)
    PROVE  RedisInv'
<1>0. /\ queue \in Seq(JobIds) /\ Once(queue) /\ processing \in Seq(JobIds) /\ Once(processing)
  BY DEF RedisInv, RedisShape
<1>1. PICK pc \in SubmissionPc : submission' = [submission EXCEPT ![j] = pc]
  BY DEF Redis!Submit, Redis!DropSubmit, Redis!InsertRow, Redis!PushId, Redis!UndoQueue,
     Redis!UndoProcessing, Redis!UndoRow, Redis!Submitted, SubmissionPc
<1>2. /\ submission' \in [JobIds -> SubmissionPc] /\ submission'[j] = pc
      /\ \A k \in JobIds : k # j => submission'[k] = submission[k]
  BY <1>1 DEF RedisInv, RedisShape
<1>3. UNCHANGED <<held, task, canceller, faults, executed>>
  BY DEF Redis!Submit, Redis!DropSubmit, Redis!InsertRow, Redis!PushId, Redis!UndoQueue,
     Redis!UndoProcessing, Redis!UndoRow, Redis!workers
<1>4. CASE Redis!InsertRow(j)
  <2>1. /\ submission[j] = "new" /\ UNCHANGED <<queue, processing>> /\ pc \in {"inserted", "undo_row"}
        /\ row' = row \/ row' = [row EXCEPT ![j] = "QUEUED"]
    BY <1>1, <1>2, <1>4 DEF Redis!InsertRow, Redis!Submitted, RedisInv, RedisShape
  <2>2. /\ row' \in [JobIds -> Redis!JobStatus \union {Absent}]
        /\ \A k \in JobIds : k # j => row'[k] = row[k]
        /\ row'[j] # "COMPLETED"
    BY <2>1 DEF RedisInv, RedisShape, Redis!JobStatus, RedisConstants, UndoneInOrder
  <2>3. RedisShape' /\ OneHolder'
    BY <1>2, <1>3, <2>1, <2>2 DEF RedisInv, RedisShape, OneHolder
  <2>4. UndoneInOrder'
    BY <1>2, <1>3, <2>1, <2>2 DEF RedisInv, UndoneInOrder
  <2>5. RowsTold'
    BY <1>2, <1>3, <2>1, <2>2 DEF RedisInv, RedisShape, UndoneInOrder, RowsTold
  <2> QED  BY <2>3, <2>4, <2>5 DEF RedisInv
<1>5. CASE Redis!PushId(j)
  <2>1. /\ submission[j] = "inserted" /\ UNCHANGED <<row, processing>>
        /\ \/ queue' = <<j>> \o queue /\ pc \in {"accepted", "undo_queue"}
           \/ queue' = queue /\ pc = "undo_queue"
    BY <1>1, <1>2, <1>5 DEF Redis!PushId, Redis!Submitted, RedisInv, RedisShape
  <2>2. ~ Listed(queue, j)
    BY <2>1 DEF RedisInv, UndoneInOrder
  <2>3. /\ queue' \in Seq(JobIds) /\ Once(queue')
        /\ \A k : Listed(queue', k) => Listed(queue, k) \/ k = j
        /\ \A k : Listed(queue, k) => Listed(queue', k)
        /\ pc = "accepted" => Listed(queue', j)
    BY <1>0, <2>1, <2>2, Pushed DEF Lpush
  <2>4. RedisShape'
    BY <1>2, <1>3, <2>1, <2>3 DEF RedisInv, RedisShape
  <2>5. OneHolder' /\ UndoneInOrder'
    BY <1>2, <1>3, <2>1, <2>3 DEF RedisInv, UndoneInOrder, OneHolder
  <2>6. RowsTold'
    BY <1>2, <1>3, <2>1, <2>3 DEF RedisInv, RowsTold
  <2> QED  BY <2>4, <2>5, <2>6 DEF RedisInv
<1>6. CASE Redis!UndoQueue(j)
  <2>1. /\ submission[j] = "undo_queue" /\ UNCHANGED <<row, processing>>
        /\ \/ queue' = Redis!Lrem(queue, j) /\ pc \in {"undo_processing", "undo_row_dirty"}
           \/ queue' = queue /\ pc = "undo_row_dirty"
    BY <1>1, <1>2, <1>6 DEF Redis!UndoQueue, Redis!Submitted, RedisInv, RedisShape
  <2>2. /\ queue' \in Seq(JobIds) /\ Once(queue')
        /\ \A k : Listed(queue', k) => Listed(queue, k)
        /\ \A k : Listed(queue, k) /\ k # j => Listed(queue', k)
        /\ pc = "undo_processing" => ~ Listed(queue', j)
    BY <1>0, <2>1, Removed
  <2>3. RedisShape'
    BY <1>2, <1>3, <2>1, <2>2 DEF RedisInv, RedisShape
  <2>4. OneHolder' /\ UndoneInOrder'
    BY <1>2, <1>3, <2>1, <2>2 DEF RedisInv, UndoneInOrder, OneHolder
  <2>5. RowsTold'
    BY <1>2, <1>3, <2>1, <2>2 DEF RedisInv, RowsTold
  <2> QED  BY <2>3, <2>4, <2>5 DEF RedisInv
<1>7. CASE Redis!UndoProcessing(j)
  <2>1. /\ submission[j] = "undo_processing" /\ UNCHANGED <<row, queue>>
        /\ \/ processing' = Redis!Lrem(processing, j) /\ pc \in {"undo_row", "undo_row_dirty"}
           \/ processing' = processing /\ pc = "undo_row_dirty"
    BY <1>1, <1>2, <1>7 DEF Redis!UndoProcessing, Redis!Submitted, RedisInv, RedisShape
  <2>2. /\ processing' \in Seq(JobIds) /\ Once(processing')
        /\ \A k : Listed(processing', k) => Listed(processing, k)
        /\ \A k : Listed(processing, k) /\ k # j => Listed(processing', k)
        /\ pc = "undo_row" => ~ Listed(processing', j)
    BY <1>0, <2>1, Removed
  <2>3. RedisShape'
    BY <1>2, <1>3, <2>1, <2>2 DEF RedisInv, RedisShape
  <2>4. OneHolder' /\ UndoneInOrder'
    BY <1>2, <1>3, <2>1, <2>2 DEF RedisInv, UndoneInOrder, OneHolder
  <2>5. RowsTold'
    BY <1>2, <1>3, <2>1, <2>2 DEF RedisInv, RowsTold
  <2> QED  BY <2>3, <2>4, <2>5 DEF RedisInv
<1>8. CASE Redis!UndoRow(j)
  <2>1. /\ submission[j] \in {"undo_row", "undo_row_dirty"} /\ UNCHANGED <<queue, processing>>
        /\ \/ row' = [row EXCEPT ![j] = Absent] /\ pc \in {"rolled_back", "aborting"}
           \/ row' = row /\ pc = "aborting"
        /\ pc = "rolled_back" => submission[j] = "undo_row"
    BY <1>1, <1>2, <1>8 DEF Redis!UndoRow, Redis!Submitted, RedisInv, RedisShape
  <2>2. /\ row' \in [JobIds -> Redis!JobStatus \union {Absent}]
        /\ \A k \in JobIds : row'[k] = row[k] \/ row'[k] = Absent
        /\ pc = "rolled_back" => row'[j] = Absent
    BY <2>1 DEF RedisInv, RedisShape
  <2>3. RedisShape' /\ OneHolder'
    BY <1>2, <1>3, <2>1, <2>2 DEF RedisInv, RedisShape, OneHolder
  <2>4. UndoneInOrder'
    BY <1>2, <1>3, <2>1, <2>2 DEF RedisInv, UndoneInOrder
  <2>5. RowsTold'
    BY <1>2, <1>3, <2>1, <2>2 DEF RedisInv, RedisShape, RowsTold, RedisConstants, Redis!JobStatus
  <2> QED  BY <2>3, <2>4, <2>5 DEF RedisInv
<1>9. CASE Redis!DropSubmit(j)
  <2>1. UNCHANGED <<queue, processing, row>> /\ pc = "dropped"
    BY <1>1, <1>2, <1>9 DEF Redis!DropSubmit, Redis!Submitted, Redis!store, RedisInv, RedisShape
  <2>2. RedisShape' /\ OneHolder'
    BY <1>2, <1>3, <2>1 DEF RedisInv, RedisShape, OneHolder
  <2>3. UndoneInOrder' /\ RowsTold'
    BY <1>2, <1>3, <2>1 DEF RedisInv, UndoneInOrder, RowsTold
  <2> QED  BY <2>2, <2>3 DEF RedisInv
<1> QED  BY <1>4, <1>5, <1>6, <1>7, <1>8, <1>9 DEF Redis!Submit

\* A worker takes an id from the queue and hands it to a task.
LEMMA WorkerKeeps ==
    ASSUME RedisConstants, RedisInv, NEW w \in Pollers, Redis!WorkerStep(w)
    PROVE  RedisInv'
<1>0. /\ queue \in Seq(JobIds) /\ Once(queue) /\ processing \in Seq(JobIds) /\ Once(processing)
  BY DEF RedisInv, RedisShape
<1>1. CASE Redis!Pop(w)
  <2>1. PICK j : j = queue[Len(queue)]
    OBVIOUS
  <2>2. /\ held[w] = Absent /\ queue # << >> /\ held' = [held EXCEPT ![w] = j]
        /\ processing' = <<j>> \o processing /\ queue' = SubSeq(queue, 1, Len(queue) - 1)
        /\ UNCHANGED <<submission, row, task, canceller, faults, executed>>
    BY <1>1, <2>1 DEF Redis!Pop
  <2>3. /\ j \in JobIds /\ Listed(queue, j) /\ queue' \in Seq(JobIds) /\ Once(queue')
        /\ \A y : Listed(queue', y) <=> Listed(queue, y) /\ y # j
    <3>1. Rpop(queue, queue', j)
      BY <2>1, <2>2 DEF Rpop
    <3> QED  BY <1>0, <3>1, Popped
  <2>4. ~ Listed(processing, j)
    BY <2>3 DEF RedisInv, OneHolder
  <2>5. /\ processing' \in Seq(JobIds) /\ Once(processing')
        /\ \A y : Listed(processing', y) <=> Listed(processing, y) \/ y = j
    <3>1. Lpush(processing, processing', j)
      BY <2>2 DEF Lpush
    <3> QED  BY <1>0, <2>3, <2>4, <3>1, Pushed
  <2>6. /\ held' \in [Pollers -> JobIds \union {Absent}] /\ held'[w] = j
        /\ \A x \in Pollers : x # w => held'[x] = held[x]
    BY <2>2, <2>3 DEF RedisInv, RedisShape
  <2>7. RedisShape'
    BY <2>2, <2>3, <2>5, <2>6 DEF RedisInv, RedisShape
  <2>8. OneHolder'
    BY <2>2, <2>3, <2>5, <2>6 DEF RedisInv, OneHolder
  <2>9. UndoneInOrder'
    BY <2>2, <2>3, <2>5, <2>6 DEF RedisInv, UndoneInOrder
  <2>10. RowsTold'
    BY <2>2, <2>3, <2>5 DEF RedisInv, RowsTold
  <2> QED  BY <2>7, <2>8, <2>9, <2>10 DEF RedisInv
<1>2. ASSUME NEW t \in Tasks, Redis!Spawn(w, t) PROVE RedisInv'
  <2>1. PICK j : j = held[w]
    OBVIOUS
  <2> DEFINE m == [pc |-> "get", job |-> j]
  <2>2. /\ j # Absent /\ task[t].pc = "idle" /\ task' = [task EXCEPT ![t] = m]
        /\ held' = [held EXCEPT ![w] = Absent]
        /\ UNCHANGED <<submission, row, queue, processing, canceller, faults, executed>>
    BY <1>2, <2>1 DEF Redis!Spawn, Redis!store, Redis!Idle
  <2>3. /\ j \in JobIds /\ m \in [pc : TaskPc, job : JobIds \union {Absent}] /\ m.job = j /\ m.pc = "get"
    BY <2>1, <2>2 DEF RedisInv, RedisShape, TaskPc
  <2> HIDE DEF m
  <2>4. /\ task' \in [Tasks -> [pc : TaskPc, job : JobIds \union {Absent}]] /\ task'[t] = m
        /\ \A u \in Tasks : u # t => task'[u] = task[u]
        /\ held' \in [Pollers -> JobIds \union {Absent}] /\ held'[w] = Absent
        /\ \A x \in Pollers : x # w => held'[x] = held[x]
    BY <2>2, <2>3 DEF RedisInv, RedisShape
  <2>5. RedisShape'
    BY <2>2, <2>3, <2>4 DEF RedisInv, RedisShape, RedisConstants
  <2>6. OneHolder'
    BY <2>1, <2>2, <2>3, <2>4 DEF RedisInv, OneHolder, RedisConstants
  <2>7. UndoneInOrder'
    BY <2>1, <2>2, <2>3, <2>4 DEF RedisInv, UndoneInOrder, RedisConstants
  <2>8. RowsTold'
    BY <2>2, <2>3, <2>4 DEF RedisInv, RowsTold
  <2> QED  BY <2>5, <2>6, <2>7, <2>8 DEF RedisInv
<1> QED  BY <1>1, <1>2 DEF Redis!WorkerStep

\* From r to s, the row of j alone changes, if it is there, to what a task writes.
Rewritten(r, s, j) ==
    /\ s \in [JobIds -> Redis!JobStatus \union {Absent}]
    /\ \A k \in JobIds : \/ s[k] = r[k]
                         \/ k = j /\ r[k] # Absent /\ s[k] \in {"PROCESSING", "COMPLETED", "FAILED"}

\* Moving on within process_job: the task keeps its job, the row gets a status
\* that is not QUEUED or stays as it is.
LEMMA TaskMoves ==
    ASSUME RedisConstants, RedisInv, NEW t \in Tasks, task[t].pc # "idle",
           NEW pc \in TaskPc \ {"idle"}, task' = [task EXCEPT ![t].pc = pc],
           NEW j, j = task[t].job, Rewritten(row, row', j),
           row'[j] = "COMPLETED" => j \in executed \/ row[j] = "COMPLETED",
           executed \subseteq executed', pc = "complete" => j \in executed',
           faults' \in {faults, faults + 1},
           faults' = 0 /\ pc \in {"execute", "complete", "fail", "remove", "remove_failed"}
               => row'[j] # "QUEUED",
           UNCHANGED <<submission, queue, processing, held, canceller>>
    PROVE  RedisInv'
<1>1. /\ task[t] \in [pc : TaskPc, job : JobIds \union {Absent}] /\ j \in JobIds
      /\ task'[t] = [task[t] EXCEPT !.pc = pc]
      /\ \A u \in Tasks : u # t => task'[u] = task[u]
  BY DEF RedisInv, RedisShape
<1>2. /\ task'[t] \in [pc : TaskPc, job : JobIds \union {Absent}] /\ task'[t].pc = pc /\ task'[t].job = j
  BY <1>1
<1>3. /\ task' \in [Tasks -> [pc : TaskPc, job : JobIds \union {Absent}]]
      /\ \A u \in Tasks : task'[u].job = task[u].job
  BY <1>1, <1>2 DEF RedisInv, RedisShape
<1>4. RedisShape'
  BY <1>1, <1>2, <1>3 DEF RedisInv, RedisShape, RedisConstants, Rewritten
<1>5. OneHolder'
  BY <1>3 DEF RedisInv, OneHolder
<1>6. UndoneInOrder'
  BY <1>3 DEF RedisInv, UndoneInOrder, Rewritten
<1>7. faults \in Nat /\ (faults' = 0 => faults = 0)
  BY DEF RedisInv, RedisShape
<1>8. ASSUME NEW u \in Tasks
      PROVE  /\ faults' = 0 /\ task'[u].pc \in {"execute", "complete", "fail", "remove", "remove_failed"}
                   => row'[task'[u].job] # "QUEUED"
             /\ task'[u].pc = "complete" => task'[u].job \in executed'
  <2>1. CASE u = t
    BY <1>2, <2>1
  <2>2. CASE u # t
    <3>1. task'[u] = task[u] /\ (task[u].pc = "idle" \/ task[u].job \in JobIds)
      BY <1>1, <2>2 DEF RedisInv, RedisShape
    <3> QED  BY <1>7, <3>1 DEF RedisInv, RowsTold, Rewritten
  <2> QED  BY <2>1, <2>2
<1>9. \A k \in JobIds : row'[k] = "COMPLETED" => k \in executed'
  BY <1>1 DEF RedisInv, RowsTold, Rewritten
<1>10. faults' = 0 => \A k \in JobIds : submission'[k] = "accepted" /\ row'[k] = "QUEUED" =>
          Listed(queue, k)' \/ Listed(processing, k)'
  BY <1>7 DEF RedisInv, RowsTold, Listed, Rewritten
<1>11. RowsTold'
  BY <1>8, <1>9, <1>10 DEF RowsTold
<1> QED  BY <1>4, <1>5, <1>6, <1>11 DEF RedisInv

\* The steps of a task.
LEMMA TaskKeeps ==
    ASSUME RedisConstants, RedisInv, NEW t \in Tasks, Redis!TaskStep(t) \/ Redis!DbError(t)
    PROVE  RedisInv'
<1>0. PICK j : j = task[t].job
  OBVIOUS
<1>1. /\ task[t] \in [pc : TaskPc, job : JobIds \union {Absent}]
      /\ row \in [JobIds -> Redis!JobStatus \union {Absent}]
      /\ task[t].pc # "idle" => j \in JobIds
      /\ faults \in Nat /\ (row' = row => Rewritten(row, row', j))
  BY <1>0 DEF RedisInv, RedisShape, Rewritten
<1>2. CASE Redis!DbError(t)
  <2>1. /\ task[t].pc \in {"get", "mark", "complete", "fail"} /\ faults' = faults + 1
        /\ task' = [task EXCEPT ![t].pc = "remove"]
        /\ UNCHANGED <<submission, row, queue, processing, held, canceller, executed>>
    BY <1>2 DEF Redis!DbError, Redis!Goto, Redis!store
  <2>2. "remove" \in TaskPc \ {"idle"} /\ faults' # 0
    BY <1>1, <2>1 DEF TaskPc
  <2> QED  BY <1>0, <1>1, <2>1, <2>2, TaskMoves
<1>3. CASE Redis!GetJob(t)
  <2>1. PICK pc \in {"mark", "remove"} :
           /\ task[t].pc = "get" /\ task' = [task EXCEPT ![t].pc = pc]
           /\ pc = "remove" => row[j] = Absent
           /\ UNCHANGED <<submission, row, queue, processing, held, canceller, faults, executed>>
    BY <1>0, <1>3 DEF Redis!GetJob, Redis!Goto, Redis!store
  <2>2. pc \in TaskPc \ {"idle"} /\ (pc = "remove" => row[j] # "QUEUED")
    BY <2>1 DEF TaskPc, RedisConstants, Redis!JobStatus
  <2> QED  BY <1>0, <1>1, <2>1, <2>2, TaskMoves
<1>4. CASE Redis!MarkProcessing(t)
  <2>1. /\ task[t].pc = "mark" /\ task' = [task EXCEPT ![t].pc = "execute"]
        /\ row' = IF row[j] = Absent THEN row ELSE [row EXCEPT ![j] = "PROCESSING"]
        /\ UNCHANGED <<submission, queue, processing, held, canceller, faults, executed>>
    BY <1>0, <1>4 DEF Redis!MarkProcessing, Redis!Goto, Redis!Update
  <2>2. "execute" \in TaskPc \ {"idle"}
    BY DEF TaskPc
  <2>3. /\ Rewritten(row, row', j)
        /\ row'[j] # "QUEUED" /\ (row'[j] = "COMPLETED" => row[j] = "COMPLETED")
    BY <1>1, <2>1 DEF Rewritten, Redis!JobStatus, RedisConstants
  <2>4. /\ task[t].pc # "idle" /\ task' = [task EXCEPT ![t].pc = "execute"]
        /\ UNCHANGED <<submission, queue, processing, held, canceller, faults, executed>>
    BY <2>1
  <2> QED  BY <1>0, <2>2, <2>3, <2>4, TaskMoves
<1>5. CASE Redis!Execute(t)
  <2>1. PICK pc \in {"complete", "fail"} :
           /\ task[t].pc = "execute" /\ task' = [task EXCEPT ![t].pc = pc]
           /\ executed \subseteq executed' /\ (pc = "complete" => j \in executed')
           /\ UNCHANGED <<submission, row, queue, processing, held, canceller, faults>>
    BY <1>0, <1>5 DEF Redis!Execute, Redis!Goto, Redis!store
  <2>2. pc \in TaskPc \ {"idle"}
    BY DEF TaskPc
  <2>3. faults = 0 => row[j] # "QUEUED"
    BY <1>0, <2>1 DEF RedisInv, RowsTold
  <2> QED  BY <1>0, <1>1, <2>1, <2>2, <2>3, TaskMoves
<1>6. CASE Redis!Report(t)
  <2>1. PICK pc \in {"remove", "remove_failed"}, status \in {"COMPLETED", "FAILED"} :
           /\ task[t].pc \in {"complete", "fail"} /\ task' = [task EXCEPT ![t].pc = pc]
           /\ status = "COMPLETED" => task[t].pc = "complete"
           /\ row' = IF row[j] = Absent THEN row ELSE [row EXCEPT ![j] = status]
           /\ UNCHANGED <<submission, queue, processing, held, canceller, faults, executed>>
    BY <1>0, <1>6 DEF Redis!Report, Redis!Reported, Redis!Goto, Redis!Update
  <2>2. pc \in TaskPc \ {"idle"}
    BY DEF TaskPc
  <2>3. /\ Rewritten(row, row', j)
        /\ row'[j] # "QUEUED" /\ (row'[j] = "COMPLETED" => status = "COMPLETED" \/ row[j] = "COMPLETED")
    BY <1>1, <2>1 DEF Rewritten, Redis!JobStatus, RedisConstants
  <2>4. status = "COMPLETED" => j \in executed
    BY <1>0, <2>1 DEF RedisInv, RowsTold
  <2> QED  BY <1>0, <1>1, <2>1, <2>2, <2>3, <2>4, TaskMoves
<1>7. CASE Redis!Unlist(t)
  <2> DEFINE m == Redis!Idle
  <2>1. /\ task[t].pc \in {"remove", "remove_failed"} /\ processing' = Redis!Lrem(processing, j)
        /\ task' = [task EXCEPT ![t] = m]
        /\ UNCHANGED <<submission, row, queue, held, canceller, faults, executed>>
    BY <1>0, <1>7 DEF Redis!Unlist
  <2>2. m \in [pc : TaskPc, job : JobIds \union {Absent}] /\ m.job = Absent /\ m.pc = "idle"
    BY DEF Redis!Idle, TaskPc
  <2> HIDE DEF m
  <2>3. /\ processing' \in Seq(JobIds) /\ Once(processing')
        /\ \A y : Listed(processing', y) <=> Listed(processing, y) /\ y # j
    <3>1. processing \in Seq(JobIds) /\ Once(processing)
      BY DEF RedisInv, RedisShape
    <3> QED  BY <2>1, <3>1, Removed
  <2>4. /\ task' \in [Tasks -> [pc : TaskPc, job : JobIds \union {Absent}]] /\ task'[t] = m
        /\ \A u \in Tasks : u # t => task'[u] = task[u]
    BY <2>1, <2>2 DEF RedisInv, RedisShape
  <2>5. RedisShape'
    BY <2>1, <2>2, <2>3, <2>4 DEF RedisInv, RedisShape
  <2>6. OneHolder'
    BY <2>1, <2>2, <2>3, <2>4 DEF RedisInv, OneHolder, RedisConstants
  <2>7. UndoneInOrder'
    BY <2>1, <2>2, <2>3, <2>4 DEF RedisInv, UndoneInOrder, RedisConstants
  <2>8. faults = 0 => row[j] # "QUEUED"
    BY <1>0, <2>1 DEF RedisInv, RowsTold
  <2>9. RowsTold'
    BY <2>1, <2>2, <2>3, <2>4, <2>8 DEF RedisInv, RowsTold
  <2> QED  BY <2>5, <2>6, <2>7, <2>9 DEF RedisInv
<1> QED  BY <1>2, <1>3, <1>4, <1>5, <1>6, <1>7 DEF Redis!TaskStep

\* Cancelling and deleting rows, and a stop of the process.
LEMMA RowChangesKeep ==
    ASSUME RedisConstants, RedisInv, NEW j \in JobIds,
           Redis!CancelRead(j) \/ Redis!CancelWrite(j) \/ Redis!Cleanup(j)
    PROVE  RedisInv'
<1>1. /\ UNCHANGED <<submission, queue, processing, held, task, faults, executed>>
      /\ canceller' \in [JobIds -> Redis!JobStatus \union {Absent}]
      /\ row' \in [JobIds -> Redis!JobStatus \union {Absent}]
      /\ \A k \in JobIds : row'[k] = row[k] \/ row'[k] = Absent \/ (row[k] # Absent /\ row'[k] = "CANCELLED")
  <2>1. canceller \in [JobIds -> Redis!JobStatus \union {Absent}] /\ row \in [JobIds -> Redis!JobStatus \union {Absent}]
    BY DEF RedisInv, RedisShape
  <2>2. CASE Redis!CancelRead(j)
    BY <2>1, <2>2 DEF Redis!CancelRead, Redis!store, Redis!workers
  <2>3. CASE Redis!CancelWrite(j)
    BY <2>1, <2>3 DEF Redis!CancelWrite, Redis!Update, Redis!workers, Redis!JobStatus
  <2>4. CASE Redis!Cleanup(j)
    BY <2>1, <2>4 DEF Redis!Cleanup, Redis!workers
  <2> QED  BY <2>2, <2>3, <2>4
<1>2. \A k \in JobIds : row'[k] \in {"QUEUED", "COMPLETED"} => row'[k] = row[k]
  BY <1>1 DEF RedisConstants, Redis!JobStatus
<1>3. RedisShape' /\ OneHolder'
  BY <1>1 DEF RedisInv, RedisShape, OneHolder
<1>4. UndoneInOrder'
  BY <1>1 DEF RedisInv, UndoneInOrder
<1>5. \A t \in Tasks : task[t].pc = "idle" \/ task[t].job \in JobIds
  BY DEF RedisInv, RedisShape
<1>6. RowsTold'
  BY <1>1, <1>2, <1>5 DEF RedisInv, RowsTold
<1> QED  BY <1>3, <1>4, <1>6 DEF RedisInv

\* When the process stops, what it held in memory is gone and Redis is as it was.
LEMMA StopKeeps ==
    ASSUME RedisConstants, RedisInv, Redis!Stop
    PROVE  RedisInv'
<1>1. /\ held' = [w \in Pollers |-> Absent] /\ task' = [t \in Tasks |-> Redis!Idle]
      /\ canceller' = [j \in JobIds |-> Absent]
      /\ submission' = [j \in JobIds |-> IF submission[j] \in Redis!Submitting THEN "dropped"
                                         ELSE submission[j]]
      /\ UNCHANGED <<row, queue, processing, faults, executed>>
  BY DEF Redis!Stop, Redis!store
<1>2. Redis!Idle \in [pc : TaskPc, job : JobIds \union {Absent}] /\ Redis!Idle.job = Absent /\ Redis!Idle.pc = "idle"
  BY DEF Redis!Idle, TaskPc
<1>3. /\ submission' \in [JobIds -> SubmissionPc]
      /\ \A j \in JobIds : submission'[j] = submission[j] \/ submission'[j] = "dropped"
  BY <1>1 DEF RedisInv, RedisShape, SubmissionPc
<1>4. RedisShape'
  BY <1>1, <1>2, <1>3 DEF RedisInv, RedisShape
<1>5. OneHolder'
  BY <1>1, <1>2 DEF RedisInv, OneHolder, RedisConstants
<1>6. UndoneInOrder'
  BY <1>1, <1>2, <1>3 DEF RedisInv, UndoneInOrder, RedisConstants
<1>7. RowsTold'
  BY <1>1, <1>2, <1>3 DEF RedisInv, RowsTold
<1> QED  BY <1>4, <1>5, <1>6, <1>7 DEF RedisInv

\* Every step of the queue in Redis keeps the invariant.
LEMMA RedisStep ==
    ASSUME RedisConstants, RedisInv, [Redis!Next]_(Redis!vars)
    PROVE  RedisInv'
<1>1. ASSUME NEW j \in JobIds, Redis!Submit(j) \/ Redis!DropSubmit(j) PROVE RedisInv'
  BY <1>1, SubmitKeeps
<1>2. ASSUME NEW j \in JobIds, Redis!CancelRead(j) \/ Redis!CancelWrite(j) \/ Redis!Cleanup(j)
      PROVE  RedisInv'
  BY <1>2, RowChangesKeep
<1>3. ASSUME NEW w \in Pollers, Redis!WorkerStep(w) PROVE RedisInv'
  BY <1>3, WorkerKeeps
<1>4. ASSUME NEW t \in Tasks, Redis!TaskStep(t) \/ Redis!DbError(t) PROVE RedisInv'
  BY <1>4, TaskKeeps
<1>5. CASE Redis!Stop
  BY <1>5, StopKeeps
<1>6. CASE UNCHANGED Redis!vars
  BY <1>6 DEF Redis!vars, RedisInv, RedisShape, OneHolder, UndoneInOrder, RowsTold
<1> QED  BY <1>1, <1>2, <1>3, <1>4, <1>5, <1>6 DEF Redis!Next

\* Nothing is submitted yet and both lists are empty.
LEMMA RedisStart ==
    ASSUME RedisConstants, Redis!Init
    PROVE  RedisInv
<1>1. /\ submission = [j \in JobIds |-> "new"] /\ row = [j \in JobIds |-> Absent]
      /\ queue = << >> /\ processing = << >> /\ held = [w \in Pollers |-> Absent]
      /\ task = [t \in Tasks |-> Redis!Idle] /\ canceller = [j \in JobIds |-> Absent]
      /\ faults = 0 /\ executed = {}
  BY DEF Redis!Init
<1>2. Redis!Idle \in [pc : TaskPc, job : JobIds \union {Absent}] /\ Redis!Idle.job = Absent /\ Redis!Idle.pc = "idle"
  BY DEF Redis!Idle, TaskPc
<1>3. \A j : ~ Listed(<< >>, j)
  BY DEF Listed, Redis!Listed
<1>4. RedisShape
  BY <1>1, <1>2 DEF RedisShape, Once, SubmissionPc
<1>5. OneHolder /\ UndoneInOrder
  BY <1>1, <1>2, <1>3 DEF OneHolder, UndoneInOrder, RedisConstants
<1>6. RowsTold
  BY <1>1, <1>2 DEF RowsTold, RedisConstants, Redis!JobStatus
<1> QED  BY <1>4, <1>5, <1>6 DEF RedisInv

INSTANCE FiniteSetTheorems

\* A set in which all elements are equal has none or one.
LEMMA NoneOrOne ==
    ASSUME NEW S, \A x, y \in S : x = y
    PROVE  Cardinality(S) = IF S = {} THEN 0 ELSE 1
<1>1. CASE S = {}
  BY <1>1, FS_EmptySet, SMTT(30)
<1>2. CASE S # {}
  <2>1. PICK x \in S : TRUE
    BY <1>2
  <2>2. S = {x}
    BY <2>1, SMTT(30)
  <2> QED  BY <1>2, <2>2, FS_Singleton, SMTT(30)
<1> QED  BY <1>1, <1>2

\* Two such sets of which one is empty have one element at most.
LEMMA OneOfTwo ==
    ASSUME NEW S, NEW T, \A x, y \in S : x = y, \A x, y \in T : x = y, S = {} \/ T = {}
    PROVE  Redis!Cardinality(S) + Redis!Cardinality(T) <= 1
<1>1. Redis!Cardinality(S) = Cardinality(S) /\ Redis!Cardinality(T) = Cardinality(T)
  BY DEF Redis!Cardinality, Cardinality
<1>2. /\ Cardinality(S) = (IF S = {} THEN 0 ELSE 1)
      /\ Cardinality(T) = (IF T = {} THEN 0 ELSE 1)
  BY NoneOrOne
<1> QED  BY <1>1, <1>2

\* What the invariant says of each job.
LEMMA RedisPromise ==
    ASSUME RedisConstants, RedisInv
    PROVE  /\ Redis!OneTaskPerJob /\ Redis!CompletedWasRun
           /\ Redis!RolledBackGone /\ Redis!QueuedNotLost
<1>1. Redis!OneTaskPerJob
  <2> SUFFICES ASSUME NEW j \in JobIds
               PROVE  /\ Redis!Cardinality({t \in Tasks : task[t].job = j})
                           + Redis!Cardinality({w \in Pollers : held[w] = j}) <= 1
                      /\ Redis!Cardinality({i \in DOMAIN queue : queue[i] = j})
                           + Redis!Cardinality({i \in DOMAIN processing : processing[i] = j}) <= 1
    BY DEF Redis!OneTaskPerJob
  <2> DEFINE S == {t \in Tasks : task[t].job = j}
             T == {w \in Pollers : held[w] = j}
             Q == {i \in DOMAIN queue : queue[i] = j}
             P == {i \in DOMAIN processing : processing[i] = j}
  <2>0. j # Absent
    BY DEF RedisConstants
  <2>1. /\ \A x, y \in S : x = y
        /\ \A x, y \in T : x = y
        /\ S = {} \/ T = {}
    BY <2>0 DEF RedisInv, OneHolder
  <2>2. \A x, y \in Q : x = y
    BY DEF RedisInv, RedisShape, Once
  <2>3. \A x, y \in P : x = y
    BY DEF RedisInv, RedisShape, Once
  <2>4. Q = {} \/ P = {}
    BY DEF RedisInv, OneHolder, Listed, Redis!Listed
  <2> HIDE DEF S, T, Q, P
  <2>5. Redis!Cardinality(S) + Redis!Cardinality(T) <= 1
    BY <2>1, OneOfTwo
  <2>6. Redis!Cardinality(Q) + Redis!Cardinality(P) <= 1
    BY <2>2, <2>3, <2>4, OneOfTwo
  <2> QED  BY <2>5, <2>6 DEF S, T, Q, P
<1>2. Redis!CompletedWasRun
  BY DEF RedisInv, RowsTold, Redis!CompletedWasRun
<1>3. Redis!RolledBackGone
  BY DEF RedisInv, UndoneInOrder, Redis!RolledBackGone, Listed
<1>4. Redis!QueuedNotLost
  BY DEF RedisInv, RowsTold, Redis!QueuedNotLost, Listed
<1> QED  BY <1>1, <1>2, <1>3, <1>4

-----------------------------------------------------------------------------
(* The theorems *)

\* The queue keeps account of its tasks: no job is run by two of them, and only
\* a job that was run is completed.
TasksAccounted == Redis!OneTaskPerJob /\ Redis!CompletedWasRun

\* A submission is all or nothing: rolled back it left nothing behind, and
\* accepted it is in one of the lists.
SubmissionWhole == Redis!RolledBackGone /\ Redis!QueuedNotLost

\* The constants stay what they are.
LEMMA RedisConstantsStay == RedisConstants => RedisConstants'
  BY DEF RedisConstants, Redis!JobStatus

\* For any jobs, workers and permits, whatever is cancelled, fails or stops: a job
\* is with one task or worker at a time and in the two lists at most once, and no
\* row says COMPLETED whose job was not run.
THEOREM RedisTasksAccounted == RedisConstants /\ Redis!Spec => []TasksAccounted
<1>1. RedisConstants /\ RedisInv => TasksAccounted
  BY RedisPromise DEF TasksAccounted
<1>2. RedisConstants /\ RedisInv /\ [Redis!Next]_(Redis!vars) => RedisInv'
  BY RedisStep
<1>3. RedisConstants /\ Redis!Init => RedisInv
  BY RedisStart
<1> QED  BY <1>1, <1>2, <1>3, RedisConstantsStay, PTL DEF Redis!Spec

\* A submission is all or nothing, also when a worker takes the id while its
\* submission is undone, and when the process stops.
THEOREM RedisSubmissionWhole == RedisConstants /\ Redis!Spec => []SubmissionWhole
<1>1. RedisConstants /\ RedisInv => SubmissionWhole
  BY RedisPromise DEF SubmissionWhole
<1>2. RedisConstants /\ RedisInv /\ [Redis!Next]_(Redis!vars) => RedisInv'
  BY RedisStep
<1>3. RedisConstants /\ Redis!Init => RedisInv
  BY RedisStart
<1> QED  BY <1>1, <1>2, <1>3, RedisConstantsStay, PTL DEF Redis!Spec
=============================================================================
