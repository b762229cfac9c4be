--------------------------- MODULE DeliveryProofs ---------------------------
(***************************************************************************)
(* Proofs about the services that deliver messages: notifications and      *)
(* webhooks.  They share no state; each is instantiated with variables of  *)
(* its own.                                                                *)
(*                                                                         *)
(* Every part has the same shape: what the constants must satisfy, the     *)
(* inductive invariant, a lemma per operation, and the theorem.  Facts     *)
(* about counting are hypotheses until the last part, which proves them.   *)
(***************************************************************************)
EXTENDS Integers, Sequences, FiniteSets, TLAPS

-----------------------------------------------------------------------------
(* Notifications: notifications.rs *)

CONSTANTS User, Worker, NoticeAttempts, MaxMessages, NoticeTime

VARIABLES records, scheduled, outgoing, muted, worker, provider, nClock

Notices ==
    INSTANCE Notifications WITH queue <- outgoing, now <- nClock, max_attempts <- NoticeAttempts,
        MaxTime <- NoticeTime

Unrepeated(s) == \A i, j \in DOMAIN s : s[i] = s[j] => i = j

\* A set of the first numbers has a number of members.
NoticeCounts == \A n \in Nat : \A S \in SUBSET (1..n) : Cardinality(S) \in Nat

NoticeStatus ==
    {"Suppressed", "Scheduled", "Queued", "Sent", "Failed", "Delivered", "Bounced"}

NoticeRecord == [status : NoticeStatus, attempts : Nat]

WorkerAt == {"idle", "ready", "sending", "accepted", "refused", "unreachable", "requeue"}

NoticeShape ==
    /\ records \in Seq(NoticeRecord)
    /\ scheduled \subseteq Int \X (1..Len(records))
    /\ outgoing \in Seq(1..Len(records))
    /\ worker \in [Worker -> [at : WorkerAt, id : Nat]]
    /\ \A w \in Worker : IF worker[w].at \in {"idle", "ready"} THEN worker[w].id = 0
                         ELSE worker[w].id \in 1..Len(records)

\* No message is twice in the schedule, in the queue or in the hands of
\* workers, and none is in two of the three.
OnePlace ==
    /\ \A p, q \in scheduled : p[2] = q[2] => p = q
    /\ Unrepeated(outgoing)
    /\ \A w, x \in Worker : worker[w].id = worker[x].id /\ worker[w].id # 0 => w = x
    /\ \A p \in scheduled, i \in 1..Len(outgoing) : p[2] # outgoing[i]
    /\ \A p \in scheduled, w \in Worker : p[2] # worker[w].id
    /\ \A i \in 1..Len(outgoing), w \in Worker : outgoing[i] # worker[w].id

Somewhere(id) ==
    \/ \E p \in scheduled : p[2] = id
    \/ \E i \in 1..Len(outgoing) : outgoing[i] = id
    \/ \E w \in Worker : worker[w].id = id

StatusPlaced ==
    \A id \in 1..Len(records) :
        /\ records[id].status \in {"Scheduled", "Queued"} => Somewhere(id)
        /\ records[id].status \in {"Suppressed", "Failed"} => ~ Somewhere(id)

NoticeInv == NoticeShape /\ OnePlace /\ StatusPlaced

\* A request is recorded under a new id and put where its status says.
LEMMA SendKeeps ==
    ASSUME NoticeInv, NEW u, NEW b \in BOOLEAN, NEW at \in Nat, Notices!send(u, b, at)
    PROVE  NoticeInv'
<1>0. PICK n \in Nat : n = Len(records)
  BY DEF NoticeInv, NoticeShape
<1> DEFINE id == n + 1
<1>1. n \in Nat /\ records \in Seq(NoticeRecord) /\ Len(records) = n
  BY <1>0 DEF NoticeInv, NoticeShape
<1>2. PICK status \in {"Suppressed", "Scheduled", "Queued"} :
         /\ records' = Append(records, [status |-> status, attempts |-> 0])
         /\ scheduled' = IF status = "Scheduled" THEN scheduled \union {<<at, id>>} ELSE scheduled
         /\ outgoing' = IF status = "Queued" THEN Append(outgoing, id) ELSE outgoing
         /\ worker' = worker
  BY <1>0 DEF Notices!send
<1> DEFINE r == [status |-> status, attempts |-> 0]
<1>3. r \in NoticeRecord /\ r.status = status
  BY DEF NoticeRecord, NoticeStatus
<1> HIDE DEF r
<1>4. /\ records' \in Seq(NoticeRecord) /\ Len(records') = id /\ records'[id].status = status
      /\ \A j \in 1..n : records'[j] = records[j]
  BY <1>1, <1>2, <1>3 DEF r
<1>5. /\ \A p \in scheduled : p[2] \in 1..n
      /\ outgoing \in Seq(1..n) /\ \A i \in 1..Len(outgoing) : outgoing[i] \in 1..n
      /\ \A w \in Worker : worker[w].id \in 0..n
  BY <1>1 DEF NoticeInv, NoticeShape
<1>6. 1..n \subseteq 1..id /\ id \in 1..id /\ id \notin 0..n /\ ~ Somewhere(id)
  BY <1>1, <1>5 DEF Somewhere
<1> HIDE DEF id
<1>7. ASSUME \A j \in 1..n : Somewhere(j)' <=> Somewhere(j),
             Somewhere(id)' <=> status # "Suppressed"
      PROVE  StatusPlaced'
  <2>1. ASSUME NEW j \in 1..Len(records')
        PROVE  /\ records'[j].status \in {"Scheduled", "Queued"} => Somewhere(j)'
               /\ records'[j].status \in {"Suppressed", "Failed"} => ~ Somewhere(j)'
    <3>1. CASE j = id
      BY <1>4, <1>7, <3>1
    <3>2. CASE j # id
      <4>1. j \in 1..n
        BY <1>1, <1>4, <3>2 DEF id
      <4> QED  BY <1>1, <1>4, <1>7, <4>1 DEF NoticeInv, StatusPlaced
    <3> QED  BY <3>1, <3>2
  <2> QED  BY <2>1 DEF StatusPlaced
<1>8. CASE status = "Suppressed"
  <2>1. UNCHANGED <<scheduled, outgoing, worker>>
    BY <1>2, <1>8
  <2>2. NoticeShape'
    BY <1>1, <1>4, <1>6, <2>1 DEF NoticeInv, NoticeShape
  <2>3. OnePlace'
    BY <2>1 DEF NoticeInv, OnePlace, Unrepeated
  <2>4. \A j : Somewhere(j)' <=> Somewhere(j)
    BY <2>1 DEF Somewhere
  <2> QED  BY <1>6, <1>7, <1>8, <2>2, <2>3, <2>4 DEF NoticeInv
<1>9. CASE status = "Scheduled"
  <2> DEFINE pair == <<at, id>>
  <2>1. scheduled' = scheduled \union {pair} /\ UNCHANGED <<outgoing, worker>>
    BY <1>2, <1>9
  <2>2. pair[2] = id /\ pair \in Int \X (1..id)
    BY <1>6
  <2> HIDE DEF pair
  <2>3. NoticeShape'
    BY <1>1, <1>4, <1>6, <2>1, <2>2 DEF NoticeInv, NoticeShape
  <2>4. OnePlace'
    BY <1>6, <2>1, <2>2 DEF NoticeInv, OnePlace, Unrepeated, Somewhere
  <2>5. \A j : Somewhere(j)' <=> Somewhere(j) \/ j = id
    BY <2>1, <2>2 DEF Somewhere
  <2> QED  BY <1>1, <1>6, <1>7, <1>9, <2>3, <2>4, <2>5 DEF NoticeInv, id
<1>10. CASE status = "Queued"
  <2>1. outgoing' = Append(outgoing, id) /\ UNCHANGED <<scheduled, worker>>
    BY <1>2, <1>10
  <2>2. /\ Len(outgoing') = Len(outgoing) + 1 /\ Len(outgoing) \in Nat
        /\ outgoing' \in Seq(1..id) /\ outgoing'[Len(outgoing) + 1] = id
        /\ \A i \in 1..Len(outgoing) : outgoing'[i] = outgoing[i]
    BY <1>5, <1>6, <2>1
  <2>3. DOMAIN outgoing = 1..Len(outgoing) /\ DOMAIN outgoing' = 1..Len(outgoing')
    BY <1>5, <2>2
  <2>4. \A i \in 1..Len(outgoing') : i \in 1..Len(outgoing) \/ i = Len(outgoing) + 1
    BY <2>2
  <2>5. NoticeShape'
    BY <1>1, <1>4, <1>6, <2>1, <2>2 DEF NoticeInv, NoticeShape
  <2>6. OnePlace'
    BY <1>6, <2>1, <2>2, <2>3, <2>4 DEF NoticeInv, OnePlace, Unrepeated, Somewhere
  <2>7. \A j : Somewhere(j)' <=> Somewhere(j) \/ j = id
    BY <2>1, <2>2, <2>4 DEF Somewhere
  <2> QED  BY <1>1, <1>6, <1>7, <1>10, <2>5, <2>6, <2>7 DEF NoticeInv, id
<1> QED  BY <1>8, <1>9, <1>10

\* A place of a concatenation is a place of one of its parts.
LEMMA Concatenated ==
    ASSUME NEW A, NEW s \in Seq(A), NEW t \in Seq(A), NEW i \in 1..(Len(s) + Len(t))
    PROVE  \/ i \in 1..Len(s) /\ (s \o t)[i] = s[i]
           \/ i - Len(s) \in 1..Len(t) /\ (s \o t)[i] = t[i - Len(s)]
  OBVIOUS

\* Ids in increasing order are a list without repetition.
LEMMA IncreasingDistinct ==
    ASSUME NEW n \in Nat, NEW ids \in SUBSET (1..n), NEW m \in Nat, NEW s \in [1..m -> ids],
           \A i, j \in 1..m : i < j => s[i] < s[j]
    PROVE  s \in Seq(1..n) /\ Len(s) = m /\ Unrepeated(s)
<1>1. s \in [1..m -> 1..n]
  OBVIOUS
<1>2. s \in Seq(1..n) /\ Len(s) = m /\ DOMAIN s = 1..m
  BY <1>1
<1>3. ASSUME NEW i \in 1..m, NEW j \in 1..m, s[i] = s[j] PROVE i = j
  <2>1. s[i] \in Int /\ s[j] \in Int
    BY <1>1
  <2>2. ~(i < j) /\ ~(j < i)
    BY <1>3, <2>1
  <2> QED  BY <2>2
<1> QED  BY <1>2, <1>3 DEF Unrepeated

Has(s, x) == \E i \in 1..Len(s) : s[i] = x

\* Two lists without repetition and without a common member, put together, have
\* the members of both and no repetition.
LEMMA JoinedDistinct ==
    ASSUME NEW A, NEW o \in Seq(A), NEW s \in Seq(A), Unrepeated(o), Unrepeated(s),
           \A x : ~(Has(o, x) /\ Has(s, x))
    PROVE  /\ o \o s \in Seq(A) /\ Unrepeated(o \o s)
           /\ \A x : Has(o \o s, x) <=> Has(o, x) \/ Has(s, x)
<1>0. \A i \in 1..Len(o), j \in 1..Len(s) : o[i] # s[j]
  BY DEF Has
<1> DEFINE q == o \o s
           l == Len(o)
           m == Len(s)
<1>1. q \in Seq(A) /\ Len(q) = l + m /\ DOMAIN q = 1..(l + m) /\ l \in Nat /\ m \in Nat
      /\ DOMAIN o = 1..l /\ DOMAIN s = 1..m
  OBVIOUS
<1>2. ASSUME NEW i \in 1..(l + m)
      PROVE  \/ i \in 1..l /\ q[i] = o[i]
             \/ i - l \in 1..m /\ q[i] = s[i - l]
  BY Concatenated
<1>3. ASSUME NEW i \in 1..l PROVE i \in 1..(l + m) /\ q[i] = o[i]
  BY <1>1
<1>4. ASSUME NEW i \in 1..m PROVE l + i \in 1..(l + m) /\ q[l + i] = s[i]
  BY <1>1
<1> HIDE DEF q, l, m
<1>5. ASSUME NEW i \in 1..(l + m), NEW j \in 1..(l + m), q[i] = q[j] PROVE i = j
  <2>1. CASE i \in 1..l /\ q[i] = o[i]
    <3>1. CASE j \in 1..l /\ q[j] = o[j]
      BY <1>1, <1>5, <2>1, <3>1 DEF Unrepeated
    <3>2. CASE j - l \in 1..m /\ q[j] = s[j - l]
      BY <1>0, <1>5, <2>1, <3>2 DEF l, m
    <3> QED  BY <1>2, <3>1, <3>2
  <2>2. CASE i - l \in 1..m /\ q[i] = s[i - l]
    <3>1. CASE j \in 1..l /\ q[j] = o[j]
      BY <1>0, <1>5, <2>2, <3>1 DEF l, m
    <3>2. CASE j - l \in 1..m /\ q[j] = s[j - l]
      <4>1. i - l = j - l
        BY <1>1, <1>5, <2>2, <3>2 DEF Unrepeated
      <4> QED  BY <1>1, <4>1
    <3> QED  BY <1>2, <3>1, <3>2
  <2> QED  BY <1>2, <2>1, <2>2
<1>6. Unrepeated(q)
  BY <1>1, <1>5 DEF Unrepeated
<1>7. ASSUME NEW x
      PROVE  (\E i \in 1..(l + m) : q[i] = x) <=>
             (\E i \in 1..l : o[i] = x) \/ (\E i \in 1..m : s[i] = x)
  BY <1>2, <1>3, <1>4
<1> QED  BY <1>1, <1>6, <1>7 DEF q, l, m, Has

\* The first half of process moves what is due from the schedule to the queue.
LEMMA ProcessKeeps ==
    ASSUME NoticeCounts, NoticeInv, NEW w \in Worker, Notices!process(w)
    PROVE  NoticeInv'
<1>0. PICK n \in Nat : n = Len(records)
  BY DEF NoticeInv, NoticeShape
<1> DEFINE ripe == {p \in scheduled : p[1] <= nClock}
<1>1. PICK ids : ids = {p[2] : p \in ripe}
  OBVIOUS
<1>2. /\ worker[w].at = "idle" /\ scheduled' = scheduled \ ripe
      /\ records' = [i \in Notices!Ids |->
            IF i \in ids THEN [records[i] EXCEPT !.status = "Queued"] ELSE records[i]]
      /\ \E s \in Notices!Oldest(ids) : outgoing' = outgoing \o s
      /\ worker' = [worker EXCEPT ![w] = [at |-> "ready", id |-> 0]]
  BY <1>1 DEF Notices!process
<1>3. /\ ids \subseteq 1..n /\ ripe \subseteq scheduled
      /\ \A j : j \in ids <=> \E p \in ripe : p[2] = j
  BY <1>0, <1>1 DEF NoticeInv, NoticeShape
<1>4. PICK s \in Notices!Oldest(ids) : outgoing' = outgoing \o s
  BY <1>2
<1>5. PICK m \in Nat : m = Notices!Cardinality(ids)
  <2>1. Notices!Cardinality(ids) = Cardinality(ids)
    BY DEF Notices!Cardinality, Cardinality
  <2> QED  BY <1>3, <2>1 DEF NoticeCounts
<1>6. s \in [1..m -> ids] /\ (\A j \in ids : \E i \in 1..m : s[i] = j)
      /\ \A i, j \in 1..m : i < j => s[i] < s[j]
  BY <1>4, <1>5 DEF Notices!Oldest
<1>7. s \in Seq(1..n) /\ Len(s) = m /\ Unrepeated(s)
  BY <1>3, <1>6, IncreasingDistinct
<1> HIDE DEF ripe
<1>14. \A x \in Worker : worker'[x].id = worker[x].id /\ worker'[x] \in [at : WorkerAt, id : Nat]
          /\ (worker'[x] = worker[x] \/ x = w)
  BY <1>2 DEF NoticeInv, NoticeShape, WorkerAt
<1>15. ASSUME NEW i \in 1..Len(outgoing) PROVE outgoing[i] \notin ids
  BY <1>3 DEF NoticeInv, OnePlace
<1>16. ASSUME NEW x \in Worker PROVE worker[x].id \notin ids
  BY <1>3 DEF NoticeInv, OnePlace
<1>17. /\ outgoing' \in Seq(1..n) /\ Unrepeated(outgoing')
       /\ \A j : (\E i \in 1..Len(outgoing') : outgoing'[i] = j) <=>
                 (\E i \in 1..Len(outgoing) : outgoing[i] = j) \/ (\E i \in 1..Len(s) : s[i] = j)
  <2>1. outgoing \in Seq(1..n) /\ Unrepeated(outgoing)
    BY <1>0 DEF NoticeInv, NoticeShape, OnePlace
  <2>2. \A x : ~(Has(outgoing, x) /\ Has(s, x))
    BY <1>6, <1>7, <1>15 DEF Has
  <2>3. PICK A : A = 1..n
    OBVIOUS
  <2>4. outgoing \in Seq(A) /\ s \in Seq(A)
    BY <1>7, <2>1, <2>3
  <2>5. /\ outgoing \o s \in Seq(A) /\ Unrepeated(outgoing \o s)
        /\ \A x : Has(outgoing \o s, x) <=> Has(outgoing, x) \/ Has(s, x)
    BY <1>7, <2>1, <2>2, <2>4, JoinedDistinct
  <2> QED  BY <1>4, <2>3, <2>5 DEF Has
<1>18. \A j : (\E i \in 1..Len(outgoing') : outgoing'[i] = j) <=>
              ((\E i \in 1..Len(outgoing) : outgoing[i] = j) \/ j \in ids)
  <2>1. \A j : j \in ids <=> \E i \in 1..Len(s) : s[i] = j
    BY <1>6, <1>7
  <2> QED  BY <1>17, <2>1
<1>19. scheduled' \subseteq scheduled /\ \A p \in scheduled' : p[2] \notin ids
  BY <1>2, <1>3 DEF NoticeInv, OnePlace
<1>20. \A j : Somewhere(j)' <=> Somewhere(j)
  <2>1. \A j : (\E p \in scheduled : p[2] = j) <=> (\E p \in scheduled' : p[2] = j) \/ j \in ids
    BY <1>2, <1>3
  <2> QED  BY <1>14, <1>18, <2>1 DEF Somewhere
<1>21. /\ records' \in Seq(NoticeRecord) /\ Len(records') = n
       /\ \A j \in 1..n : records'[j].status = IF j \in ids THEN "Queued" ELSE records[j].status
  <2> DEFINE f == [i \in 1..n |->
               IF i \in ids THEN [records[i] EXCEPT !.status = "Queued"] ELSE records[i]]
  <2>1. records \in Seq(NoticeRecord) /\ Notices!Ids = 1..n
    BY <1>0 DEF NoticeInv, NoticeShape, Notices!Ids
  <2>2. ASSUME NEW r \in NoticeRecord
        PROVE  /\ [r EXCEPT !.status = "Queued"] \in NoticeRecord
               /\ [r EXCEPT !.status = "Queued"].status = "Queued"
    BY DEF NoticeRecord, NoticeStatus
  <2>3. \A i \in 1..n : records[i] \in NoticeRecord
    BY <1>0, <2>1
  <2>4. f \in [1..n -> NoticeRecord]
    BY <2>2, <2>3
  <2>5. \A j \in 1..n : f[j].status = IF j \in ids THEN "Queued" ELSE records[j].status
    BY <2>2, <2>3
  <2>6. records' = f
    BY <1>2, <2>1
  <2> HIDE DEF f
  <2> QED  BY <2>4, <2>5, <2>6
<1>22. NoticeShape'
  <2>1. worker' \in [Worker -> [at : WorkerAt, id : Nat]]
    BY <1>2, <1>14 DEF NoticeInv, NoticeShape
  <2>2. ASSUME NEW x \in Worker
        PROVE  IF worker'[x].at \in {"idle", "ready"} THEN worker'[x].id = 0
               ELSE worker'[x].id \in 1..n
    BY <1>0, <1>2, <1>14 DEF NoticeInv, NoticeShape
  <2> QED  BY <1>0, <1>17, <1>19, <1>21, <2>1, <2>2 DEF NoticeInv, NoticeShape
<1>23. OnePlace'
  <2>1. ASSUME NEW p \in scheduled', NEW i \in 1..Len(outgoing') PROVE p[2] # outgoing'[i]
    <3>1. p[2] \notin ids /\ \A h \in 1..Len(outgoing) : outgoing[h] # p[2]
      BY <1>19 DEF NoticeInv, OnePlace
    <3> QED  BY <1>18, <3>1
  <2>2. ASSUME NEW x \in Worker, NEW i \in 1..Len(outgoing') PROVE outgoing'[i] # worker'[x].id
    <3>1. worker[x].id \notin ids /\ \A h \in 1..Len(outgoing) : outgoing[h] # worker[x].id
      BY <1>16 DEF NoticeInv, OnePlace
    <3> QED  BY <1>14, <1>18, <3>1
  <2>3. \A p, q \in scheduled' : p[2] = q[2] => p = q
    BY <1>19 DEF NoticeInv, OnePlace
  <2>4. /\ \A x, y \in Worker : worker'[x].id = worker'[y].id /\ worker'[x].id # 0 => x = y
        /\ \A p \in scheduled', x \in Worker : p[2] # worker'[x].id
    BY <1>14, <1>19 DEF NoticeInv, OnePlace
  <2> QED  BY <1>17, <2>1, <2>2, <2>3, <2>4 DEF OnePlace, Unrepeated
<1>24. StatusPlaced'
  <2>1. ASSUME NEW j \in 1..n
        PROVE  /\ records'[j].status \in {"Scheduled", "Queued"} => Somewhere(j)'
               /\ records'[j].status \in {"Suppressed", "Failed"} => ~ Somewhere(j)'
    <3>1. j \in ids => Somewhere(j)
      BY <1>3 DEF Somewhere
    <3> QED  BY <1>0, <1>20, <1>21, <3>1 DEF NoticeInv, StatusPlaced
  <2> QED  BY <1>21, <2>1 DEF StatusPlaced
<1> QED  BY <1>22, <1>23, <1>24 DEF NoticeInv

\* A worker takes the message at the head of the queue.
LEMMA PopKeeps ==
    ASSUME NoticeInv, NEW w \in Worker, Notices!pop(w)
    PROVE  NoticeInv'
<1>0. PICK n \in Nat : n = Len(records)
  BY DEF NoticeInv, NoticeShape
<1>1. PICK h, l : h = Head(outgoing) /\ l = Len(outgoing)
  OBVIOUS
<1>2. /\ outgoing \in Seq(1..n) /\ outgoing # << >> /\ outgoing' = Tail(outgoing)
      /\ worker[w].at = "ready" /\ worker' = [worker EXCEPT ![w] = [at |-> "sending", id |-> h]]
      /\ UNCHANGED <<records, scheduled>>
  BY <1>0, <1>1 DEF Notices!pop, NoticeInv, NoticeShape
<1>3. /\ l \in Nat \ {0} /\ h \in 1..n /\ outgoing[1] = h /\ 1 \in 1..l
      /\ outgoing' \in Seq(1..n) /\ Len(outgoing') = l - 1
      /\ \A i \in 1..(l - 1) : i + 1 \in 1..l /\ outgoing'[i] = outgoing[i + 1]
      /\ DOMAIN outgoing = 1..l /\ DOMAIN outgoing' = 1..(l - 1)
  BY <1>1, <1>2
<1>4. \A i \in 1..l : i = 1 \/ (i - 1 \in 1..(l - 1) /\ outgoing'[i - 1] = outgoing[i])
  BY <1>3
<1>5. /\ worker[w].id = 0 /\ worker'[w] = [at |-> "sending", id |-> h]
      /\ \A x \in Worker : x # w => worker'[x] = worker[x]
      /\ worker' \in [Worker -> [at : WorkerAt, id : Nat]]
  BY <1>2, <1>3 DEF NoticeInv, NoticeShape, WorkerAt
<1>6. NoticeShape'
  BY <1>0, <1>2, <1>3, <1>5 DEF NoticeInv, NoticeShape
<1>7. \A i, j \in 1..l : outgoing[i] = outgoing[j] => i = j
  BY <1>3 DEF NoticeInv, OnePlace, Unrepeated
<1>8. /\ \A i \in 1..(l - 1) : outgoing'[i] # h
      /\ \A i, j \in 1..(l - 1) : outgoing'[i] = outgoing'[j] => i = j
  <2>1. ASSUME NEW i \in 1..(l - 1) PROVE outgoing'[i] # h
    <3>1. i + 1 # 1
      BY <1>3
    <3> QED  BY <1>3, <1>7, <3>1
  <2>2. ASSUME NEW i \in 1..(l - 1), NEW j \in 1..(l - 1), outgoing'[i] = outgoing'[j] PROVE i = j
    <3>1. i + 1 = j + 1
      BY <1>3, <1>7, <2>2
    <3> QED  BY <1>3, <3>1
  <2> QED  BY <2>1, <2>2
<1>9. \A p \in scheduled : p[2] # h
  BY <1>1, <1>3 DEF NoticeInv, OnePlace
<1>10. \A x \in Worker : worker[x].id # h
  BY <1>1, <1>3 DEF NoticeInv, OnePlace
<1>11. \A i \in 1..(l - 1), x \in Worker : outgoing'[i] # worker'[x].id
  <2>1. \A i \in 1..(l - 1), x \in Worker : outgoing'[i] # worker[x].id
    BY <1>1, <1>3 DEF NoticeInv, OnePlace
  <2>2. worker'[w].id = h
    BY <1>5
  <2> QED  BY <1>5, <1>8, <2>1, <2>2
<1>12. \A p \in scheduled : \A i \in 1..(l - 1) : p[2] # outgoing'[i]
  BY <1>1, <1>3 DEF NoticeInv, OnePlace
<1>13. \A p \in scheduled : \A x \in Worker : p[2] # worker'[x].id
  BY <1>5, <1>9 DEF NoticeInv, OnePlace
<1>14. \A x, y \in Worker : worker'[x].id = worker'[y].id /\ worker'[x].id # 0 => x = y
  BY <1>5, <1>10 DEF NoticeInv, OnePlace
<1>15. OnePlace'
  BY <1>2, <1>3, <1>8, <1>11, <1>12, <1>13, <1>14 DEF NoticeInv, OnePlace, Unrepeated
<1>16. \A j \in 1..n : Somewhere(j)' <=> Somewhere(j)
  <2>1. ASSUME NEW j \in 1..n
        PROVE  (\E i \in 1..l : outgoing[i] = j) <=>
               (\E i \in 1..(l - 1) : outgoing'[i] = j) \/ j = h
    BY <1>3, <1>4
  <2>2. ASSUME NEW j \in 1..n
        PROVE  (\E x \in Worker : worker'[x].id = j) <=>
               (\E x \in Worker : worker[x].id = j) \/ j = h
    BY <1>5
  <2> QED  BY <1>1, <1>2, <1>3, <2>1, <2>2 DEF Somewhere
<1>17. StatusPlaced'
  BY <1>0, <1>2, <1>16 DEF NoticeInv, StatusPlaced
<1> QED  BY <1>6, <1>15, <1>17 DEF NoticeInv

\* A worker whose hands are empty stays so, whatever it does next; one that
\* talks to the provider keeps its message.
LEMMA HandsKeep ==
    ASSUME NoticeInv, UNCHANGED <<records, scheduled, outgoing>>, NEW w \in Worker,
           NEW m, worker' = [worker EXCEPT ![w] = m], m \in [at : WorkerAt, id : Nat],
           m.id = worker[w].id, m.at \in {"idle", "ready"} <=> worker[w].at \in {"idle", "ready"}
    PROVE  NoticeInv'
<1>1. /\ \A x \in Worker : worker'[x].id = worker[x].id
      /\ \A x \in Worker : worker'[x].at \in {"idle", "ready"} <=> worker[x].at \in {"idle", "ready"}
      /\ worker' \in [Worker -> [at : WorkerAt, id : Nat]]
  BY DEF NoticeInv, NoticeShape
<1>2. NoticeShape'
  BY <1>1 DEF NoticeInv, NoticeShape
<1>3. OnePlace'
  BY <1>1 DEF NoticeInv, OnePlace, Unrepeated
<1>4. \A j : Somewhere(j)' <=> Somewhere(j)
  BY <1>1 DEF Somewhere
<1>5. StatusPlaced'
  BY <1>4 DEF NoticeInv, StatusPlaced
<1> QED  BY <1>2, <1>3, <1>5 DEF NoticeInv

\* A call that returns frees its worker, and a provider that takes a message or
\* not leaves the notification with its worker.
LEMMA ReturnKeeps ==
    ASSUME NoticeInv, NEW w \in Worker, Notices!return(w) \/ Notices!Accepts(w)
    PROVE  NoticeInv'
<1>1. worker \in [Worker -> [at : WorkerAt, id : Nat]] /\ UNCHANGED <<records, scheduled, outgoing>>
  BY DEF NoticeInv, NoticeShape, Notices!return, Notices!Accepts
<1>2. CASE Notices!return(w)
  <2> DEFINE m == Notices!Free
  <2>1. worker[w].at = "ready" /\ worker' = [worker EXCEPT ![w] = m] /\ worker[w].id = 0
    BY <1>2 DEF Notices!return, NoticeInv, NoticeShape
  <2>2. m \in [at : WorkerAt, id : Nat] /\ m.id = 0 /\ m.at = "idle"
    BY DEF Notices!Free, WorkerAt
  <2> HIDE DEF m
  <2> QED  BY <1>1, <2>1, <2>2, HandsKeep
<1>3. CASE Notices!Accepts(w)
  <2>1. PICK a \in {"accepted", "refused", "unreachable"} : worker' = [worker EXCEPT ![w].at = a]
    BY <1>3 DEF Notices!Accepts
  <2> DEFINE m == [worker[w] EXCEPT !.at = a]
  <2>2. worker[w].at = "sending" /\ worker' = [worker EXCEPT ![w] = m]
    BY <1>3, <2>1 DEF Notices!Accepts
  <2>3. m \in [at : WorkerAt, id : Nat] /\ m.id = worker[w].id /\ m.at = a
    BY <1>1 DEF WorkerAt
  <2> HIDE DEF m
  <2> QED  BY <1>1, <2>2, <2>3, HandsKeep
<1> QED  BY <1>2, <1>3

\* The outcome of an attempt is recorded: the message is done, or it stays in
\* the worker's hands until it is pushed back.
LEMMA DeliverKeeps ==
    ASSUME NoticeInv, NEW w \in Worker, Notices!deliver(w)
    PROVE  NoticeInv'
<1>0. PICK n \in Nat : n = Len(records)
  BY DEF NoticeInv, NoticeShape
<1>1. PICK h : h = worker[w].id
  OBVIOUS
<1>2. /\ worker[w].at \in {"accepted", "refused", "unreachable"} /\ h \in 1..n
      /\ records \in Seq(NoticeRecord) /\ records[h].attempts + 1 \in Nat
      /\ UNCHANGED <<scheduled, outgoing>>
  <2>1. worker[w].at \in {"accepted", "refused", "unreachable"} /\ UNCHANGED <<scheduled, outgoing>>
    BY DEF Notices!deliver
  <2>2. h \in 1..n /\ records \in Seq(NoticeRecord)
    BY <1>0, <1>1, <2>1 DEF NoticeInv, NoticeShape
  <2>3. records[h] \in NoticeRecord
    BY <1>0, <2>2
  <2>4. records[h].attempts \in Nat
    BY <2>3 DEF NoticeRecord
  <2> QED  BY <2>1, <2>2, <2>4
<1>3. PICK status \in {"Sent", "Queued", "Failed"}, tries \in Nat,
           m \in {[at |-> "requeue", id |-> h], [at |-> "ready", id |-> 0]} :
         /\ records' = [records EXCEPT ![h] = [status |-> status, attempts |-> tries]]
         /\ worker' = [worker EXCEPT ![w] = m]
         /\ \/ status = "Queued" /\ m = [at |-> "requeue", id |-> h]
            \/ status # "Queued" /\ m = [at |-> "ready", id |-> 0]
  BY <1>1, <1>2 DEF Notices!deliver
<1> DEFINE r == [status |-> status, attempts |-> tries]
<1>4. r \in NoticeRecord /\ r.status = status
  BY DEF NoticeRecord, NoticeStatus
<1> HIDE DEF r
<1>5. /\ records' \in Seq(NoticeRecord) /\ Len(records') = n /\ records'[h].status = status
      /\ \A j \in 1..n : j # h => records'[j] = records[j]
  BY <1>0, <1>2, <1>3, <1>4 DEF r
<1>6. /\ m \in [at : WorkerAt, id : Nat] /\ m.id \in {0, h} /\ (m.id = h <=> status = "Queued")
      /\ IF m.at \in {"idle", "ready"} THEN m.id = 0 ELSE m.id \in 1..n
  BY <1>2, <1>3 DEF WorkerAt
<1>7. /\ worker'[w] = m /\ \A x \in Worker : x # w => worker'[x] = worker[x]
      /\ worker' \in [Worker -> [at : WorkerAt, id : Nat]]
  BY <1>3, <1>6 DEF NoticeInv, NoticeShape
<1>8. NoticeShape'
  BY <1>0, <1>2, <1>5, <1>6, <1>7 DEF NoticeInv, NoticeShape
<1>9. \A x \in Worker : worker'[x].id = worker[x].id \/ worker'[x].id = 0
  BY <1>1, <1>6, <1>7
<1>10. /\ \A p \in scheduled : p[2] # 0 /\ p[2] # h
       /\ \A i \in 1..Len(outgoing) : outgoing[i] # 0 /\ outgoing[i] # h
       /\ \A x \in Worker : x # w => worker[x].id # h
  BY <1>1, <1>2 DEF NoticeInv, NoticeShape, OnePlace
<1>11. /\ \A p \in scheduled, x \in Worker : p[2] # worker'[x].id
       /\ \A i \in 1..Len(outgoing), x \in Worker : outgoing[i] # worker'[x].id
       /\ \A x, y \in Worker : worker'[x].id = worker'[y].id /\ worker'[x].id # 0 => x = y
  BY <1>9, <1>10 DEF NoticeInv, OnePlace
<1>12. OnePlace'
  BY <1>2, <1>11 DEF NoticeInv, OnePlace
<1>13. Somewhere(h)' <=> status = "Queued"
  <2>1. (\E x \in Worker : worker'[x].id = h) <=> status = "Queued"
    BY <1>2, <1>6, <1>7, <1>10
  <2> QED  BY <1>2, <1>10, <2>1 DEF Somewhere
<1>14. \A j \in 1..n : j # h => (Somewhere(j)' <=> Somewhere(j))
  <2>1. \A j \in 1..n : j # h => ((\E x \in Worker : worker'[x].id = j)
                                   <=> (\E x \in Worker : worker[x].id = j))
    BY <1>1, <1>6, <1>7
  <2> QED  BY <1>2, <2>1 DEF Somewhere
<1>15. StatusPlaced'
  BY <1>0, <1>5, <1>13, <1>14 DEF NoticeInv, StatusPlaced
<1> QED  BY <1>8, <1>12, <1>15 DEF NoticeInv

\* A message to be retried goes from the worker's hands to the queue.
LEMMA RequeueKeeps ==
    ASSUME NoticeInv, NEW w \in Worker, Notices!requeue(w)
    PROVE  NoticeInv'
<1>0. PICK n \in Nat : n = Len(records)
  BY DEF NoticeInv, NoticeShape
<1>1. PICK h, l : h = worker[w].id /\ l = Len(outgoing)
  OBVIOUS
<1> DEFINE m == [at |-> "ready", id |-> 0]
<1>2. /\ worker[w].at = "requeue" /\ h \in 1..n /\ outgoing \in Seq(1..n) /\ l \in Nat
      /\ outgoing' = Append(outgoing, h) /\ worker' = [worker EXCEPT ![w] = m]
      /\ UNCHANGED <<records, scheduled>>
  BY <1>0, <1>1 DEF Notices!requeue, NoticeInv, NoticeShape
<1>3. m \in [at : WorkerAt, id : Nat] /\ m.id = 0 /\ m.at = "ready"
  BY DEF WorkerAt
<1> HIDE DEF m
<1>4. /\ outgoing' \in Seq(1..n) /\ Len(outgoing') = l + 1 /\ outgoing'[l + 1] = h
      /\ \A i \in 1..l : outgoing'[i] = outgoing[i]
      /\ DOMAIN outgoing = 1..l /\ DOMAIN outgoing' = 1..(l + 1)
      /\ \A i \in 1..(l + 1) : i \in 1..l \/ i = l + 1
      /\ l + 1 \in 1..(l + 1) /\ \A i \in 1..l : i \in 1..(l + 1)
  BY <1>1, <1>2
<1>5. /\ worker'[w] = m /\ \A x \in Worker : x # w => worker'[x] = worker[x]
      /\ worker' \in [Worker -> [at : WorkerAt, id : Nat]]
  BY <1>2, <1>3 DEF NoticeInv, NoticeShape
<1>6. NoticeShape'
  BY <1>0, <1>2, <1>3, <1>4, <1>5 DEF NoticeInv, NoticeShape
<1>7. /\ \A p \in scheduled : p[2] # 0 /\ p[2] # h
      /\ \A i \in 1..l : outgoing[i] # h /\ outgoing[i] # 0
      /\ \A x \in Worker : x # w => worker[x].id # h
  BY <1>1, <1>2 DEF NoticeInv, NoticeShape, OnePlace
<1>8. Unrepeated(outgoing')
  BY <1>4, <1>7 DEF NoticeInv, OnePlace, Unrepeated
<1>9. \A p \in scheduled : \A i \in 1..(l + 1) : p[2] # outgoing'[i]
  BY <1>1, <1>4, <1>7 DEF NoticeInv, OnePlace
<1>10. \A x \in Worker : worker'[x].id # h
  BY <1>2, <1>3, <1>5, <1>7
<1>11. \A i \in 1..(l + 1) : \A x \in Worker : outgoing'[i] # worker'[x].id
  BY <1>1, <1>3, <1>4, <1>5, <1>7, <1>10 DEF NoticeInv, OnePlace
<1>12. /\ \A p \in scheduled, x \in Worker : p[2] # worker'[x].id
       /\ \A x, y \in Worker : worker'[x].id = worker'[y].id /\ worker'[x].id # 0 => x = y
  BY <1>3, <1>5, <1>7 DEF NoticeInv, OnePlace
<1>13. OnePlace'
  BY <1>2, <1>4, <1>8, <1>9, <1>11, <1>12 DEF NoticeInv, OnePlace
<1>14. \A j \in 1..n : Somewhere(j)' <=> Somewhere(j)
  <2>1. ASSUME NEW j \in 1..n
        PROVE  (\E i \in 1..(l + 1) : outgoing'[i] = j) <=>
               (\E i \in 1..l : outgoing[i] = j) \/ j = h
    BY <1>4
  <2>2. ASSUME NEW j \in 1..n
        PROVE  (\E x \in Worker : worker[x].id = j) <=>
               (\E x \in Worker : worker'[x].id = j) \/ j = h
    BY <1>1, <1>3, <1>5
  <2> QED  BY <1>1, <1>2, <1>4, <2>1, <2>2 DEF Somewhere
<1>15. StatusPlaced'
  BY <1>0, <1>2, <1>14 DEF NoticeInv, StatusPlaced
<1> QED  BY <1>6, <1>13, <1>15 DEF NoticeInv

\* A receipt marks the record of a message the provider has.
LEMMA ReceiptKeeps ==
    ASSUME NoticeInv, NEW j \in Notices!Ids, NEW status \in {"Delivered", "Bounced"},
           Notices!record_event(j, status)
    PROVE  NoticeInv'
<1>0. PICK n \in Nat : n = Len(records)
  BY DEF NoticeInv, NoticeShape
<1>1. records \in Seq(NoticeRecord) /\ j \in 1..n /\ UNCHANGED <<scheduled, outgoing, worker>>
  BY <1>0 DEF NoticeInv, NoticeShape, Notices!Ids, Notices!record_event
<1> DEFINE r == [records[j] EXCEPT !.status = status]
<1>2. records' = [records EXCEPT ![j] = r]
  BY DEF Notices!record_event
<1>3. r \in NoticeRecord /\ r.status = status
  <2>1. records[j] \in NoticeRecord
    BY <1>0, <1>1
  <2> QED  BY <2>1 DEF NoticeRecord, NoticeStatus
<1> HIDE DEF r
<1>4. /\ records' \in Seq(NoticeRecord) /\ Len(records') = n /\ records'[j].status = status
      /\ \A i \in 1..n : i # j => records'[i] = records[i]
  BY <1>0, <1>1, <1>2, <1>3
<1>5. NoticeShape' /\ OnePlace'
  BY <1>0, <1>1, <1>4 DEF NoticeInv, NoticeShape, OnePlace
<1>6. \A i : Somewhere(i)' <=> Somewhere(i)
  BY <1>1 DEF Somewhere
<1>7. StatusPlaced'
  BY <1>0, <1>4, <1>6 DEF NoticeInv, StatusPlaced
<1> QED  BY <1>5, <1>7 DEF NoticeInv

\* Every step of the service keeps the invariant.
LEMMA NoticeStep ==
    ASSUME NoticeTime \in Nat, NoticeCounts, NoticeInv, [Notices!Next]_(Notices!notifyVars)
    PROVE  NoticeInv'
<1>1. ASSUME UNCHANGED <<records, scheduled, outgoing, worker>>
      PROVE  NoticeInv'
  <2>1. \A j : Somewhere(j)' <=> Somewhere(j)
    BY <1>1 DEF Somewhere
  <2> QED  BY <1>1, <2>1 DEF NoticeInv, NoticeShape, OnePlace, StatusPlaced
<1>2. ASSUME NEW u \in User, NEW b \in BOOLEAN, NEW at \in 0..NoticeTime, Notices!send(u, b, at)
      PROVE  NoticeInv'
  <2>1. at \in Nat
    BY <1>2
  <2> QED  BY <1>2, <2>1, SendKeeps
<1>3. ASSUME NEW u \in User, Notices!unsubscribe(u) \/ Notices!enable_channel(u)
      PROVE  NoticeInv'
  BY <1>1, <1>3 DEF Notices!unsubscribe, Notices!enable_channel
<1>4. ASSUME NEW w \in Worker, Notices!process(w)
      PROVE  NoticeInv'
  BY <1>4, ProcessKeeps
<1>5. ASSUME NEW w \in Worker, Notices!pop(w)
      PROVE  NoticeInv'
  BY <1>5, PopKeeps
<1>6. ASSUME NEW w \in Worker, Notices!return(w) \/ Notices!Accepts(w)
      PROVE  NoticeInv'
  BY <1>6, ReturnKeeps
<1>7. ASSUME NEW w \in Worker, Notices!deliver(w)
      PROVE  NoticeInv'
  BY <1>7, DeliverKeeps
<1>8. ASSUME NEW w \in Worker, Notices!requeue(w)
      PROVE  NoticeInv'
  BY <1>8, RequeueKeeps
<1>9. ASSUME NEW j \in Notices!Ids, NEW s \in {"Delivered", "Bounced"}, Notices!record_event(j, s)
      PROVE  NoticeInv'
  BY <1>9, ReceiptKeeps
<1>10. CASE Notices!Tick
  BY <1>1, <1>10 DEF Notices!Tick
<1>11. CASE UNCHANGED Notices!notifyVars
  BY <1>1, <1>11 DEF Notices!notifyVars
<1> QED
  BY <1>2, <1>3, <1>4, <1>5, <1>6, <1>7, <1>8, <1>9, <1>10, <1>11 DEF Notices!Next

-----------------------------------------------------------------------------
(* Webhooks: webhooks.rs *)

CONSTANTS Endpoints, Events, Passes, Retries, MaxReplays

VARIABLES endpoints, deliveries, passes, replays, failed

Hooks == INSTANCE Webhooks

HookConstants == Retries \in Nat /\ IsFiniteSet(Endpoints)

\* A set of endpoints has a number of members.
HookCounts == Retries \in Nat /\ \A S \in SUBSET Endpoints : Cardinality(S) \in Nat

HookStatus == {"Pending", "Retrying", "Delivered", "DeadLettered"}

HookTime == {"due", "later", "none"}

Delivery ==
    [endpoint : Endpoints, event : Events, status : HookStatus, next_attempt_at : HookTime,
     cycle_failures : Nat]

\* The failures a delivery counts are those recorded since it was published or
\* replayed, and one too many of them is what a dead letter takes.
Earned(d, n) ==
    /\ d \in Delivery /\ n \in Nat /\ d.cycle_failures = n
    /\ d.status = "DeadLettered" => n > Retries

HookInv ==
    /\ deliveries \in Seq(Delivery) /\ failed \in Seq(Nat)
    /\ Len(failed) = Len(deliveries)
    /\ passes \in [Passes -> SUBSET (1..Len(deliveries))]
    /\ \A i \in 1..Len(deliveries) : Earned(deliveries[i], failed[i])

\* The statuses and times the steps write are ones a delivery may have.
LEMMA HookValues ==
    /\ \A s \in {"Pending", "Retrying", "Delivered", "DeadLettered"} : s \in HookStatus
    /\ \A t \in {"due", "later", "none"} : t \in HookTime
  BY DEF HookStatus, HookTime

\* Recording an outcome, the end of a wait and a replay keep the count right.
LEMMA RecordedEarned ==
    ASSUME HookCounts, NEW d, NEW n, Earned(d, n)
    PROVE  /\ Earned(Hooks!Recorded(d, TRUE), n)
           /\ Earned(Hooks!Recorded(d, FALSE), n + 1)
           /\ Earned(Hooks!Restart(d), 0)
           /\ Earned([d EXCEPT !.next_attempt_at = "due"], n)
<1>1. d \in Delivery /\ d.cycle_failures \in Nat /\ d.cycle_failures + 1 \in Nat
  BY DEF Earned, Delivery
<1>2. /\ Hooks!Recorded(d, TRUE) \in Delivery /\ Hooks!Recorded(d, FALSE) \in Delivery
      /\ Hooks!Restart(d) \in Delivery /\ [d EXCEPT !.next_attempt_at = "due"] \in Delivery
  BY <1>1, HookValues DEF Hooks!Recorded, Hooks!Restart, Delivery
<1>3. Earned(Hooks!Recorded(d, TRUE), n)
  BY <1>2 DEF Earned, Hooks!Recorded, Delivery
<1>4. Earned(Hooks!Recorded(d, FALSE), n + 1)
  BY <1>2 DEF Earned, Hooks!Recorded, Hooks!Scheduled, Delivery, HookCounts
<1>5. Earned(Hooks!Restart(d), 0)
  BY <1>2 DEF Earned, Hooks!Restart, Delivery
<1>6. Earned([d EXCEPT !.next_attempt_at = "due"], n)
  BY <1>2 DEF Earned, Delivery
<1> QED  BY <1>3, <1>4, <1>5, <1>6

\* One delivery changes, and its count with it.
LEMMA OneDelivery ==
    ASSUME HookInv, NEW i \in 1..Len(deliveries), NEW d, NEW n, Earned(d, n),
           deliveries' = [deliveries EXCEPT ![i] = d], failed' = [failed EXCEPT ![i] = n],
           passes' \in [Passes -> SUBSET (1..Len(deliveries))]
    PROVE  HookInv'
<1>1. d \in Delivery /\ n \in Nat
  BY DEF Earned
<1>2. /\ deliveries' \in Seq(Delivery) /\ Len(deliveries') = Len(deliveries)
      /\ failed' \in Seq(Nat) /\ Len(failed') = Len(failed)
  BY <1>1 DEF HookInv
<1>3. ASSUME NEW j \in 1..Len(deliveries) PROVE Earned(deliveries'[j], failed'[j])
  BY DEF HookInv
<1> QED  BY <1>2, <1>3 DEF HookInv

\* A publish appends deliveries whose count is zero.
LEMMA PublishKeeps ==
    ASSUME HookCounts, HookInv, NEW event \in Events, Hooks!Publish(event)
    PROVE  HookInv'
<1> DEFINE T == {e \in Endpoints : Hooks!wants(e, event) /\ ~ Hooks!Finds(e, event)}
           N == Hooks!Cardinality(T)
<1>1. PICK order \in [1..N -> T] :
         /\ deliveries' = deliveries \o [i \in DOMAIN order |-> Hooks!Fresh(order[i], event)]
         /\ failed' = failed \o [i \in DOMAIN order |-> 0]
  BY DEF Hooks!Publish
<1>2. N \in Nat /\ passes' = passes /\ T \subseteq Endpoints
  <2>1. T \subseteq Endpoints /\ passes' = passes
    BY DEF Hooks!Publish
  <2> HIDE DEF T
  <2>2. N = Cardinality(T)
    BY DEF Hooks!Cardinality, Cardinality
  <2> QED  BY <2>1, <2>2 DEF HookCounts
<1> HIDE DEF N, T
<1> DEFINE new == [i \in 1..N |-> Hooks!Fresh(order[i], event)]
           none == [i \in 1..N |-> 0]
<1>3. ASSUME NEW i \in 1..N PROVE Earned(Hooks!Fresh(order[i], event), 0)
  <2>1. order[i] \in Endpoints
    BY <1>1, <1>2
  <2> QED  BY <2>1, HookValues DEF Earned, Hooks!Fresh, Delivery
<1>4. new \in Seq(Delivery) /\ none \in Seq(Nat) /\ Len(new) = N /\ Len(none) = N
  <2>1. \A i \in 1..N : Hooks!Fresh(order[i], event) \in Delivery
    BY <1>3 DEF Earned
  <2> QED  BY <1>2, <2>1
<1>5. deliveries' = deliveries \o new /\ failed' = failed \o none
  BY <1>1
<1>6. ASSUME NEW i \in 1..N PROVE Earned(new[i], none[i])
  BY <1>3
<1> HIDE DEF new, none
<1>7. ASSUME NEW i \in 1..Len(deliveries) + N
      PROVE  Earned((deliveries \o new)[i], (failed \o none)[i])
  <2> DEFINE n == Len(deliveries)
             d == (deliveries \o new)[i]
             f == (failed \o none)[i]
  <2>1. n \in Nat /\ n = Len(failed)
    BY DEF HookInv
  <2>2. \/ i \in 1..n /\ d = deliveries[i]
        \/ i - n \in 1..N /\ d = new[i - n]
    BY <1>4, Concatenated DEF HookInv
  <2>3. \/ i \in 1..n /\ f = failed[i]
        \/ i - n \in 1..N /\ f = none[i - n]
    <3>1. failed \in Seq(Nat) /\ none \in Seq(Nat) /\ i \in 1..(Len(failed) + Len(none))
      BY <1>4, <2>1 DEF HookInv
    <3>2. \/ i \in 1..Len(failed) /\ f = failed[i]
          \/ i - Len(failed) \in 1..Len(none) /\ f = none[i - Len(failed)]
      BY <3>1, Concatenated
    <3> QED  BY <1>4, <2>1, <3>2
  <2> HIDE DEF d, f
  <2>4. CASE i \in 1..n
    <3>1. ~(i - n \in 1..N)
      BY <1>2, <2>1, <2>4
    <3> QED  BY <2>2, <2>3, <2>4, <3>1 DEF HookInv, d, f
  <2>5. CASE i \notin 1..n
    BY <1>6, <2>2, <2>3, <2>5 DEF d, f
  <2> QED  BY <2>4, <2>5
<1>8. /\ deliveries' \in Seq(Delivery) /\ failed' \in Seq(Nat)
      /\ Len(deliveries') = Len(deliveries) + N /\ Len(failed') = Len(deliveries) + N
  BY <1>4, <1>5 DEF HookInv
<1>9. passes' \in [Passes -> SUBSET (1..Len(deliveries'))]
  <2>1. 1..Len(deliveries) \subseteq 1..Len(deliveries')
    BY <1>2, <1>8 DEF HookInv
  <2> QED  BY <1>2, <2>1 DEF HookInv
<1> QED  BY <1>5, <1>7, <1>8, <1>9 DEF HookInv

\* Every step.
LEMMA HookStep == HookCounts /\ HookInv /\ [Hooks!Next]_(Hooks!vars) => HookInv'
<1> SUFFICES ASSUME HookCounts, HookInv, [Hooks!Next]_(Hooks!vars) PROVE HookInv'
  OBVIOUS
<1>0. deliveries \in Seq(Delivery) /\ DOMAIN deliveries = 1..Len(deliveries)
      /\ DOMAIN failed = 1..Len(deliveries)
      /\ \A i \in 1..Len(deliveries) : Earned(deliveries[i], failed[i])
  BY DEF HookInv
<1>1. ASSUME NEW e \in Endpoints,
             \/ \E wanted \in SUBSET Events : Hooks!RegisterEndpoint(e, wanted)
             \/ \E enabled \in BOOLEAN : Hooks!SetEnabled(e, enabled)
      PROVE  HookInv'
  BY <1>1 DEF Hooks!RegisterEndpoint, Hooks!SetEnabled, HookInv
<1>2. ASSUME NEW event \in Events, Hooks!Publish(event) PROVE HookInv'
  BY <1>2, PublishKeeps
<1>3. ASSUME NEW p \in Passes, Hooks!RunDue(p) \/ Hooks!PassLost(p) PROVE HookInv'
  BY <1>0, <1>3 DEF Hooks!RunDue, Hooks!PassLost, HookInv
<1>4. ASSUME NEW p \in Passes, Hooks!Attempt(p) PROVE HookInv'
  <2>1. PICK i \in passes[p], success \in BOOLEAN :
           /\ deliveries' = [deliveries EXCEPT ![i] = Hooks!Recorded(@, success)]
           /\ failed' = IF success THEN failed ELSE [failed EXCEPT ![i] = @ + 1]
           /\ passes' = [passes EXCEPT ![p] = @ \ {i}]
    BY <1>4 DEF Hooks!Attempt
  <2>2. i \in 1..Len(deliveries) /\ passes' \in [Passes -> SUBSET (1..Len(deliveries))]
    BY <2>1 DEF HookInv
  <2>3. CASE success = TRUE
    <3>1. Earned(Hooks!Recorded(deliveries[i], TRUE), failed[i])
      BY <1>0, <2>2, RecordedEarned
    <3>2. deliveries' = [deliveries EXCEPT ![i] = Hooks!Recorded(deliveries[i], TRUE)]
          /\ failed' = [failed EXCEPT ![i] = failed[i]]
      BY <2>1, <2>2, <2>3 DEF HookInv
    <3> QED  BY <2>2, <3>1, <3>2, OneDelivery
  <2>4. CASE success = FALSE
    <3>1. Earned(Hooks!Recorded(deliveries[i], FALSE), failed[i] + 1)
      BY <1>0, <2>2, RecordedEarned
    <3>2. deliveries' = [deliveries EXCEPT ![i] = Hooks!Recorded(deliveries[i], FALSE)]
          /\ failed' = [failed EXCEPT ![i] = failed[i] + 1]
      BY <2>1, <2>4
    <3> QED  BY <2>2, <3>1, <3>2, OneDelivery
  <2> QED  BY <2>3, <2>4
<1>5. ASSUME NEW i \in DOMAIN deliveries, Hooks!Elapse(i) PROVE HookInv'
  <2>1. Earned([deliveries[i] EXCEPT !.next_attempt_at = "due"], failed[i])
    BY <1>0, RecordedEarned
  <2>2. /\ deliveries' = [deliveries EXCEPT ![i] = [deliveries[i] EXCEPT !.next_attempt_at = "due"]]
        /\ failed' = [failed EXCEPT ![i] = failed[i]]
    BY <1>0, <1>5 DEF Hooks!Elapse, HookInv
  <2>3. passes' \in [Passes -> SUBSET (1..Len(deliveries))] /\ i \in 1..Len(deliveries)
    BY <1>0, <1>5 DEF Hooks!Elapse, HookInv
  <2> QED  BY <2>1, <2>2, <2>3, OneDelivery
<1>6. ASSUME NEW i \in DOMAIN deliveries, Hooks!Replay(i) PROVE HookInv'
  <2>1. Earned(Hooks!Restart(deliveries[i]), 0)
    BY <1>0, RecordedEarned
  <2>2. /\ deliveries' = [deliveries EXCEPT ![i] = Hooks!Restart(deliveries[i])]
        /\ failed' = [failed EXCEPT ![i] = 0] /\ passes' = passes
    BY <1>6 DEF Hooks!Replay
  <2> QED  BY <1>0, <2>1, <2>2, OneDelivery DEF HookInv
<1>7. CASE UNCHANGED Hooks!vars
  BY <1>7 DEF Hooks!vars, HookInv
<1> QED
  BY <1>1, <1>2, <1>3, <1>4, <1>5, <1>6, <1>7 DEF Hooks!Next

-----------------------------------------------------------------------------
(* Counting.  Both services, concluded. *)

INSTANCE FiniteSetTheorems

\* Counting a part of a finite set.
LEMMA SubsetCounted == \A A, S : IsFiniteSet(A) /\ S \in SUBSET A => Cardinality(S) \in Nat
<1> SUFFICES ASSUME NEW A, IsFiniteSet(A), NEW S \in SUBSET A
             PROVE  Cardinality(S) \in Nat
  OBVIOUS
<1>1. IsFiniteSet(S)
  BY FS_Subset, SMTT(30)
<1> QED  BY <1>1, FS_CardinalityType, SMTT(30)

\* A set in which all elements are equal has none or one.
LEMMA NoneOrOne ==
    ASSUME NEW S, \A x, y \in S : x = y
    PROVE  Cardinality(S) = IF S = {} THEN 0 ELSE 1
<1>1. CASE S = {}
  BY <1>1, FS_EmptySet, SMTT(30)
<1>2. CASE S # {}
  <2>1. PICK x \in S : TRUE
    BY <1>2
  <2>2. S = {x}
    BY <2>1, SMTT(30)
  <2> QED  BY <1>2, <2>2, FS_Singleton, SMTT(30)
<1> QED  BY <1>1, <1>2

\* Counting what is among the first numbers.
LEMMA NoticesCounted == NoticeCounts
<1>1. ASSUME NEW n \in Nat
      PROVE  IsFiniteSet(1..n)
  BY FS_Interval, SMTT(30)
<1> QED  BY <1>1, SubsetCounted DEF NoticeCounts

\* A pending message is in exactly one place.
PendingInOnePlace == Notices!PendingInOnePlace

\* What the invariant says of each message.
LEMMA NoticePromise ==
    ASSUME NoticeInv
    PROVE  PendingInOnePlace
<1>1. ASSUME NEW j \in Notices!Ids
      PROVE  /\ Notices!Places(j) = (IF Somewhere(j) THEN 1 ELSE 0)
             /\ records[j].status \in {"Scheduled", "Queued"} => Somewhere(j)
             /\ records[j].status \in {"Suppressed", "Failed"} => ~ Somewhere(j)
  <2>1. j \in 1..Len(records) /\ j # 0 /\ DOMAIN outgoing = 1..Len(outgoing)
    BY DEF NoticeInv, NoticeShape, Notices!Ids
  <2> DEFINE A == {p \in scheduled : p[2] = j}
             B == {i \in DOMAIN outgoing : outgoing[i] = j}
             C == {w \in Worker : Notices!Holds(w, j)}
  <2>2. Notices!Places(j) = Cardinality(A) + Cardinality(B) + Cardinality(C)
    <3>1. /\ Notices!Cardinality(A) = Cardinality(A) /\ Notices!Cardinality(B) = Cardinality(B)
          /\ Notices!Cardinality(C) = Cardinality(C)
      BY DEF Notices!Cardinality, Cardinality
    <3> QED  BY <3>1 DEF Notices!Places
  <2>3. \A x, y \in A : x = y
    BY DEF NoticeInv, OnePlace
  <2>4. \A x, y \in B : x = y
    BY DEF NoticeInv, OnePlace, Unrepeated
  <2>5. \A x, y \in C : x = y
    BY <2>1 DEF NoticeInv, OnePlace, Notices!Holds
  <2>6. (A = {} \/ B = {}) /\ (A = {} \/ C = {}) /\ (B = {} \/ C = {})
    BY <2>1 DEF NoticeInv, OnePlace, Notices!Holds
  <2>7. Somewhere(j) <=> A # {} \/ B # {} \/ C # {}
    BY <2>1 DEF Somewhere, Notices!Holds
  <2>8. /\ records[j].status \in {"Scheduled", "Queued"} => Somewhere(j)
        /\ records[j].status \in {"Suppressed", "Failed"} => ~ Somewhere(j)
    BY <2>1 DEF NoticeInv, StatusPlaced
  <2> HIDE DEF A, B, C
  <2>9. /\ Cardinality(A) = (IF A = {} THEN 0 ELSE 1) /\ Cardinality(B) = (IF B = {} THEN 0 ELSE 1)
        /\ Cardinality(C) = (IF C = {} THEN 0 ELSE 1)
    BY <2>3, <2>4, <2>5, NoneOrOne
  <2> QED  BY <2>2, <2>6, <2>7, <2>8, <2>9, SMTT(30)
<1> QED  BY <1>1, SMTT(30) DEF PendingInOnePlace, Notices!PendingInOnePlace

\* A message that still has to go out is in the schedule, in the queue or in
\* the hands of one worker, and in one of them only; a message that failed or
\* was suppressed is in none.
THEOREM NoticesInOnePlace == NoticeTime \in Nat /\ Notices!Spec => []PendingInOnePlace
<1>1. Notices!Init => NoticeInv
  <2>1. ASSUME Notices!Init
        PROVE  /\ records = << >> /\ scheduled = {} /\ outgoing = << >>
               /\ worker = [w \in Worker |-> [at |-> "idle", id |-> 0]]
    BY <2>1 DEF Notices!Init, Notices!Free
  <2>2. ASSUME Notices!Init
        PROVE  NoticeShape /\ OnePlace /\ StatusPlaced
    BY <2>1, <2>2, SMTT(30) DEF NoticeShape, OnePlace, StatusPlaced, Unrepeated, WorkerAt, NoticeRecord
  <2> QED  BY <2>2 DEF NoticeInv
<1>2. NoticeTime \in Nat /\ NoticeInv /\ [Notices!Next]_(Notices!notifyVars) => NoticeInv'
  BY NoticeStep, NoticesCounted
<1>3. NoticeInv => PendingInOnePlace
  BY NoticePromise
<1>4. NoticeTime \in Nat => (NoticeTime \in Nat)'
  OBVIOUS
<1> QED  BY <1>1, <1>2, <1>3, <1>4, PTL DEF Notices!Spec

\* A delivery is given up only after every retry of its cycle failed.
DeadLetterEarned == Hooks!DeadLetterEarned

\* For any finite set of endpoints and number of retries, a delivery becomes a
\* dead letter only once every attempt of its present cycle was seen to fail,
\* also when passes of the dispatcher overlap and dead letters are replayed.
THEOREM HooksEarnDeadLetters == HookConstants /\ Hooks!Spec => []DeadLetterEarned
<1>1. Hooks!Init => HookInv
  BY DEF Hooks!Init, HookInv
<1>2. HookConstants => HookConstants' /\ HookCounts
  <2>1. ASSUME HookConstants, NEW S \in SUBSET Endpoints
        PROVE  Cardinality(S) \in Nat
    BY <2>1, SubsetCounted DEF HookConstants
  <2> QED  BY <2>1 DEF HookConstants, HookCounts
<1>3. HookInv => DeadLetterEarned
  BY DEF HookInv, Earned, DeadLetterEarned, Hooks!DeadLetterEarned
<1> QED  BY <1>1, <1>2, <1>3, HookStep, PTL DEF Hooks!Spec
=============================================================================
