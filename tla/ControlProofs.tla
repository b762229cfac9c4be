--------------------------- MODULE ControlProofs ----------------------------
(***************************************************************************)
(* Proofs about the contracts that decide who may do what, and when: the   *)
(* vault guard, governance, cross-chain governance, the timelock and the   *)
(* timelocked escrow.  They share no state; each is instantiated with      *)
(* variables of its own.                                                   *)
(*                                                                         *)
(* Every part has the same shape: what the constants must satisfy, the     *)
(* inductive invariant, a lemma per operation, and the theorems.           *)
(***************************************************************************)
EXTENDS Integers, Sequences, FiniteSets, TLAPS

-----------------------------------------------------------------------------
(* The vault guard *)

CONSTANTS Op, Delay, StopLedgers

VARIABLES guard, sLedger, since

Stop == INSTANCE VaultGuard WITH
    MaxLedger <- StopLedgers, state <- guard, ledger <- sLedger

GuardState ==
    [all_paused : BOOLEAN, ops : SUBSET Op, paused_at : Nat, tripped : BOOLEAN]

\* The start of the window is never before the latest pause or trip, unless
\* resume_operations has forgotten it.
StopInv ==
    /\ guard \in GuardState
    /\ sLedger \in Nat /\ since \in Nat
    /\ since <= sLedger
    /\ guard.all_paused /\ guard.paused_at # 0 => guard.paused_at >= since

\* Every entry of the vault guard keeps the window, and lifts a stop only when
\* it is over.
LEMMA StopStep ==
    ASSUME Delay \in Nat, StopInv, [Stop!Next]_(Stop!vars)
    PROVE  /\ StopInv'
           /\ [/\ guard.all_paused /\ ~guard'.all_paused /\ guard.paused_at # 0
                     => sLedger - since >= Delay
               /\ guard.tripped /\ ~guard'.tripped => ~guard.all_paused]_(Stop!vars)
<1> USE DEF StopInv, GuardState
<1>1. CASE Stop!pause
  <2>1. guard' \in GuardState
    BY <1>1, Zenon DEF Stop!pause
  <2>2. guard'.all_paused = TRUE /\ guard'.paused_at = sLedger /\ guard'.tripped = guard.tripped
    BY <1>1 DEF Stop!pause
  <2> QED  BY <1>1, <2>1, <2>2 DEF Stop!pause
<1>2. CASE Stop!unpause
  <2>1. guard' \in GuardState
    BY <1>2, Zenon DEF Stop!unpause
  <2>2. guard'.all_paused = FALSE /\ guard'.paused_at = 0 /\ guard'.tripped = guard.tripped
    BY <1>2 DEF Stop!unpause
  <2> QED  BY <1>2, <2>1, <2>2 DEF Stop!unpause
<1>3. CASE Stop!trip
  <2>1. guard' \in GuardState
    BY <1>3, Zenon DEF Stop!trip
  <2>2. guard'.all_paused = TRUE /\ guard'.paused_at = sLedger /\ guard'.tripped = TRUE
    BY <1>3 DEF Stop!trip
  <2> QED  BY <1>3, <2>1, <2>2 DEF Stop!trip
<1>4. CASE Stop!reset_trip
  BY <1>4, Zenon DEF Stop!reset_trip
<1>5. CASE Stop!Tick
  BY <1>5 DEF Stop!Tick
<1>6. ASSUME NEW mask \in SUBSET Op, Stop!pause_operations(mask)
      PROVE  /\ StopInv'
             /\ guard'.all_paused = guard.all_paused /\ guard'.tripped = guard.tripped
  BY <1>6, Zenon DEF Stop!pause_operations
<1>7. ASSUME NEW mask \in SUBSET Op, Stop!resume_operations(mask)
      PROVE  /\ StopInv'
             /\ guard'.all_paused = guard.all_paused /\ guard'.tripped = guard.tripped
  BY <1>7, Zenon DEF Stop!resume_operations
<1>8. CASE UNCHANGED Stop!vars
  BY <1>8 DEF Stop!vars
<1> QED  BY <1>1, <1>2, <1>3, <1>4, <1>5, <1>6, <1>7, <1>8 DEF Stop!Next

\* A trip during a pause starts the waiting time again: a global pause is
\* lifted only Delay ledgers after the latest pause or trip, except through the
\* start that resume_operations forgets, and a trip ends after the pause.
THEOREM StopTripHolds == Delay \in Nat /\ Stop!Spec => Stop!TripHolds
<1>1. Delay \in Nat /\ Stop!Init => StopInv
  BY DEF Stop!Init, StopInv, GuardState
<1>2. Delay \in Nat /\ StopInv /\ [Stop!Next]_(Stop!vars) =>
        /\ StopInv'
        /\ [/\ guard.all_paused /\ ~guard'.all_paused /\ guard.paused_at # 0
                  => sLedger - since >= Delay
            /\ guard.tripped /\ ~guard'.tripped => ~guard.all_paused]_(Stop!vars)
  BY StopStep
<1>3. Delay \in Nat => (Delay \in Nat)'
  OBVIOUS
<1> QED  BY <1>1, <1>2, <1>3, PTL DEF Stop!Spec, Stop!TripHolds

-----------------------------------------------------------------------------
(* Cross-chain governance *)

CONSTANTS Source, Protocol, Execution, Key, Height, BridgeDelays, MaxSequence,
          BridgeTime

VARIABLES sent, outbound, inbound, processed, trusted, enabled, bPaused,
          delay, executions, synced, roots, latestRoot, bNow, applied, called

Bridge == INSTANCE CrossChainGovernance WITH
    Delays <- BridgeDelays, MaxTime <- BridgeTime, paused <- bPaused,
    latest <- latestRoot, now <- bNow, invoked <- called

\* A source numbers what it sends, and says what kind of thing it is about.
Message ==
    [source : Source, sequence : Nat, kind : {"execution"}, key : Execution] \union
    [source : Source, sequence : Nat, kind : Bridge!SyncKind, key : Key] \union
    [source : Source, sequence : Nat, kind : {"root"}, key : Height]

Record == [status : {"none", "Queued", "Executed", "Cancelled"}, after : Nat]

\* The records one source alone writes.
Own == {"proposal", "power"} \X Key \X Source

BridgeTypeOK ==
    /\ sent \subseteq Message
    /\ outbound \in [Source -> Nat]
    /\ inbound \in [Source -> Nat]
    /\ delay \in BridgeDelays /\ bNow \in Nat
    /\ executions \in [Execution -> Record]
    /\ synced \in [Bridge!Slots -> Nat]
    /\ applied \in Seq(Message)
    /\ called \in Seq(Execution)

\* What was applied is numbered up to the number reached, without repetition.
Numbers ==
    /\ \A i \in 1..Len(applied) : applied[i].sequence <= inbound[applied[i].source]
    /\ \A i, j \in 1..Len(applied) :
          applied[i].source = applied[j].source /\ applied[i].sequence = applied[j].sequence => i = j

\* Message m is about record x.
About(m, x) == m.kind = x[1] /\ m.key = x[2] /\ m.source = x[3]

\* A record holds the highest number applied to it.
Highest ==
    \A x \in Own :
       /\ \A i \in 1..Len(applied) : About(applied[i], x) => applied[i].sequence <= synced[x]
       /\ synced[x] = 0 \/ \E i \in 1..Len(applied) : About(applied[i], x) /\ applied[i].sequence = synced[x]

Calls ==
    /\ \A i, j \in 1..Len(called) : called[i] = called[j] => i = j
    /\ \A i \in 1..Len(called) : executions[called[i]].status = "Executed"

BridgeInv == BridgeTypeOK /\ Numbers /\ Highest /\ Calls

\* The fields of a message.
LEMMA MessageFields ==
    ASSUME NEW m \in Message
    PROVE  /\ m.source \in Source /\ m.sequence \in Nat
           /\ m.kind = "execution" => m.key \in Execution
           /\ m.kind \in Bridge!SyncKind => m.key \in Key
  BY DEF Message, Bridge!SyncKind

\* A record of three parts is one that a single source writes.
LEMMA OwnSlots ==
    ASSUME NEW x
    PROVE  /\ x \in Bridge!Slots /\ Len(x) = 3 <=> x \in Own
           /\ x \in Own => x = <<x[1], x[2], x[3]>> /\ x[3] \in Source
<1>1. ASSUME NEW k \in Key  PROVE Len(<<"parameter", k>>) = 2
  OBVIOUS
<1>2. x \in Own => x = <<x[1], x[2], x[3]>> /\ x[3] \in Source /\ Len(x) = 3
  BY DEF Own
<1> QED  BY <1>1, <1>2 DEF Own, Bridge!Slots

\* What recording a message leaves, whatever is done with it then.
LEMMA Recorded ==
    ASSUME BridgeInv, NEW m \in sent, NEW p, Bridge!verify_and_record_message(m, p)
    PROVE  /\ m \in Message /\ m.sequence > inbound[m.source]
           /\ sent' \subseteq Message /\ outbound' \in [Source -> Nat]
           /\ inbound' \in [Source -> Nat] /\ delay' \in BridgeDelays /\ bNow' \in Nat
           /\ applied' \in Seq(Message) /\ Len(applied') = Len(applied) + 1
           /\ \A i \in 1..Len(applied) : applied'[i] = applied[i]
           /\ applied'[Len(applied) + 1] = m
           /\ Numbers'
<1>1. /\ m \in Message /\ m.sequence > inbound[m.source]
      /\ inbound' = [inbound EXCEPT ![m.source] = m.sequence]
      /\ applied' = Append(applied, m)
      /\ UNCHANGED <<sent, outbound, delay, bNow>>
  BY DEF Bridge!verify_and_record_message, Bridge!config, BridgeInv, BridgeTypeOK
<1>2. m.source \in Source /\ m.sequence \in Nat
  BY <1>1, MessageFields
<1>3. inbound \in [Source -> Nat] /\ inbound' \in [Source -> Nat]
  BY <1>1, <1>2 DEF BridgeInv, BridgeTypeOK
<1>4. /\ applied' \in Seq(Message) /\ Len(applied') = Len(applied) + 1
      /\ \A i \in 1..Len(applied) : applied'[i] = applied[i] /\ applied[i] \in Message
      /\ applied'[Len(applied) + 1] = m
      /\ Len(applied) \in Nat
  BY <1>1 DEF BridgeInv, BridgeTypeOK
<1>5. ASSUME NEW i \in 1..Len(applied)
      PROVE  /\ applied[i].source \in Source /\ applied[i].sequence \in Nat
             /\ applied[i].sequence <= inbound[applied[i].source]
  BY <1>4, MessageFields DEF BridgeInv, Numbers
<1>6. ASSUME NEW i \in 1..Len(applied')
      PROVE  applied'[i].sequence <= inbound'[applied'[i].source]
  <2>1. CASE i = Len(applied) + 1
    BY <2>1, <1>1, <1>2, <1>3, <1>4
  <2>2. CASE i \in 1..Len(applied)
    BY <2>2, <1>1, <1>2, <1>3, <1>4, <1>5
  <2> QED  BY <2>1, <2>2, <1>4
<1>7. ASSUME NEW i \in 1..Len(applied)
      PROVE  ~(applied[i].source = m.source /\ applied[i].sequence = m.sequence)
  BY <1>1, <1>2, <1>3, <1>5
<1>8. ASSUME NEW i \in 1..Len(applied'), NEW j \in 1..Len(applied'),
             applied'[i].source = applied'[j].source, applied'[i].sequence = applied'[j].sequence
      PROVE  i = j
  <2>1. CASE i \in 1..Len(applied) /\ j \in 1..Len(applied)
    BY <2>1, <1>8, <1>4 DEF BridgeInv, Numbers
  <2>2. CASE i = Len(applied) + 1 /\ j \in 1..Len(applied)
    BY <2>2, <1>8, <1>4, <1>7
  <2>3. CASE i \in 1..Len(applied) /\ j = Len(applied) + 1
    BY <2>3, <1>8, <1>4, <1>7
  <2> QED  BY <2>1, <2>2, <2>3, <1>4
<1>9. Numbers'
  BY <1>6, <1>8 DEF Numbers
<1> QED  BY <1>1, <1>3, <1>4, <1>9 DEF BridgeInv, BridgeTypeOK

\* Recording a message keeps the records right, when it is stored in its own
\* record or is of a kind that has none.
LEMMA HighestKept ==
    ASSUME BridgeInv, NEW m \in sent, NEW p, Bridge!verify_and_record_message(m, p),
           \A x \in Own : synced'[x] = IF x = <<m.kind, m.key, m.source>> THEN m.sequence ELSE synced[x]
    PROVE  Highest'
<1> SUFFICES ASSUME NEW x \in Own
             PROVE  /\ \A i \in 1..Len(applied') : About(applied'[i], x) => applied'[i].sequence <= synced'[x]
                    /\ \/ synced'[x] = 0
                       \/ \E i \in 1..Len(applied') : About(applied'[i], x) /\ applied'[i].sequence = synced'[x]
  BY DEF Highest
<1> DEFINE n == Len(applied)
<1>1. /\ m \in Message /\ m.sequence > inbound[m.source]
      /\ n \in Nat /\ Len(applied') = n + 1
      /\ \A i \in 1..n : applied'[i] = applied[i] /\ applied[i] \in Message
      /\ applied'[n + 1] = m
  BY Recorded DEF BridgeInv, BridgeTypeOK
<1>2. m.source \in Source /\ m.sequence \in Nat
  BY <1>1, MessageFields
<1>3. inbound \in [Source -> Nat] /\ synced[x] \in Nat
  BY OwnSlots DEF BridgeInv, BridgeTypeOK
<1>4. \A i \in 1..n : About(applied'[i], x) <=> About(applied[i], x)
  BY <1>1
<1>5. About(applied'[n + 1], x) <=> x = <<m.kind, m.key, m.source>>
  BY <1>1, OwnSlots DEF About
<1>6. /\ \A i \in 1..n : About(applied[i], x) => applied[i].sequence <= synced[x]
      /\ synced[x] = 0 \/ \E i \in 1..n : About(applied[i], x) /\ applied[i].sequence = synced[x]
  BY DEF BridgeInv, Highest
<1>7. CASE x # <<m.kind, m.key, m.source>>
  <2>1. synced'[x] = synced[x]
    BY <1>7
  <2> HIDE DEF n
  <2>2. \A i \in 1..Len(applied') : About(applied'[i], x) => i \in 1..n
    BY <1>1, <1>5, <1>7
  <2>3. 1..n \subseteq 1..Len(applied')
    BY <1>1
  <2> QED  BY <1>1, <1>4, <1>6, <2>1, <2>2, <2>3
<1>8. CASE x = <<m.kind, m.key, m.source>>
  <2>1. synced'[x] = m.sequence /\ x[3] = m.source
    BY <1>8
  <2>2. \A i \in 1..n : About(applied[i], x) => applied[i].sequence < m.sequence
    <3> SUFFICES ASSUME NEW i \in 1..n, About(applied[i], x) PROVE applied[i].sequence < m.sequence
      OBVIOUS
    <3>1. applied[i].source = m.source /\ applied[i].sequence \in Nat
      BY <1>1, <2>1, MessageFields DEF About
    <3>2. applied[i].sequence <= inbound[m.source]
      BY <3>1 DEF BridgeInv, Numbers
    <3> QED  BY <1>1, <1>2, <1>3, <3>1, <3>2
  <2>3. n + 1 \in 1..Len(applied') /\ About(applied'[n + 1], x) /\ applied'[n + 1].sequence = synced'[x]
    BY <1>1, <1>5, <1>8, <2>1
  <2>4. ASSUME NEW i \in 1..Len(applied'), About(applied'[i], x)
        PROVE  applied'[i].sequence <= synced'[x]
    <3>1. CASE i = n + 1
      BY <3>1, <1>1, <1>2, <2>1
    <3>2. CASE i \in 1..n
      <4>1. About(applied[i], x) /\ applied'[i] = applied[i] /\ applied[i].sequence \in Nat
        BY <3>2, <2>4, <1>1, <1>4, MessageFields
      <4>2. applied[i].sequence < m.sequence
        BY <3>2, <4>1, <2>2
      <4> QED  BY <4>1, <4>2, <2>1, <1>2
    <3> QED  BY <3>1, <3>2, <1>1
  <2> HIDE DEF n
  <2> QED  BY <2>3, <2>4
<1> QED  BY <1>7, <1>8

\* One more invocation, of an execution that was not invoked before.
LEMMA Invoking ==
    ASSUME BridgeInv, NEW e \in Execution, executions[e].status # "Executed",
           called' = Append(called, e),
           executions'[e].status = "Executed",
           \A d \in Execution : d # e => executions'[d] = executions[d]
    PROVE  Calls' /\ called' \in Seq(Execution)
<1> DEFINE n == Len(called)
<1>1. /\ called' \in Seq(Execution) /\ n \in Nat /\ Len(called') = n + 1 /\ called'[n + 1] = e
      /\ \A i \in 1..n : called'[i] = called[i] /\ called[i] \in Execution
  BY DEF BridgeInv, BridgeTypeOK
<1>2. \A i \in 1..n : called[i] # e /\ executions[called[i]].status = "Executed"
  BY DEF BridgeInv, Calls
<1>3. \A i, j \in 1..n : called[i] = called[j] => i = j
  BY DEF BridgeInv, Calls
<1> HIDE DEF n
<1>4. \A i \in 1..Len(called') : i \in 1..n \/ i = n + 1
  BY <1>1
<1>5. \A i, j \in 1..Len(called') : called'[i] = called'[j] => i = j
  BY <1>1, <1>2, <1>3, <1>4
<1>6. \A i \in 1..Len(called') : executions'[called'[i]].status = "Executed"
  BY <1>1, <1>2, <1>4
<1> QED  BY <1>1, <1>5, <1>6 DEF Calls

\* An execution that was not invoked changes, and no other.
LEMMA NotInvoking ==
    ASSUME BridgeInv, NEW e \in Execution, executions[e].status # "Executed",
           called' = called,
           \A d \in Execution : d # e => executions'[d] = executions[d]
    PROVE  Calls' /\ called' \in Seq(Execution)
<1>1. \A i \in 1..Len(called) : called[i] \in Execution /\ called[i] # e
  BY DEF BridgeInv, BridgeTypeOK, Calls
<1> QED  BY <1>1 DEF BridgeInv, BridgeTypeOK, Calls

\* A source numbers a new message one above its last.
LEMMA SendStep ==
    ASSUME BridgeInv, NEW s \in Source, NEW kind, NEW key, Bridge!Send(s, kind, key),
           \A n \in Nat : [source |-> s, sequence |-> n, kind |-> kind, key |-> key] \in Message
    PROVE  BridgeInv'
<1>1. /\ outbound \in [Source -> Nat] /\ outbound' = [outbound EXCEPT ![s] = outbound[s] + 1]
      /\ sent' = sent \union {[source |-> s, sequence |-> outbound[s] + 1, kind |-> kind, key |-> key]}
      /\ UNCHANGED <<inbound, delay, executions, synced, called, bNow, applied>>
  BY DEF Bridge!Send, Bridge!config, Bridge!books, BridgeInv, BridgeTypeOK
<1>2. outbound[s] + 1 \in Nat
  BY <1>1
<1>3. BridgeTypeOK'
  BY <1>1, <1>2 DEF BridgeInv, BridgeTypeOK
<1> QED  BY <1>1, <1>3 DEF BridgeInv, Numbers, Highest, Calls

\* receive_and_execute records the message and queues it, or runs it at once
\* when there is no delay.
LEMMA ReceiveStep ==
    ASSUME BridgeDelays \subseteq Nat, BridgeInv, NEW m \in sent, NEW p, Bridge!receive_and_execute(m, p)
    PROVE  BridgeInv'
<1> DEFINE r == [status |-> IF delay > 0 THEN "Queued" ELSE "Executed", after |-> bNow + delay]
<1>1. /\ m.kind = "execution" /\ Bridge!verify_and_record_message(m, p)
      /\ executions[m.key] = Bridge!None
      /\ executions' = [executions EXCEPT ![m.key] = r]
      /\ called' = IF delay > 0 THEN called ELSE Append(called, m.key)
      /\ synced' = synced
  BY DEF Bridge!receive_and_execute
<1>2. m \in Message /\ m.key \in Execution
  BY <1>1, Recorded, MessageFields
<1>3. delay \in Nat /\ bNow \in Nat /\ executions \in [Execution -> Record]
  BY DEF BridgeInv, BridgeTypeOK
<1>4. r \in Record /\ r.status = IF delay > 0 THEN "Queued" ELSE "Executed"
  BY <1>3 DEF Record
<1> HIDE DEF r
<1>5. executions[m.key].status # "Executed"
  BY <1>1 DEF Bridge!None
<1>6. executions' \in [Execution -> Record] /\ \A d \in Execution : d # m.key => executions'[d] = executions[d]
  BY <1>1, <1>2, <1>3, <1>4
<1>7. Calls' /\ called' \in Seq(Execution)
  <2>1. CASE delay > 0
    BY <2>1, <1>1, <1>2, <1>5, <1>6, NotInvoking
  <2>2. CASE ~(delay > 0)
    <3>1. executions'[m.key].status = "Executed"
      BY <2>2, <1>1, <1>2, <1>3, <1>4
    <3> QED  BY <2>2, <3>1, <1>1, <1>2, <1>5, <1>6, Invoking
  <2> QED  BY <2>1, <2>2
<1>8. \A x \in Own : x # <<m.kind, m.key, m.source>>
  BY <1>1 DEF Own
<1>9. Highest'
  BY <1>1, <1>8, HighestKept
<1>10. BridgeTypeOK' /\ Numbers'
  BY <1>1, <1>6, <1>7, Recorded DEF BridgeInv, BridgeTypeOK
<1> QED  BY <1>7, <1>9, <1>10 DEF BridgeInv

\* A message that is stored in a record or sets a root.
LEMMA SyncStep ==
    ASSUME BridgeInv, NEW m \in sent, NEW p, Bridge!verify_and_record_message(m, p),
           synced' \in [Bridge!Slots -> Nat], UNCHANGED <<executions, called>>,
           \A x \in Own : synced'[x] = IF x = <<m.kind, m.key, m.source>> THEN m.sequence ELSE synced[x]
    PROVE  BridgeInv'
<1>1. Highest'
  BY HighestKept
<1>2. Calls'
  BY DEF BridgeInv, Calls
<1>3. BridgeTypeOK' /\ Numbers'
  BY Recorded DEF BridgeInv, BridgeTypeOK
<1> QED  BY <1>1, <1>2, <1>3 DEF BridgeInv

\* A proposal or voting power of the message's own source is synced.
LEMMA SyncOwnStep ==
    ASSUME BridgeInv, NEW m \in sent, NEW p, m.kind \in {"proposal", "power"}, Bridge!Sync(m, p)
    PROVE  BridgeInv'
<1>1. /\ Bridge!verify_and_record_message(m, p) /\ UNCHANGED <<executions, called>>
      /\ synced' = [synced EXCEPT ![<<m.kind, m.key, m.source>>] = m.sequence]
  BY ZenonT(60) DEF Bridge!Sync, Bridge!Slot
<1>2. m \in Message /\ m.key \in Key /\ m.source \in Source /\ m.sequence \in Nat
  BY <1>1, Recorded, MessageFields DEF Bridge!SyncKind
<1>3. <<m.kind, m.key, m.source>> \in Own
  BY <1>2 DEF Own
<1>4. Own \subseteq Bridge!Slots
  BY DEF Own, Bridge!Slots
<1>5. synced \in [Bridge!Slots -> Nat]
  BY DEF BridgeInv, BridgeTypeOK
<1>6. /\ synced' \in [Bridge!Slots -> Nat]
      /\ \A x \in Own : synced'[x] = IF x = <<m.kind, m.key, m.source>> THEN m.sequence ELSE synced[x]
  BY <1>1, <1>2, <1>3, <1>4, <1>5
<1> QED  BY <1>1, <1>6, SyncStep

\* A parameter is synced; the slot it writes is shared by the sources.
LEMMA SyncParameterStep ==
    ASSUME BridgeInv, NEW m \in sent, NEW p, Bridge!sync_parameter(m, p)
    PROVE  BridgeInv'
<1>1. /\ m.kind = "parameter"
      /\ Bridge!verify_and_record_message(m, p) /\ UNCHANGED <<executions, called>>
      /\ synced' = [synced EXCEPT ![<<"parameter", m.key>>] = m.sequence]
  BY DEF Bridge!sync_parameter, Bridge!Sync, Bridge!Slot
<1>2. m \in Message /\ m.sequence \in Nat
  BY <1>1, Recorded, MessageFields
<1>3. \A x \in Own : x # <<"parameter", m.key>> /\ x # <<m.kind, m.key, m.source>>
  BY <1>1 DEF Own
<1>4. Own \subseteq Bridge!Slots
  BY DEF Own, Bridge!Slots
<1>5. synced \in [Bridge!Slots -> Nat]
  BY DEF BridgeInv, BridgeTypeOK
<1>6. /\ synced' \in [Bridge!Slots -> Nat]
      /\ \A x \in Own : synced'[x] = synced[x]
  BY <1>1, <1>2, <1>3, <1>4, <1>5, Zenon
<1> QED  BY <1>1, <1>3, <1>6, SyncStep

\* A state root is synced; it writes none of the slots.
LEMMA SyncRootStep ==
    ASSUME BridgeInv, NEW m \in sent, NEW p, Bridge!sync_state_root(m, p)
    PROVE  BridgeInv'
<1>1. /\ m.kind = "root" /\ Bridge!verify_and_record_message(m, p)
      /\ UNCHANGED <<executions, synced, called>>
  BY DEF Bridge!sync_state_root
<1>2. \A x \in Own : x # <<m.kind, m.key, m.source>>
  BY <1>1 DEF Own
<1>3. synced' \in [Bridge!Slots -> Nat]
  BY <1>1 DEF BridgeInv, BridgeTypeOK
<1> QED  BY <1>1, <1>2, <1>3, SyncStep

\* A queued execution is run, or cancelled.
LEMMA QueuedStep ==
    ASSUME BridgeInv, NEW e \in Execution, Bridge!execute_queued(e) \/ Bridge!cancel_queued(e)
    PROVE  BridgeInv'
<1>1. executions \in [Execution -> Record] /\ executions[e].status = "Queued"
  BY DEF Bridge!execute_queued, Bridge!cancel_queued, BridgeInv, BridgeTypeOK
<1>2. UNCHANGED <<sent, outbound, inbound, delay, synced, bNow, applied>>
  BY DEF Bridge!execute_queued, Bridge!cancel_queued, Bridge!config
<1>3. Numbers' /\ Highest'
  BY <1>2 DEF BridgeInv, Numbers, Highest
<1>4. CASE Bridge!execute_queued(e)
  <2>1. /\ executions' = [executions EXCEPT ![e] = [executions[e] EXCEPT !.status = "Executed"]]
        /\ called' = Append(called, e)
    BY <1>4, <1>1 DEF Bridge!execute_queued
  <2>2. /\ executions' \in [Execution -> Record] /\ executions'[e].status = "Executed"
        /\ \A d \in Execution : d # e => executions'[d] = executions[d]
    BY <2>1, <1>1 DEF Record
  <2>3. Calls' /\ called' \in Seq(Execution)
    BY <2>1, <2>2, <1>1, Invoking
  <2> QED  BY <2>2, <2>3, <1>2, <1>3 DEF BridgeInv, BridgeTypeOK
<1>5. CASE Bridge!cancel_queued(e)
  <2>1. /\ executions' = [executions EXCEPT ![e] = [executions[e] EXCEPT !.status = "Cancelled"]]
        /\ called' = called
    BY <1>5, <1>1 DEF Bridge!cancel_queued
  <2>2. /\ executions' \in [Execution -> Record]
        /\ \A d \in Execution : d # e => executions'[d] = executions[d]
    BY <2>1, <1>1 DEF Record
  <2>3. Calls' /\ called' \in Seq(Execution)
    BY <2>1, <2>2, <1>1, NotInvoking
  <2> QED  BY <2>2, <2>3, <1>2, <1>3 DEF BridgeInv, BridgeTypeOK
<1> QED  BY <1>4, <1>5

\* The settings and the clock.
LEMMA SettingStep ==
    ASSUME BridgeInv, delay' \in BridgeDelays, bNow' \in Nat,
           UNCHANGED <<sent, outbound, inbound, executions, synced, applied, called>>
    PROVE  BridgeInv'
  BY DEF BridgeInv, BridgeTypeOK, Numbers, Highest, Calls

\* Every step keeps the invariant.
LEMMA BridgeStep ==
    ASSUME BridgeDelays \subseteq Nat, BridgeInv, [Bridge!Next]_(Bridge!vars)
    PROVE  BridgeInv'
<1>0. delay \in BridgeDelays /\ bNow \in Nat
  BY DEF BridgeInv, BridgeTypeOK
<1>1. ASSUME NEW s \in Source, NEW e \in Execution, Bridge!dispatch_remote_execution(s, e)
      PROVE  BridgeInv'
  <2>1. \A n \in Nat : [source |-> s, sequence |-> n, kind |-> "execution", key |-> e] \in Message
    BY DEF Message
  <2> QED  BY <1>1, <2>1, SendStep DEF Bridge!dispatch_remote_execution
<1>2. ASSUME NEW s \in Source, NEW k \in Key,
             \/ Bridge!broadcast_proposal_state(s, k) \/ Bridge!broadcast_voting_power(s, k)
             \/ Bridge!broadcast_parameter(s, k)
      PROVE  BridgeInv'
  <2>1. \A n \in Nat, kind \in Bridge!SyncKind :
           [source |-> s, sequence |-> n, kind |-> kind, key |-> k] \in Message
    BY DEF Message
  <2>2. "proposal" \in Bridge!SyncKind /\ "power" \in Bridge!SyncKind /\ "parameter" \in Bridge!SyncKind
    BY DEF Bridge!SyncKind
  <2>3. PICK kind \in Bridge!SyncKind : Bridge!Send(s, kind, k)
    BY <1>2, <2>2 DEF Bridge!broadcast_proposal_state, Bridge!broadcast_voting_power,
       Bridge!broadcast_parameter
  <2> QED  BY <2>1, <2>3, SendStep
<1>3. ASSUME NEW s \in Source, NEW h \in Height, Bridge!broadcast_state_root(s, h)
      PROVE  BridgeInv'
  <2>1. \A n \in Nat : [source |-> s, sequence |-> n, kind |-> "root", key |-> h] \in Message
    BY DEF Message
  <2> QED  BY <1>3, <2>1, SendStep DEF Bridge!broadcast_state_root
<1>4. ASSUME NEW m \in sent, NEW p \in Protocol, Bridge!receive_and_execute(m, p)
      PROVE  BridgeInv'
  BY <1>4, ReceiveStep
<1>5. ASSUME NEW m \in sent, NEW p \in Protocol, Bridge!sync_state_root(m, p)
      PROVE  BridgeInv'
  BY <1>5, SyncRootStep
<1>6. ASSUME NEW m \in sent, NEW p \in Protocol,
             Bridge!sync_proposal_state(m, p) \/ Bridge!sync_voting_power(m, p)
      PROVE  BridgeInv'
  BY <1>6, SyncOwnStep DEF Bridge!sync_proposal_state, Bridge!sync_voting_power
<1>7. ASSUME NEW m \in sent, NEW p \in Protocol, Bridge!sync_parameter(m, p)
      PROVE  BridgeInv'
  BY <1>7, SyncParameterStep
<1>8. ASSUME NEW e \in Execution, Bridge!execute_queued(e) \/ Bridge!cancel_queued(e)
      PROVE  BridgeInv'
  BY <1>8, QueuedStep
<1>9. ASSUME NEW s \in Source, NEW on \in BOOLEAN, Bridge!set_trusted_sender(s, on)
      PROVE  BridgeInv'
  BY <1>0, <1>9, SettingStep DEF Bridge!set_trusted_sender, Bridge!books
<1>10. ASSUME NEW p \in Protocol, NEW on \in BOOLEAN, Bridge!set_bridge_protocol(p, on)
       PROVE  BridgeInv'
  BY <1>0, <1>10, SettingStep DEF Bridge!set_bridge_protocol, Bridge!books
<1>11. ASSUME NEW on \in BOOLEAN, Bridge!set_paused(on)
       PROVE  BridgeInv'
  BY <1>0, <1>11, SettingStep DEF Bridge!set_paused, Bridge!books
<1>12. ASSUME NEW d \in BridgeDelays, Bridge!set_execution_delay(d)
       PROVE  BridgeInv'
  BY <1>0, <1>12, SettingStep DEF Bridge!set_execution_delay, Bridge!books
<1>13. CASE Bridge!Tick
  BY <1>0, <1>13, SettingStep DEF Bridge!Tick, Bridge!books, Bridge!config
<1>14. CASE UNCHANGED Bridge!vars
  BY <1>0, <1>14, SettingStep DEF Bridge!vars, Bridge!books, Bridge!config
<1> QED  BY <1>1, <1>2, <1>3, <1>4, <1>5, <1>6, <1>7, <1>8, <1>9, <1>10, <1>11, <1>12,
            <1>13, <1>14, SMTT(30)
         DEF Bridge!Next

\* Nothing is sent, applied or synced.
LEMMA BridgeInit == Bridge!Init => BridgeInv
<1> SUFFICES ASSUME Bridge!Init PROVE BridgeInv
  OBVIOUS
<1>1. Bridge!None \in Record
  BY DEF Bridge!None, Record
<1>2. BridgeTypeOK
  BY <1>1 DEF Bridge!Init, BridgeTypeOK
<1>3. \A x \in Own : synced[x] = 0
  BY OwnSlots DEF Bridge!Init
<1> QED  BY <1>2, <1>3 DEF Bridge!Init, BridgeInv, Numbers, Highest, Calls

\* What the invariant says of the records and of the history.
LEMMA BridgePromise ==
    ASSUME BridgeInv
    PROVE  Bridge!NoStaleOverwrite /\ Bridge!AppliedOnce
<1>1. applied \in Seq(Message) /\ DOMAIN applied = 1..Len(applied) /\ DOMAIN called = 1..Len(called)
  BY DEF BridgeInv, BridgeTypeOK
<1>2. ASSUME NEW x \in Bridge!Slots, Len(x) = 3
      PROVE  synced[x] = Bridge!Max({0} \union {applied[i].sequence : i \in Bridge!AppliedTo(x)})
  <2> DEFINE S == {0} \union {applied[i].sequence : i \in Bridge!AppliedTo(x)}
  <2>1. x \in Own /\ x = <<x[1], x[2], x[3]>> /\ x[1] \in {"proposal", "power"}
    BY <1>2, OwnSlots DEF Own
  <2>2. ASSUME NEW i \in 1..Len(applied)
        PROVE  i \in Bridge!AppliedTo(x) <=> About(applied[i], x)
    <3>1. applied[i].kind = "parameter" => Bridge!Slot(applied[i]) # x
      BY <2>1 DEF Bridge!Slot
    <3>2. applied[i].kind # "parameter" => (Bridge!Slot(applied[i]) = x <=> About(applied[i], x))
      BY <2>1 DEF Bridge!Slot, About
    <3>3. About(applied[i], x) => applied[i].kind \in Bridge!SyncKind /\ applied[i].kind # "parameter"
      BY <2>1 DEF About, Bridge!SyncKind
    <3> QED  BY <1>1, <3>1, <3>2, <3>3 DEF Bridge!AppliedTo
  <2>3. \A i \in Bridge!AppliedTo(x) : i \in 1..Len(applied)
    BY <1>1 DEF Bridge!AppliedTo
  <2>4. synced[x] \in Nat /\ \A i \in 1..Len(applied) : applied[i].sequence \in Nat
    BY <1>1, MessageFields DEF BridgeInv, BridgeTypeOK
  <2>5. \A y \in S : y \in Nat /\ synced[x] >= y
    BY <2>1, <2>2, <2>3, <2>4 DEF BridgeInv, Highest
  <2>6. synced[x] \in S
    BY <2>1, <2>2, <2>3 DEF BridgeInv, Highest
  <2> HIDE DEF S
  <2>7. \E y \in S : \A z \in S : y >= z
    BY <2>5, <2>6
  <2>8. Bridge!Max(S) \in S /\ \A z \in S : Bridge!Max(S) >= z
    BY <2>7 DEF Bridge!Max
  <2>9. synced[x] = Bridge!Max(S)
    BY <2>5, <2>6, <2>8
  <2> QED  BY <2>9 DEF S
<1>3. Bridge!AppliedOnce
  BY <1>1 DEF BridgeInv, Numbers, Calls, Bridge!AppliedOnce
<1> QED  BY <1>2, <1>3 DEF Bridge!NoStaleOverwrite

\* The invariant of every behaviour.
LEMMA BridgeAlways == BridgeDelays \subseteq Nat /\ Bridge!Spec => []BridgeInv
<1>1. BridgeDelays \subseteq Nat /\ BridgeInv /\ [Bridge!Next]_(Bridge!vars) => BridgeInv'
  BY BridgeStep
<1>2. BridgeDelays \subseteq Nat => (BridgeDelays \subseteq Nat)'
  OBVIOUS
<1> QED  BY <1>1, <1>2, BridgeInit, PTL DEF Bridge!Spec

\* An older message of a chain never overwrites a newer one.
NoStaleOverwrite == Bridge!NoStaleOverwrite

\* What one source last said of a proposal or a voter is what the contract
\* holds, for any number of chains, protocols and messages.
THEOREM BridgeNoStaleOverwrite == BridgeDelays \subseteq Nat /\ Bridge!Spec => []NoStaleOverwrite
<1>1. BridgeInv => NoStaleOverwrite
  BY BridgePromise DEF NoStaleOverwrite
<1> QED  BY <1>1, BridgeAlways, PTL

\* A message is applied once and an execution invoked at most once, and never
\* after it was cancelled.
THEOREM BridgeAppliedOnce == BridgeDelays \subseteq Nat /\ Bridge!Spec => []Bridge!AppliedOnce
<1>1. BridgeInv => Bridge!AppliedOnce
  BY BridgePromise
<1> QED  BY <1>1, BridgeAlways, PTL

-----------------------------------------------------------------------------
(* The timelock *)

CONSTANTS OpId, Account, Delays, MaxTime, MaxRequeue

VARIABLES delays, ops, now, stack, saved, invoked

Timelock == INSTANCE TimelockController WITH config <- delays

Status == {"None", "Pending", "Executing", "Done", "Canceled"}
OperationRecord == [status : Status, ready_at : Nat, queued_at : Nat, delay : Nat, times : Nat]

Configs ==
    {[min_delay |-> 0]} \union
    [admin : Account, proposer : Account, executor : Account, canceller : Account, min_delay : Nat]

\* What a transaction reads and a failing one restores.
StoreOK(c, p, v) ==
    /\ c \in Configs
    /\ p \in [OpId -> OperationRecord]
    /\ v \in [OpId -> {0, 1}]
    /\ \A o \in OpId : (p[o].status = "Done") = (v[o] = 1)
    /\ \A o \in OpId : p[o].status \in {"Pending", "Executing"} =>
          p[o].ready_at = p[o].queued_at + p[o].delay

\* An operation is on the stack exactly while it is Executing, once.
StackOK ==
    /\ stack \in Seq(OpId)
    /\ \A i, j \in 1..Len(stack) : stack[i] = stack[j] => i = j
    /\ \A o \in OpId :
          ops[o].status = "Executing" <=> \E i \in 1..Len(stack) : stack[i] = o

\* What a failing invocation restores was in order, with nothing under way.
SavedOK ==
    stack # <<>> =>
        /\ StoreOK(saved[1], saved[2], saved[3])
        /\ \A o \in OpId : saved[2][o].status # "Executing"

DueOK == \A o \in OpId : ops[o].status = "Executing" => now >= ops[o].ready_at

TimelockInv ==
    now \in Nat /\ StoreOK(delays, ops, invoked) /\ StackOK /\ SavedOK /\ DueOK

\* A stack with o on top.
LEMMA Pushed ==
    ASSUME NEW o \in OpId, NEW s \in Seq(OpId)
    PROVE  /\ <<o>> \o s \in Seq(OpId) /\ <<o>> \o s # <<>>
           /\ Len(<<o>> \o s) = Len(s) + 1
           /\ (<<o>> \o s)[1] = o
           /\ \A i \in 1..Len(s) : (<<o>> \o s)[i + 1] = s[i]
           /\ \A i \in 1..Len(<<o>> \o s) : i = 1 \/ (i - 1 \in 1..Len(s) /\ (<<o>> \o s)[i] = s[i - 1])
  OBVIOUS

\* A stack without its top.
LEMMA Popped ==
    ASSUME NEW s \in Seq(OpId), s # <<>>
    PROVE  /\ Tail(s) \in Seq(OpId) /\ Head(s) \in OpId /\ Head(s) = s[1]
           /\ Len(s) \in Nat \ {0}
           /\ Len(Tail(s)) = Len(s) - 1
           /\ \A i \in 1..Len(Tail(s)) : Tail(s)[i] = s[i + 1] /\ i + 1 \in 1..Len(s)
  OBVIOUS

\* queue writes a Pending entry that is due one delay from now.
LEMMA QueueStep ==
    ASSUME TimelockInv, NEW k \in Account, NEW o \in OpId, Timelock!queue(k, o)
    PROVE  TimelockInv'
<1> DEFINE r == [status |-> "Pending", queued_at |-> now, ready_at |-> now + delays.min_delay,
                 delay |-> delays.min_delay, times |-> ops[o].times + 1]
<1>1. /\ now \in Nat /\ delays \in Configs /\ ops \in [OpId -> OperationRecord]
      /\ ops[o].status \in {"None", "Canceled"}
      /\ ops' = [ops EXCEPT ![o] = r]
      /\ UNCHANGED <<delays, now, stack, saved, invoked>>
  BY SMTT(30) DEF Timelock!queue, TimelockInv, StoreOK
<1>2. delays.min_delay \in Nat /\ ops[o].times \in Nat
  BY <1>1, SMTT(30) DEF Configs, OperationRecord
<1>3. r \in OperationRecord /\ r.status = "Pending" /\ r.ready_at = r.queued_at + r.delay
  BY <1>1, <1>2, SMTT(30) DEF OperationRecord, Status
<1> HIDE DEF r
<1>4. StoreOK(delays, ops, invoked)'
  BY <1>1, <1>3, SMTT(30) DEF TimelockInv, StoreOK
<1>5. StackOK' /\ DueOK'
  BY <1>1, <1>3 DEF TimelockInv, StackOK, DueOK
<1>6. SavedOK'
  BY <1>1 DEF TimelockInv, SavedOK
<1> QED  BY <1>1, <1>4, <1>5, <1>6 DEF TimelockInv

\* execute marks the operation Executing and calls its target, which may call
\* back.
LEMMA ExecuteStep ==
    ASSUME TimelockInv, NEW k \in Account, NEW o \in OpId, Timelock!execute(k, o)
    PROVE  TimelockInv'
<1> DEFINE r == [ops[o] EXCEPT !.status = "Executing"]
<1>1. /\ ops \in [OpId -> OperationRecord] /\ stack \in Seq(OpId)
      /\ ops[o].status = "Pending" /\ now >= ops[o].ready_at
      /\ ops' = [ops EXCEPT ![o] = r]
      /\ stack' = <<o>> \o stack
      /\ saved' = IF stack = <<>> THEN <<delays, ops, invoked>> ELSE saved
      /\ UNCHANGED <<delays, now, invoked>>
  BY DEF Timelock!execute, Timelock!store, TimelockInv, StoreOK, StackOK
<1>2. /\ r \in OperationRecord /\ r.status = "Executing"
      /\ r.ready_at = ops[o].ready_at /\ r.queued_at = ops[o].queued_at /\ r.delay = ops[o].delay
  BY <1>1, Zenon DEF OperationRecord, Status
<1> HIDE DEF r
<1>3. StoreOK(delays, ops, invoked)'
  BY <1>1, <1>2 DEF TimelockInv, StoreOK
<1>4. DueOK'
  BY <1>1, <1>2 DEF TimelockInv, DueOK
<1>5. \A i \in 1..Len(stack) : stack[i] # o
  BY <1>1, SMTT(30) DEF TimelockInv, StackOK
<1>6. StackOK'
  <2>1. stack' \in Seq(OpId)
    BY <1>1, Pushed
  <2>2. ASSUME NEW i \in 1..Len(stack'), NEW j \in 1..Len(stack'), stack'[i] = stack'[j]
        PROVE  i = j
    <3>1. CASE i = 1 /\ j = 1
      BY <3>1
    <3>2. CASE i = 1 /\ j # 1
      BY <3>2, <2>2, <1>1, <1>5, Pushed, SMTT(30)
    <3>3. CASE i # 1 /\ j = 1
      BY <3>3, <2>2, <1>1, <1>5, Pushed
    <3>4. CASE i # 1 /\ j # 1
      <4>1. i - 1 \in 1..Len(stack) /\ j - 1 \in 1..Len(stack) /\ stack[i - 1] = stack[j - 1]
        BY <3>4, <2>2, <1>1, Pushed, SMTT(30)
      <4>2. i - 1 = j - 1
        BY <4>1, SMTT(30) DEF TimelockInv, StackOK
      <4> QED  BY <4>2
    <3> QED  BY <3>1, <3>2, <3>3, <3>4
  <2>3. ASSUME NEW q \in OpId
        PROVE  ops'[q].status = "Executing" <=> \E i \in 1..Len(stack') : stack'[i] = q
    <3>1. CASE q = o
      <4>1. 1 \in 1..Len(stack') /\ stack'[1] = o
        BY <1>1, Pushed
      <4> QED  BY <3>1, <4>1, <1>1, <1>2
    <3>2. CASE q # o
      <4>1. ops'[q] = ops[q]
        BY <3>2, <1>1
      <4>2. ASSUME NEW i \in 1..Len(stack), stack[i] = q
            PROVE  \E j \in 1..Len(stack') : stack'[j] = q
        <5>1. i + 1 \in 1..Len(stack') /\ stack'[i + 1] = q
          BY <4>2, <1>1, Pushed
        <5> QED  BY <5>1
      <4>3. ASSUME NEW i \in 1..Len(stack'), stack'[i] = q
            PROVE  \E j \in 1..Len(stack) : stack[j] = q
        <5>1. i - 1 \in 1..Len(stack) /\ stack[i - 1] = q
          BY <4>3, <3>2, <1>1, Pushed
        <5> QED  BY <5>1, SMTT(30)
      <4>4. ops[q].status = "Executing" <=> \E i \in 1..Len(stack) : stack[i] = q
        BY DEF TimelockInv, StackOK
      <4> QED  BY <4>1, <4>2, <4>3, <4>4
    <3> QED  BY <3>1, <3>2
  <2> QED  BY <2>1, <2>2, <2>3, SMTT(30) DEF StackOK
<1>7. SavedOK'
  <2>1. CASE stack = <<>>
    <3>1. saved'[1] = delays /\ saved'[2] = ops /\ saved'[3] = invoked
      BY <2>1, <1>1, SMTT(30)
    <3>2. \A q \in OpId : ops[q].status # "Executing"
      BY <2>1 DEF TimelockInv, StackOK
    <3> QED  BY <3>1, <3>2 DEF TimelockInv, SavedOK
  <2>2. CASE stack # <<>>
    BY <2>2, <1>1 DEF TimelockInv, SavedOK
  <2> QED  BY <2>1, <2>2
<1> QED  BY <1>1, <1>3, <1>4, <1>6, <1>7 DEF TimelockInv

\* The innermost call returns, and its operation is Done.
LEMMA ReturnStep ==
    ASSUME TimelockInv, Timelock!ExecuteReturns
    PROVE  TimelockInv'
<1> DEFINE h == Head(stack)
           r == [ops[h] EXCEPT !.status = "Done"]
<1>1. /\ ops \in [OpId -> OperationRecord] /\ stack \in Seq(OpId) /\ stack # <<>>
      /\ invoked \in [OpId -> {0, 1}]
      /\ ops' = [ops EXCEPT ![h] = r]
      /\ invoked' = [invoked EXCEPT ![h] = invoked[h] + 1]
      /\ stack' = Tail(stack)
      /\ stack' # <<>> => saved' = saved
      /\ UNCHANGED <<delays, now>>
  BY DEF Timelock!ExecuteReturns, TimelockInv, StoreOK, StackOK
<1>2. h \in OpId /\ h = stack[1] /\ 1 \in 1..Len(stack)
  BY <1>1, Popped
<1> HIDE DEF h
<1>3. ops[h].status = "Executing"
  BY <1>2 DEF TimelockInv, StackOK
<1>4. invoked[h] = 0
  BY <1>1, <1>2, <1>3, SMTT(30) DEF TimelockInv, StoreOK
<1>5. r \in OperationRecord /\ r.status = "Done"
  <2>1. ops[h] \in OperationRecord
    BY <1>1, <1>2
  <2> QED  BY ONLY <2>1 DEF OperationRecord, Status
<1> HIDE DEF r
<1>6. StoreOK(delays, ops, invoked)'
  BY <1>1, <1>2, <1>4, <1>5 DEF TimelockInv, StoreOK
<1>7. DueOK'
  BY <1>1, <1>2, <1>5, SMTT(30) DEF TimelockInv, DueOK
<1>8. StackOK'
  <2>1. stack' \in Seq(OpId)
    BY <1>1, Popped
  <2>2. ASSUME NEW i \in 1..Len(stack'), NEW j \in 1..Len(stack'), stack'[i] = stack'[j]
        PROVE  i = j
    <3>1. /\ i + 1 \in 1..Len(stack) /\ j + 1 \in 1..Len(stack)
          /\ stack[i + 1] = stack[j + 1]
      BY <2>2, <1>1, Popped
    <3>2. i + 1 = j + 1
      BY <3>1 DEF TimelockInv, StackOK
    <3> QED  BY <3>2
  <2>3. ASSUME NEW i \in 1..Len(stack')
        PROVE  stack'[i] # h /\ i + 1 \in 1..Len(stack) /\ stack'[i] = stack[i + 1]
    <3>1. i + 1 \in 1..Len(stack) /\ stack'[i] = stack[i + 1]
      BY <1>1, Popped
    <3>2. stack[i + 1] # stack[1]
      BY <3>1, <1>2 DEF TimelockInv, StackOK
    <3> QED  BY <3>1, <3>2, <1>2
  <2>4. ASSUME NEW q \in OpId
        PROVE  ops'[q].status = "Executing" <=> \E i \in 1..Len(stack') : stack'[i] = q
    <3>1. CASE q = h
      BY <3>1, <2>3, <1>1, <1>2, <1>5
    <3>2. CASE q # h
      <4>1. ops'[q] = ops[q]
        BY <3>2, <1>1
      <4>2. ASSUME NEW i \in 1..Len(stack), stack[i] = q
            PROVE  \E j \in 1..Len(stack') : stack'[j] = q
        <5>1. i # 1 /\ i \in Nat /\ Len(stack) \in Nat /\ Len(stack') = Len(stack) - 1
          BY <4>2, <3>2, <1>1, <1>2, Popped
        <5>2. i - 1 \in 1..Len(stack')
          BY <5>1
        <5>3. stack'[i - 1] = stack[i - 1 + 1]
          BY <5>2, <2>3
        <5> QED  BY <5>1, <5>2, <5>3, <4>2
      <4>3. ops[q].status = "Executing" <=> \E i \in 1..Len(stack) : stack[i] = q
        BY DEF TimelockInv, StackOK
      <4> QED  BY <4>1, <4>2, <4>3, <2>3
    <3> QED  BY <3>1, <3>2
  <2> QED  BY <2>1, <2>2, <2>4 DEF StackOK
<1>9. SavedOK'
  BY <1>1 DEF TimelockInv, SavedOK
<1> QED  BY <1>1, <1>6, <1>7, <1>8, <1>9 DEF TimelockInv

\* A call fails: the transaction restores what it had read at its start.
LEMMA FailStep ==
    ASSUME TimelockInv, Timelock!ExecuteFails
    PROVE  TimelockInv'
<1>1. /\ delays' = saved[1] /\ ops' = saved[2] /\ invoked' = saved[3]
      /\ stack' = <<>> /\ now' = now
      /\ StoreOK(saved[1], saved[2], saved[3])
      /\ \A o \in OpId : saved[2][o].status # "Executing"
  BY DEF Timelock!ExecuteFails, TimelockInv, SavedOK
<1>2. StoreOK(delays, ops, invoked)'
  BY <1>1
<1>3. StackOK'
  BY <1>1 DEF StackOK
<1>4. DueOK' /\ SavedOK'
  BY <1>1 DEF DueOK, SavedOK
<1> QED  BY <1>1, <1>2, <1>3, <1>4 DEF TimelockInv

\* cancel ends a Pending operation.
LEMMA CancelStep ==
    ASSUME TimelockInv, NEW k \in Account, NEW o \in OpId, Timelock!cancel(k, o)
    PROVE  TimelockInv'
<1> DEFINE r == [ops[o] EXCEPT !.status = "Canceled"]
<1>1. /\ ops \in [OpId -> OperationRecord]
      /\ ops[o].status = "Pending"
      /\ ops' = [ops EXCEPT ![o] = r]
      /\ UNCHANGED <<delays, now, stack, saved, invoked>>
  BY DEF Timelock!cancel, TimelockInv, StoreOK
<1>2. r \in OperationRecord /\ r.status = "Canceled"
  BY <1>1 DEF OperationRecord, Status
<1> HIDE DEF r
<1>3. StoreOK(delays, ops, invoked)'
  BY <1>1, <1>2, SMTT(30) DEF TimelockInv, StoreOK
<1>4. StackOK' /\ DueOK'
  BY <1>1, <1>2 DEF TimelockInv, StackOK, DueOK
<1>5. SavedOK'
  BY <1>1 DEF TimelockInv, SavedOK
<1> QED  BY <1>1, <1>3, <1>4, <1>5 DEF TimelockInv

\* The calls that set the configuration.
LEMMA ConfigStep ==
    ASSUME TimelockInv, delays' \in Configs, UNCHANGED <<ops, now, stack, saved, invoked>>
    PROVE  TimelockInv'
<1>1. StoreOK(delays, ops, invoked)'
  BY DEF TimelockInv, StoreOK
<1> QED  BY <1>1 DEF TimelockInv, StackOK, SavedOK, DueOK

\* Every entry of the timelock keeps the invariant.
LEMMA TimelockStep ==
    ASSUME Delays \subseteq Nat, TimelockInv, [Timelock!Next]_(Timelock!vars)
    PROVE  TimelockInv'
<1>0. delays \in Configs
  BY DEF TimelockInv, StoreOK
<1>1. ASSUME NEW a \in Account, NEW p \in Account, NEW e \in Account, NEW c \in Account,
             NEW d \in Delays, Timelock!initialize(a, p, e, c, d)
      PROVE  TimelockInv'
  <2>1. delays' \in Configs
    BY <1>1, Zenon DEF Timelock!initialize, Configs
  <2> QED  BY <1>1, <2>1, ConfigStep DEF Timelock!initialize
<1>2. ASSUME NEW k \in Account, NEW o \in OpId,
             Timelock!queue(k, o) \/ Timelock!execute(k, o) \/ Timelock!cancel(k, o)
      PROVE  TimelockInv'
  BY <1>2, QueueStep, ExecuteStep, CancelStep
<1>3. ASSUME NEW k \in Account, NEW d \in Delays, Timelock!set_min_delay(k, d)
      PROVE  TimelockInv'
  <2>1. delays' \in Configs
    BY <1>0, <1>3 DEF Timelock!set_min_delay, Configs
  <2> QED  BY <1>3, <2>1, ConfigStep DEF Timelock!set_min_delay
<1>4. ASSUME NEW k \in Account, NEW p \in Account, NEW e \in Account, NEW c \in Account,
             Timelock!set_roles(k, p, e, c)
      PROVE  TimelockInv'
  <2>1. delays' \in Configs
    BY <1>0, <1>4, Zenon DEF Timelock!set_roles, Configs
  <2> QED  BY <1>4, <2>1, ConfigStep DEF Timelock!set_roles
<1>5. ASSUME NEW k \in Account, NEW a \in Account, Timelock!transfer_admin(k, a)
      PROVE  TimelockInv'
  <2>1. delays' \in Configs
    BY <1>0, <1>5 DEF Timelock!transfer_admin, Configs
  <2> QED  BY <1>5, <2>1, ConfigStep DEF Timelock!transfer_admin
<1>6. CASE Timelock!ExecuteReturns
  BY <1>6, ReturnStep
<1>7. CASE Timelock!ExecuteFails
  BY <1>7, FailStep, SMTT(30)
<1>8. CASE Timelock!Tick
  <2>1. UNCHANGED <<delays, ops, stack, saved, invoked>> /\ now' = now + 1 /\ now \in Nat
    BY <1>8 DEF Timelock!Tick, TimelockInv
  <2>2. StoreOK(delays, ops, invoked)'
    BY <2>1 DEF TimelockInv
  <2>3. \A o \in OpId : ops[o].ready_at \in Nat
    BY SMTT(30) DEF TimelockInv, StoreOK, OperationRecord
  <2>4. DueOK'
    BY <2>1, <2>3 DEF TimelockInv, DueOK
  <2> QED  BY <2>1, <2>2, <2>4 DEF TimelockInv, StackOK, SavedOK
<1>9. CASE UNCHANGED Timelock!vars
  <2>1. UNCHANGED <<delays, ops, now, stack, saved, invoked>>
    BY <1>9 DEF Timelock!vars
  <2> QED  BY <1>0, <2>1, ConfigStep
<1> QED  BY <1>1, <1>2, <1>3, <1>4, <1>5, <1>6, <1>7, <1>8, <1>9, SMTT(30) DEF Timelock!Next

\* No operation is known.
LEMMA TimelockInit == Timelock!Init => TimelockInv
<1> SUFFICES ASSUME Timelock!Init PROVE TimelockInv
  OBVIOUS
<1>1. Timelock!NoOp \in OperationRecord /\ Timelock!NoOp.status = "None"
  BY DEF Timelock!NoOp, OperationRecord, Status
<1>2. StoreOK(delays, ops, invoked)
  BY <1>1 DEF Timelock!Init, StoreOK, Configs
<1>3. StackOK /\ SavedOK /\ DueOK
  BY <1>1 DEF Timelock!Init, StackOK, SavedOK, DueOK
<1> QED  BY <1>2, <1>3 DEF Timelock!Init, TimelockInv

-----------------------------------------------------------------------------
(* Governance *)

CONSTANTS Address, Operation, MaxAdmins, Voter, Identity, Zero, MinUnits,
          Units, Credits, Module, MaxProposals, MaxLedger

VARIABLES admins, threshold, paused, admin, identityRequired, voters,
          identityOwner, proposals, receipts, modules, ledger

Vote == INSTANCE Governance

NoZero == Zero \notin Voter /\ Zero \notin Identity

VoteInv ==
    /\ voters \in [Voter -> [units : Units \union {0}, identity : Identity \union {Zero}]]
    /\ identityOwner \in [Identity -> Voter \union {Zero}]
    /\ Vote!OneVoterPerIdentity

\* register_voter gives up the voter's old identity and takes the new one,
\* which nobody else has.
LEMMA RegisterStep ==
    ASSUME NoZero, VoteInv, NEW ap, NEW v \in Voter, NEW u \in Units, NEW c \in Identity \union {Zero},
           Vote!register_voter(ap, v, u, c)
    PROVE  VoteInv'
<1> DEFINE old == voters[v].identity
           freed == [d \in Identity |-> IF d = old /\ d # c THEN Zero ELSE identityOwner[d]]
           r == [units |-> u, identity |-> c]
<1>1. /\ c # Zero => identityOwner[c] \in {Zero, v}
      /\ identityOwner' = IF c = Zero THEN freed ELSE [freed EXCEPT ![c] = v]
      /\ voters' = [voters EXCEPT ![v] = r]
  BY Zenon DEF Vote!register_voter
<1>2. /\ voters \in [Voter -> [units : Units \union {0}, identity : Identity \union {Zero}]]
      /\ identityOwner \in [Identity -> Voter \union {Zero}]
      /\ \A d \in Identity, w \in Voter : voters[w].identity = d <=> identityOwner[d] = w
  BY DEF VoteInv, Vote!OneVoterPerIdentity
<1>3. r \in [units : Units \union {0}, identity : Identity \union {Zero}] /\ r.identity = c
  OBVIOUS
<1>4. freed \in [Identity -> Voter \union {Zero}]
  BY <1>2, SMTT(30)
<1>5. /\ voters' \in [Voter -> [units : Units \union {0}, identity : Identity \union {Zero}]]
      /\ voters'[v].identity = c
      /\ \A w \in Voter : w # v => voters'[w] = voters[w]
  BY <1>1, <1>2, <1>3, SMTT(30)
<1>6. /\ identityOwner' \in [Identity -> Voter \union {Zero}]
      /\ \A d \in Identity : identityOwner'[d] = IF d = c THEN v
                                                 ELSE IF d = old THEN Zero ELSE identityOwner[d]
  BY <1>1, <1>2, <1>4, SMTT(30) DEF NoZero
<1> HIDE DEF old, freed, r
<1>7. ASSUME NEW d \in Identity, NEW w \in Voter
      PROVE  voters'[w].identity = d <=> identityOwner'[d] = w
  <2>1. voters[w].identity = d <=> identityOwner[d] = w
    BY <1>2
  <2>2. voters[v].identity = d <=> identityOwner[d] = v
    BY <1>2
  <2>3. CASE d = c
    <3>1. identityOwner'[d] = v /\ identityOwner[d] \in {Zero, v}
      BY <2>3, <1>1, <1>6, SMTT(30) DEF NoZero
    <3> QED  BY <2>1, <2>3, <3>1, <1>5, SMTT(30) DEF NoZero
  <2>4. CASE d # c /\ d = old
    BY <2>1, <2>2, <2>4, <1>5, <1>6, SMTT(30) DEF NoZero, old
  <2>5. CASE d # c /\ d # old
    BY <2>1, <2>2, <2>5, <1>5, <1>6, SMTT(30) DEF NoZero, old
  <2> QED  BY <2>3, <2>4, <2>5, SMTT(30)
<1> QED  BY <1>5, <1>6, <1>7, SMTT(30) DEF VoteInv, Vote!OneVoterPerIdentity

\* No other entry of the contract touches voters or identities.
LEMMA VoteStep ==
    ASSUME NoZero, VoteInv, [Vote!Next]_(Vote!vars)
    PROVE  VoteInv'
<1>1. ASSUME NEW ap, NEW v \in Voter, NEW u \in Units, NEW c \in Identity \union {Zero},
             Vote!register_voter(ap, v, u, c)
      PROVE  VoteInv'
  BY <1>1, RegisterStep
<1>2. ASSUME UNCHANGED <<voters, identityOwner>>  PROVE VoteInv'
  BY <1>2 DEF VoteInv, Vote!OneVoterPerIdentity
<1>3. ASSUME NEW as, NEW t, NEW required, Vote!initialize(as, t, required)  PROVE VoteInv'
  BY <1>2, <1>3, SMTT(30) DEF Vote!initialize
<1>4. ASSUME NEW ap, NEW e, Vote!create_proposal(ap, e)  PROVE VoteInv'
  BY <1>2, <1>4, SMTT(30) DEF Vote!create_proposal
<1>5. ASSUME NEW ap, NEW p, Vote!close_proposal(ap, p)  PROVE VoteInv'
  BY <1>2, <1>5, SMTT(30) DEF Vote!close_proposal
<1>6. ASSUME NEW ap, NEW a, Vote!add_signer(ap, a) \/ Vote!remove_signer(ap, a)  PROVE VoteInv'
  BY <1>2, <1>6, SMTT(30) DEF Vote!add_signer, Vote!remove_signer, Vote!govVars
<1>7. ASSUME NEW ap, NEW t, Vote!set_signature_threshold(ap, t)  PROVE VoteInv'
  BY <1>2, <1>7, SMTT(30) DEF Vote!set_signature_threshold, Vote!govVars
<1>8. ASSUME NEW ap, NEW m, NEW on, Vote!set_module(ap, m, on)  PROVE VoteInv'
  BY <1>2, <1>8, SMTT(30) DEF Vote!set_module
<1>9. ASSUME NEW p, NEW v, NEW s, NEW n, Vote!cast_vote(p, v, s, n)  PROVE VoteInv'
  BY <1>2, <1>9 DEF Vote!cast_vote
<1>10. CASE Vote!Tick
  BY <1>2, <1>10, SMTT(30) DEF Vote!Tick
<1>11. CASE UNCHANGED Vote!vars
  BY <1>2, <1>11 DEF Vote!vars, Vote!govVars
<1> QED  BY <1>1, <1>3, <1>4, <1>5, <1>6, <1>7, <1>8, <1>9, <1>10, <1>11, SMTT(30) DEF Vote!Next

\* An identity votes once, for any number of voters and commitments.
THEOREM VoteOneVoterPerIdentity == NoZero /\ Vote!Spec => []Vote!OneVoterPerIdentity
<1>1. NoZero /\ Vote!Init => VoteInv
  BY DEF NoZero, Vote!Init, VoteInv, Vote!OneVoterPerIdentity
<1>2. NoZero /\ VoteInv /\ [Vote!Next]_(Vote!vars) => VoteInv'
  BY VoteStep
<1>3. NoZero => NoZero'
  BY DEF NoZero
<1>4. VoteInv => Vote!OneVoterPerIdentity
  BY DEF VoteInv
<1> QED  BY <1>1, <1>2, <1>3, <1>4, PTL DEF Vote!Spec

-----------------------------------------------------------------------------
(* Counting.  The timelock, concluded. *)

INSTANCE FiniteSetTheorems

\* A set in which all elements are equal has none or one.
LEMMA AtMostOne ==
    ASSUME NEW S, \A x, y \in S : x = y
    PROVE  Cardinality(S) \in {0, 1} /\ (S = {} => Cardinality(S) = 0)
<1>1. CASE S = {}
  BY <1>1, FS_EmptySet, SMTT(30)
<1>2. CASE S # {}
  <2>1. PICK x \in S : TRUE
    BY <1>2
  <2>2. S = {x}
    BY <2>1, SMTT(30)
  <2> QED  BY <1>2, <2>2, FS_Singleton, SMTT(30)
<1> QED  BY <1>1, <1>2, SMTT(30)

\* What the invariant says of each operation.
LEMMA TimelockPromise ==
    ASSUME TimelockInv
    PROVE  Timelock!InvokedOnce /\ Timelock!DelayServed
<1>1. ASSUME NEW o \in OpId
      PROVE  invoked[o] + Timelock!Cardinality({i \in 1..Len(stack) : stack[i] = o}) <= 1
  <2> DEFINE S == {i \in 1..Len(stack) : stack[i] = o}
  <2>1. Timelock!Cardinality(S) = Cardinality(S)
    BY DEF Timelock!Cardinality, Cardinality
  <2>2. invoked[o] \in {0, 1} /\ (ops[o].status = "Done" <=> invoked[o] = 1)
    BY SMTT(30) DEF TimelockInv, StoreOK
  <2>3. \A i, j \in S : i = j
    BY SMTT(30) DEF TimelockInv, StackOK
  <2>4. S # {} => ops[o].status = "Executing"
    BY DEF TimelockInv, StackOK
  <2> HIDE DEF S
  <2>5. Cardinality(S) \in {0, 1} /\ (S = {} => Cardinality(S) = 0)
    BY <2>3, AtMostOne, SMTT(30)
  <2>6. invoked[o] + Timelock!Cardinality(S) <= 1
    BY <2>1, <2>2, <2>4, <2>5, SMTT(30)
  <2> QED  BY <2>6 DEF S
<1>2. \A o \in OpId : (ops[o].status = "Done") = (invoked[o] = 1)
  BY DEF TimelockInv, StoreOK
<1>3. ASSUME NEW o \in OpId, ops[o].status = "Executing"
      PROVE  now >= ops[o].queued_at + ops[o].delay
  BY <1>3 DEF TimelockInv, StoreOK, DueOK
<1> QED  BY <1>1, <1>2, <1>3, SMTT(30) DEF Timelock!InvokedOnce, Timelock!DelayServed

\* A queued call is made at most once, also when its target calls the
\* controller back or fails.
THEOREM TimelockInvokedOnce == Delays \subseteq Nat /\ Timelock!Spec => []Timelock!InvokedOnce
<1>1. Delays \subseteq Nat /\ TimelockInv /\ [Timelock!Next]_(Timelock!vars) => TimelockInv'
  BY TimelockStep
<1>2. Delays \subseteq Nat => (Delays \subseteq Nat)'
  OBVIOUS
<1>3. TimelockInv => Timelock!InvokedOnce
  BY TimelockPromise
<1> QED  BY <1>1, <1>2, <1>3, TimelockInit, PTL DEF Timelock!Spec

\* An executed operation waited for the delay in force when it was last queued.
THEOREM TimelockDelayServed == Delays \subseteq Nat /\ Timelock!Spec => []Timelock!DelayServed
<1>1. Delays \subseteq Nat /\ TimelockInv /\ [Timelock!Next]_(Timelock!vars) => TimelockInv'
  BY TimelockStep
<1>2. Delays \subseteq Nat => (Delays \subseteq Nat)'
  OBVIOUS
<1>3. TimelockInv => Timelock!DelayServed
  BY TimelockPromise
<1> QED  BY <1>1, <1>2, <1>3, TimelockInit, PTL DEF Timelock!Spec

-----------------------------------------------------------------------------
(* The timelocked escrow *)

CONSTANTS Party, Guardians, Required, MaxAmount, Lock, EscrowLedgers, MaxEpoch

VARIABLES escrow, guardians, approvals, epoch, eLedger, eHeld, paid, approvers

Escrow == INSTANCE TimelockEscrow WITH
    Account <- Party, MaxLedger <- EscrowLedgers, config <- escrow, ledger <- eLedger, held <- eHeld

EscrowSizes == Guardians \in Nat /\ Required \in Nat /\ MaxAmount \in Nat /\ Lock \in Nat

EscrowConfig ==
    [set : BOOLEAN, amount : Nat, unlock : Nat, released : BOOLEAN, cancelled : BOOLEAN]

EscrowTypeOK ==
    /\ escrow \in EscrowConfig
    /\ guardians \in Escrow!Lists \union {<<>>}
    /\ escrow.set => guardians \in Escrow!Lists
    /\ approvals \subseteq 1..Guardians
    /\ eLedger \in Nat /\ eHeld \in Nat
    /\ paid \in [beneficiary : Nat, depositor : Nat]

\* The bits stand for guardians in office that approved.
BitsOfCurrent ==
    \A i \in approvals : escrow.set /\ guardians[i] \in approvers

\* Nothing was paid while the escrow is open.
OpenUnpaid ==
    ~escrow.released /\ ~escrow.cancelled => paid.beneficiary = 0 /\ paid.depositor = 0

EscrowInv == EscrowTypeOK /\ BitsOfCurrent /\ OpenUnpaid /\ Escrow!PaidOnce

\* A list of guardians names Guardians different accounts.
LEMMA GuardianList ==
    ASSUME NEW gs \in Escrow!Lists
    PROVE  /\ gs \in [1..Guardians -> Party] /\ Len(gs) = Guardians
           /\ DOMAIN gs = 1..Guardians
           /\ \A i, j \in 1..Guardians : gs[i] = gs[j] => i = j
  BY SMTT(30) DEF Escrow!Lists, Escrow!validate_guardians, Escrow!IsInjective

\* approve sets the bit of a guardian in office.
LEMMA ApproveStep ==
    ASSUME EscrowSizes, EscrowInv, NEW g \in Party, Escrow!approve(g)
    PROVE  EscrowInv'
<1>1. /\ escrow.set /\ guardians \in Escrow!Lists
      /\ UNCHANGED <<escrow, guardians, epoch, eLedger, eHeld, paid>>
      /\ approvals' = approvals \union {Escrow!guardian_index(g)}
      /\ approvers' = approvers \union {g}
      /\ g \in Escrow!Range(guardians)
  BY DEF Escrow!approve, Escrow!require_active, EscrowInv, EscrowTypeOK
<1>2. PICK i \in 1..Guardians : guardians[i] = g
  BY <1>1, GuardianList, SMTT(30) DEF Escrow!Range
<1>3. Escrow!guardian_index(g) \in 1..Guardians /\ guardians[Escrow!guardian_index(g)] = g
  BY <1>1, <1>2, GuardianList, SMTT(30) DEF Escrow!guardian_index
<1>4. EscrowTypeOK' /\ BitsOfCurrent'
  BY <1>1, <1>3, ZenonT(60) DEF EscrowInv, EscrowTypeOK, BitsOfCurrent
<1> QED  BY <1>1, <1>4, SMTT(30) DEF EscrowInv, OpenUnpaid, Escrow!PaidOnce

\* The accounts behind a quorum of bits.
LEMMA QuorumBehindBits ==
    ASSUME EscrowSizes, EscrowInv, escrow.set, Escrow!has_quorum
    PROVE  Escrow!Cardinality(approvers \intersect Escrow!Range(guardians)) >= Required
<1> DEFINE T == approvers \intersect Escrow!Range(guardians)
           f == [i \in approvals |-> guardians[i]]
<1>1. guardians \in Escrow!Lists /\ approvals \subseteq 1..Guardians
  BY DEF EscrowInv, EscrowTypeOK
<1>2. \A i \in approvals : guardians[i] \in T
  BY <1>1, GuardianList, SMTT(30) DEF EscrowInv, BitsOfCurrent, Escrow!Range
<1>3. f \in Injection(approvals, T)
  BY <1>1, <1>2, GuardianList, SMTT(30) DEF Injection, IsInjective
<1>4. IsFiniteSet(T)
  <2> DEFINE h == [i \in 1..Guardians |-> guardians[i]]
             S == Escrow!Range(guardians)
  <2>1. h \in Surjection(1..Guardians, S)
    BY <1>1, GuardianList, ZenonT(60) DEF Surjection, Escrow!Range
  <2>2. IsFiniteSet(1..Guardians)
    BY FS_Interval, SMTT(30) DEF EscrowSizes
  <2>3. IsFiniteSet(S)
    <3> HIDE DEF h, S
    <3> QED  BY <2>1, <2>2, FS_Surjection, SMTT(30)
  <2>4. T \subseteq S
    BY SMTT(30)
  <2> HIDE DEF T, S
  <2> QED  BY <2>3, <2>4, FS_Subset, SMTT(30)
<1>5. Cardinality(approvals) <= Cardinality(T) /\ Cardinality(approvals) \in Nat /\ Cardinality(T) \in Nat
  <2> HIDE DEF f, T
  <2> QED  BY <1>3, <1>4, FS_Injection, FS_CardinalityType, SMTT(30)
<1>6. Cardinality(approvals) >= Required
  BY DEF Escrow!has_quorum, Escrow!Cardinality, Cardinality
<1>7. Cardinality(T) >= Required
  <2> HIDE DEF T
  <2> QED  BY <1>5, <1>6, SMTT(30) DEF EscrowSizes
<1>8. Escrow!Cardinality(T) = Cardinality(T)
  BY DEF Escrow!Cardinality, Cardinality
<1> QED  BY <1>7, <1>8, SMTT(30)

\* Every entry of the escrow keeps the invariant, and a release has its quorum
\* and its time.
LEMMA EscrowStep ==
    ASSUME EscrowSizes, EscrowInv, [Escrow!Next]_(Escrow!vars)
    PROVE  /\ EscrowInv'
           /\ escrow'.released /\ ~escrow.released =>
                 /\ eLedger >= escrow.unlock
                 /\ Escrow!Cardinality(approvers \intersect Escrow!Range(guardians)) >= Required
<1> USE DEF EscrowInv
<1>1. ASSUME NEW gs \in Escrow!Lists, Escrow!initialize(gs)
      PROVE  EscrowInv' /\ escrow'.released = escrow.released
  <2>1. /\ escrow' \in EscrowConfig /\ escrow'.amount = escrow.amount
        /\ escrow'.released = escrow.released /\ escrow'.cancelled = escrow.cancelled
    <3> DEFINE u == eLedger + Lock
    <3>1. u \in Nat
      BY DEF EscrowTypeOK, EscrowSizes
    <3>2. escrow \in EscrowConfig /\ escrow' = [escrow EXCEPT !.set = TRUE, !.unlock = u]
      BY <1>1, SMTT(30) DEF Escrow!initialize, EscrowTypeOK
    <3> HIDE DEF u
    <3> QED  BY <3>1, <3>2, Zenon DEF EscrowConfig
  <2> QED  BY <1>1, <2>1, SMTT(30) DEF Escrow!initialize, EscrowTypeOK, BitsOfCurrent,
              OpenUnpaid, Escrow!PaidOnce
<1>2. ASSUME NEW n \in 0..MaxAmount, Escrow!deposit(n)
      PROVE  EscrowInv' /\ escrow'.released = escrow.released
  BY <1>2, SMTT(30) DEF Escrow!deposit, Escrow!require_active, EscrowTypeOK, EscrowConfig,
     EscrowSizes,
              BitsOfCurrent, OpenUnpaid, Escrow!PaidOnce
<1>3. ASSUME NEW g \in Party, Escrow!approve(g)
      PROVE  EscrowInv' /\ escrow'.released = escrow.released
  <2>1. escrow' = escrow
    BY <1>3, SMTT(30) DEF Escrow!approve
  <2> QED  BY <1>3, <2>1, ApproveStep, SMTT(30)
<1>4. CASE Escrow!release
  <2>0. /\ escrow' \in EscrowConfig /\ escrow'.amount = 0 /\ escrow'.set = escrow.set
        /\ escrow'.released /\ escrow'.cancelled = escrow.cancelled
    BY <1>4, ZenonT(60) DEF Escrow!release, EscrowTypeOK, EscrowConfig
  <2>1. EscrowInv'
    BY <1>4, <2>0, SMTT(30) DEF Escrow!release, Escrow!require_active,
       Escrow!require_funded, EscrowTypeOK,
                      BitsOfCurrent, OpenUnpaid, Escrow!PaidOnce
  <2>2. eLedger >= escrow.unlock /\ escrow.set /\ Escrow!has_quorum
    BY <1>4, SMTT(30) DEF Escrow!release, Escrow!require_active
  <2> QED  BY <2>1, <2>2, QuorumBehindBits, SMTT(30)
<1>5. CASE Escrow!cancel
  <2>1. /\ escrow' \in EscrowConfig /\ escrow'.amount = 0 /\ escrow'.set = escrow.set
        /\ escrow'.released = escrow.released /\ escrow'.cancelled
    BY <1>5, ZenonT(60) DEF Escrow!cancel, EscrowTypeOK, EscrowConfig
  <2> QED  BY <1>5, <2>1, SMTT(30) DEF Escrow!cancel, Escrow!require_active,
              Escrow!require_funded, EscrowTypeOK,
                             BitsOfCurrent, OpenUnpaid, Escrow!PaidOnce
<1>6. ASSUME NEW gs \in Escrow!Lists, NEW ap, Escrow!rotate_guardians(gs, ap)
      PROVE  EscrowInv' /\ escrow'.released = escrow.released
  BY <1>6, SMTT(30) DEF Escrow!rotate_guardians, EscrowTypeOK, BitsOfCurrent, OpenUnpaid,
     Escrow!PaidOnce
<1>7. CASE Escrow!Tick
  BY <1>7, SMTT(30) DEF Escrow!Tick, EscrowTypeOK, BitsOfCurrent, OpenUnpaid, Escrow!PaidOnce
<1>8. CASE UNCHANGED Escrow!vars
  BY <1>8, SMTT(30) DEF Escrow!vars, EscrowTypeOK, BitsOfCurrent, OpenUnpaid, Escrow!PaidOnce
<1> QED  BY <1>1, <1>2, <1>3, <1>4, <1>5, <1>6, <1>7, <1>8, ZenonT(60) DEF Escrow!Next

\* Nothing is deposited, approved or paid.
LEMMA EscrowInit == EscrowSizes /\ Escrow!Init => EscrowInv
  BY DEF Escrow!Init, EscrowSizes, EscrowInv, EscrowTypeOK, EscrowConfig, BitsOfCurrent,
     OpenUnpaid,
         Escrow!PaidOnce

\* The escrowed money leaves once, to the beneficiary or to the depositor.
THEOREM EscrowPaidOnce == EscrowSizes /\ Escrow!Spec => []Escrow!PaidOnce
<1>1. EscrowSizes /\ EscrowInv /\ [Escrow!Next]_(Escrow!vars) => EscrowInv'
  BY EscrowStep, SMTT(30)
<1>2. EscrowSizes => EscrowSizes'
  BY DEF EscrowSizes
<1>3. EscrowInv => Escrow!PaidOnce
  BY DEF EscrowInv
<1> QED  BY <1>1, <1>2, <1>3, EscrowInit, PTL DEF Escrow!Spec

\* The escrow is released by a quorum of the guardians in office.
QuorumOfCurrent == Escrow!QuorumOfCurrent

\* A release rests on Required accounts that are guardians at that moment and
\* approved since the last rotation, for any number of guardians.
THEOREM EscrowQuorumOfCurrent == EscrowSizes /\ Escrow!Spec => QuorumOfCurrent
<1>1. EscrowSizes /\ EscrowInv /\ [Escrow!Next]_(Escrow!vars) =>
        /\ EscrowInv'
        /\ [escrow'.released /\ ~escrow.released =>
              /\ eLedger >= escrow.unlock
              /\ Escrow!Cardinality(approvers \intersect Escrow!Range(guardians)) >= Required]_(Escrow!vars)
  BY EscrowStep
<1>2. EscrowSizes => EscrowSizes'
  BY DEF EscrowSizes
<1> QED  BY <1>1, <1>2, EscrowInit, PTL DEF Escrow!Spec, QuorumOfCurrent,
    Escrow!QuorumOfCurrent

\* What a delayed decision sets off happens once and not before its time:
\* an operation of the timelock, the payment of the escrow, a message from
\* another chain.
OnceWhenDue ==
    Timelock!InvokedOnce /\ Timelock!DelayServed /\ Escrow!PaidOnce /\ Bridge!AppliedOnce

\* The three contracts side by side, whatever re-enters the timelock, rotates
\* the guardians or reorders the messages.
THEOREM DecidedOnceWhenDue ==
    /\ Delays \subseteq Nat /\ EscrowSizes /\ BridgeDelays \subseteq Nat
    /\ Timelock!Spec /\ Escrow!Spec /\ Bridge!Spec
    => []OnceWhenDue
  BY TimelockInvokedOnce, TimelockDelayServed, EscrowPaidOnce, BridgeAppliedOnce, PTL
  DEF OnceWhenDue
=============================================================================
