----------------------- MODULE CrossChainGovernance -----------------------
(* Cross-chain governance (contracts/cross_chain_governance): source chains *)
(* number their messages and bridges carry them to the local contract,      *)
(* which verifies, records and applies each one.  A bridge may lose,        *)
(* duplicate, delay and reorder messages, and may carry one message over    *)
(* several protocols: a message once sent can be presented at any time.  A  *)
(* failed call reverts, so an action is a call that succeeds.               *)
EXTENDS Integers, Sequences, FiniteSetsExt

CONSTANTS Source,       \* remote chains; each has one sender
          Protocol,     \* BridgeProtocol
          Execution,    \* execution ids
          Key,          \* proposals, voters and parameters
          Height,       \* block heights of state roots
          Delays,       \* values of min_execution_delay
          MaxSequence,  \* bound on the messages of one source
          MaxTime       \* bound on the clock

VARIABLES sent,         \* every message a source has dispatched or broadcast
          outbound,     \* OutboundSequence of each source
          inbound,      \* InboundSequence of each source
          processed,    \* ProcessedMessage: digests, which include the protocol
          trusted, enabled, paused, delay,
          executions,   \* DataKey::Execution; None when there is no record
          synced,       \* proposals, voting power, parameters
          roots, latest,
          now,
          applied,      \* history: the messages applied, in order
          invoked       \* history: execution ids in the order of their invocations

config == <<trusted, enabled, paused, delay>>
books == <<executions, synced, roots, latest, invoked>>
vars == <<sent, outbound, inbound, processed, config, books, now, applied>>

None == [status |-> "none", after |-> 0]
SyncKind == {"proposal", "power", "parameter"}

\* A parameter has one record whatever chain it came from; the others one a chain.
Slot(m) == IF m.kind = "parameter" THEN <<m.kind, m.key>> ELSE <<m.kind, m.key, m.source>>
Slots ==
    {<<"parameter", k>> : k \in Key} \cup {"proposal", "power"} \X Key \X Source

Init ==
    /\ sent = {} /\ outbound = [s \in Source |-> 0]
    /\ inbound = [s \in Source |-> 0] /\ processed = {}
    /\ trusted = {} /\ enabled = Protocol /\ paused = FALSE /\ delay \in Delays
    /\ executions = [e \in Execution |-> None]
    /\ synced = [x \in Slots |-> 0]
    /\ roots = {} /\ latest = 0
    /\ now = 0
    /\ applied = <<>> /\ invoked = <<>>

\* The sending contract of chain s numbers its messages.
Send(s, kind, key) ==
    /\ outbound[s] < MaxSequence
    /\ outbound' = [outbound EXCEPT ![s] = @ + 1]
    /\ sent' = sent \cup {[source |-> s, sequence |-> outbound[s] + 1, kind |-> kind, key |-> key]}
    /\ UNCHANGED <<inbound, processed, config, books, now, applied>>

dispatch_remote_execution(s, e) == Send(s, "execution", e)
broadcast_proposal_state(s, k) == Send(s, "proposal", k)
broadcast_voting_power(s, k) == Send(s, "power", k)
broadcast_parameter(s, k) == Send(s, "parameter", k)
broadcast_state_root(s, h) == Send(s, "root", h)

\* Slip: only a repetition of the latest sequence is refused, not an older one.
verify_and_record_any(m, p) ==
    /\ ~paused
    /\ p \in enabled
    /\ m.source \in trusted
    /\ <<m, p>> \notin processed
    /\ m.sequence # inbound[m.source]
    /\ processed' = processed \cup {<<m, p>>}
    /\ inbound' = [inbound EXCEPT ![m.source] = m.sequence]
    /\ applied' = Append(applied, m)
    /\ UNCHANGED <<sent, outbound, config, now>>

verify_and_record_message(m, p) ==
    /\ ~paused
    /\ p \in enabled
    /\ m.source \in trusted
    /\ <<m, p>> \notin processed
    /\ m.sequence > inbound[m.source]
    /\ processed' = processed \cup {<<m, p>>}
    /\ inbound' = [inbound EXCEPT ![m.source] = m.sequence]
    /\ applied' = Append(applied, m)
    /\ UNCHANGED <<sent, outbound, config, now>>

\* With a delay the execution is queued, without one invoked at once.
receive_and_execute(m, p) ==
    /\ m.kind = "execution"
    /\ verify_and_record_message(m, p)
    /\ executions[m.key] = None
    /\ executions' = [executions EXCEPT ![m.key] =
          [status |-> IF delay > 0 THEN "Queued" ELSE "Executed", after |-> now + delay]]
    /\ invoked' = IF delay > 0 THEN invoked ELSE Append(invoked, m.key)
    /\ UNCHANGED <<synced, roots, latest>>

\* Not refused while paused.
execute_queued(e) ==
    /\ executions[e].status = "Queued"
    /\ now >= executions[e].after
    /\ executions' = [executions EXCEPT ![e].status = "Executed"]
    /\ invoked' = Append(invoked, e)
    /\ UNCHANGED <<sent, outbound, inbound, processed, config, synced, roots, latest, now, applied>>

cancel_queued(e) ==
    /\ executions[e].status = "Queued"
    /\ executions' = [executions EXCEPT ![e].status = "Cancelled"]
    /\ UNCHANGED <<sent, outbound, inbound, processed, config, synced, roots, latest, invoked, now, applied>>

\* The content of a message is told apart by its sequence.
Sync(m, p) ==
    /\ verify_and_record_message(m, p)
    /\ synced' = [synced EXCEPT ![Slot(m)] = m.sequence]
    /\ UNCHANGED <<executions, roots, latest, invoked>>

sync_proposal_state(m, p) == m.kind = "proposal" /\ Sync(m, p)
sync_voting_power(m, p) == m.kind = "power" /\ Sync(m, p)
sync_parameter(m, p) == m.kind = "parameter" /\ Sync(m, p)

\* Roots may arrive for any height; the latest is the highest seen.
sync_state_root(m, p) ==
    /\ m.kind = "root"
    /\ verify_and_record_message(m, p)
    /\ roots' = roots \cup {m.key}
    /\ latest' = IF m.key >= latest THEN m.key ELSE latest
    /\ UNCHANGED <<executions, synced, invoked>>

set_trusted_sender(s, on) ==
    /\ trusted' = IF on THEN trusted \cup {s} ELSE trusted \ {s}
    /\ UNCHANGED <<sent, outbound, inbound, processed, enabled, paused, delay, books, now, applied>>

set_bridge_protocol(p, on) ==
    /\ enabled' = IF on THEN enabled \cup {p} ELSE enabled \ {p}
    /\ UNCHANGED <<sent, outbound, inbound, processed, trusted, paused, delay, books, now, applied>>

set_paused(on) ==
    /\ paused' = on
    /\ UNCHANGED <<sent, outbound, inbound, processed, trusted, enabled, delay, books, now, applied>>

set_execution_delay(d) ==
    /\ delay' = d
    /\ UNCHANGED <<sent, outbound, inbound, processed, trusted, enabled, paused, books, now, applied>>

Tick ==
    /\ now < MaxTime
    /\ now' = now + 1
    /\ UNCHANGED <<sent, outbound, inbound, processed, config, books, applied>>

Next ==
    \/ \E s \in Source :
          \/ \E e \in Execution : dispatch_remote_execution(s, e)
          \/ \E k \in Key : \/ broadcast_proposal_state(s, k) \/ broadcast_voting_power(s, k)
                            \/ broadcast_parameter(s, k)
          \/ \E h \in Height : broadcast_state_root(s, h)
    \/ \E m \in sent, p \in Protocol :
          \/ receive_and_execute(m, p) \/ sync_state_root(m, p)
          \/ sync_proposal_state(m, p) \/ sync_voting_power(m, p) \/ sync_parameter(m, p)
    \/ \E e \in Execution : execute_queued(e) \/ cancel_queued(e)
    \/ \E s \in Source, on \in BOOLEAN : set_trusted_sender(s, on)
    \/ \E p \in Protocol, on \in BOOLEAN : set_bridge_protocol(p, on)
    \/ \E on \in BOOLEAN : set_paused(on)
    \/ \E d \in Delays : set_execution_delay(d)
    \/ Tick

Spec == Init /\ [][Next]_vars

----------------------------------------------------------------------------
AppliedTo(x) == {i \in DOMAIN applied : applied[i].kind \in SyncKind /\ Slot(applied[i]) = x}

(* However a bridge duplicates, reorders or re-routes messages, what one    *)
(* source last said of a proposal or a voter is what the contract holds: an *)
(* older message never overwrites a newer one.                              *)
NoStaleOverwrite ==
    \A x \in Slots : Len(x) = 3 =>
        synced[x] = Max({0} \cup {applied[i].sequence : i \in AppliedTo(x)})

(* A message is applied once, whichever protocols carried it, and an        *)
(* execution is invoked at most once and never after it was cancelled.      *)
AppliedOnce ==
    /\ \A i, j \in DOMAIN applied : applied[i] = applied[j] => i = j
    /\ \A i, j \in DOMAIN invoked : invoked[i] = invoked[j] => i = j
    /\ \A i \in DOMAIN invoked : executions[invoked[i]].status = "Executed"
=============================================================================
