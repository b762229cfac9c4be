---------------------------- MODULE MCOperations ----------------------------
(***************************************************************************)
(* Small instances of the operational services: the event bus, webhooks,   *)
(* the agent fleet, service discovery, the breaker of an RPC provider and  *)
(* notifications.  They share no state, so a behaviour exercises one of    *)
(* them and leaves the others where they start: a property of one service  *)
(* reads only that service's variables.                                    *)
(***************************************************************************)
EXTENDS EventBus, RoutingProofs, DeliveryProofs, TLC

VARIABLE service        \* the one this behaviour exercises

hookVars == <<endpoints, deliveries, passes, replays, failed>>
fleetVars == <<directory, health, admin, failures, pending, calls, reports, streak, removals,
               due>>
discoveryVars == <<clock, entries, healthy, cache, breaker, callers, wasHealthy, letThrough>>
rpcVars == <<circuit, strikes, call, now>>
noticeVars == <<records, scheduled, outgoing, muted, worker, provider, nClock>>
allVars == <<service, vars, hookVars, fleetVars, discoveryVars, rpcVars, noticeVars>>

\* Identifiers without a colon: each is one part.
MCAgents == <<<<"a">>, <<"b">>>>
MCVaults == {<<"v">>}
MCPreferences == {<<"b">>}

-----------------------------------------------------------------------------

MCInit ==
    /\ service \in {"bus", "webhooks", "fleet", "discovery", "rpc", "notices"}
    /\ Init /\ Hooks!Init /\ Fleet!Init /\ Discovery!Init /\ Rpc!Init /\ Notices!Init

MCNext ==
    /\ UNCHANGED service
    /\ IF service = "bus" THEN Next ELSE UNCHANGED vars
    /\ IF service = "webhooks" THEN Hooks!Next ELSE UNCHANGED hookVars
    /\ IF service = "fleet" THEN Fleet!Next ELSE UNCHANGED fleetVars
    /\ IF service = "discovery" THEN Discovery!Next ELSE UNCHANGED discoveryVars
    /\ IF service = "rpc" THEN Rpc!Next ELSE UNCHANGED rpcVars
    /\ IF service = "notices" THEN Notices!Next ELSE UNCHANGED noticeVars

MCSpec == MCInit /\ [][MCNext]_allVars

\* Publishers and calls differ in their names only.
Symmetry == Permutations(Publishers) \union Permutations(Calls)
=============================================================================
