---------------------------- MODULE MCProxyModes -----------------------------
(***************************************************************************)
(* The iptables and the ipvs proxier side by side: createProxier makes one *)
(* of them, by the configured mode, and a process keeps its mode.  What    *)
(* both have (what the informers know, the maps of the last sync) is the   *)
(* same state.  Of the rest, that of the mode not chosen is None, but for  *)
(* the iptables proxier's history, which says that it has done nothing.    *)
(***************************************************************************)
EXTENDS IPTablesProxier, TLC

CONSTANTS
    s1, s2, e1, e2, z1, z2, c1, x1, g1, n1, pod, near, far,
    IPVSFailures, IPVSChanges

VARIABLES
    mode,
    initialSync, todo, current, nodeAddressSet, active, bindings, rsList, ipvs, conns, dummy, ipsets,
    iptables, declared, disturbed, stuck, undercut

iptablesVars == <<running, queued, needFullSync, partial, updated, nat, filter, linked, canary, stale, rejected>>
ipvsVars == <<initialSync, todo, current, nodeAddressSet, active, bindings, rsList, ipvs, conns, dummy, ipsets,
              iptables, declared, disturbed, stuck, undercut>>
allVars == <<mode, vars, ipvsVars>>

ExternalIPs == [clusterIP |-> c1, port |-> 80, externalIPs |-> {x1}, ingress |-> {}, sourceRanges |-> {},
                internalLocal |-> FALSE, externalLocal |-> TRUE, nodePort |-> 0, healthCheckNodePort |-> 32,
                affinity |-> 0]
LoadBalancer(port, local, sources) ==
    [clusterIP |-> c1, port |-> port, externalIPs |-> {}, ingress |-> {g1}, sourceRanges |-> {sources},
     internalLocal |-> local, externalLocal |-> FALSE, nodePort |-> 31, healthCheckNodePort |-> 0, affinity |-> 10]
MCServices == {s1, s2}
MCSpecs == (s1 :> {ExternalIPs} @@ s2 :> {LoadBalancer(81, TRUE, {near})})
MCHint == (e1 :> z2 @@ e2 :> z1)

IPVS == INSTANCE IPVSProxier WITH
    Services <- {s1}, Specs <- {ExternalIPs, LoadBalancer(80, FALSE, {n1})},
    Graceful <- TRUE, NodeAddresses <- {n1}, NodePortAddresses <- {n1}, Excluded <- {},
    Clients <- {<<<<c1, 80>>, e1>>}, Sources <- {n1, far}, MaxFailures <- IPVSFailures,
    MaxChanges <- IPVSChanges

NoIPTables ==
    /\ running = None /\ queued = None /\ needFullSync = None /\ partial = None /\ updated = None /\ nat = None
    /\ filter = None /\ linked = None /\ canary = None /\ stale = TRUE /\ rejected = FALSE
NoIPVS ==
    /\ initialSync = None /\ todo = None /\ current = None /\ nodeAddressSet = None /\ active = None
    /\ bindings = None /\ rsList = None /\ ipvs = None /\ conns = None /\ dummy = None /\ ipsets = None
    /\ iptables = None /\ declared = None /\ disturbed = None /\ stuck = None /\ undercut = None

MCInit ==
    \/ mode = "iptables" /\ Init /\ NoIPVS
    \/ mode = "ipvs" /\ IPVS!Init /\ NoIPTables /\ watch[s1] = [spec |-> ExternalIPs, endpoints |-> {e1, e2}]

InIPTables(A) == mode = "iptables" /\ A /\ UNCHANGED <<mode, ipvsVars>>
InIPVS(A) == mode = "ipvs" /\ A /\ UNCHANGED <<mode, iptablesVars>>

\* The second failure in ipvs mode is that of a call that is to give a real server its weight
\* back: the first one was a crash with real servers draining.  Nothing changes after it.
SecondFailure == initialSync /\ pc = "add" /\ \E e \in DOMAIN current.listed : current.listed[e] = 0

MCNext ==
    \/ InIPTables(Next)
    \/ InIPVS(IPVS!Next /\ (failures' <= 1 \/ (IF failures = 2 THEN changes' = changes ELSE SecondFailure)))

\* The sync runner runs what it is asked for, and once per hour or syncPeriod; a sync goes
\* on to its end, a crashed process is started again, the informers deliver, and the monitor and
\* the graceful termination manager poll.  One condition covers steps never enabled together.
Informed(Synced(_)) == \E what \in {"services", "slices"} : Synced(what)
MCSpec ==
    /\ MCInit /\ [][MCNext]_allVars
    /\ WF_allVars(InIPTables(HourPasses \/ StartSync \/ Restore \/ Start \/ Informed(OnSynced)))
    /\ SF_allVars(InIPTables(Monitor))
    /\ WF_allVars(InIPVS(IPVS!Step \/ Informed(IPVS!OnSynced)))
    /\ WF_allVars(InIPVS(IPVS!tryDeleteRs))

\* After a sync in ipvs mode in which no call has failed, packets go where the Services of that
\* sync ask (syncProxyRules of pkg/proxy/ipvs); RoutesCurrent says so for iptables mode.  Two
\* kinds of real servers are let off: those that tryDeleteRs has deleted since the sync began,
\* although they were wanted again, and those that a process which crashed left draining, if the
\* call that was to give them their weight back failed in the first sync after it.
IPVSRoutesCurrent == mode = "ipvs" => IPVS!RoutesCurrent

\* Once changes and failures stop, either proxier comes to route the informers' state for good,
\* but for the real servers of a crashed process that have lost their weight for good
\* (syncProxyRules, its retries and periodic syncs, tryDeleteRs).
EventuallyRouted ==
    <>[](IF mode = "iptables" THEN UpToDate ELSE IPVS!UpToDate)
=============================================================================
