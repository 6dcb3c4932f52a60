--------------------------- MODULE IPTablesProxier ---------------------------
(***************************************************************************)
(* The iptables proxier (pkg/proxy/iptables) of one IP family:             *)
(* syncProxyRules with its partial syncs, which rewrite only the chains of *)
(* the Services that changed, the deletion of unused chains, and the       *)
(* monitor that asks for a full sync when the tables have been flushed.    *)
(*                                                                         *)
(* A Service has one port.  The change trackers are those of               *)
(* ServiceTracking: here a sync takes over the latest Services and         *)
(* endpoints as a whole, and knows which of them differ from the last.     *)
(***************************************************************************)
EXTENDS Integers, FiniteSets

CONSTANTS
    Services,
    Specs,          \* service -> the specifications it may have
    Endpoints, Local,
    Hint,           \* endpoint -> the zone of its hint
    Zones,          \* the zones the node may be labelled with
    NodeAddress,    \* the node's address, where node ports are served
    NodeIP,         \* the node's address as a source
    Pods, Node,     \* source addresses of the node's pods, of the node itself
    Others,         \* other source addresses
    LargeCluster,   \* more endpoints than this: unused chains are deleted only now and then
    MaxChanges,
    MaxFailures,    \* failed calls, flushes and crashes
    None

\* The addresses and ports that a Service is reached at from outside, and all of them.
ExternalFrontends(i) == ((i.externalIPs \cup i.ingress) \X {i.port}) \cup ({NodeAddress} \X ({i.nodePort} \ {0}))
Frontends(i) == ({i.clusterIP} \X {i.port}) \cup ExternalFrontends(i)

ASSUME IPTablesConstants ==
    \A s \in Services : \A i \in Specs[s] :
        /\ i.clusterIP \notin i.externalIPs \cup i.ingress \cup {NodeAddress}
        /\ NodeAddress \notin i.ingress /\ i.internalLocal \in BOOLEAN

VARIABLES
    watch,          \* service -> [spec, endpoints] as the informers know it
    nodeLabels,     \* the node's zone, or None
    running, synced,
    queued,         \* the sync runner has been asked for a sync
    needFullSync,
    svcPortMap, endpointsMap,
    pc, partial, updated,   \* where syncProxyRules is; tryPartialSync; UpdatedServices
    nat,            \* kernel: chain -> its rules
    filter,         \* kernel: chain -> its rules
    linked,         \* kernel: the built-in chains jump to ours
    canary,         \* kernel: the monitor's canary chain is there
    changes, failures,
    stale,          \* something failed or interfered since the sync began
    rejected        \* iptables-restore has refused rules of an unflushed table

known == <<watch, nodeLabels>>
maps == <<svcPortMap, endpointsMap>>
work == <<pc, partial, updated>>
kernel == <<nat, filter, linked, canary>>
vars == <<known, running, synced, queued, needFullSync, maps, work, kernel, changes, failures, stale, rejected>>

FilterChains == {"services", "external", "firewall", "healthChecks"}
NoFilter == [c \in FilterChains |-> {}]

Init ==
    /\ watch = [s \in Services |-> [spec |-> None, endpoints |-> {}]] /\ nodeLabels = None
    /\ running = TRUE /\ synced = {} /\ queued = FALSE /\ needFullSync = TRUE
    /\ svcPortMap = [s \in Services |-> None] /\ endpointsMap = [s \in Services |-> {}]
    /\ pc = "idle" /\ partial = FALSE /\ updated = {}
    /\ nat = <<>> /\ filter = NoFilter /\ linked = FALSE /\ canary = TRUE
    /\ changes = 0 /\ failures = 0 /\ stale = TRUE /\ rejected = FALSE

Initialized == synced = {"services", "slices"}
Fail == failures < MaxFailures /\ failures' = failures + 1 /\ stale' = TRUE

-----------------------------------------------------------------------------
(* Events.  The trackers are read only when a sync begins, and the node's labels change    *)
(* under proxier.mu, which a sync holds.                                                   *)

\* The API server gives a frontend to one Service at a time.
Free(s, spec) ==
    \A t \in Services \ {s} : watch[t].spec # None => Frontends(watch[t].spec) \cap Frontends(spec) = {}

\* OnServiceAdd/Update/Delete and OnEndpointSliceAdd/Update/Delete.
OnServiceUpdate(s, spec, endpoints) ==
    /\ running /\ pc = "idle" /\ changes < MaxChanges /\ changes' = changes + 1
    /\ spec # None => Free(s, spec)
    /\ watch[s] # [spec |-> spec, endpoints |-> endpoints]
    /\ watch' = [watch EXCEPT ![s] = [spec |-> spec, endpoints |-> endpoints]]
    /\ queued' = (queued \/ Initialized)
    /\ UNCHANGED <<nodeLabels, running, synced, needFullSync, maps, work, kernel, failures, stale, rejected>>

\* OnServiceSynced and OnEndpointSlicesSynced call syncProxyRules.
OnSynced(what) ==
    /\ running /\ pc = "idle" /\ what \notin synced /\ synced' = synced \cup {what}
    /\ queued' = TRUE
    /\ UNCHANGED <<known, running, needFullSync, maps, work, kernel, changes, failures, stale, rejected>>

\* Mutant of OnNodeUpdate: the sync may be a partial one.
OnNodeUpdatePartial(labels) ==
    /\ running /\ pc = "idle" /\ changes < MaxChanges /\ changes' = changes + 1
    /\ labels # nodeLabels /\ nodeLabels' = labels
    /\ queued' = TRUE /\ stale' = TRUE
    /\ UNCHANGED <<watch, running, synced, needFullSync, maps, work, kernel, failures, rejected>>

\* OnNodeAdd, OnNodeUpdate, OnNodeDelete: any Service's endpoints may now be others.
OnNodeUpdate(labels) ==
    /\ running /\ pc = "idle" /\ changes < MaxChanges /\ changes' = changes + 1
    /\ labels # nodeLabels /\ nodeLabels' = labels
    /\ needFullSync' = TRUE /\ queued' = TRUE /\ stale' = TRUE
    /\ UNCHANGED <<watch, running, synced, maps, work, kernel, failures, rejected>>

-----------------------------------------------------------------------------
(* The chains of a Service. *)

Active == {s \in Services : svcPortMap[s] # None}
ExternallyAccessible(i) == i.nodePort # 0 \/ i.ingress # {} \/ i.externalIPs # {}
UsesClusterEndpoints(i) == ~i.internalLocal \/ ExternallyAccessible(i)
UsesLocalEndpoints(i) == i.internalLocal \/ (i.externalLocal /\ ExternallyAccessible(i))

\* CategorizeEndpoints.  Every endpoint has a hint, so that only the node's label and a match
\* decide whether hints are followed.
ClusterEndpoints(s) ==
    LET hinted == {e \in endpointsMap[s] : Hint[e] = nodeLabels}
    IN  IF ~UsesClusterEndpoints(svcPortMap[s]) THEN {}
        ELSE IF hinted # {} THEN hinted ELSE endpointsMap[s]
LocalEndpoints(s) == IF UsesLocalEndpoints(svcPortMap[s]) THEN endpointsMap[s] \cap Local ELSE {}

HasEndpoints(s) == endpointsMap[s] # {}
HasInternal(s) == HasEndpoints(s) /\ (svcPortMap[s].internalLocal => LocalEndpoints(s) # {})
HasExternal(s) == HasEndpoints(s) /\ (svcPortMap[s].externalLocal => LocalEndpoints(s) # {})

SVC(s) == <<"SVC", s>>
SVL(s) == <<"SVL", s>>
EXT(s) == <<"EXT", s>>
FW(s) == <<"FW", s>>
SEP(s, e) == <<"SEP", s, e>>
PolicyChain(s, local) == IF local THEN SVL(s) ELSE SVC(s)

\* Chains that are written, as a set of names with their rules.
ChainIf(cond, name, rules) == IF cond THEN {[name |-> name, rules |-> rules]} ELSE {}

UsesFWChain(s) ==
    HasEndpoints(s) /\ svcPortMap[s].ingress # {} /\ svcPortMap[s].sourceRanges # {}

\* The external chain: masquerade, or short-circuit what comes from the node and its pods to
\* the cluster endpoints; the rest goes on to the policy's chain.
ExternalRules(s) ==
    LET i == svcPortMap[s]
        shortCircuit == IF i.externalLocal THEN {SVC(s)} ELSE {}
        policy == IF HasExternal(s) THEN {PolicyChain(s, i.externalLocal)} ELSE {}
    IN  [shortCircuit |-> shortCircuit, policy |-> policy, jump |-> shortCircuit \cup policy]

\* The firewall chain: the source ranges, and the addresses themselves if the node is in one.
FirewallRules(s) ==
    LET ranges == UNION svcPortMap[s].sourceRanges
    IN  [from |-> ranges \cup (IF NodeIP \in ranges THEN svcPortMap[s].ingress ELSE {}),
         jump |-> {EXT(s)}]

\* A policy's chain: what comes for the cluster IP from outside is masqueraded, then
\* writeServiceToEndpointRules' affinity rules, and one rule per endpoint.
PolicyRules(s, local, endpoints) ==
    [masqueradeOutside |-> HasInternal(s) /\ local = svcPortMap[s].internalLocal,
     affinity |-> IF svcPortMap[s].affinity # 0 THEN endpoints ELSE {},
     jump |-> {SEP(s, e) : e \in endpoints}]

\* The chains that are written for a Service; endpoint chains for all locally reachable ones.
ServiceChains(s) ==
    ChainIf(HasEndpoints(s) /\ ExternallyAccessible(svcPortMap[s]), EXT(s), ExternalRules(s))
        \cup ChainIf(UsesFWChain(s), FW(s), FirewallRules(s))
        \cup ChainIf(ClusterEndpoints(s) # {}, SVC(s), PolicyRules(s, FALSE, ClusterEndpoints(s)))
        \cup ChainIf(LocalEndpoints(s) # {}, SVL(s), PolicyRules(s, TRUE, LocalEndpoints(s)))
        \cup {[name |-> SEP(s, e), rules |-> [to |-> e, jump |-> {}]] :
              e \in ClusterEndpoints(s) \cup LocalEndpoints(s)}

-----------------------------------------------------------------------------
(* The top-level chains, written by every sync. *)

Dst(ips, s) == ips \X {svcPortMap[s].port}
ExternalDst(s) == ExternalFrontends(svcPortMap[s])

\* nat KUBE-SERVICES and, last in it, KUBE-NODEPORTS.  An external IP's rule comes before the
\* load balancer's, which an address that is both never reaches.
LoadBalancerOnly(i) == i.ingress \ i.externalIPs
ServicePortals(s) ==
    LET i == svcPortMap[s]
        lb == IF UsesFWChain(s) THEN FW(s) ELSE EXT(s)
    IN  (IF HasInternal(s) THEN {<<d, PolicyChain(s, i.internalLocal)>> : d \in Dst({i.clusterIP}, s)} ELSE {})
        \cup (IF HasEndpoints(s)
              THEN {<<d, IF d[1] \in LoadBalancerOnly(i) THEN lb ELSE EXT(s)>> : d \in ExternalDst(s)} ELSE {})

\* filter KUBE-SERVICES and KUBE-EXTERNAL-SERVICES: what has no endpoints is rejected, what
\* has none here dropped.
Verdict(s) == IF HasEndpoints(s) THEN "DROP" ELSE "REJECT"
ServiceFilters(s) ==
    LET i == svcPortMap[s]
    IN  [services |-> IF HasInternal(s) THEN {} ELSE Dst({i.clusterIP}, s) \X {Verdict(s)},
         external |-> IF HasExternal(s) THEN {} ELSE ExternalDst(s) \X {Verdict(s)},
         firewall |-> IF UsesFWChain(s) THEN Dst(i.ingress, s) \X {"DROP"} ELSE {},
         healthChecks |-> {i.healthCheckNodePort} \ {0}]

\* If the node's own addresses are not listed, no rule leads into KUBE-NODEPORTS.
NodePorts == {<<NodeAddress, svcPortMap[s].nodePort>> : s \in Active}
Portals(listed) ==
    [rules |-> {r \in UNION {ServicePortals(s) : s \in Active} : listed \/ r[1] \notin NodePorts},
     jump |-> UNION {{r[2] : r \in ServicePortals(s)} : s \in Active}]
Filters == [c \in FilterChains |-> UNION {ServiceFilters(s)[c] : s \in Active}]

-----------------------------------------------------------------------------
(* syncProxyRules. *)

\* A failed sync is retried, in full: the changes it took over are lost to a partial one.
SyncFails == Fail /\ queued' = TRUE /\ needFullSync' = TRUE /\ pc' = "idle"

\* The sync takes over the informers' state; a full one sees to the jumps from the built-in
\* chains first.
StartSync ==
    /\ running /\ pc = "idle" /\ queued /\ Initialized
    /\ partial' = ~needFullSync
    /\ updated' = {s \in Services : watch[s] # [spec |-> svcPortMap[s], endpoints |-> endpointsMap[s]]}
    /\ svcPortMap' = [s \in Services |-> watch[s].spec]
    /\ endpointsMap' = [s \in Services |-> watch[s].endpoints]
    /\ \/ /\ pc' = "restore" /\ queued' = FALSE /\ stale' = FALSE
          /\ linked' = (linked \/ needFullSync)
          /\ UNCHANGED <<needFullSync, failures>>
       \/ needFullSync /\ SyncFails /\ UNCHANGED linked
    /\ UNCHANGED <<known, running, synced, nat, filter, canary, changes, rejected>>

\* The sync runner syncs at least once per hour.
HourPasses ==
    /\ running /\ pc = "idle" /\ ~queued /\ Initialized /\ queued' = TRUE
    /\ UNCHANGED <<known, running, synced, needFullSync, maps, work, kernel, changes, failures, stale, rejected>>

\* Before the informers are synced it returns at once.
SkipSync ==
    /\ running /\ pc = "idle" /\ queued /\ ~Initialized /\ queued' = FALSE
    /\ UNCHANGED <<known, running, synced, needFullSync, maps, work, kernel, changes, failures, stale, rejected>>

\* The Services whose chains are written; the others' stay as they are.
Written == IF partial THEN Active \cap updated ELSE Active

\* Mutant of UnusedChains: only the chains written by this sync are taken for used.
UnusedChainsOfWritten == DOMAIN nat \ ({<<"portals">>} \cup UNION {{c.name : c \in ServiceChains(s)} : s \in Written})

\* The chains that no Service uses, which are deleted unless the cluster is large.
UnusedChains == DOMAIN nat \ ({<<"portals">>} \cup UNION {{c.name : c \in ServiceChains(s)} : s \in Active})

IsLarge == Cardinality(UNION {{s} \X endpointsMap[s] : s \in Active}) > LargeCluster

\* What iptables-restore makes of the nat table.
Restored(deleted, listed) ==
    LET written == (UNION {ServiceChains(s) : s \in Written}) \cup ChainIf(TRUE, <<"portals">>, Portals(listed))
        names == {c.name : c \in written}
    IN  [n \in (DOMAIN nat \cup names) \ deleted |->
            IF n \in names THEN (CHOOSE c \in written : c.name = n).rules ELSE nat[n]]

\* A jump to a chain that is not there is an error.
Accepted(table) == \A c \in DOMAIN table : table[c].jump \subseteq DOMAIN table

\* The rules are restored, the filter table first.  iptables-save may fail, and then no chain
\* is deleted; GetNodeIPs may fail, and then node ports are not served; the sync counts as done
\* all the same.  iptables-restore may fail before or after the filter table is done.
Restore ==
    /\ pc = "restore" /\ partial' = FALSE /\ updated' = {}
    /\ \E deleted \in {{}, UnusedChains}, saveFails, listed \in BOOLEAN :
       \E table \in {Restored(deleted, listed)} :
          /\ deleted = {} => saveFails \/ IsLarge \/ UnusedChains = {}
          /\ saveFails => deleted = {}
          /\ IF saveFails \/ ~listed THEN Fail ELSE UNCHANGED failures
          /\ filter' = Filters
          /\ IF Accepted(table)
             THEN /\ nat' = table /\ pc' = "idle"
                  /\ needFullSync' = FALSE /\ UNCHANGED <<queued, rejected>>
                  /\ ~saveFails /\ listed => UNCHANGED stale
             ELSE /\ pc' = "idle" /\ queued' = TRUE /\ needFullSync' = TRUE
                  /\ stale' = TRUE
                  /\ rejected' = (rejected \/ linked) /\ UNCHANGED nat
    /\ UNCHANGED <<known, running, synced, maps, linked, canary, changes>>

RestoreFails ==
    /\ pc = "restore" /\ partial' = FALSE /\ updated' = {}
    /\ SyncFails /\ filter' \in {filter, Filters}
    /\ UNCHANGED <<known, running, synced, maps, nat, linked, canary, changes, rejected>>

-----------------------------------------------------------------------------
(* Flushes, crashes and clean-up. *)

\* Another program flushes all tables, the canary chains included.
Flush ==
    /\ Fail /\ nat' = <<>> /\ filter' = NoFilter /\ linked' = FALSE /\ canary' = FALSE
    /\ UNCHANGED <<known, running, synced, queued, needFullSync, maps, work, changes, rejected>>

\* The monitor misses its canary and calls forceSyncProxyRules.
Monitor ==
    /\ running /\ pc = "idle" /\ ~canary /\ canary' = TRUE
    /\ needFullSync' = TRUE /\ queued' = TRUE /\ stale' = TRUE
    /\ UNCHANGED <<known, running, synced, maps, work, nat, filter, linked, changes, failures, rejected>>

Crash ==
    /\ running /\ Fail /\ running' = FALSE /\ synced' = {} /\ queued' = FALSE /\ needFullSync' = TRUE
    /\ svcPortMap' = [s \in Services |-> None] /\ endpointsMap' = [s \in Services |-> {}]
    /\ pc' = "idle" /\ partial' = FALSE /\ updated' = {}
    /\ UNCHANGED <<known, kernel, changes, rejected>>

\* NewProxier starts the monitor, which makes its canary chains.
Start ==
    /\ ~running /\ running' = TRUE /\ canary' = TRUE
    /\ UNCHANGED <<known, synced, queued, needFullSync, maps, work, nat, filter, linked, changes, failures,
                   stale, rejected>>

\* CleanupLeftovers, by a kube-proxy started for it: our chains are unlinked and removed,
\* but for KUBE-PROXY-FIREWALL.  A table's part may fail.
CleanupLeftovers ==
    /\ ~running /\ linked
    /\ \/ nat' = <<>> /\ linked' = FALSE /\ filter' = [NoFilter EXCEPT !.firewall = filter.firewall]
          /\ UNCHANGED <<failures, stale>>
       \/ Fail /\ linked' = FALSE /\ nat' \in {nat, <<>>}
          /\ filter' \in {filter, [NoFilter EXCEPT !.firewall = filter.firewall]}
       \/ Fail /\ UNCHANGED <<nat, linked, filter>>      \* chains still in use cannot be deleted
    /\ UNCHANGED <<known, running, synced, queued, needFullSync, maps, work, canary, changes, rejected>>

Next ==
    \/ \E s \in Services, es \in SUBSET Endpoints :
          \E spec \in Specs[s] \cup {None} : OnServiceUpdate(s, spec, es)
    \/ \E what \in {"services", "slices"} : OnSynced(what)
    \/ \E labels \in Zones \cup {None} : OnNodeUpdate(labels)
    \/ HourPasses \/ StartSync \/ SkipSync \/ Restore \/ RestoreFails
    \/ Flush \/ Monitor \/ Crash \/ Start \/ CleanupLeftovers

Spec == Init /\ [][Next]_vars

-----------------------------------------------------------------------------
(* Where packets go. *)

Inside == Pods \cup Node

\* The endpoints that src's packet may be sent to by a chain.
Targets(chain, src) ==
    LET policy(c) == {nat[sep].to : sep \in nat[c].jump}
        external(c) == LET next == IF src \in Inside /\ nat[c].shortCircuit # {}
                                   THEN nat[c].shortCircuit ELSE nat[c].policy
                       IN  UNION {policy(n) : n \in next}
    IN  CASE chain[1] = "EXT" -> external(chain)
          [] chain[1] = "FW"  -> IF src \in nat[chain].from
                                 THEN UNION {external(c) : c \in nat[chain].jump} ELSE {}
          [] OTHER            -> policy(chain)

\* The endpoints it may be sent to, or the filter table's verdicts if it is sent nowhere.
Route(src, dst) ==
    LET portals == IF <<"portals">> \in DOMAIN nat THEN {r \in nat[<<"portals">>].rules : r[1] = dst} ELSE {}
        targets == UNION {Targets(r[2], src) : r \in portals}
        rules == filter.services \cup filter.external \cup filter.firewall
    IN  IF targets # {} THEN targets ELSE {r[2] : r \in {x \in rules : x[1] = dst}}

\* What the Service asks for: the traffic policies, the short-circuit for traffic from the
\* node, and the source ranges of load balancer addresses that are not external IPs as well.
Expected(src, s, dst) ==
    LET i == svcPortMap[s]
        all == endpointsMap[s]
        hinted == {e \in all : Hint[e] = nodeLabels}
        cluster == IF hinted # {} THEN hinted ELSE all
        internal == dst = <<i.clusterIP, i.port>>
        local == IF internal THEN i.internalLocal ELSE i.externalLocal /\ src \notin Inside
        chosen == IF local THEN all \cap Local ELSE cluster
        barred == /\ dst[1] \in LoadBalancerOnly(i) /\ i.sourceRanges # {}
                  /\ src \notin UNION i.sourceRanges
                  /\ ~(src \in i.ingress /\ NodeIP \in UNION i.sourceRanges)
    IN  IF all = {} THEN {"REJECT"}
        ELSE IF barred \/ chosen = {} THEN {"DROP"} ELSE chosen

ServedDst(s) == Frontends(svcPortMap[s])

Routed ==
    /\ linked
    /\ \A s \in Active : \A src \in Inside \cup Others :
          \A dst \in ServedDst(s) : Route(src, dst) = Expected(src, s, dst)
    /\ <<"portals">> \in DOMAIN nat
    /\ \A s \in Active : LET chain == PolicyChain(s, svcPortMap[s].internalLocal)
                        IN  HasInternal(s) => /\ nat[chain].masqueradeOutside
                                              /\ svcPortMap[s].affinity # 0 =>
                                                    nat[chain].affinity = {nat[c].to : c \in nat[chain].jump}
    /\ {r[1] : r \in nat[<<"portals">>].rules} \cup {r[1] : r \in filter.services \cup filter.external \cup filter.firewall}
          \subseteq UNION {ServedDst(s) : s \in Active}
    /\ filter.healthChecks = {svcPortMap[s].healthCheckNodePort : s \in Active} \ {0}

-----------------------------------------------------------------------------
(* Properties. *)

\* After a sync that nothing has interfered with, full or partial, packets of every source are
\* sent, rejected or dropped as the Services of that sync ask, and none for an address that is
\* no Service's: leaving out the chains of unchanged Services is right (syncProxyRules).
RoutesCurrent == (pc = "idle" /\ ~stale /\ canary) => Routed

\* iptables-restore never refuses a sync's rules unless the tables have been flushed: no chain
\* that is left out is missing, and none that is deleted is still jumped to (syncProxyRules).
NeverRejected == ~rejected

\* The last sync was of what the informers know now, and packets are routed by it.
UpToDate ==
    /\ \A s \in Services : watch[s] = [spec |-> svcPortMap[s], endpoints |-> endpointsMap[s]]
    /\ Routed
=============================================================================
