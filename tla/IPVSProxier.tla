----------------------------- MODULE IPVSProxier -----------------------------
(***************************************************************************)
(* The ipvs proxier (pkg/proxy/ipvs) of one IP family: syncProxyRules with *)
(* its calls into IPVS, ipset, iptables and the dummy device, and the      *)
(* graceful termination manager, whose goroutine deletes drained real      *)
(* servers concurrently with a sync.                                       *)
(*                                                                         *)
(* A Service has one port.  The change trackers are those of               *)
(* ServiceTracking: here a sync takes over the latest Services and         *)
(* endpoints as a whole.                                                   *)
(***************************************************************************)
EXTENDS Integers, FiniteSets

CONSTANTS
    Services,
    Specs,          \* the Services' specifications
    Endpoints, Local,
    Hint,           \* endpoint -> the zone of its hint
    Zones,          \* the zones the node may be labelled with
    Graceful,       \* the protocol is TCP: real servers drain before they are deleted
    NodeAddresses,  \* addresses of other interfaces than the dummy device
    NodePortAddresses,  \* those on which node ports are served
    NodeIP,
    Excluded,       \* addresses of excludeCIDRs
    Clients,        \* <<virtual server, real server>> that clients may connect to
    Sources,        \* source addresses of packets
    MaxChanges,
    MaxFailures,    \* failed calls and crashes
    None

VARIABLES
    watch,          \* service -> [spec, endpoints] as the informers know it
    nodeLabels,     \* the node's zone, or None
    synced,         \* the informers that have delivered their initial state
    svcPortMap, endpointsMap,
    initialSync,
    pc, todo, current,      \* where syncProxyRules is: virtual servers to do, the one at hand
    nodeAddressSet,         \* the node's addresses as this sync has listed them
    active, bindings,       \* activeIPVSServices, activeBindAddrs
    declared,       \* natChains and filterChains name all chains of this sync
    rsList,         \* graceful termination list: <<virtual server, real server>>
    ipvs,           \* kernel: virtual server -> [timeout, real server -> weight]
    conns,          \* kernel: real servers with connections
    dummy,          \* kernel: addresses of kube-ipvs0
    ipsets,         \* kernel: ipset -> entries
    iptables,       \* kernel: the ipsets that rules match, the addresses barred to the node,
                    \* and whether packets are sent to the rules at all
    changes, failures,
    disturbed,      \* history: a call or the process failed since the sync began, or a node event came
    stuck,          \* history: real servers at weight 0, not listed, when the first sync ended
    undercut        \* history: real servers that tryDeleteRs has deleted since the sync began

known == <<watch, nodeLabels, synced>>
maps == <<svcPortMap, endpointsMap>>
work == <<pc, todo, current, nodeAddressSet, active, bindings, declared>>
kernel == <<ipvs, conns, dummy, ipsets, iptables>>
history == <<disturbed, stuck, undercut>>
vars == <<known, maps, work, initialSync, rsList, kernel, changes, failures, history>>

SetNames == {"LoopBack", "ClusterIP", "ExternalIP", "ExternalIPLocal", "LoadBalancer",
             "LoadBalancerLocal", "LoadBalancerFW", "SourceCIDR", "SourceIP", "NodePort",
             "NodePortLocal", "HealthCheckNodePort", "IPVSIPs"}

\* NewProxier: what a new process starts with.
Fresh ==
    /\ synced = {} /\ initialSync = TRUE
    /\ svcPortMap = [s \in Services |-> None] /\ endpointsMap = [s \in Services |-> {}]
    /\ pc = "idle" /\ todo = {} /\ current = None
    /\ nodeAddressSet = {} /\ active = {} /\ bindings = {} /\ declared = TRUE /\ rsList = {}

NoRules == [linked |-> FALSE, sets |-> {}, noNodeAccess |-> {}]

\* The first process finds the kernel empty, and any Services.
Init ==
    /\ watch \in [Services -> [spec : Specs \cup {None}, endpoints : SUBSET Endpoints]]
    /\ nodeLabels = None
    /\ Fresh
    /\ ipvs = <<>> /\ conns = {} /\ dummy = {} /\ ipsets = [n \in SetNames |-> {}]
    /\ iptables = NoRules
    /\ changes = 0 /\ failures = 0 /\ disturbed = TRUE /\ stuck = {} /\ undercut = {}

Initialized == synced = {"services", "slices"}

-----------------------------------------------------------------------------
(* Events.  What they change is read only when a sync begins, so that one arriving in the    *)
(* middle of a sync is as good as one arriving at its end.                                     *)

\* OnServiceAdd/Update/Delete and OnEndpointSliceAdd/Update/Delete.
OnServiceUpdate(s, spec, endpoints) ==
    /\ changes < MaxChanges /\ changes' = changes + 1
    /\ pc = "idle" /\ watch[s] # [spec |-> spec, endpoints |-> endpoints]
    /\ watch' = [watch EXCEPT ![s] = [spec |-> spec, endpoints |-> endpoints]]
    /\ UNCHANGED <<nodeLabels, synced, maps, work, initialSync, rsList, kernel, failures, history>>

\* OnServiceSynced and OnEndpointSlicesSynced; the syncProxyRules they call is StartSync.
OnSynced(what) ==
    /\ pc = "idle" /\ what \notin synced /\ synced' = synced \cup {what}
    /\ UNCHANGED <<watch, nodeLabels, maps, work, initialSync, rsList, kernel, changes, failures, history>>

\* OnNodeAdd, OnNodeUpdate and OnNodeDelete take proxier.mu: never during a sync.
OnNodeUpdate(labels) ==
    /\ changes < MaxChanges /\ changes' = changes + 1
    /\ pc = "idle" /\ labels # nodeLabels
    /\ nodeLabels' = labels /\ disturbed' = TRUE
    /\ UNCHANGED <<watch, synced, maps, work, initialSync, rsList, kernel, failures, stuck, undercut>>

-----------------------------------------------------------------------------
(* What the Services ask for. *)

Servers(s, rank, ips, port, local) ==
    {[key |-> <<ip, port>>, service |-> s, rank |-> rank, local |-> local,
      bind |-> ip \notin nodeAddressSet, timeout |-> svcPortMap[s].affinity] : ip \in ips}

\* The cluster IP is bound always, external and ingress addresses unless another interface
\* has them; node ports are served on the node's own addresses.
ClusterIPServer(s) ==
    LET i == svcPortMap[s]
    IN  {[v EXCEPT !.bind = TRUE] : v \in Servers(s, 1, {i.clusterIP}, i.port, i.internalLocal)}
ExternalIPServers(s) == LET i == svcPortMap[s] IN Servers(s, 2, i.externalIPs, i.port, i.externalLocal)
IngressServers(s) == LET i == svcPortMap[s] IN Servers(s, 3, i.ingress, i.port, i.externalLocal)
nodeIPs == nodeAddressSet \cap NodePortAddresses
NodePortServers(s) ==
    LET i == svcPortMap[s]
    IN  IF i.nodePort = 0 THEN {}
        ELSE {[v EXCEPT !.bind = FALSE] : v \in Servers(s, 4, nodeIPs, i.nodePort, i.externalLocal)}

Active == {s \in Services : svcPortMap[s] # None}
VirtualServers ==
    UNION {ClusterIPServer(s) \cup ExternalIPServers(s) \cup IngressServers(s) \cup NodePortServers(s) :
               s \in Active}

\* CategorizeEndpoints.  Every endpoint has a hint, so that only the node's label and a match
\* decide whether hints are followed.
UsesClusterEndpoints(i) ==
    ~i.internalLocal \/ i.nodePort # 0 \/ i.ingress # {} \/ i.externalIPs # {}
ClusterEndpoints(s) ==
    LET hinted == {e \in endpointsMap[s] : Hint[e] = nodeLabels}
    IN  IF ~UsesClusterEndpoints(svcPortMap[s]) THEN {}
        ELSE IF hinted # {} THEN hinted ELSE endpointsMap[s]

\* With a local policy, the local endpoints, or all if there is none.
EndpointsOf(v) ==
    LET local == endpointsMap[v.service] \cap Local
    IN  IF v.local /\ local # {} THEN local ELSE ClusterEndpoints(v.service)

-----------------------------------------------------------------------------
(* The ipset entries that the Services ask for. *)

Entries(ips, s) == ips \X {svcPortMap[s].port}

LoopBackEntries(s) == {<<e, e>> : e \in endpointsMap[s] \cap Local}
ClusterIPEntries(s) == Entries({svcPortMap[s].clusterIP}, s)
ExternalIPEntries(s, local) ==
    IF svcPortMap[s].externalLocal = local THEN Entries(svcPortMap[s].externalIPs, s) ELSE {}
LoadBalancerEntries(s) == Entries(svcPortMap[s].ingress, s)
LoadBalancerLocalEntries(s) == IF svcPortMap[s].externalLocal THEN LoadBalancerEntries(s) ELSE {}

\* Load balancer addresses with source ranges: the ranges, and the address itself if the
\* node is in one of them.
FirewallEntries(s) == IF svcPortMap[s].sourceRanges # {} THEN LoadBalancerEntries(s) ELSE {}
SourceCIDREntries(s) == FirewallEntries(s) \X svcPortMap[s].sourceRanges
SourceIPEntries(s) ==
    IF \E cidr \in svcPortMap[s].sourceRanges : NodeIP \in cidr
    THEN {<<k, k[1]>> : k \in FirewallEntries(s)} ELSE {}

\* A Service with a node port but no address to serve it on is given up there, its health
\* check port included.
NodePortEntries(s) ==
    IF svcPortMap[s].nodePort # 0 /\ nodeIPs # {} THEN {svcPortMap[s].nodePort} ELSE {}
NodePortLocalEntries(s) == IF svcPortMap[s].externalLocal THEN NodePortEntries(s) ELSE {}
HealthCheckEntries(s) ==
    IF svcPortMap[s].nodePort # 0 /\ nodeIPs = {} THEN {} ELSE {svcPortMap[s].healthCheckNodePort} \ {0}

activeEntries ==
    LET All(Of(_)) == UNION {Of(s) : s \in Active}
        External(s) == ExternalIPEntries(s, FALSE)
        ExternalLocal(s) == ExternalIPEntries(s, TRUE)
    IN  [LoopBack |-> All(LoopBackEntries), ClusterIP |-> All(ClusterIPEntries),
         ExternalIP |-> All(External), ExternalIPLocal |-> All(ExternalLocal),
         LoadBalancer |-> All(LoadBalancerEntries), LoadBalancerLocal |-> All(LoadBalancerLocalEntries),
         LoadBalancerFW |-> All(FirewallEntries), SourceCIDR |-> All(SourceCIDREntries),
         SourceIP |-> All(SourceIPEntries), NodePort |-> All(NodePortEntries),
         NodePortLocal |-> All(NodePortLocalEntries),
         HealthCheckNodePort |-> All(HealthCheckEntries), IPVSIPs |-> bindings]

-----------------------------------------------------------------------------
(* Calls into the kernel. *)

\* A virtual server is found by its address and port.
GetRealServers(key) == IF key \in DOMAIN ipvs THEN ipvs[key].weights ELSE <<>>

\* AddVirtualServer or, if it exists with another timeout, UpdateVirtualServer, which leaves
\* its real servers alone.
AddVirtualServer(v) ==
    [k \in DOMAIN ipvs \cup {v.key} |->
        IF k = v.key THEN [timeout |-> v.timeout, weights |-> GetRealServers(k)] ELSE ipvs[k]]

\* AddRealServer, UpdateRealServer and DeleteRealServer, for all real servers of a virtual one.
SetRealServers(key, weights) == [ipvs EXCEPT ![key].weights = weights]

DeleteVirtualServers(keys) == [k \in DOMAIN ipvs \ keys |-> ipvs[k]]

EnsureAddressBind(v) == IF v.bind THEN dummy \cup {v.key[1]} ELSE dummy
UnbindAddresses(superfluous) == dummy \ superfluous

\* The addresses of all interfaces but the dummy device, or none if they cannot be listed.
GetAllLocalAddressesExcept(listed) == IF listed THEN NodeAddresses ELSE {}

\* What syncIPSetEntries makes of a set when all calls succeed, when the entries cannot be
\* listed, when the legacy ones are not deleted, when the active ones are not added.
syncIPSetEntries(n, failed) ==
    CASE failed = "no"   -> activeEntries[n]
      [] failed = "list" -> ipsets[n]
      [] failed = "del"  -> ipsets[n] \cup activeEntries[n]
      [] failed = "add"  -> ipsets[n] \cap activeEntries[n]

-----------------------------------------------------------------------------
(* The graceful termination list. *)

InTerminationList(key, e) == <<key, e>> \in rsList

\* deleteRsFunc leaves real servers with connections alone.
deleteRsFunc(c) == ~(Graceful /\ c \in conns)

\* GracefulDeleteRS deletes a real server at once or, if that is not possible, sets its
\* weight to 0 and lists it; MoveRSOutofGracefulDeleteList deletes it without waiting.
GracefulDeleteRS(key, deleted, drain) ==
    /\ ipvs' = SetRealServers(key, LET now == GetRealServers(key)
                                  IN  [e \in DOMAIN now \ deleted |-> IF e \in drain THEN 0 ELSE now[e]])
    /\ rsList' = rsList \cup ({key} \X drain)
    /\ conns' = conns \ ({key} \X deleted)
MoveRSOutofGracefulDeleteList(key, es) ==
    /\ rsList' = rsList \ ({key} \X es)
    /\ conns' = conns \ ({key} \X es)

-----------------------------------------------------------------------------
(* syncProxyRules. *)

\* One more call fails.
Fault == failures < MaxFailures /\ failures' = failures + 1 /\ disturbed' = TRUE
NoFault == UNCHANGED <<failures, disturbed>>

\* Whichever way syncProxyRules returns, initialSync is off.  After a first sync, what is at
\* weight 0 in the kernel is listed, or no later sync will raise its weight.
Drained(servers, listed) ==
    {c \in {<<k, e>> : k \in DOMAIN servers, e \in Endpoints} \ listed :
        c[2] \in DOMAIN servers[c[1]].weights /\ servers[c[1]].weights[c[2]] = 0}
Return ==
    /\ pc' = "idle" /\ active' = {} /\ bindings' = {} /\ declared' = TRUE
    /\ initialSync' = FALSE
    /\ stuck' = IF initialSync THEN Drained(ipvs', rsList') ELSE stuck

\* Mutant of SyncDue: a change is needed, and syncPeriod is not looked at.
SyncDueOnChange ==
    /\ pc = "idle" /\ Initialized
    /\ \E s \in Services : watch[s] # [spec |-> svcPortMap[s], endpoints |-> endpointsMap[s]]

\* syncProxyRules runs when the sync runner calls it, at the latest after syncPeriod, and does
\* nothing before the informers are synced.
SyncDue == pc = "idle" /\ Initialized

\* createAndLinkKubeChain: a chain that cannot be ensured is not declared, nor are those after
\* it, and no jump is made; a jump that cannot be made is left out.
createAndLinkKubeChain ==
    \/ declared' = TRUE /\ iptables' = [iptables EXCEPT !.linked = TRUE]
    \/ failures' > failures /\ declared' \in {TRUE, FALSE} /\ iptables' = iptables

\* The sync begins: the informers' state is taken over, the chains, the dummy device and the
\* ipsets are made to exist, the node's addresses listed.  An error listing them leaves none.
StartSync ==
    /\ SyncDue
    /\ svcPortMap' = [s \in Services |-> watch[s].spec]
    /\ endpointsMap' = [s \in Services |-> watch[s].endpoints]
    /\ pc' = "services"
    /\ (disturbed' = FALSE /\ UNCHANGED failures) \/ Fault
    /\ createAndLinkKubeChain
    /\ \E listed \in {TRUE} \cup (IF failures' > failures THEN {FALSE} ELSE {}) :
           nodeAddressSet' = GetAllLocalAddressesExcept(listed)
    /\ todo' = VirtualServers' /\ undercut' = {}
    /\ UNCHANGED <<known, current, active, bindings, initialSync, rsList, ipvs, conns, dummy, ipsets, changes, stuck>>

\* The dummy device or an ipset cannot be made: the sync returns, and is not retried.
StartSyncFails ==
    /\ SyncDue /\ Fault
    /\ svcPortMap' = [s \in Services |-> watch[s].spec]
    /\ endpointsMap' = [s \in Services |-> watch[s].endpoints]
    /\ iptables' = [iptables EXCEPT !.linked = TRUE] /\ undercut' = {}
    /\ UNCHANGED <<known, todo, current, nodeAddressSet, rsList, ipvs, conns, dummy, ipsets, changes>>
    /\ Return

\* The loop over the Services takes them in any order, and one's virtual servers by rank.
IsNext(v) == v \in todo /\ \A w \in todo : w.service = v.service => v.rank <= w.rank

\* syncService adds or updates the virtual server and binds its address; syncEndpoint then
\* lists its real servers, which may fail.
syncService(v) ==
    /\ pc = "services" /\ IsNext(v) /\ todo' = todo \ {v}
    /\ ipvs' = AddVirtualServer(v)
    /\ dummy' = EnsureAddressBind(v)
    /\ active' = active \cup {v.key}
    /\ bindings' = IF v.bind THEN bindings \cup {v.key[1]} ELSE bindings
    /\ \/ pc' = "add" /\ current' = [server |-> v, listed |-> GetRealServers(v.key)] /\ NoFault
       \/ Fault /\ UNCHANGED <<pc, current>>
    /\ UNCHANGED <<known, maps, initialSync, nodeAddressSet, declared, rsList, conns, ipsets, iptables, changes,
                   stuck, undercut>>

\* The virtual server cannot be added or updated, or its address not bound: it is not active.
syncServiceFails(v) ==
    /\ pc = "services" /\ IsNext(v) /\ todo' = todo \ {v}
    /\ Fault
    /\ \/ ipvs' = ipvs
       \/ v.bind /\ ipvs' = AddVirtualServer(v)
    /\ UNCHANGED <<known, maps, initialSync, pc, current, nodeAddressSet, active, bindings, declared, rsList,
                   conns, dummy, ipsets, iptables, changes, stuck, undercut>>

\* The first sync gives the endpoints among the listed real servers their weight back, if
\* any real server was listed with another one.
WeightsReset(endpoints) ==
    IF initialSync /\ \E e \in DOMAIN current.listed : current.listed[e] # 1 THEN endpoints ELSE {}

\* syncEndpoint, first loop.  An endpoint that was listed keeps its real server, with its
\* weight reset in the first sync; if it is being drained it is deleted and added anew.  An
\* endpoint that was not listed is added.  The calls for one endpoint may fail.
AddEndpoints ==
    LET v == current.server
        key == v.key
        wanted == EndpointsOf(v)
        now == GetRealServers(key)
        listed == wanted \cap DOMAIN current.listed
        draining == {e \in listed : InTerminationList(key, e)}
        reset == WeightsReset(listed \cap DOMAIN now)
        moved == draining \cap DOMAIN now
        added == (wanted \ listed) \cup moved
    IN  /\ pc = "add" /\ pc' = "delete"
        /\ \E bad \in {{}} \cup {{e} : e \in wanted} :
              \E gone \in IF bad \subseteq moved THEN {{}, bad} ELSE {{}} :  \* deleted, then not added
                 /\ IF bad = {} THEN NoFault ELSE Fault
                 /\ ipvs' = SetRealServers(key,
                        [e \in (DOMAIN now \cup (added \ bad)) \ gone |->
                            IF e \in (added \cup reset) \ bad THEN 1 ELSE now[e]])
                 /\ MoveRSOutofGracefulDeleteList(key, (moved \ bad) \cup gone)
        /\ UNCHANGED <<known, maps, initialSync, todo, current, nodeAddressSet, active, bindings, declared, dummy,
                       ipsets, iptables, changes, stuck, undercut>>

\* syncEndpoint, second loop: GracefulDeleteRS of what was listed and is not wanted, unless
\* it is being drained already.  One call may fail, before or after the weight is changed.
DeleteEndpoints ==
    LET key == current.server.key
        old == {e \in DOMAIN current.listed \ EndpointsOf(current.server) :
                    ~InTerminationList(key, e) /\ e \in DOMAIN GetRealServers(key)}
    IN  /\ pc = "delete" /\ pc' = "services" /\ current' = None
        /\ \E bad \in {{}} \cup {{e} : e \in old}, drained \in {TRUE, FALSE} :
              LET deleted == {e \in old \ bad : deleteRsFunc(<<key, e>>)}
                  drain == (old \ (deleted \cup bad)) \cup (IF drained THEN bad ELSE {})
              IN  /\ IF bad = {} THEN NoFault /\ drained ELSE Fault
                  /\ GracefulDeleteRS(key, deleted, drain)
        /\ UNCHANGED <<known, maps, initialSync, todo, nodeAddressSet, active, bindings, declared, dummy,
                       ipsets, iptables, changes, stuck, undercut>>

\* syncIPSetEntries of every set; listing, deleting or adding may fail for one of them.
SyncIPSets ==
    /\ pc = "services" /\ todo = {} /\ pc' = "restore"
    /\ \/ ipsets' = [n \in SetNames |-> syncIPSetEntries(n, "no")] /\ NoFault
       \/ /\ Fault
          /\ \E bad \in SetNames, failed \in {"list", "del", "add"} :
                /\ syncIPSetEntries(bad, failed) # activeEntries[bad]
                /\ ipsets' = [n \in SetNames |-> syncIPSetEntries(n, IF n = bad THEN failed ELSE "no")]
    /\ UNCHANGED <<known, maps, initialSync, todo, current, nodeAddressSet, active, bindings, declared, rsList,
                   ipvs, conns, dummy, iptables, changes, stuck, undercut>>

\* writeIptablesRules: a set without entries has no rule; load balancer addresses whose
\* source ranges exclude the node are barred to it.
writeIptablesRules ==
    [linked |-> iptables.linked,
     sets |-> {n \in SetNames : activeEntries[n] # {}},
     noNodeAccess |-> activeEntries.LoadBalancerFW \ {x[1] : x \in activeEntries.SourceIP}]

\* Rules for chains that are not declared are added to those that are there.
Added(rules) == [rules EXCEPT !.sets = @ \cup iptables.sets, !.noNodeAccess = @ \cup iptables.noNodeAccess]

RestoreAll ==
    /\ pc = "restore" /\ pc' = "finish"
    /\ iptables' = IF declared THEN writeIptablesRules ELSE Added(writeIptablesRules)
    /\ UNCHANGED <<known, maps, todo, current, nodeAddressSet, active, bindings, declared, initialSync, rsList, ipvs,
                   conns, dummy, ipsets, changes, failures, history>>

\* A failed restore ends the sync; it fails for certain if a chain could not be ensured.
RestoreFails ==
    /\ pc = "restore"
    /\ Fault \/ (~declared /\ NoFault)
    /\ UNCHANGED <<known, maps, todo, current, nodeAddressSet, rsList, kernel, changes, undercut>>
    /\ Return

\* Mutant of cleanLegacyService: it looks at addresses of the dummy device only, so that the
\* virtual servers of node ports stay.
cleanLegacyServiceOfDummy == DeleteVirtualServers({k \in DOMAIN ipvs : k \notin active /\ k[1] \in dummy})

\* cleanLegacyService deletes the virtual servers that are not active.
cleanLegacyService == DeleteVirtualServers({k \in DOMAIN ipvs : k \notin active /\ k[1] \notin Excluded})

\* Addresses that are no longer wanted are unbound, legacy virtual servers deleted.
FinishSync ==
    /\ pc = "finish"
    /\ \/ dummy' = UnbindAddresses(dummy \ bindings) /\ NoFault
       \/ Fault /\ dummy' = dummy
    /\ \/ ipvs' = cleanLegacyService
       \/ failures' > failures /\ ipvs' = ipvs
    /\ conns' = {c \in conns : c[1] \in DOMAIN ipvs'}
    /\ UNCHANGED <<known, maps, todo, current, nodeAddressSet, rsList, ipsets, iptables, changes, undercut>>
    /\ Return

-----------------------------------------------------------------------------
(* Graceful termination, clients and crashes. *)

\* Every minute the listed real servers without connections are deleted.  One that cannot be
\* found leaves the list; one whose virtual server is gone stays in it.
tryDeleteRs ==
    LET present == {c \in rsList : c[2] \in DOMAIN GetRealServers(c[1])}
        deleted == {c \in present : deleteRsFunc(c)}
        missing == {c \in rsList \ present : c[1] \in DOMAIN ipvs}
    IN  /\ deleted \cup missing # {}
        /\ ipvs' = [k \in DOMAIN ipvs |-> [ipvs[k] EXCEPT !.weights =
                        [e \in {f \in DOMAIN @ : <<k, f>> \notin deleted} |-> @[e]]]]
        /\ rsList' = rsList \ (deleted \cup missing)
        /\ conns' = conns \ deleted
        /\ undercut' = undercut \cup deleted
        /\ UNCHANGED <<known, maps, work, initialSync, dummy, ipsets, iptables, changes, failures, disturbed, stuck>>

Connect(c) ==
    /\ c \notin conns /\ c[2] \in DOMAIN GetRealServers(c[1]) /\ GetRealServers(c[1])[c[2]] = 1
    /\ conns' = conns \cup {c}
    /\ UNCHANGED <<known, maps, work, initialSync, rsList, ipvs, dummy, ipsets, iptables, changes, failures, history>>

Disconnect(c) ==
    /\ c \in conns /\ conns' = conns \ {c}
    /\ UNCHANGED <<known, maps, work, initialSync, rsList, ipvs, dummy, ipsets, iptables, changes, failures, history>>

\* The process dies and is started again; the kernel keeps its state.
Crash ==
    /\ Fault
    /\ synced' = {} /\ initialSync' = TRUE
    /\ svcPortMap' = [s \in Services |-> None] /\ endpointsMap' = [s \in Services |-> {}]
    /\ pc' = "idle" /\ todo' = {} /\ current' = None
    /\ nodeAddressSet' = {} /\ active' = {} /\ bindings' = {} /\ declared' = TRUE /\ rsList' = {}
    /\ stuck' = {} /\ undercut' = {}
    /\ UNCHANGED <<watch, nodeLabels, kernel, changes>>

\* CleanupLeftovers, by a kube-proxy started for it before this one: IPVS is flushed, the dummy
\* device deleted and, once no rule matches them, the ipsets destroyed.  Each part may fail.
CleanupLeftovers ==
    /\ synced = {} /\ pc = "idle" /\ (ipvs # <<>> \/ dummy # {} \/ iptables.sets # {})
    /\ \E failed \in {"nothing", "ipvs", "device", "iptables"} :
          /\ ipvs' = IF failed = "ipvs" THEN ipvs ELSE <<>>
          /\ conns' = IF failed = "ipvs" THEN conns ELSE {}
          /\ dummy' = IF failed = "device" THEN dummy ELSE {}
          /\ IF failed = "iptables" THEN UNCHANGED <<iptables, ipsets>>
             ELSE /\ iptables' = NoRules
                  /\ ipsets' = [n \in SetNames |-> {}]
    /\ UNCHANGED <<known, maps, work, initialSync, rsList, changes, failures, history>>

Step ==
    \/ StartSync \/ AddEndpoints \/ DeleteEndpoints \/ SyncIPSets \/ RestoreAll \/ FinishSync
    \/ \E v \in todo : syncService(v)

Next ==
    \/ \E s \in Services, spec \in Specs \cup {None}, es \in SUBSET Endpoints : OnServiceUpdate(s, spec, es)
    \/ \E what \in {"services", "slices"} : OnSynced(what)
    \/ \E labels \in Zones \cup {None} : OnNodeUpdate(labels)
    \/ Step \/ StartSyncFails \/ RestoreFails \/ \E v \in todo : syncServiceFails(v)
    \/ tryDeleteRs \/ Crash \/ CleanupLeftovers
    \/ \E c \in Clients : Connect(c) \/ Disconnect(c)

Spec == Init /\ [][Next]_vars

-----------------------------------------------------------------------------
(* What packets meet: the rules of the iptables chains over the ipsets. *)

Matches(set, x) == iptables.linked /\ set \in iptables.sets /\ x \in ipsets[set]

\* KUBE-IPVS-FILTER rejects what is for the dummy device's addresses and no Service's.
Rejected(ip, port) ==
    /\ iptables.linked /\ ip \in ipsets.IPVSIPs
    /\ <<ip, port>> \notin ipsets.LoadBalancer \cup ipsets.ClusterIP \cup ipsets.ExternalIP \cup ipsets.ExternalIPLocal
    /\ port \notin ipsets.HealthCheckNodePort

\* KUBE-SOURCE-RANGES-FIREWALL and, for the node itself, KUBE-IPVS-OUT-FILTER.
Dropped(src, key) ==
    \/ /\ Matches("LoadBalancerFW", key)
       /\ ~\E x \in ipsets.SourceCIDR : Matches("SourceCIDR", x) /\ x[1] = key /\ src \in x[2]
       /\ ~Matches("SourceIP", <<key, src>>)
    \/ iptables.linked /\ src = key[1] /\ key \in iptables.noNodeAccess

\* KUBE-SERVICES, KUBE-LOAD-BALANCER and KUBE-NODE-PORT mark for masquerading.
Masqueraded(key) ==
    \/ Matches("ExternalIP", key)
    \/ Matches("LoadBalancer", key) /\ ~Matches("LoadBalancerLocal", key)
    \/ key[1] \in NodeAddresses /\ Matches("NodePort", key[2]) /\ ~Matches("NodePortLocal", key[2])

\* The real servers of v: its endpoints and only they take connections, others only drain.
\* Excepted are an endpoint that a failing first sync left at weight 0 and, as long as deleted
\* names it, one that tryDeleteRs has deleted.
RealServersRight(v, deleted) ==
    LET weights == ipvs[v.key].weights
    IN  /\ {e \in DOMAIN weights : weights[e] = 1} \subseteq EndpointsOf(v)
        /\ \A e \in DOMAIN weights : weights[e] = 0 => <<v.key, e>> \in rsList \cup stuck
        /\ \A e \in EndpointsOf(v) :
              \/ e \in DOMAIN weights /\ (weights[e] = 1 \/ <<v.key, e>> \in stuck)
              \/ e \notin DOMAIN weights /\ <<v.key, e>> \in deleted

\* The kernel serves v as its Service asks, and the filters let its clients through.
Served(v, deleted) ==
    LET spec == svcPortMap[v.service]
    IN  /\ v.key \in DOMAIN ipvs /\ ipvs[v.key].timeout = v.timeout
        /\ RealServersRight(v, deleted)
        /\ v.bind => v.key[1] \in dummy
        /\ ~Rejected(v.key[1], v.key[2])
        /\ (v.key[1] # spec.clusterIP) => (Masqueraded(v.key) <=> ~v.local)
        /\ \A src \in Sources :
              Dropped(src, v.key) <=> /\ v.key[1] \in spec.ingress /\ spec.sourceRanges # {}
                                      /\ \A cidr \in spec.sourceRanges : src \notin cidr

Routed(deleted) ==
    /\ \A v \in VirtualServers : Served(v, deleted)
    /\ \A k \in DOMAIN ipvs : k[1] \in Excluded \/ \E v \in VirtualServers : v.key = k
    /\ \A ip \in dummy : (\E v \in VirtualServers : v.bind /\ v.key[1] = ip) /\ Rejected(ip, 0)

-----------------------------------------------------------------------------
(* Properties. *)

\* After a sync in which no call failed, and until the next node event, the kernel routes what
\* the Services and endpoints of that sync ask for: no virtual server, address or weight is left
\* over, and the filters admit, drop and masquerade as the specifications say (syncProxyRules).
\* Two exceptions are the code's.  An endpoint is missing if tryDeleteRs deleted it after the
\* sync had listed it (or after it was added back while still in the graceful termination
\* list), until the next sync.  And one stays at weight 0 if the first sync of a process had a
\* call fail, because initialSync is off afterwards, although it "acts as a flag for startup
\* actions" only.
RoutesCurrent == (pc = "idle" /\ ~disturbed) => Routed(undercut)

\* The last sync was of what the informers know now, and packets are routed by it, but for
\* endpoints that a failing first sync has left at weight 0.
UpToDate ==
    /\ \A s \in Services : watch[s] = [spec |-> svcPortMap[s], endpoints |-> endpointsMap[s]]
    /\ Routed({})
=============================================================================
