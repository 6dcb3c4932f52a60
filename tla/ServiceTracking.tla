--------------------------- MODULE ServiceTracking ---------------------------
(***************************************************************************)
(* How a proxier of one IP family learns of Services and EndpointSlices:   *)
(* informer events are dispatched to it (pkg/proxy/config, metaproxier),   *)
(* collected by the ServiceChangeTracker and the EndpointsChangeTracker    *)
(* with its EndpointSliceCache, and taken over into svcPortMap and         *)
(* endpointsMap when the proxier syncs; the sync ends by deleting the      *)
(* conntrack entries that the change has made stale.                       *)
(*                                                                         *)
(* Informers, proxier and clients run concurrently; a step is what the     *)
(* code does under one lock of a tracker, or one call into the kernel.     *)
(***************************************************************************)
EXTENDS Integers, FiniteSets

CONSTANTS
    Services, Slices, Ports,
    UDPPorts,       \* the ports whose protocol is UDP
    Endpoints,      \* endpoint addresses
    Local,          \* those on this node
    Specs,          \* the Service objects, as events show them
    Contents,       \* the EndpointSlice objects
    ServiceOf,      \* slice -> the Service its label names
    AddressType,    \* slice -> "IPv4", "IPv6" or "FQDN"
    Family,         \* the proxier's IP family
    FamilyOf,       \* IP address -> its family
    ClusterIP,      \* service -> its cluster IP of this family
    Orders,         \* the orders in which a Go map of slices may be walked
    MaxEvents,      \* bound on informer events
    MaxFaults,      \* bound on failing syncs and failing conntrack calls
    None

ASSUME TrackingConstants ==
    /\ UDPPorts \subseteq Ports /\ Local \subseteq Endpoints
    /\ IsFiniteSet(Slices) /\ ServiceOf \in [Slices -> Services]
    /\ Orders \subseteq [Slices -> 1 .. Cardinality(Slices)]
    /\ AddressType \in [Slices -> {"IPv4", "IPv6", "FQDN"}]
    /\ None \notin Specs \cup Contents \cup Endpoints
    /\ \A spec \in Specs : spec.ports \subseteq Ports
    /\ MaxEvents \in Nat /\ MaxFaults \in Nat

VARIABLES
    seenService,    \* service -> the Service of its latest event, or None
    seenSlice,      \* slice -> the EndpointSlice of its latest event, or None
    items,          \* ServiceChangeTracker.items: service -> previous and current
    applied,        \* EndpointSliceCache: slice -> what the proxier has, or None
    pending,        \* EndpointSliceCache: slice -> what it does not have yet (None: removal)
    svcPortMap,     \* service port name -> BaseServicePortInfo
    endpointsMap,   \* service port name -> endpoint -> its condition
    synced,         \* the informers that have delivered their initial list (servicesSynced, ...)
    owed,           \* those whose OnServiceSynced or OnEndpointSlicesSynced has yet to sync
    asking,         \* those with a handler between its change and its test of isInitialized
    queued,         \* the sync runner has been asked for a sync
    pc,             \* where syncProxyRules is
    result,         \* the UpdateServiceMapResult and UpdateEndpointsMapResult of this sync
    rules,          \* what the last successful sync has written: port name -> endpoints
    flows,          \* conntrack: UDP port name -> where a client's flow to the cluster IP goes
    overlooked,     \* history: <<port name, target>> of flows that an update may have missed
    events, faults, \* so far
    lost            \* stale entries were left because of a failure

trackers == <<items, applied, pending>>
maps == <<svcPortMap, endpointsMap>>
asks == <<synced, owed, asking>>
vars == <<seenService, seenSlice, trackers, maps, asks, queued, pc, result, rules, flows, overlooked,
          events, faults, lost>>

Informers == {"services", "slices"}

PortNames == Services \X Ports
UDPNames == Services \X UDPPorts
BlackHole == "no endpoints"
ASSUME FlowTargets == BlackHole \notin Endpoints \cup {None}
NoResult == [deletedIPs |-> {}, deletedEndpoints |-> {}, newlyActive |-> {}]

TypeOK ==
    /\ seenService \in [Services -> Specs \cup {None}]
    /\ seenSlice \in [Slices -> Contents \cup {None}]
    /\ DOMAIN items \subseteq Services
    /\ applied \in [Slices -> Contents \cup {None}]
    /\ DOMAIN pending \subseteq Slices
    /\ DOMAIN svcPortMap \subseteq PortNames /\ DOMAIN endpointsMap \subseteq PortNames
    /\ synced \subseteq Informers /\ owed \subseteq Informers /\ asking \subseteq Informers
    /\ queued \in BOOLEAN /\ lost \in BOOLEAN
    /\ pc \in {"idle", "services", "endpoints", "write", "clean"}
    /\ flows \in [UDPNames -> Endpoints \cup {BlackHole, None}]
    /\ overlooked \subseteq UDPNames \X (Endpoints \cup {BlackHole})
    /\ events \in 0 .. MaxEvents /\ faults \in 0 .. MaxFaults

Init ==
    /\ seenService = [s \in Services |-> None]
    /\ seenSlice = [l \in Slices |-> None]
    /\ items = <<>> /\ pending = <<>>
    /\ applied = [l \in Slices |-> None]
    /\ svcPortMap = <<>> /\ endpointsMap = <<>>
    /\ synced = {} /\ owed = {} /\ asking = {}
    /\ queued = FALSE /\ pc = "idle" /\ result = NoResult
    /\ rules = <<>>
    /\ flows = [sp \in UDPNames |-> None] /\ overlooked = {}
    /\ events = 0 /\ faults = 0 /\ lost = FALSE

\* f with the entries of g, which win.
Merge(f, g) == [k \in DOMAIN f \cup DOMAIN g |-> IF k \in DOMAIN g THEN g[k] ELSE f[k]]
With(f, k, x) == [j \in DOMAIN f \cup {k} |-> IF j = k THEN x ELSE f[j]]
Without(f, ks) == [k \in DOMAIN f \ ks |-> f[k]]
UnionOf(maps_) == [k \in UNION {DOMAIN m : m \in maps_} |-> (CHOOSE m \in maps_ : k \in DOMAIN m)[k]]

-----------------------------------------------------------------------------
(* Asking for a sync. *)

isInitialized == synced = Informers

\* An informer's handler asks for a sync after a change, but only if both informers have
\* delivered their lists.  Until then the test is a step of its own (AskForSync), as they may
\* deliver between change and test; afterwards its outcome is certain.
Changed(informer, change) ==
    /\ queued' = (queued \/ (change /\ isInitialized))
    /\ asking' = IF change /\ ~isInitialized THEN asking \cup {informer} ELSE asking

AskForSync(informer) ==
    /\ informer \in asking
    /\ asking' = asking \ {informer}
    /\ queued' = (queued \/ isInitialized)
    /\ UNCHANGED <<seenService, seenSlice, trackers, maps, synced, owed, pc, result, rules, flows, overlooked,
                   events, faults, lost>>

\* OnServiceSynced and OnEndpointSlicesSynced, under the proxier's lock.
OnSynced(informer) ==
    /\ pc = "idle" /\ informer \notin synced
    /\ synced' = synced \cup {informer}
    /\ owed' = owed \cup {informer}
    /\ UNCHANGED <<seenService, seenSlice, trackers, maps, asking, queued, pc, result, rules, flows, overlooked,
                   events, faults, lost>>

-----------------------------------------------------------------------------
(* Services. *)

\* Headless and ExternalName Services are not proxied.
ShouldSkipService(spec) == spec.clusterIP = "None" \/ spec.type = "ExternalName"

\* The Service has a cluster IP of the family.
HasClusterIPOfFamily(spec) == Family \in spec.families

OfFamily(ips) == {ip \in ips : FamilyOf[ip] = Family}

\* What the proxier keeps of a port: addresses of the other family, ingress addresses in
\* proxy mode and health check ports of Services that need none are left out.
newBaseServiceInfo(spec) ==
    [externalIPs         |-> OfFamily(spec.externalIPs),
     loadBalancerVIPs    |-> OfFamily({i.ip : i \in {j \in spec.ingress : j.vip}}),
     healthCheckNodePort |-> IF spec.type = "LoadBalancer" /\ spec.localPolicy
                             THEN spec.healthCheckNodePort ELSE 0]

serviceToServiceMap(s, spec) ==
    IF spec = None \/ ShouldSkipService(spec) \/ ~HasClusterIPOfFamily(spec)
    THEN <<>>
    ELSE [p \in {s} \X spec.ports |-> newBaseServiceInfo(spec)]

\* Mutant of TrackService: the previous state is that of the latest event.
TrackServiceFromLatest(s, old, new) ==
    LET previous == serviceToServiceMap(s, old)
        current == serviceToServiceMap(s, new)
    IN  items' = IF previous = current THEN Without(items, {s})
                 ELSE With(items, s, [previous |-> previous, current |-> current])

\* ServiceChangeTracker.Update: previous is kept from the first event since the last
\* sync; a change that takes the Service back to it is dropped.
TrackService(s, old, new) ==
    LET previous == IF s \in DOMAIN items THEN items[s].previous
                    ELSE serviceToServiceMap(s, old)
        current == serviceToServiceMap(s, new)
    IN  items' = IF previous = current THEN Without(items, {s})
                 ELSE With(items, s, [previous |-> previous, current |-> current])

\* OnServiceAdd, OnServiceUpdate and OnServiceDelete of the metaproxier and its proxiers.
OnServiceUpdate(s, new) ==
    TrackService(s, seenService[s], new) /\ Changed("services", items' # <<>>)

\* The informer's handlers of a Service (add, update, delete with or without tombstone).
HandleService(s, new) ==
    /\ new # seenService[s] /\ "services" \notin asking
    /\ events < MaxEvents /\ events' = events + 1
    /\ seenService' = [seenService EXCEPT ![s] = new]
    /\ OnServiceUpdate(s, new)
    /\ UNCHANGED <<seenSlice, applied, pending, maps, synced, owed, pc, result, rules, flows,
                   overlooked, faults, lost>>

-----------------------------------------------------------------------------
(* EndpointSlices. *)

\* The slice differs from what is waiting or, if nothing is, from what is applied.
esDataChanged(l, new) ==
    IF l \in DOMAIN pending THEN new # pending[l] ELSE new # applied[l]

updatePending(l, new) ==
    pending' = IF esDataChanged(l, new) THEN With(pending, l, new) ELSE pending

\* Mutant of EndpointSliceUpdate: a removed slice asks for no sync.
EndpointSliceUpdateQuietRemoval(l, new) ==
    updatePending(l, new) /\ Changed("slices", new # None /\ esDataChanged(l, new))

\* The proxier asks for a sync if the slice changes what is pending.
EndpointSliceUpdate(l, new) ==
    updatePending(l, new) /\ Changed("slices", esDataChanged(l, new))

\* The metaproxier hands a slice to the proxier of its address type, an FQDN slice to none.
OnEndpointSliceUpdate(l, new) ==
    IF AddressType[l] = Family THEN EndpointSliceUpdate(l, new) ELSE UNCHANGED <<pending, queued, asking>>

\* The informer's handlers of an EndpointSlice.
HandleEndpointSlice(l, new) ==
    /\ new # seenSlice[l] /\ "slices" \notin asking
    /\ events < MaxEvents /\ events' = events + 1
    /\ seenSlice' = [seenSlice EXCEPT ![l] = new]
    /\ OnEndpointSliceUpdate(l, new)
    /\ UNCHANGED <<seenService, items, applied, maps, synced, owed, pc, result, rules, flows,
                   overlooked, faults, lost>>

IsReady(condition) == condition = "ready"
IsServing(condition) == condition \in {"ready", "terminating"}

\* The slices of slices that list endpoint e for the port name.
Listing(sp, slices, e) ==
    {l \in Slices : /\ ServiceOf[l] = sp[1] /\ slices[l] # None
                    /\ sp[2] \in slices[l].ports
                    /\ e \in DOMAIN slices[l].endpoints}

\* Of the slices that list one endpoint, the first the loop meets wins; for an endpoint on
\* this node, the last.
addEndpoints(sp, slices, order, e) ==
    LET ls == Listing(sp, slices, e)
        winner == CHOOSE l \in ls : \A k \in ls :
                      IF e \in Local THEN order[k] <= order[l] ELSE order[l] <= order[k]
    IN  slices[winner].endpoints[e]

ListedFor(sp, slices) ==
    {e \in Endpoints : FamilyOf[e] = Family /\ Listing(sp, slices, e) # {}}

endpointInfoByServicePort(services, slices, order) ==
    [sp \in services \X Ports |-> [e \in ListedFor(sp, slices) |-> addEndpoints(sp, slices, order, e)]]

\* Mutant of endpointsMapFromEndpointInfo: a port that lost its endpoints keeps an empty entry.
endpointsMapKeepingEmpty(info) == info

\* Ports without endpoints have no entry.
endpointsMapFromEndpointInfo(info) == Without(info, {sp \in DOMAIN info : DOMAIN info[sp] = {}})

getEndpointsMap(services, slices, order) ==
    endpointsMapFromEndpointInfo(endpointInfoByServicePort(services, slices, order))

-----------------------------------------------------------------------------
(* syncProxyRules. *)

\* The beginning of syncProxyRules, which returns early until both lists are there.
Enter == pc = "idle" /\ pc' = IF isInitialized THEN "services" ELSE "idle"

\* The sync runner starts a sync when asked, or periodically.
StartSync ==
    /\ Enter /\ queued' = FALSE
    /\ UNCHANGED <<events, seenService, seenSlice, trackers, maps, asks, result, rules, flows, overlooked,
                   faults, lost>>

\* OnServiceSynced and OnEndpointSlicesSynced call syncProxyRules themselves.
FirstSync(informer) ==
    /\ informer \in owed /\ owed' = owed \ {informer}
    /\ Enter
    /\ UNCHANGED <<events, seenService, seenSlice, trackers, maps, synced, asking, queued, result, rules, flows,
                   overlooked, faults, lost>>

\* Ports that are in a change's current map as well are updated, not deleted.
filter(change) == DOMAIN change.previous \ DOMAIN change.current

DeletedUDPClusterIPs(gone, sm) == {ClusterIP[sp[1]] : sp \in {q \in gone \cap DOMAIN sm : q[2] \in UDPPorts}}

\* ServicePortMap.Update, under the tracker's lock.
UpdateServiceMap ==
    LET changes == {items[s] : s \in DOMAIN items}
        merged == Merge(svcPortMap, UnionOf({c.current : c \in changes}))
        gone == UNION {filter(c) : c \in changes}
    IN  /\ pc = "services" /\ pc' = "endpoints"
        /\ svcPortMap' = Without(merged, gone)
        /\ items' = <<>>
        /\ result' = [NoResult EXCEPT !.deletedIPs = DeletedUDPClusterIPs(gone, merged)]
        /\ UNCHANGED <<events, seenService, seenSlice, applied, pending, endpointsMap, asks, queued, rules,
                       flows, overlooked, faults, lost>>

\* Mutant of DeletedUDPEndpoints: terminating endpoints are taken for unused ones.
DeletedReadyUDPEndpoints(old, new) ==
    {d \in (DOMAIN old) \X Endpoints : LET sp == d[1] e == d[2] IN
        /\ sp[2] \in UDPPorts
        /\ e \in DOMAIN old[sp] /\ IsReady(old[sp][e])
        /\ ~ (sp \in DOMAIN new /\ e \in DOMAIN new[sp])}

\* The UDP endpoints that served and are no longer listed.
DeletedUDPEndpoints(old, new) ==
    {d \in (DOMAIN old) \X Endpoints : LET sp == d[1] e == d[2] IN
        /\ sp[2] \in UDPPorts
        /\ e \in DOMAIN old[sp] /\ IsServing(old[sp][e])
        /\ ~ (sp \in DOMAIN new /\ e \in DOMAIN new[sp])}

Serving(m, sp) == IF sp \in DOMAIN m THEN {e \in DOMAIN m[sp] : IsServing(m[sp][e])} ELSE {}

\* The UDP ports that go from no serving endpoint to some.
NewlyActiveUDPServices(old, new) ==
    {sp \in DOMAIN new : sp[2] \in UDPPorts /\ Serving(new, sp) # {} /\ Serving(old, sp) = {}}

\* Mutant of checkoutChanges: the pending slices replace all applied ones.
checkoutPendingOnly == pending

\* The cache's pending slices become applied ones, under the cache's lock.
checkoutChanges == Merge(applied, pending)

\* The flows that detectStaleConntrackEntries may not see, as it compares with conditions
\* recomputed from the applied slices: those to an endpoint that a slice lists as not serving,
\* and those of a port with an endpoint listed both as serving and as not serving.
Unseen(changed) ==
    {d \in UDPNames \X (Endpoints \cup {BlackHole}) : LET sp == d[1] IN
        /\ sp[1] \in changed
        /\ \E e \in Endpoints : \E l, k \in Listing(sp, applied, e) :
               /\ ~ IsServing(applied[l].endpoints[e])
               /\ d[2] = e \/ (d[2] = BlackHole /\ IsServing(applied[k].endpoints[e]))}

\* EndpointsMap.Update. Before and after are computed afresh, each in an order of its own.
UpdateEndpointsMap ==
    \E before, after \in Orders :
        LET changed == {ServiceOf[l] : l \in DOMAIN pending}
            previous == getEndpointsMap(changed, applied, before)
            current == getEndpointsMap(changed, checkoutChanges, after)
        IN  /\ pc = "endpoints" /\ pc' = "write"
            /\ applied' = checkoutChanges /\ pending' = <<>>
            /\ endpointsMap' = Merge(Without(endpointsMap, DOMAIN previous), current)
            /\ result' = [result EXCEPT
                   !.deletedEndpoints = DeletedUDPEndpoints(previous, current),
                   !.newlyActive = NewlyActiveUDPServices(previous, current)]
            /\ overlooked' = overlooked \cup Unseen(changed)
            /\ UNCHANGED <<events, seenService, seenSlice, items, svcPortMap, asks, queued, rules, flows,
                           faults, lost>>

\* Ready endpoints, or those that still serve when there is none.
CategorizeEndpoints(m, sp) ==
    LET ready == {e \in Serving(m, sp) : IsReady(m[sp][e])}
    IN  IF ready # {} THEN ready ELSE Serving(m, sp)

WriteRules ==
    /\ pc = "write" /\ pc' = "clean"
    /\ rules' = [sp \in DOMAIN svcPortMap |-> CategorizeEndpoints(endpointsMap, sp)]
    /\ UNCHANGED <<events, seenService, seenSlice, trackers, maps, asks, queued, result, flows, overlooked,
                   faults, lost>>

\* The kernel refuses the rules: the sync returns, having asked for another one.
WriteRulesFails ==
    /\ pc = "write" /\ pc' = "idle"
    /\ faults < MaxFaults /\ faults' = faults + 1
    /\ queued' = TRUE /\ result' = NoResult
    /\ lost' = (lost \/ result # NoResult)
    /\ UNCHANGED <<events, seenService, seenSlice, trackers, maps, asks, rules, flows, overlooked>>

\* The addresses at which a Service port is reached.
ServiceIPs(sp) ==
    {ClusterIP[sp[1]]} \cup svcPortMap[sp].externalIPs \cup svcPortMap[sp].loadBalancerVIPs

\* Flows to deleted UDP cluster IPs and to newly active Services.  Flows to node ports, which
\* the code deletes beside those to the IPs, are not part of the model.
deleteStaleServiceConntrackEntries ==
    LET ips == result.deletedIPs
               \cup UNION {ServiceIPs(sp) : sp \in result.newlyActive \cap DOMAIN svcPortMap}
    IN  {sp \in DOMAIN flows : ClusterIP[sp[1]] \in ips}

\* Flows from a Service that still exists to its deleted endpoints, node ports again apart.
deleteStaleEndpointConntrackEntries ==
    {sp \in DOMAIN flows : \E d \in result.deletedEndpoints :
        d[1] \in DOMAIN svcPortMap /\ ClusterIP[sp[1]] \in ServiceIPs(d[1]) /\ flows[sp] = d[2]}

\* Of the flows that were overlooked, those that exist when the sync ends.
StillThere(remembered) == {d \in overlooked : remembered[d[1]] = d[2]}

CleanStaleEntries ==
    /\ pc = "clean" /\ pc' = "idle" /\ result' = NoResult
    /\ flows' = [sp \in DOMAIN flows |->
                    IF sp \in deleteStaleServiceConntrackEntries \cup deleteStaleEndpointConntrackEntries
                    THEN None ELSE flows[sp]]
    /\ overlooked' = StillThere(flows')
    /\ UNCHANGED <<events, seenService, seenSlice, trackers, maps, asks, queued, rules, faults, lost>>

\* The conntrack tool fails: the errors are logged, the entries stay.
ConntrackFails ==
    /\ pc = "clean" /\ pc' = "idle" /\ result' = NoResult
    /\ faults < MaxFaults /\ faults' = faults + 1
    /\ lost' = (lost \/ result # NoResult)
    /\ overlooked' = StillThere(flows)
    /\ UNCHANGED <<events, seenService, seenSlice, trackers, maps, asks, queued, rules, flows>>

\* A client's UDP packet to a cluster IP: the kernel remembers where it went.
Packet(sp) ==
    /\ flows[sp] = None /\ sp \in DOMAIN rules
    /\ \E to \in IF rules[sp] = {} THEN {BlackHole} ELSE rules[sp] :
           flows' = [flows EXCEPT ![sp] = to]
    /\ UNCHANGED <<events, seenService, seenSlice, trackers, maps, asks, queued, pc, result, rules, overlooked,
                   faults, lost>>

Next ==
    \/ \E s \in Services, new \in Specs \cup {None} : HandleService(s, new)
    \/ \E l \in Slices, new \in Contents \cup {None} : HandleEndpointSlice(l, new)
    \/ \E informer \in Informers : AskForSync(informer) \/ OnSynced(informer) \/ FirstSync(informer)
    \/ StartSync \/ UpdateServiceMap \/ UpdateEndpointsMap
    \/ WriteRules \/ WriteRulesFails \/ CleanStaleEntries \/ ConntrackFails
    \/ \E sp \in UDPNames : Packet(sp)

Spec == Init /\ [][Next]_vars

-----------------------------------------------------------------------------
(* Properties. *)

PartOf(s) == Without(svcPortMap, {sp \in DOMAIN svcPortMap : sp[1] # s})

ServiceMaps == {serviceToServiceMap(s, spec) : s \in Services, spec \in Specs \cup {None}}

ServiceTracker == INSTANCE ServiceView WITH
    Keys <- Services,
    Contents <- ServiceMaps,
    reported <- [s \in Services |-> serviceToServiceMap(s, seenService[s])],
    view <- [s \in Services |-> PartOf(s)]

SliceTracker == INSTANCE ServiceView WITH
    Keys <- Slices,
    Contents <- Contents \cup {None},
    reported <- [l \in Slices |-> IF AddressType[l] = Family THEN seenSlice[l] ELSE None],
    view <- applied

\* Both change trackers implement the abstract view: however events are coalesced,
\* undone or repeated between two syncs, ServicePortMap.Update leaves in svcPortMap exactly
\* the ports of the Services as last reported, the cache's checkout exactly the slices as
\* last reported, and nothing else changes either.
ImplementsServiceView == ServiceTracker!Spec /\ SliceTracker!Spec

\* The incremental endpointsMap equals one computed from all applied slices: a port has an
\* entry iff some slice lists an endpoint for it, with those endpoints, each in a condition
\* that a slice gives it.
EndpointsMapCurrent ==
    /\ DOMAIN endpointsMap = {sp \in PortNames : ListedFor(sp, applied) # {}}
    /\ \A sp \in DOMAIN endpointsMap :
          /\ DOMAIN endpointsMap[sp] = ListedFor(sp, applied)
          /\ \A e \in DOMAIN endpointsMap[sp] : \E l \in Listing(sp, applied, e) :
                endpointsMap[sp][e] = applied[l].endpoints[e]

\* Once both informers have delivered their lists, a change that the proxier has not taken
\* over is never forgotten: a sync that will take it over has been asked for, is on its way to
\* it or is owed by OnServiceSynced or OnEndpointSlicesSynced, or the handler that made it is
\* about to ask (the handlers ask only if isInitialized, which may become true meanwhile).
ChangeAnnounced ==
    isInitialized =>
        /\ items # <<>> => queued \/ owed # {} \/ "services" \in asking \/ pc = "services"
        /\ pending # <<>> => queued \/ owed # {} \/ "slices" \in asking \/ pc \in {"services", "endpoints"}

\* Between syncs, unless a failure made it lose some, a conntrack entry that keeps a client of
\* a UDP Service port away from its endpoints (the remembered endpoint is not listed any more,
\* or a black hole is remembered although an endpoint serves) is one that
\* detectStaleConntrackEntries overlooked: when it compared, a slice listed the endpoint as not
\* serving, so that its removal went unnoticed, or listed one as serving that another slice
\* listed as not serving.  Terminating, coalesced and undone changes leave none behind.
NoStaleFlows ==
    pc = "idle" /\ ~lost =>
        \A sp \in DOMAIN flows \cap DOMAIN svcPortMap :
            \/ <<sp, flows[sp]>> \in overlooked
            \/ /\ flows[sp] \in Endpoints => sp \in DOMAIN endpointsMap /\ flows[sp] \in DOMAIN endpointsMap[sp]
               /\ flows[sp] = BlackHole => Serving(endpointsMap, sp) = {}

\* What detectStaleConntrackEntries says it does: "Check if the endpoint has changed,
\* including if it went from serving to not serving. If it did change stale entries for the
\* old endpoint have to be cleared."  After a sync without failure, a remembered endpoint
\* is one that serves.
ServingFlowsOnly ==
    pc = "idle" /\ ~lost =>
        \A sp \in DOMAIN flows \cap DOMAIN svcPortMap :
            flows[sp] \in Endpoints => flows[sp] \in Serving(endpointsMap, sp)
=============================================================================
