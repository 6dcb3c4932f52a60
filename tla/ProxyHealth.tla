----------------------------- MODULE ProxyHealth -----------------------------
(***************************************************************************)
(* What kube-proxy tells load balancers (pkg/proxy/healthcheck): the       *)
(* health server, which all proxiers of the process report to, and the     *)
(* Service health servers, one per proxier, which open a port for each     *)
(* Service with a healthCheckNodePort and answer with the state of its     *)
(* local endpoints.  In dual-stack mode two proxiers sync concurrently and *)
(* compete for the same ports.                                             *)
(***************************************************************************)
EXTENDS Integers, FiniteSets

CONSTANTS
    Families,       \* the IP families
    Services,
    Specs,          \* [port, families, local]: healthCheckNodePort or 0, the Service's families,
                    \* and those of them with a local ready endpoint
    InitialServices,    \* service -> specification or None
    AnyIP,          \* the unspecified address
    Addresses,      \* the addresses that health check ports may be opened on
    HealthTimeout,  \* 2 * syncPeriod
    MaxChanges, MaxFailures,
    None

\* No two Services of the map have the same health check port.
OwnPorts(map) ==
    \A s, t \in Services : s # t /\ map[s] # None /\ map[t] # None => map[s].port # map[t].port \/ map[s].port = 0

ASSUME HealthConstants ==
    /\ HealthTimeout \in Nat /\ None \notin Families
    /\ InitialServices \in [Services -> Specs \cup {None}] /\ OwnPorts(InitialServices)

VARIABLES
    watch,          \* service -> its specification as the informers know it, or None
    running,        \* the families whose proxier has been created
    initialized,    \* those of them whose informers have synced
    looping,        \* those of them whose SyncLoop has begun
    nodeIPs,        \* family -> addresses its health check ports are opened on
    pc,             \* family -> where its syncProxyRules is
    synced,         \* family -> service -> [port, endpoints] of its last sync, or None
    lastUpdatedMap, \* the families that have an entry in it
    oldestPendingQueuedMap,     \* family -> how long ago, up to HealthTimeout
    nodeEligible,
    services,       \* family -> service -> [port, endpoints] of its open health checks
    sockets,        \* kernel: listening sockets
    unwritten,      \* history: family -> changes that its rules do not yet reflect
    changes, failures

process == <<running, initialized, looping, nodeIPs>>
health == <<lastUpdatedMap, oldestPendingQueuedMap, nodeEligible>>
healthVars == <<watch, process, pc, synced, health, services, sockets, unwritten, changes, failures>>

NoService == [s \in Services |-> None]

\* newProxierHealthServer and newServiceHealthServer: what a process starts with.
Fresh ==
    /\ running = {} /\ initialized = {} /\ looping = {} /\ nodeIPs = [f \in Families |-> {AnyIP}]
    /\ pc = [f \in Families |-> "idle"] /\ synced = [f \in Families |-> NoService]
    /\ lastUpdatedMap = {} /\ oldestPendingQueuedMap = <<>> /\ nodeEligible = TRUE
    /\ services = [f \in Families |-> <<>>] /\ sockets = {} /\ unwritten = [f \in Families |-> {}]

HealthInit ==
    /\ watch = InitialServices /\ Fresh /\ changes = 0 /\ failures = 0

Fail == failures < MaxFailures /\ failures' = failures + 1

\* The steps of the surroundings that no step of a sync reads or disturbs are taken between
\* syncs only: taken during one they would lead to the same states.
Quiet == \A f \in Families : pc[f] \in {"idle", "failed"}

-----------------------------------------------------------------------------
(* The health server. *)

\* QueuedUpdate, for the families of fs: only the oldest pending change counts.
QueuedUpdateLatest(fs) ==
    oldestPendingQueuedMap' = [f \in DOMAIN oldestPendingQueuedMap \cup fs |->
        IF f \in fs THEN 0 ELSE oldestPendingQueuedMap[f]]
QueuedUpdate(fs) ==
    oldestPendingQueuedMap' = [f \in DOMAIN oldestPendingQueuedMap \cup fs |->
        IF f \in DOMAIN oldestPendingQueuedMap THEN oldestPendingQueuedMap[f] ELSE 0]

\* Updated forgets what is pending, changes that arrived during the sync included.
Updated(f) ==
    /\ oldestPendingQueuedMap' = [g \in DOMAIN oldestPendingQueuedMap \ {f} |-> oldestPendingQueuedMap[g]]
    /\ lastUpdatedMap' = lastUpdatedMap \cup {f}

\* Families that have never been updated are left out.
isHealthy ==
    \A f \in lastUpdatedMap \cap DOMAIN oldestPendingQueuedMap :
        oldestPendingQueuedMap[f] < HealthTimeout

SyncNode(node) == nodeEligible' = (~node.deleting /\ ~node.tainted)

\* /healthz and /livez.
healthz == isHealthy /\ nodeEligible
livez == isHealthy

-----------------------------------------------------------------------------
(* The Service health server of a family. *)

\* What the family's proxier knows of a Service: HealthCheckNodePorts and LocalReadyEndpoints.
Known(f, spec) ==
    IF spec = None \/ f \notin spec.families THEN None
    ELSE [port |-> spec.port, endpoints |-> IF f \in spec.local THEN 1 ELSE 0]
HealthCheckNodePorts(f) == {s \in Services : synced[f][s] # None /\ synced[f][s].port # 0}
LocalReadyEndpoints(f, s) == IF synced[f][s] = None THEN 0 ELSE synced[f][s].endpoints

\* listenAndServeAll opens the port on all addresses or, if one is taken, on none.
Conflict(a, b) == a = b \/ a = AnyIP \/ b = AnyIP
Free(f, port, open) == ~\E k \in open, ip \in nodeIPs[f] : k.port = port /\ Conflict(k.ip, ip)
listenAndServeAll(f, s, port) == {[ip |-> ip, port |-> port, owner |-> <<f, s>>] : ip \in nodeIPs[f]}

\* SyncServices closes the health checks that are gone or have moved, then opens those that
\* are missing.  One that cannot be opened is left for the next sync.
Kept(f) == {s \in HealthCheckNodePorts(f) \cap DOMAIN services[f] : services[f][s].port = synced[f][s].port}
Closed(f) == {k \in sockets : k.owner[1] = f /\ k.owner[2] \notin Kept(f)}
Missing(f) == HealthCheckNodePorts(f) \ Kept(f)
OpenedFirst(f) == {s \in Missing(f) : Free(f, synced[f][s].port, sockets)}
OpenedUntilError(f) ==
    IF \A s \in Missing(f) : Free(f, synced[f][s].port, sockets \ Closed(f)) THEN Missing(f) ELSE {}
Opened(f) == {s \in Missing(f) : Free(f, synced[f][s].port, sockets \ Closed(f))}
SyncServices(f) ==
    /\ sockets' = (sockets \ Closed(f)) \cup UNION {listenAndServeAll(f, s, synced[f][s].port) : s \in Opened(f)}
    /\ services' = [services EXCEPT ![f] = [s \in Kept(f) \cup Opened(f) |->
           IF s \in Kept(f) THEN services[f][s] ELSE [port |-> synced[f][s].port, endpoints |-> 0]]]

\* SyncEndpoints sets the counts of the open health checks, to 0 for those not reported.
SyncEndpoints(f) ==
    services' = [services EXCEPT ![f] = [s \in DOMAIN services[f] |->
        [port |-> services[f][s].port, endpoints |-> LocalReadyEndpoints(f, s)]]]

\* ServeHTTP: a socket's answer is 200 if it has local endpoints and the proxiers are healthy.
ServeHTTP(k) == services[k.owner[1]][k.owner[2]].endpoints # 0 /\ isHealthy

-----------------------------------------------------------------------------
(* The proxiers, as far as they call the health servers. *)

\* A Service changes: the proxiers that it is a change for queue a sync if their informers have
\* synced.  The API server never gives a port to two Services.
OnServiceUpdate(s, spec) ==
    LET changed == {f \in running : Known(f, spec) # Known(f, watch[s])}
    IN  /\ running # {} /\ changes < MaxChanges /\ changes' = changes + 1 /\ spec # watch[s]
        /\ watch' = [watch EXCEPT ![s] = spec] /\ OwnPorts(watch')
        /\ QueuedUpdate(changed \cap initialized)
        /\ unwritten' = [f \in Families |-> unwritten[f] \cup
               IF f \in changed THEN {[age |-> 0, marked |-> f \in initialized, during |-> pc[f] = "syncing"]} ELSE {}]
        /\ UNCHANGED <<process, pc, synced, lastUpdatedMap, nodeEligible, services, sockets, failures>>

\* SyncLoop begins with an Updated of its own, and then runs the sync runner.
SyncLoop(f) ==
    /\ f \in running \ looping /\ looping' = looping \cup {f}
    /\ Updated(f)
    /\ unwritten' = [unwritten EXCEPT ![f] = {[u EXCEPT !.marked = FALSE] : u \in @}]
    /\ UNCHANGED <<watch, running, initialized, nodeIPs, pc, synced, nodeEligible, services, sockets, changes, failures>>

\* A sync takes over the changes.
TakeOver(f) ==
    /\ pc' = [pc EXCEPT ![f] = "syncing"]
    /\ synced' = [synced EXCEPT ![f] = [s \in Services |-> Known(f, watch[s])]]
    /\ UNCHANGED <<watch, running, looping, nodeIPs, health, services, sockets, unwritten, changes, failures>>

\* OnServiceSynced and OnEndpointSlicesSynced: the later of them makes the first sync.
OnSynced(f) == f \in running \ initialized /\ initialized' = initialized \cup {f} /\ TakeOver(f)

\* The sync runner starts a sync on a change, for a retry or after syncPeriod.
StartSync(f) ==
    f \in initialized \cap looping /\ pc[f] \in {"idle", "failed"} /\ TakeOver(f) /\ UNCHANGED initialized

SyncFails(f) ==
    /\ pc[f] = "syncing" /\ Fail /\ pc' = [pc EXCEPT ![f] = "failed"]
    /\ unwritten' = [unwritten EXCEPT ![f] = {[u EXCEPT !.during = FALSE] : u \in @}]
    /\ UNCHANGED <<watch, process, synced, health, services, sockets, changes>>

\* The rules are written: Updated, and then the Service health checks.
RulesWritten(f) ==
    /\ pc[f] = "syncing" /\ pc' = [pc EXCEPT ![f] = "written"]
    /\ Updated(f)
    /\ unwritten' = [unwritten EXCEPT ![f] =
           {[u EXCEPT !.marked = FALSE, !.during = FALSE] : u \in {v \in @ : v.during}}]
    /\ UNCHANGED <<watch, process, synced, nodeEligible, services, sockets, changes, failures>>

UpdateServices(f) ==
    /\ pc[f] = "written" /\ pc' = [pc EXCEPT ![f] = "opened"] /\ SyncServices(f)
    /\ UNCHANGED <<watch, process, synced, health, unwritten, changes, failures>>

UpdateEndpoints(f) ==
    /\ pc[f] = "opened" /\ pc' = [pc EXCEPT ![f] = "idle"] /\ SyncEndpoints(f)
    /\ UNCHANGED <<watch, process, synced, health, sockets, unwritten, changes, failures>>

\* Time passes for what is pending.
Older(age) == IF age < HealthTimeout THEN age + 1 ELSE age
Tick ==
    /\ \E f \in Families : \E u \in unwritten[f] : u.age < HealthTimeout
    /\ oldestPendingQueuedMap' = [f \in DOMAIN oldestPendingQueuedMap |-> Older(oldestPendingQueuedMap[f])]
    /\ unwritten' = [f \in Families |-> {[u EXCEPT !.age = Older(@)] : u \in unwritten[f]}]
    /\ UNCHANGED <<watch, process, pc, synced, lastUpdatedMap, nodeEligible, services, sockets, changes, failures>>

\* Another program listens on an address and port for a while.
Occupy(ip, port) ==
    LET k == [ip |-> ip, port |-> port, owner |-> <<None, None>>]
    IN  /\ running # {} /\ Quiet /\ ~\E j \in sockets : j.port = port /\ Conflict(j.ip, ip)
        /\ Fail /\ sockets' = sockets \cup {k}
        /\ UNCHANGED <<watch, process, pc, synced, health, services, unwritten, changes>>
Release(k) ==
    /\ k.owner[1] = None /\ sockets' = sockets \ {k}
    /\ UNCHANGED <<watch, process, pc, synced, health, services, unwritten, changes, failures>>

\* The steps of the health servers' surroundings, RulesWritten and OnSynced left out.
HealthNext ==
    \/ \E s \in Services, spec \in Specs \cup {None} : OnServiceUpdate(s, spec)
    \/ \E f \in Families :
          SyncLoop(f) \/ StartSync(f) \/ SyncFails(f) \/ UpdateServices(f) \/ UpdateEndpoints(f)
    \/ Tick
    \/ \E ip \in Addresses, port \in {spec.port : spec \in Specs} \ {0} : Occupy(ip, port)
    \/ \E k \in sockets : Release(k)

-----------------------------------------------------------------------------
(* Properties. *)

\* When the rules of a proxier have lacked a change for HealthTimeout, /healthz, /livez and all
\* Service health checks, those of the other family included, say so.  Three kinds of changes
\* have no mark and are not reported: those received before the informers had synced, those
\* that came in the middle of a sync which then succeeded, and those before SyncLoop began: the
\* first are never marked, and Updated deletes the marks of the others (QueuedUpdate, Updated,
\* isHealthy).
LateChangesReported ==
    (\E f \in lastUpdatedMap : \E u \in unwritten[f] : u.marked /\ u.age = HealthTimeout) =>
        ~healthz /\ ~livez /\ \A k \in sockets : k.owner[1] # None => ~ServeHTTP(k)

\* The sockets open are those of the health checks that the proxiers have, each on all its
\* addresses or none, and between syncs a health check's count is that of the last completed
\* sync; a proxier without rivals has every health check it wants, ports that one Service
\* hands to another included (SyncServices, SyncEndpoints).
AnswersCurrent ==
    /\ {k \in sockets : k.owner[1] # None} =
           UNION {UNION {listenAndServeAll(f, s, services[f][s].port) : s \in DOMAIN services[f]} : f \in Families}
    /\ \A f \in running : pc[f] = "idle" =>
           /\ \A s \in DOMAIN services[f] : services[f][s] = synced[f][s]
           /\ (running = {f} /\ failures = 0) => DOMAIN services[f] = HealthCheckNodePorts(f)

\* The health check port of s is open and answers with the count of a family of the Service.
Served(s) ==
    (watch[s] # None /\ watch[s].port # 0 /\ watch[s].families \cap running # {}) =>
        \E k \in sockets : /\ k.owner[2] = s /\ k.port = watch[s].port
                           /\ services[k.owner[1]][s] = Known(k.owner[1], watch[s])
=============================================================================
