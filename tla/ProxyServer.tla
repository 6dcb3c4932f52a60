----------------------------- MODULE ProxyServer -----------------------------
(***************************************************************************)
(* The life of the kube-proxy process (cmd/kube-proxy/app): it loads its   *)
(* configuration file and watches it, removes the rules of the other kind  *)
(* of proxy, looks up its Node, waits for the Node's pod CIDRs, creates    *)
(* the proxiers and runs them until the configuration file or the pod      *)
(* CIDRs change; it is then restarted (by the kubelet, outside this code). *)
(* The proxiers and the health servers are those of ProxyHealth.           *)
(***************************************************************************)
EXTENDS ProxyHealth, Sequences

CONSTANTS
    V4, V6,         \* the IP families
    Configs,        \* [mode, gate, detect, clusterCIDRs, bind, hardfail], gate being that of
                    \* mode nftables (NFTablesProxyMode), without which it is not allowed
    Nodes,          \* [ips, podCIDRs, deleting, tainted]: versions of the Node
    IPTables,       \* the families that iptables is present for
    NodeIP          \* family -> the address of the node

ASSUME HostConstants == IPTables \subseteq Families

VARIABLES
    phase,          \* how far the process has come
    file, loaded,   \* the configuration file, and what was loaded from it
    watching,       \* there is a watch on the configuration file
    event,          \* file system events not yet handled
    missed,         \* the file has changed without an event that makes the process exit
    node, seen,     \* the Node in the API, and as the node handlers last saw it
    PrimaryIPFamily,
    podCIDRs,       \* as captured by platformSetup: family -> CIDR
    localDetectors, \* family -> CIDR by which the proxier tells local traffic
    kernelRules,    \* kernel: the modes that have rules, and what they leave behind without rules
    leftover        \* platformCleanup failed, which is ignored

config == <<file, loaded, watching, event, missed>>
setup == <<PrimaryIPFamily, podCIDRs, localDetectors>>
kernel == <<kernelRules, leftover>>
serverVars == <<phase, config, node, seen, setup, kernel>>
vars == <<healthVars, serverVars>>

NoCIDRs == <<>>

Init ==
    /\ HealthInit
    /\ phase = "down" /\ file \in Configs /\ loaded = None /\ watching = FALSE /\ event = {} /\ missed = FALSE
    /\ node \in Nodes /\ seen = None
    /\ PrimaryIPFamily = V4 /\ podCIDRs = NoCIDRs /\ localDetectors = NoCIDRs
    /\ kernelRules = {} /\ leftover = FALSE

\* The process ends: its sockets are closed and the state of its servers is lost.
Exit ==
    /\ phase' = "down" /\ watching' = FALSE /\ event' = {} /\ missed' = FALSE /\ seen' = None
    /\ loaded' = None /\ PrimaryIPFamily' = V4 /\ podCIDRs' = NoCIDRs /\ localDetectors' = NoCIDRs
    /\ running' = {} /\ initialized' = {} /\ looping' = {} /\ nodeIPs' = [f \in Families |-> {AnyIP}]
    /\ pc' = [f \in Families |-> "idle"] /\ synced' = [f \in Families |-> NoService]
    /\ lastUpdatedMap' = {} /\ oldestPendingQueuedMap' = <<>> /\ nodeEligible' = TRUE
    /\ services' = [f \in Families |-> <<>>] /\ sockets' = {k \in sockets : k.owner[1] = None}
    /\ unwritten' = [f \in Families |-> {}]
    /\ UNCHANGED <<watch, changes, file, node, kernel>>

-----------------------------------------------------------------------------
(* Options: the configuration file. *)

\* The file is written in place (or renamed, which eventHandler treats alike), or removed and
\* put back, as for a ConfigMap volume, which ends the watch.
EditConfig(c, how) ==
    /\ Quiet /\ changes < MaxChanges /\ changes' = changes + 1 /\ c # file /\ file' = c
    /\ event' = IF watching THEN event \cup {how} ELSE event
    /\ watching' = (watching /\ how = "write")
    /\ missed' = (phase # "down" /\ (missed \/ ~watching'))
    /\ UNCHANGED <<watch, process, pc, synced, health, services, sockets, unwritten, failures,
                   phase, loaded, node, seen, setup, kernel>>

\* Complete reads the file and then sets up the watch.
Load ==
    /\ phase = "down" /\ phase' = "loaded"
    /\ loaded' = file
    /\ UNCHANGED <<healthVars, file, watching, event, missed, node, seen, setup, kernel>>

initWatcher ==
    /\ phase = "loaded" /\ phase' = "watching" /\ watching' = TRUE
    /\ UNCHANGED <<healthVars, file, loaded, event, missed, node, seen, setup, kernel>>

\* eventHandler, which runs from runLoop on: a write or rename ends the process, anything
\* else is ignored.
eventHandlerRename ==
    /\ phase = "running" /\ event # {}
    /\ event' = {}
    /\ UNCHANGED <<healthVars, phase, file, loaded, watching, missed, node, seen, setup, kernel>>
eventHandler ==
    /\ phase = "running" /\ event # {}
    /\ IF "write" \in event THEN Exit /\ UNCHANGED failures
       ELSE /\ event' = {}
            /\ UNCHANGED <<healthVars, phase, file, loaded, watching, missed, node, seen, setup, kernel>>

-----------------------------------------------------------------------------
(* Options.Run and newProxyServer. *)

isIPTablesBased(mode) == mode \in {"iptables", "ipvs"}

\* platformCleanup removes the rules of the modes that are surely not in use; those of nftables
\* only if its gate is open.  The chain KUBE-PROXY-FIREWALL, without a jump to it, and the IPv6
\* sets of mode ipvs stay.  Each part is tried, and errors are ignored.
UnusedModesOfIPTables(c) == IF isIPTablesBased(c.mode) THEN {} ELSE {"iptables", "ipvs"}
UnusedModes(c) ==
    IF ~isIPTablesBased(c.mode) THEN {"iptables", "ipvs"} ELSE IF c.gate THEN {"nftables"} ELSE {}
platformCleanup ==
    /\ phase = "watching" /\ phase' = "clean"
    /\ \/ /\ kernelRules' = kernelRules \ UnusedModes(loaded)
          /\ leftover' = FALSE /\ UNCHANGED failures
       \/ /\ Fail /\ leftover' = TRUE
          /\ \E done \in SUBSET UnusedModes(loaded) : kernelRules' = kernelRules \ done
    /\ UNCHANGED <<watch, process, pc, synced, health, services, sockets, unwritten, changes,
                   config, node, seen, setup>>

\* getNodeIPs gives up after six attempts; the node's addresses are then the loopback's.
detectNodeIPs(ips) ==
    IF loaded.bind # None THEN loaded.bind ELSE IF ips # <<>> THEN ips[1] ELSE V4

\* platformApplyDefaults: in mode nftables nodePortAddresses is the node's own addresses, in
\* the others all.  A family without one listens on all (NewNodePortAddresses).
NodePortAddresses(ips) ==
    [f \in Families |->
        IF loaded.mode = "nftables" /\ (\/ \E i \in DOMAIN ips : ips[i] = f
                                        \/ loaded.bind = f)
        THEN {NodeIP[f]} ELSE {AnyIP}]

getNodeIPs ==
    /\ phase = "clean" /\ phase' = "addressed"
    /\ \E ips \in {<<>>} \cup (IF node = None THEN {} ELSE {node.ips}) :
          /\ IF node # None /\ ips = <<>> THEN Fail ELSE UNCHANGED failures
          /\ PrimaryIPFamily' = detectNodeIPs(ips)
          /\ nodeIPs' = NodePortAddresses(ips)
    /\ UNCHANGED <<watch, running, initialized, looping, pc, synced, health, services, sockets, unwritten, changes,
                   config, node, seen, podCIDRs, localDetectors, kernel>>

\* waitForPodCIDR waits for a Node with pod CIDRs that is not being deleted.
HasPodCIDRs == node # None /\ ~node.deleting /\ node.podCIDRs # NoCIDRs
waitForPodCIDR == loaded.detect = "node" => HasPodCIDRs

platformSetup ==
    /\ phase = "addressed" /\ waitForPodCIDR /\ phase' = "setup"
    /\ podCIDRs' = IF loaded.detect = "node" THEN node.podCIDRs ELSE NoCIDRs
    /\ UNCHANGED <<healthVars, config, node, seen, PrimaryIPFamily, localDetectors, kernel>>

\* The wait times out, or setupConntrack fails.
platformSetupFails ==
    /\ phase = "addressed"
    /\ IF waitForPodCIDR THEN Fail ELSE UNCHANGED failures
    /\ Exit

\* platformCheckSupported and checkBadIPConfig.
SupportedFamilies == IF isIPTablesBased(loaded.mode) THEN IPTables ELSE Families
dualStackSupported == SupportedFamilies = Families
badCIDRs(cidrs) == cidrs # NoCIDRs /\ PrimaryIPFamily \notin DOMAIN cidrs
checkBadIPConfigClusterOnly ==
    loaded.detect = "cluster" /\ ~dualStackSupported /\ badCIDRs(loaded.clusterCIDRs)
checkBadIPConfig ==
    \/ loaded.detect = "cluster" /\ ~dualStackSupported /\ badCIDRs(loaded.clusterCIDRs)
    \/ loaded.detect = "node" /\ badCIDRs(podCIDRs)

getLocalDetectors == IF loaded.detect = "cluster" THEN loaded.clusterCIDRs ELSE podCIDRs

createProxier ==
    /\ phase = "setup" /\ PrimaryIPFamily \in SupportedFamilies /\ ~checkBadIPConfig
    /\ phase' = "running"
    /\ running' = IF dualStackSupported THEN Families ELSE {PrimaryIPFamily}
    /\ localDetectors' = getLocalDetectors
    /\ UNCHANGED <<watch, initialized, looping, nodeIPs, pc, synced, health, services, sockets, unwritten, changes, failures,
                   config, node, seen, PrimaryIPFamily, podCIDRs, kernel>>

\* The checks fail, or the mode cannot be used on this host.
createProxierFails ==
    /\ phase = "setup"
    /\ IF PrimaryIPFamily \in SupportedFamilies /\ ~checkBadIPConfig THEN Fail ELSE UNCHANGED failures
    /\ Exit

-----------------------------------------------------------------------------
(* The running server. *)

\* The Node changes in the API, or is deleted or created again.
NodeChange(n) ==
    /\ Quiet /\ changes < MaxChanges /\ changes' = changes + 1 /\ n # node /\ node' = n
    /\ UNCHANGED <<watch, process, pc, synced, health, services, sockets, unwritten, failures,
                   phase, config, seen, setup, kernel>>

\* OnNodeAdd and OnNodeUpdate: NodePodCIDRHandler ends the process when the pod CIDRs are
\* no longer those it started with, else NodeEligibleHandler tells the health server.  As the
\* process waits for pod CIDRs, the handler never has to take over its first ones.
NodePodCIDRHandlerIgnoresAdd == loaded.detect = "node" /\ seen # None /\ node.podCIDRs # podCIDRs
NodePodCIDRHandler == loaded.detect = "node" /\ node.podCIDRs # podCIDRs
OnNodeUpdate ==
    /\ phase = "running" /\ node # None /\ seen # node
    /\ IF NodePodCIDRHandler THEN Exit /\ UNCHANGED failures
       ELSE /\ seen' = node /\ SyncNode(node)
            /\ UNCHANGED <<watch, process, pc, synced, lastUpdatedMap, oldestPendingQueuedMap,
                           services, sockets, unwritten, changes, failures, phase, config, node, setup, kernel>>
OnNodeDelete ==
    /\ phase = "running" /\ node = None /\ seen # None
    /\ seen' = None /\ SyncNode(seen)
    /\ UNCHANGED <<watch, process, pc, synced, lastUpdatedMap, oldestPendingQueuedMap,
                   services, sockets, unwritten, changes, failures, phase, config, node, setup, kernel>>

\* With bindAddressHardFail a health or metrics server that cannot listen ends the process;
\* without, it tries again.
serveHealthz == phase = "running" /\ loaded.hardfail /\ Fail /\ Exit

\* A sync leaves rules of the mode in the kernel, and what no clean-up removes.
Remains(f) ==
    IF loaded.mode = "iptables" THEN {"KUBE-PROXY-FIREWALL"}
    ELSE IF loaded.mode = "ipvs" /\ f = V6 THEN {"IPv6 sets"} ELSE {}
WriteRules(f) ==
    /\ RulesWritten(f) /\ kernelRules' = kernelRules \cup {loaded.mode} \cup Remains(f)
    /\ UNCHANGED <<phase, config, node, seen, setup, leftover>>

\* The metaproxier calls the IPv4 proxier first.
InformersSynced(f) == (f = V6 /\ V4 \in running => V4 \in initialized) /\ OnSynced(f)

\* The steps of the process that need nothing from outside.
Starting == Load \/ initWatcher \/ platformCleanup \/ getNodeIPs \/ platformSetup \/ createProxier
Handling == eventHandler \/ OnNodeUpdate \/ OnNodeDelete
Syncing(f) ==
    \/ WriteRules(f)
    \/ (SyncLoop(f) \/ InformersSynced(f) \/ StartSync(f) \/ UpdateServices(f) \/ UpdateEndpoints(f)) /\ UNCHANGED serverVars

Next ==
    \/ Starting \/ Handling \/ platformSetupFails \/ createProxierFails \/ serveHealthz
    \/ (HealthNext \/ \E f \in Families : InformersSynced(f)) /\ UNCHANGED serverVars
    \/ \E f \in Families : WriteRules(f)
    \/ \E c \in Configs, how \in {"write", "remove"} : EditConfig(c, how)
    \/ \E n \in Nodes \cup {None} : NodeChange(n)

\* The process is restarted when it ends, its steps go on, SyncLoop runs, syncs are made at
\* least once per syncPeriod, events are delivered, and other programs give a port back.
Fairness ==
    /\ WF_vars(Starting \/ Handling \/ (platformSetupFails /\ ~waitForPodCIDR) \/ createProxierFails)
    /\ \A f \in Families : WF_vars(Syncing(f))
    /\ WF_vars((\E k \in sockets : Release(k)) /\ UNCHANGED serverVars)

Spec == Init /\ [][Next]_vars /\ Fairness

-----------------------------------------------------------------------------
(* Properties. *)

\* Once the server runs, packets do not meet both the rules of iptables or ipvs and those of
\* nftables, whatever modes, failed clean-ups and crashes came before, unless this process has
\* failed to clean up or has the gate of mode nftables closed (platformCleanup).
CleanSwitch ==
    (phase = "running" /\ ~leftover /\ loaded.gate) =>
        ~("nftables" \in kernelRules /\ kernelRules \cap {"iptables", "ipvs"} # {})

\* With detectLocalMode NodeCIDR the proxiers tell local traffic by the pod CIDRs of the Node
\* as last seen, even if the Node was changed or created again while the process was starting,
\* and the primary family has one (waitForPodCIDR, checkBadIPConfig, NodePodCIDRHandler).
LocalTrafficKnown ==
    (phase = "running" /\ loaded.detect = "node") =>
        /\ PrimaryIPFamily \in DOMAIN localDetectors
        /\ seen # None => localDetectors = seen.podCIDRs

\* A change to the configuration file always ends the process ("runLoop will watch on the
\* update change of the proxy server's configuration file. Return an error when updated").
UpdatesFollowed == (phase = "running" /\ loaded # file) ~> (phase = "down")

\* If the process stays up, then in the end it runs with what is in the configuration file,
\* unless the file was removed and put back, or written before the watch was set up, and each health check
\* port is served for good with the count of a family of its Service: proxiers that lost the
\* race for a port, to each other or to another program, try again at every sync
\* (initWatcher, eventHandler, SyncServices).
EventuallyCurrent ==
    <>[](phase = "running") => <>[]((loaded = file \/ missed) /\ \A s \in Services : Served(s))
=============================================================================
