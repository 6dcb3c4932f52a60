-------------------------- MODULE ProxyServerProofs --------------------------
(***************************************************************************)
(* Proofs about the kube-proxy process and its health servers, for any     *)
(* Services, configurations, Nodes and bounds: switching modes leaves no   *)
(* rules behind that packets meet, local traffic is told by the Node's pod *)
(* CIDRs, marked changes are reported when they are late, and the health   *)
(* check ports are those of the Services.                                  *)
(*                                                                         *)
(* Each needs to know what a process that is not running has: no proxier,  *)
(* no sync, no health check.  SetupInv follows the process from its        *)
(* cleanup to the running server, LateInv says that the mark of a family   *)
(* is at least as old as any change that counts as marked, and AnswerInv   *)
(* what the proxiers know of the Services' ports.                          *)
(***************************************************************************)
EXTENDS ProxyServer, TLAPS

-----------------------------------------------------------------------------
(* The steps. *)

\* The steps of ProxyHealth, with the rules that a sync writes.
HealthStep ==
    \/ (HealthNext \/ \E f \in Families : InformersSynced(f)) /\ UNCHANGED serverVars
    \/ \E f \in Families : WriteRules(f)

\* What goes on around the process.
Around ==
    \/ \E c \in Configs, how \in {"write", "remove"} : EditConfig(c, how)
    \/ \E n \in Nodes \cup {None} : NodeChange(n)

\* What a step can be, with the failures that end the process told apart from the others.
LEMMA Steps ==
    ASSUME [Next]_vars
    PROVE  \/ Exit /\ (Fail \/ UNCHANGED failures)
           \/ HealthStep \/ Around \/ UNCHANGED vars
           \/ Load \/ initWatcher \/ platformCleanup \/ getNodeIPs \/ platformSetup \/ createProxier
           \/ (eventHandler \/ OnNodeUpdate \/ OnNodeDelete) /\ ~Exit
<1>1. CASE Handling
  BY Zenon, <1>1 DEF Handling, eventHandler, OnNodeUpdate, OnNodeDelete, healthVars
<1>. QED  BY Zenon, <1>1 DEF Next, Starting, platformSetupFails, createProxierFails, serveHealthz, HealthStep, Around

-----------------------------------------------------------------------------
(* Starting the server. *)

\* What each step of the start leaves for the running server.
SetupInv ==
    /\ phase \in {"clean", "addressed", "setup", "running"} /\ ~leftover =>
          kernelRules \cap UnusedModes(loaded) = {}
    /\ phase # "running" => seen = None
    /\ phase = "setup" /\ loaded.detect = "node" => podCIDRs # NoCIDRs
    /\ phase = "running" /\ loaded.detect = "node" =>
          /\ PrimaryIPFamily \in DOMAIN podCIDRs /\ localDetectors = podCIDRs
          /\ seen # None => seen.podCIDRs = podCIDRs

\* An exit of the process leaves nothing of the setup.
LEMMA ExitSetup == ASSUME Exit PROVE SetupInv'
BY Zenon DEF Exit, SetupInv

\* Steps that leave the process alone, and the rules of the process' own mode.
LEMMA RunningSetup == ASSUME SetupInv, HealthStep \/ Around \/ UNCHANGED vars PROVE SetupInv'
<1>1. CASE UNCHANGED serverVars
  BY Zenon, <1>1 DEF SetupInv, serverVars, config, setup, kernel
<1>2. ASSUME NEW f \in Families, WriteRules(f) PROVE SetupInv'
  <2>1. /\ kernelRules' = kernelRules \cup {loaded.mode} \cup Remains(f)
        /\ UNCHANGED <<phase, loaded, seen, PrimaryIPFamily, podCIDRs, localDetectors, leftover>>
    BY Zenon, <1>2 DEF WriteRules, config, setup
  <2>2. loaded.mode \notin UnusedModes(loaded) /\ Remains(f) \cap UnusedModes(loaded) = {}
    BY DEF UnusedModes, isIPTablesBased, Remains
  <2>3. UnusedModes(loaded)' = UnusedModes(loaded)
    BY Zenon, <2>1
  <2>. QED  BY Zenon, <2>1, <2>2, <2>3 DEF SetupInv
<1>3. CASE Around
  <2>1. UNCHANGED <<phase, loaded, seen, PrimaryIPFamily, podCIDRs, localDetectors, kernelRules, leftover>>
    BY Zenon, <1>3 DEF Around, EditConfig, NodeChange, config, setup, kernel
  <2>. QED  BY Zenon, <2>1 DEF SetupInv
<1>. QED  BY Zenon, <1>1, <1>2, <1>3 DEF HealthStep, vars

\* The steps of the start.
LEMMA StartSetup ==
    ASSUME SetupInv, Load \/ initWatcher \/ platformCleanup \/ getNodeIPs \/ platformSetup \/ createProxier
    PROVE  SetupInv'
<1>1. CASE Load \/ initWatcher
  BY Zenon, <1>1 DEF Load, initWatcher, SetupInv, setup, kernel
<1>2. CASE platformCleanup
  BY Zenon, <1>2 DEF platformCleanup, SetupInv, config, setup
<1>3. CASE getNodeIPs
  BY Zenon, <1>3 DEF getNodeIPs, SetupInv, config, kernel
<1>4. CASE platformSetup
  BY Zenon, <1>4 DEF platformSetup, waitForPodCIDR, HasPodCIDRs, SetupInv, config, kernel
<1>5. CASE createProxier
  BY Zenon, <1>5 DEF createProxier, checkBadIPConfig, badCIDRs, getLocalDetectors, SetupInv, config, kernel
<1>. QED  BY Zenon, <1>1, <1>2, <1>3, <1>4, <1>5

\* The handlers of the running server that do not end it.
LEMMA HandlersSetup ==
    ASSUME SetupInv, eventHandler \/ OnNodeUpdate \/ OnNodeDelete, ~Exit
    PROVE  SetupInv'
<1>1. CASE eventHandler
  BY Zenon, <1>1 DEF eventHandler, SetupInv, setup, kernel
<1>2. CASE OnNodeUpdate
  BY Zenon, <1>2 DEF OnNodeUpdate, NodePodCIDRHandler, SetupInv, config, setup, kernel
<1>3. CASE OnNodeDelete
  BY Zenon, <1>3 DEF OnNodeDelete, SetupInv, config, setup, kernel
<1>. QED  BY Zenon, <1>1, <1>2, <1>3

\* Every step keeps SetupInv.
LEMMA SetupInvariant == Spec => []SetupInv
<1>1. Init => SetupInv
  BY Zenon DEF Init, SetupInv
<1>2. SetupInv /\ [Next]_vars => SetupInv'
  BY Zenon, Steps, ExitSetup, RunningSetup, StartSetup, HandlersSetup
<1>. QED  BY <1>1, <1>2, PTL DEF Spec

\* Once the server runs, packets do not meet both the rules of iptables or ipvs and those of
\* nftables, whatever modes, failed clean-ups and crashes came before, unless this process has
\* failed to clean up or has the gate of mode nftables closed (platformCleanup).
THEOREM SwitchesCleanly == Spec => []CleanSwitch
<1>1. SetupInv => CleanSwitch
  BY Zenon DEF SetupInv, CleanSwitch, UnusedModes, isIPTablesBased
<1>. QED  BY <1>1, SetupInvariant, PTL

\* With detectLocalMode NodeCIDR the proxiers tell local traffic by the pod CIDRs of the Node
\* as last seen, whatever happened to the Node while the process was starting
\* (waitForPodCIDR, checkBadIPConfig, NodePodCIDRHandler).
THEOREM LocalTrafficStaysKnown == Spec => []LocalTrafficKnown
<1>1. SetupInv => LocalTrafficKnown
  BY Zenon DEF SetupInv, LocalTrafficKnown
<1>. QED  BY <1>1, SetupInvariant, PTL

-----------------------------------------------------------------------------
(* Late changes. *)

\* The family has a mark that is at least so old.
Marked(f, age) == f \in DOMAIN oldestPendingQueuedMap /\ age <= oldestPendingQueuedMap[f]

Ages == 0 .. HealthTimeout

\* The inductive invariant behind LateChangesReported.
LateInv ==
    /\ lastUpdatedMap \subseteq Families /\ DOMAIN unwritten = Families
    /\ \A f \in DOMAIN oldestPendingQueuedMap : oldestPendingQueuedMap[f] \in Ages
    /\ \A f \in Families : \A u \in unwritten[f] :
          /\ u = [age |-> u.age, marked |-> u.marked, during |-> u.during] /\ u.age \in Ages
          /\ u.marked => Marked(f, u.age)

\* Time passes alike for marks and changes.
LEMMA OlderAges ==
    /\ \A a \in Ages : Older(a) \in Ages
    /\ \A a, b \in Ages : a <= b => Older(a) <= Older(b)
BY HealthConstants DEF Ages, Older

\* An exit of the process leaves no pending change.
LEMMA ExitLate == ASSUME Exit PROVE LateInv'
BY DEF Exit, LateInv

\* A step that neither queues nor syncs changes keeps LateInv.
LEMMA QuietLate ==
    ASSUME LateInv, UNCHANGED <<lastUpdatedMap, oldestPendingQueuedMap, unwritten>>
    PROVE  LateInv'
BY Zenon DEF LateInv, Marked

\* A change marks the families it is one for, unless they have an older mark.
LEMMA ServiceUpdateLate ==
    ASSUME LateInv, NEW s \in Services, NEW spec \in Specs \cup {None}, OnServiceUpdate(s, spec)
    PROVE  LateInv'
<1>1. PICK changed : /\ QueuedUpdate(changed \cap initialized) /\ UNCHANGED lastUpdatedMap
                     /\ unwritten' = [f \in Families |-> unwritten[f] \cup
                          IF f \in changed
                          THEN {[age |-> 0, marked |-> f \in initialized, during |-> pc[f] = "syncing"]} ELSE {}]
  BY Zenon DEF OnServiceUpdate
<1>2. 0 \in Ages /\ \A a \in Ages : 0 <= a
  BY HealthConstants DEF Ages
<1>3. \A f \in DOMAIN oldestPendingQueuedMap' : oldestPendingQueuedMap'[f] \in Ages
  BY Zenon, <1>1, <1>2 DEF QueuedUpdate, LateInv
<1>4. \A f : f \in changed \cap initialized => Marked(f, 0)'
  BY Zenon, <1>1, <1>2, <1>3 DEF QueuedUpdate, Marked
<1>5. \A f, a : Marked(f, a) => Marked(f, a)'
  BY Zenon, <1>1 DEF QueuedUpdate, Marked
<1>6. ASSUME NEW f \in Families, NEW u \in unwritten'[f]
      PROVE  /\ u = [age |-> u.age, marked |-> u.marked, during |-> u.during] /\ u.age \in Ages
             /\ u.marked => Marked(f, u.age)'
  <2>1. CASE u \in unwritten[f]
    BY Zenon, <1>5, <2>1 DEF LateInv
  <2>2. CASE u \notin unwritten[f]
    <3>1. f \in changed /\ u = [age |-> 0, marked |-> f \in initialized, during |-> pc[f] = "syncing"]
      BY Zenon, <1>1, <1>6, <2>2
    <3>2. /\ u.age = 0 /\ u.marked = (f \in initialized)
          /\ u = [age |-> u.age, marked |-> u.marked, during |-> u.during]
      BY Zenon, <3>1
    <3>. QED  BY Zenon, <1>2, <1>4, <3>1, <3>2
  <2>. QED  BY Zenon, <2>1, <2>2
<1>7. DOMAIN unwritten' = Families
  BY Zenon, <1>1
<1>. QED  BY Zenon, <1>1, <1>3, <1>6, <1>7 DEF LateInv

\* Updated deletes a mark; the changes that it would have reported are written, or are not
\* marked any more.
LEMMA UpdatedLate ==
    ASSUME LateInv, NEW f \in Families, SyncLoop(f) \/ RulesWritten(f)
    PROVE  LateInv'
<1>1. /\ Updated(f) /\ DOMAIN unwritten' = Families
      /\ \A g \in Families \ {f} : unwritten'[g] = unwritten[g]
      /\ \A u \in unwritten'[f] : \E v \in unwritten[f] :
            u = [v EXCEPT !.marked = FALSE] \/ u = [v EXCEPT !.marked = FALSE, !.during = FALSE]
  <2>1. CASE SyncLoop(f)
    BY Zenon, <2>1 DEF SyncLoop, LateInv
  <2>2. CASE RulesWritten(f)
    <3>1. /\ Updated(f) /\ unwritten' = [unwritten EXCEPT ![f] =
                {[u EXCEPT !.marked = FALSE, !.during = FALSE] : u \in {v \in @ : v.during}}]
      BY Zenon, <2>2 DEF RulesWritten
    <3>2. unwritten'[f] = {[u EXCEPT !.marked = FALSE, !.during = FALSE] : u \in {v \in unwritten[f] : v.during}}
      BY Zenon, <3>1 DEF LateInv
    <3>3. DOMAIN unwritten' = Families /\ \A g \in Families \ {f} : unwritten'[g] = unwritten[g]
      BY Zenon, <3>1 DEF LateInv
    <3>. QED  BY Zenon, <3>1, <3>2, <3>3
  <2>. QED  BY Zenon, <2>1, <2>2
<1>2. /\ lastUpdatedMap' \subseteq Families
      /\ \A g \in DOMAIN oldestPendingQueuedMap' : oldestPendingQueuedMap'[g] \in Ages
      /\ \A g, a : g # f /\ Marked(g, a) => Marked(g, a)'
  BY Zenon, <1>1 DEF Updated, LateInv, Marked
<1>3. \A u \in unwritten'[f] : /\ u = [age |-> u.age, marked |-> u.marked, during |-> u.during]
                               /\ u.age \in Ages /\ u.marked = FALSE
  <2>. TAKE u \in unwritten'[f]
  <2>1. PICK v \in unwritten[f] : u = [v EXCEPT !.marked = FALSE] \/ u = [v EXCEPT !.marked = FALSE, !.during = FALSE]
    BY Zenon, <1>1
  <2>2. v = [age |-> v.age, marked |-> v.marked, during |-> v.during] /\ v.age \in Ages
    BY Zenon DEF LateInv
  <2>3. PICK d : u = [age |-> v.age, marked |-> FALSE, during |-> d]
    <3>1. CASE u = [v EXCEPT !.marked = FALSE]
      BY Zenon, <2>2, <3>1
    <3>2. CASE u = [v EXCEPT !.marked = FALSE, !.during = FALSE]
      BY Zenon, <2>2, <3>2
    <3>. QED  BY Zenon, <2>1, <3>1, <3>2
  <2>4. u.age = v.age /\ u.marked = FALSE /\ u.during = d
    BY Zenon, <2>3
  <2>. QED  BY Zenon, <2>2, <2>3, <2>4
<1>. QED  BY Zenon, <1>1, <1>2, <1>3 DEF LateInv

\* A sync that fails leaves the marks as they are.
LEMMA FailsLate == ASSUME LateInv, NEW f \in Families, SyncFails(f) PROVE LateInv'
<1>1. /\ DOMAIN unwritten' = Families /\ UNCHANGED <<lastUpdatedMap, oldestPendingQueuedMap>>
      /\ \A g \in Families \ {f} : unwritten'[g] = unwritten[g]
      /\ \A u \in unwritten'[f] : \E v \in unwritten[f] : u = [v EXCEPT !.during = FALSE]
  BY Zenon DEF SyncFails, LateInv, health
<1>2. \A u \in unwritten'[f] : /\ u = [age |-> u.age, marked |-> u.marked, during |-> u.during] /\ u.age \in Ages
                               /\ u.marked => Marked(f, u.age)
  <2>. TAKE u \in unwritten'[f]
  <2>1. PICK v \in unwritten[f] : u = [v EXCEPT !.during = FALSE]
    BY Zenon, <1>1
  <2>2. /\ v = [age |-> v.age, marked |-> v.marked, during |-> v.during] /\ v.age \in Ages
        /\ v.marked => Marked(f, v.age)
    BY Zenon DEF LateInv
  <2>3. u = [age |-> v.age, marked |-> v.marked, during |-> FALSE]
    BY Zenon, <2>1, <2>2
  <2>. QED  BY Zenon, <2>2, <2>3
<1>3. \A g, a : Marked(g, a)' <=> Marked(g, a)
  BY Zenon, <1>1 DEF Marked
<1>. QED  BY Zenon, <1>1, <1>2, <1>3 DEF LateInv

\* Time that passes keeps LateInv.
LEMMA TickLate == ASSUME LateInv, Tick PROVE LateInv'
<1>1. /\ oldestPendingQueuedMap' = [f \in DOMAIN oldestPendingQueuedMap |-> Older(oldestPendingQueuedMap[f])]
      /\ unwritten' = [f \in Families |-> {[u EXCEPT !.age = Older(u.age)] : u \in unwritten[f]}]
      /\ UNCHANGED lastUpdatedMap
  BY Zenon DEF Tick
<1>2. \A f \in DOMAIN oldestPendingQueuedMap' : oldestPendingQueuedMap'[f] \in Ages
  BY Zenon, <1>1, OlderAges DEF LateInv
<1>3. \A f : \A a \in Ages : Marked(f, a) => Marked(f, Older(a))'
  BY Zenon, <1>1, OlderAges DEF Marked, LateInv
<1>4. ASSUME NEW f \in Families, NEW u \in unwritten'[f]
      PROVE  /\ u = [age |-> u.age, marked |-> u.marked, during |-> u.during] /\ u.age \in Ages
             /\ u.marked => Marked(f, u.age)'
  <2>1. PICK v \in unwritten[f] : u = [v EXCEPT !.age = Older(v.age)]
    BY Zenon, <1>1
  <2>2. /\ v = [age |-> v.age, marked |-> v.marked, during |-> v.during] /\ v.age \in Ages
        /\ v.marked => Marked(f, v.age)
    BY Zenon DEF LateInv
  <2>3. u = [age |-> Older(v.age), marked |-> v.marked, during |-> v.during]
    BY Zenon, <2>1, <2>2
  <2>. QED  BY Zenon, <1>3, <2>2, <2>3, OlderAges
<1>5. DOMAIN unwritten' = Families
  BY Zenon, <1>1
<1>. QED  BY Zenon, <1>1, <1>2, <1>4, <1>5 DEF LateInv

\* Every step keeps LateInv.
LEMMA LateInvariant == Spec => []LateInv
<1>1. Init => LateInv
  BY DEF Init, HealthInit, Fresh, LateInv
<1>2. LateInv /\ [Next]_vars => LateInv'
  <2>. SUFFICES ASSUME LateInv, [Next]_vars PROVE LateInv'
    BY Zenon
  <2>1. CASE Around \/ UNCHANGED vars
    BY Zenon, <2>1, QuietLate DEF Around, EditConfig, NodeChange, health, vars, healthVars
  <2>2. CASE Load \/ initWatcher \/ platformCleanup \/ getNodeIPs \/ platformSetup \/ createProxier
    BY Zenon, <2>2, QuietLate DEF Load, initWatcher, platformCleanup, getNodeIPs, platformSetup, createProxier, health, healthVars
  <2>3. CASE (eventHandler \/ OnNodeUpdate \/ OnNodeDelete) /\ ~Exit
    BY Zenon, <2>3, QuietLate DEF eventHandler, OnNodeUpdate, OnNodeDelete, healthVars, health
  <2>4. CASE HealthStep
    <3>1. CASE \E f \in Families : InformersSynced(f) \/ StartSync(f) \/ UpdateServices(f) \/ UpdateEndpoints(f)
      BY Zenon, <3>1, QuietLate DEF InformersSynced, OnSynced, StartSync, TakeOver, UpdateServices, UpdateEndpoints, health
    <3>2. CASE \/ \E ip \in Addresses, port \in {spec.port : spec \in Specs} \ {0} : Occupy(ip, port)
               \/ \E k \in sockets : Release(k)
      BY Zenon, <3>2, QuietLate DEF Occupy, Release, health
    <3>. QED  BY Zenon, <2>4, <3>1, <3>2, ServiceUpdateLate, UpdatedLate, FailsLate, TickLate
              DEF HealthStep, HealthNext, WriteRules
  <2>. QED  BY Zenon, <2>1, <2>2, <2>3, <2>4, Steps, ExitLate
<1>. QED  BY <1>1, <1>2, PTL DEF Spec

\* When the rules of a proxier have lacked a change for HealthTimeout, /healthz, /livez and all
\* Service health checks say so, except for a change received before the informers had synced
\* or whose mark Updated has deleted: the marks of the other changes are never younger than the
\* changes (QueuedUpdate, Updated, isHealthy).
THEOREM LateChangesAreReported == Spec => []LateChangesReported
<1>1. LateInv => LateChangesReported
  <2>. SUFFICES ASSUME LateInv, NEW f \in lastUpdatedMap, NEW u \in unwritten[f], u.marked, u.age = HealthTimeout
                PROVE  ~isHealthy
    BY Zenon DEF LateChangesReported, healthz, livez, ServeHTTP
  <2>1. Marked(f, HealthTimeout) /\ oldestPendingQueuedMap[f] \in Ages
    BY Zenon DEF LateInv, Marked
  <2>2. ~ (oldestPendingQueuedMap[f] < HealthTimeout)
    BY <2>1, HealthConstants DEF Marked, Ages
  <2>. QED  BY Zenon, <2>1, <2>2 DEF isHealthy, Marked
<1>. QED  BY <1>1, LateInvariant, PTL

-----------------------------------------------------------------------------
(* Service health checks. *)

\* What a proxier that has not been created knows and has.
Idle(f) == pc[f] = "idle" /\ services[f] = <<>> /\ synced[f] = NoService

\* What a proxier knows of the Services: the ports of health checks differ.
KnownRight(f) ==
    /\ synced[f] = [s \in Services |-> synced[f][s]] /\ OwnPorts(synced[f])
    /\ \A s \in Services : \/ synced[f][s] = None
                           \/ synced[f][s] = [port |-> synced[f][s].port, endpoints |-> synced[f][s].endpoints]

\* k is a socket of one of the health checks that the proxiers have.
Owned(k) == \E f \in Families : \E s \in DOMAIN services[f] : k \in listenAndServeAll(f, s, services[f][s].port)

\* The sockets are those of the health checks.
SocketsOwned == \A k : (k \in sockets /\ k.owner[1] # None) <=> Owned(k)

\* After SyncServices a proxier's health checks are those it wants, as far as the ports were
\* free, and after SyncEndpoints with the right counts.
Counted(f) ==
    /\ pc[f] \in {"opened", "idle"} =>
          /\ \A s \in DOMAIN services[f] : synced[f][s] # None /\ services[f][s].port = synced[f][s].port
          /\ (running = {f} /\ failures = 0) => DOMAIN services[f] = HealthCheckNodePorts(f)
    /\ pc[f] = "idle" => \A s \in DOMAIN services[f] : services[f][s] = synced[f][s]

\* No other program has taken a port, as far as there was no failure.
NoRivals == failures \in Nat /\ (failures = 0 => \A k \in sockets : k.owner[1] # None)

Shapes ==
    /\ DOMAIN watch = Services /\ OwnPorts(watch)
    /\ DOMAIN pc = Families /\ DOMAIN synced = Families /\ DOMAIN services = Families
    /\ running \subseteq Families /\ lastUpdatedMap \cup initialized \cup looping \subseteq running
    /\ phase # "running" => running = {}
    /\ \A f \in Families \ running : Idle(f)

\* The inductive invariant behind AnswersCurrent.
AnswerInv ==
    /\ Shapes /\ NoRivals /\ SocketsOwned
    /\ \A f \in Families : KnownRight(f) /\ DOMAIN services[f] \subseteq Services /\ Counted(f)

\* A proxier that knows of no Service and has no health check is as it should be.
LEMMA IdleRight ==
    \A f \in Families : Idle(f) => KnownRight(f) /\ DOMAIN services[f] \subseteq Services /\ Counted(f)
<1>. SUFFICES ASSUME NEW f \in Families, Idle(f)
              PROVE  KnownRight(f) /\ DOMAIN services[f] \subseteq Services /\ Counted(f)
  BY Zenon
<1>1. \A s \in Services : synced[f][s] = None
  BY Zenon DEF Idle, NoService
<1>2. synced[f] = [s \in Services |-> synced[f][s]]
  BY Zenon DEF Idle, NoService
<1>3. DOMAIN services[f] = {}
  BY DEF Idle
<1>4. HealthCheckNodePorts(f) = {}
  BY Zenon, <1>1 DEF HealthCheckNodePorts
<1>. QED  BY Zenon, <1>1, <1>2, <1>3, <1>4 DEF KnownRight, OwnPorts, Counted

\* After a sync of one family, the other families that are idle are still right.
LEMMA IdleRightNext ==
    (\A f \in Families : Idle(f) => KnownRight(f) /\ DOMAIN services[f] \subseteq Services /\ Counted(f))'
BY IdleRight, PTL

\* The process ends.
LEMMA ExitAnswers == ASSUME AnswerInv, Exit, Fail \/ UNCHANGED failures PROVE AnswerInv'
<1>1. Shapes'
  BY Zenon DEF Exit, AnswerInv, Shapes, Idle
<1>2. NoRivals'
  BY DEF Exit, AnswerInv, NoRivals, Fail
<1>3. SocketsOwned'
  BY DEF Exit, SocketsOwned, Owned
<1>4. ASSUME NEW f \in Families PROVE (KnownRight(f) /\ DOMAIN services[f] \subseteq Services /\ Counted(f))'
  <2>1. Idle(f)'
    BY Zenon DEF Exit, Idle
  <2>. QED  BY Zenon, <2>1, IdleRightNext
<1>. QED  BY Zenon, <1>1, <1>2, <1>3, <1>4 DEF AnswerInv

\* Steps that leave the proxiers and their health checks alone.
LEMMA QuietAnswers ==
    ASSUME AnswerInv, UNCHANGED <<running, nodeIPs, pc, synced, services, sockets>>,
           DOMAIN watch' = Services, OwnPorts(watch'),
           lastUpdatedMap' \cup initialized' \cup looping' \subseteq running,
           phase' # "running" => running = {}, Fail \/ UNCHANGED failures
    PROVE  AnswerInv'
<1>1. Shapes' /\ SocketsOwned'
  BY DEF AnswerInv, Shapes, SocketsOwned, Owned, Idle, listenAndServeAll
<1>2. NoRivals' /\ (failures' = 0 => failures = 0)
  BY DEF AnswerInv, NoRivals, Fail
<1>3. ASSUME NEW f \in Families PROVE (KnownRight(f) /\ DOMAIN services[f] \subseteq Services /\ Counted(f))'
  BY Zenon, <1>2 DEF AnswerInv, KnownRight, Counted, OwnPorts, HealthCheckNodePorts
<1>. QED  BY Zenon, <1>1, <1>2, <1>3 DEF AnswerInv

\* listenAndServeAll opens sockets for one Service of one family, on one port.
LEMMA SocketsOf ==
    ASSUME NEW f, NEW s, NEW port, NEW k \in listenAndServeAll(f, s, port)
    PROVE  k.owner = <<f, s>> /\ k.owner[1] = f /\ k.owner[2] = s /\ k.port = port
BY DEF listenAndServeAll

\* Before the proxiers are created: the addresses of the node are looked up, and the proxiers
\* start with nothing.
LEMMA CreatedAnswers == ASSUME AnswerInv, getNodeIPs \/ createProxier PROVE AnswerInv'
<1>1. running = {} /\ \A f \in Families : Idle(f)
  BY Zenon DEF getNodeIPs, createProxier, AnswerInv, Shapes
<1>2. /\ UNCHANGED <<watch, initialized, looping, pc, synced, lastUpdatedMap, services, sockets>>
      /\ (Fail \/ UNCHANGED failures)
  BY Zenon DEF getNodeIPs, createProxier, health
<1>3. \A f \in Families : Idle(f)'
  BY Zenon, <1>1, <1>2 DEF Idle
<1>4. running' \subseteq Families /\ (phase' # "running" => running' = {})
  <2>1. CASE getNodeIPs
    BY Zenon, <1>1, <2>1 DEF getNodeIPs
  <2>2. CASE createProxier
    BY Zenon, <2>2, HostConstants DEF createProxier, SupportedFamilies
  <2>. QED  BY Zenon, <2>1, <2>2
<1>5. Shapes'
  BY Zenon, <1>1, <1>2, <1>3, <1>4 DEF AnswerInv, Shapes
<1>6. NoRivals'
  BY <1>2 DEF AnswerInv, NoRivals, Fail
<1>7. SocketsOwned'
  BY <1>1, <1>2, <1>3 DEF AnswerInv, SocketsOwned, Owned, Idle
<1>. QED  BY Zenon, <1>3, <1>5, <1>6, <1>7, IdleRightNext DEF AnswerInv

\* What a proxier knows of a Service has the port of the Service.
LEMMA KnownShape ==
    ASSUME NEW f, NEW spec, Known(f, spec) # None
    PROVE  /\ spec # None /\ Known(f, spec).port = spec.port
           /\ Known(f, spec) = [port |-> Known(f, spec).port, endpoints |-> Known(f, spec).endpoints]
<1>1. spec # None /\ Known(f, spec) = [port |-> spec.port, endpoints |-> IF f \in spec.local THEN 1 ELSE 0]
  BY Zenon DEF Known
<1>. QED  BY <1>1

\* A sync begins, fails or writes its rules; the health checks are updated at its end.
LEMMA SyncAnswers ==
    ASSUME AnswerInv, NEW f \in Families, OnSynced(f) \/ StartSync(f) \/ SyncFails(f) \/ RulesWritten(f),
           UNCHANGED phase
    PROVE  AnswerInv'
<1>1. /\ \E p \in {"syncing", "failed", "written"} : pc' = [pc EXCEPT ![f] = p]
      /\ \/ synced' = [synced EXCEPT ![f] = [s \in Services |-> Known(f, watch[s])]]
         \/ synced' = synced
      /\ UNCHANGED <<watch, running, nodeIPs, services, sockets>> /\ (Fail \/ UNCHANGED failures)
  BY Zenon DEF OnSynced, StartSync, TakeOver, SyncFails, RulesWritten, process
<1>2. f \in running
  BY Zenon DEF OnSynced, StartSync, SyncFails, RulesWritten, AnswerInv, Shapes, Idle
<1>2a. lastUpdatedMap' \cup initialized' \cup looping' \subseteq running
  BY Zenon, <1>2 DEF OnSynced, StartSync, TakeOver, SyncFails, RulesWritten, Updated, AnswerInv, Shapes, process, health
<1>3. pc'[f] \notin {"opened", "idle"} /\ \A g \in Families \ {f} : pc'[g] = pc[g] /\ synced'[g] = synced[g]
  BY Zenon, <1>1 DEF AnswerInv, Shapes
<1>4. Shapes'
  BY Zenon, <1>1, <1>2, <1>2a, <1>3 DEF AnswerInv, Shapes, Idle
<1>5. NoRivals' /\ (failures' = 0 => failures = 0)
  BY <1>1 DEF AnswerInv, NoRivals, Fail
<1>6. SocketsOwned'
  BY <1>1 DEF AnswerInv, SocketsOwned, Owned, listenAndServeAll
<1>7. KnownRight(f)'
  <2>1. CASE synced' = synced
    BY Zenon, <2>1 DEF AnswerInv, KnownRight, OwnPorts
  <2>2. CASE synced' = [synced EXCEPT ![f] = [s \in Services |-> Known(f, watch[s])]]
    <3>1. synced'[f] = [s \in Services |-> Known(f, watch[s])]
      BY Zenon, <2>2 DEF AnswerInv, Shapes
    <3>2. \A s \in Services : synced'[f][s] = Known(f, watch[s])
      BY Zenon, <3>1
    <3>3. OwnPorts(synced'[f])
      BY SMTT(60), <3>2, KnownShape DEF AnswerInv, Shapes, OwnPorts
    <3>4. ASSUME NEW s \in Services, synced'[f][s] # None
          PROVE  synced'[f][s] = [port |-> synced'[f][s].port, endpoints |-> synced'[f][s].endpoints]
      BY <3>2, <3>4, KnownShape
    <3>5. synced'[f] = [s \in Services |-> synced'[f][s]]
      BY Zenon, <3>1
    <3>. QED  BY Zenon, <3>3, <3>4, <3>5 DEF KnownRight
  <2>. QED  BY Zenon, <1>1, <2>1, <2>2
<1>8. \A g \in Families \ {f} : KnownRight(g)' /\ Counted(g)'
  BY <1>1, <1>3, <1>5 DEF AnswerInv, KnownRight, OwnPorts, Counted, HealthCheckNodePorts
<1>9. Counted(f)'
  BY Zenon, <1>3 DEF Counted
<1>. QED  BY Zenon, <1>1, <1>4, <1>5, <1>6, <1>7, <1>8, <1>9 DEF AnswerInv

\* Another program takes a port or gives it back.
LEMMA RivalAnswers ==
    ASSUME AnswerInv, (\E ip, port : Occupy(ip, port)) \/ (\E k \in sockets : Release(k)), UNCHANGED phase
    PROVE  AnswerInv'
<1>1. /\ UNCHANGED <<watch, process, pc, synced, lastUpdatedMap, services>>
      /\ \A k : k.owner[1] # None => (k \in sockets' <=> k \in sockets)
  <2>1. ASSUME NEW ip, NEW port, Occupy(ip, port)
        PROVE  \A k : k.owner[1] # None => (k \in sockets' <=> k \in sockets)
    <3>1. [ip |-> ip, port |-> port, owner |-> <<None, None>>].owner[1] = None
      BY Zenon
    <3>2. sockets' = sockets \cup {[ip |-> ip, port |-> port, owner |-> <<None, None>>]}
      BY Zenon, <2>1 DEF Occupy
    <3>. QED  BY Zenon, <3>1, <3>2
  <2>2. ASSUME NEW j \in sockets, Release(j)
        PROVE  \A k : k.owner[1] # None => (k \in sockets' <=> k \in sockets)
    BY Zenon, <2>2 DEF Release
  <2>3. UNCHANGED <<watch, process, pc, synced, lastUpdatedMap, services>>
    BY Zenon DEF Occupy, Release, health
  <2>. QED  BY Zenon, <2>1, <2>2, <2>3
<1>2. NoRivals' /\ (failures' = 0 => failures = 0)
  <2>1. CASE \E ip, port : Occupy(ip, port)
    BY <2>1 DEF Occupy, Fail, AnswerInv, NoRivals
  <2>2. CASE \E k \in sockets : Release(k)
    BY Zenon, <2>2 DEF Release, AnswerInv, NoRivals
  <2>. QED  BY Zenon, <2>1, <2>2
<1>3. Shapes' /\ SocketsOwned'
  <2>1. Shapes'
    BY Zenon, <1>1 DEF AnswerInv, Shapes, Idle, process
  <2>2. \A k : Owned(k)' <=> Owned(k)
    BY ZenonT(60), <1>1 DEF Owned, listenAndServeAll, process
  <2>3. \A k : Owned(k) <=> k \in sockets /\ k.owner[1] # None
    BY Zenon DEF AnswerInv, SocketsOwned
  <2>4. \A k : Owned(k)' <=> k \in sockets' /\ k.owner[1] # None
    BY Zenon, <1>1, <2>2, <2>3
  <2>. QED  BY Zenon, <2>1, <2>4 DEF SocketsOwned
<1>4. \A f \in Families : KnownRight(f)' /\ DOMAIN services'[f] \subseteq Services /\ Counted(f)'
  BY <1>1, <1>2 DEF AnswerInv, KnownRight, OwnPorts, Counted, HealthCheckNodePorts, process
<1>. QED  BY Zenon, <1>2, <1>3, <1>4 DEF AnswerInv

\* A health check that stays keeps its sockets; the others are closed.
LEMMA StaysOpen ==
    ASSUME AnswerInv, NEW f \in Families
    PROVE  \A k : k \in sockets \ Closed(f) /\ k.owner[1] # None <=>
              \E g \in Families : \E s \in DOMAIN services[g] :
                 k \in listenAndServeAll(g, s, services[g][s].port) /\ (g = f => s \in Kept(f))
<1>. TAKE k
<1>1. ASSUME k \in sockets \ Closed(f), k.owner[1] # None
      PROVE  \E g \in Families : \E s \in DOMAIN services[g] :
                k \in listenAndServeAll(g, s, services[g][s].port) /\ (g = f => s \in Kept(f))
  <2>1. PICK g \in Families : \E s \in DOMAIN services[g] : k \in listenAndServeAll(g, s, services[g][s].port)
    BY Zenon, <1>1 DEF AnswerInv, SocketsOwned, Owned
  <2>2. PICK s \in DOMAIN services[g] : k \in listenAndServeAll(g, s, services[g][s].port)
    BY Zenon, <2>1
  <2>3. k.owner[1] = g /\ k.owner[2] = s
    BY <2>2, SocketsOf
  <2>4. g = f => s \in Kept(f)
    BY Zenon, <1>1, <2>3 DEF Closed
  <2>. QED  BY Zenon, <2>2, <2>4
<1>2. ASSUME NEW g \in Families, NEW s \in DOMAIN services[g],
             k \in listenAndServeAll(g, s, services[g][s].port), g = f => s \in Kept(f)
      PROVE  k \in sockets \ Closed(f) /\ k.owner[1] # None
  <2>1. k.owner[1] = g /\ k.owner[2] = s
    BY <1>2, SocketsOf
  <2>2. k \in sockets /\ k.owner[1] # None
    BY Zenon, <1>2 DEF AnswerInv, SocketsOwned, Owned
  <2>. QED  BY Zenon, <1>2, <2>1, <2>2 DEF Closed
<1>. QED  BY Zenon, <1>1, <1>2

\* A proxier without rivals finds every port free that it does not have.
LEMMA AllFree ==
    ASSUME AnswerInv, NEW f \in Families, running = {f}, failures = 0
    PROVE  Opened(f) = Missing(f)
<1>. SUFFICES ASSUME NEW s \in Missing(f), NEW k \in sockets \ Closed(f), k.port = synced[f][s].port
              PROVE  FALSE
  BY Zenon DEF Opened, Free
<1>1. k.owner[1] # None
  BY Zenon DEF AnswerInv, NoRivals
<1>2. PICK g \in Families : \E t \in DOMAIN services[g] :
         k \in listenAndServeAll(g, t, services[g][t].port) /\ (g = f => t \in Kept(f))
  BY Zenon, <1>1, StaysOpen
<1>3. PICK t \in DOMAIN services[g] :
         k \in listenAndServeAll(g, t, services[g][t].port) /\ (g = f => t \in Kept(f))
  BY Zenon, <1>2
<1>4. g = f
  BY <1>3 DEF AnswerInv, Shapes, Idle
<1>5. t \in Kept(f) /\ k.port = services[f][t].port
  BY <1>3, <1>4, SocketsOf
<1>6. t \in Services /\ synced[f][t] # None /\ synced[f][t].port # 0 /\ k.port = synced[f][t].port
  BY Zenon, <1>5 DEF Kept, HealthCheckNodePorts
<1>7. s \in Services /\ s # t /\ synced[f][s] # None
  BY Zenon, <1>5 DEF Missing, HealthCheckNodePorts
<1>. QED  BY ZenonT(60), <1>6, <1>7 DEF AnswerInv, KnownRight, OwnPorts

\* SyncServices.
LEMMA OpenedAnswers ==
    ASSUME AnswerInv, NEW f \in Families, UpdateServices(f), UNCHANGED phase
    PROVE  AnswerInv'
<1>. DEFINE port(s) == synced[f][s].port
<1>1. /\ pc' = [pc EXCEPT ![f] = "opened"] /\ pc[f] = "written"
      /\ sockets' = (sockets \ Closed(f)) \cup UNION {listenAndServeAll(f, s, port(s)) : s \in Opened(f)}
      /\ services' = [services EXCEPT ![f] = [s \in Kept(f) \cup Opened(f) |->
            IF s \in Kept(f) THEN services[f][s] ELSE [port |-> port(s), endpoints |-> 0]]]
      /\ UNCHANGED <<watch, running, initialized, looping, nodeIPs, synced, lastUpdatedMap, failures>>
  BY Zenon DEF UpdateServices, SyncServices, health, process
<1>2. /\ services'[f] = [s \in Kept(f) \cup Opened(f) |->
            IF s \in Kept(f) THEN services[f][s] ELSE [port |-> port(s), endpoints |-> 0]]
      /\ \A g \in Families \ {f} : services'[g] = services[g] /\ pc'[g] = pc[g]
      /\ DOMAIN services' = Families /\ DOMAIN pc' = Families /\ pc'[f] = "opened"
  BY Zenon, <1>1 DEF AnswerInv, Shapes
<1>3. /\ Kept(f) \subseteq HealthCheckNodePorts(f) /\ Opened(f) \subseteq HealthCheckNodePorts(f)
      /\ HealthCheckNodePorts(f) \subseteq Services
      /\ \A s \in Kept(f) : s \in DOMAIN services[f] /\ services[f][s].port = port(s)
  BY Zenon DEF Kept, Opened, Missing, HealthCheckNodePorts
<1>4. \A s \in Kept(f) \cup Opened(f) : synced[f][s] # None /\ services'[f][s].port = port(s)
  <2>. TAKE s \in Kept(f) \cup Opened(f)
  <2>1. synced[f][s] # None
    BY Zenon, <1>3 DEF HealthCheckNodePorts
  <2>2. CASE s \in Kept(f)
    BY Zenon, <1>2, <1>3, <2>1, <2>2
  <2>3. CASE s \notin Kept(f)
    <3>1. services'[f][s] = [port |-> port(s), endpoints |-> 0]
      BY Zenon, <1>2, <2>3
    <3>2. services'[f][s].port = port(s)
      <4>. HIDE DEF port
      <4>. QED  BY <3>1
    <3>. QED  BY Zenon, <2>1, <3>2
  <2>. QED  BY Zenon, <2>2, <2>3
<1>. HIDE DEF port
<1>5. Shapes'
  BY Zenon, <1>1, <1>2 DEF AnswerInv, Shapes, Idle
<1>6. \A g, s, p : listenAndServeAll(g, s, p)' = listenAndServeAll(g, s, p)
  BY ZenonT(60), <1>1 DEF listenAndServeAll
<1>7. NoRivals'
  <2>1. ASSUME NEW k \in sockets', failures = 0 PROVE k.owner[1] # None
    <3>1. CASE k \in sockets
      BY Zenon, <2>1, <3>1 DEF AnswerInv, NoRivals
    <3>2. CASE \E s \in Opened(f) : k \in listenAndServeAll(f, s, port(s))
      BY <3>2, SocketsOf, HealthConstants
    <3>. QED  BY Zenon, <1>1, <3>1, <3>2
  <2>. QED  BY ZenonT(60), <1>1, <2>1 DEF AnswerInv, NoRivals
<1>8. ASSUME NEW k, k \in sockets', k.owner[1] # None PROVE Owned(k)'
  <2>1. CASE k \in sockets \ Closed(f)
    <3>1. PICK g \in Families : \E s \in DOMAIN services[g] :
             k \in listenAndServeAll(g, s, services[g][s].port) /\ (g = f => s \in Kept(f))
      BY Zenon, <1>8, <2>1, StaysOpen
    <3>2. PICK s \in DOMAIN services[g] :
             k \in listenAndServeAll(g, s, services[g][s].port) /\ (g = f => s \in Kept(f))
      BY Zenon, <3>1
    <3>3. s \in DOMAIN services'[g] /\ services'[g][s].port = services[g][s].port
      BY <1>2, <1>3, <1>4, <3>2
    <3>. QED  BY Zenon, <1>6, <3>2, <3>3 DEF Owned
  <2>2. CASE k \notin sockets \ Closed(f)
    <3>1. PICK s \in Opened(f) : k \in listenAndServeAll(f, s, port(s))
      BY Zenon, <1>1, <1>8, <2>2
    <3>2. s \in DOMAIN services'[f] /\ services'[f][s].port = port(s)
      BY Zenon, <1>2, <1>4
    <3>. QED  BY Zenon, <1>6, <3>1, <3>2 DEF Owned
  <2>. QED  BY Zenon, <2>1, <2>2
<1>9. ASSUME NEW k, Owned(k)' PROVE k \in sockets' /\ k.owner[1] # None
  <2>1. PICK g \in Families : \E s \in DOMAIN services'[g] : k \in listenAndServeAll(g, s, services'[g][s].port)
    BY Zenon, <1>6, <1>9 DEF Owned
  <2>2. PICK s \in DOMAIN services'[g] : k \in listenAndServeAll(g, s, services'[g][s].port)
    BY Zenon, <2>1
  <2>3. k.owner[1] # None
    BY <2>2, SocketsOf, HealthConstants
  <2>4. CASE g # f \/ s \in Kept(f)
    <3>1. /\ s \in DOMAIN services[g] /\ services'[g][s].port = services[g][s].port
          /\ g = f => s \in Kept(f)
      BY <1>2, <1>3, <1>4, <2>4
    <3>2. k \in sockets \ Closed(f)
      BY Zenon, <2>2, <3>1, StaysOpen
    <3>. QED  BY Zenon, <1>1, <2>3, <3>2
  <2>5. CASE g = f /\ s \notin Kept(f)
    <3>1. s \in Opened(f) /\ services'[f][s].port = port(s)
      BY ZenonT(60), <1>2, <1>4, <2>5
    <3>. QED  BY Zenon, <1>1, <2>2, <2>3, <2>5, <3>1
  <2>. QED  BY Zenon, <2>4, <2>5
<1>10. SocketsOwned'
  BY Zenon, <1>8, <1>9 DEF SocketsOwned
<1>11. Counted(f)'
  <2>1. ASSUME running = {f}, failures = 0 PROVE DOMAIN services'[f] = HealthCheckNodePorts(f)
    <3>1. Kept(f) \cup Opened(f) = HealthCheckNodePorts(f)
      BY Zenon, <1>3, <2>1, AllFree DEF Missing
    <3>. QED  BY ZenonT(60), <1>2, <3>1
  <2>2. \A s \in DOMAIN services'[f] : synced[f][s] # None /\ services'[f][s].port = synced[f][s].port
    BY Zenon, <1>2, <1>4 DEF port
  <2>. QED  BY ZenonT(60), <1>1, <1>2, <2>1, <2>2 DEF Counted, HealthCheckNodePorts
<1>12. \A g \in Families \ {f} : Counted(g)' /\ DOMAIN services'[g] \subseteq Services
  BY ZenonT(60), <1>1, <1>2 DEF AnswerInv, Counted, HealthCheckNodePorts
<1>13. \A g \in Families : KnownRight(g)'
  BY ZenonT(60), <1>1 DEF AnswerInv, KnownRight, OwnPorts
<1>14. DOMAIN services'[f] \subseteq Services
  BY ZenonT(60), <1>2, <1>3
<1>. QED  BY Zenon, <1>5, <1>7, <1>10, <1>11, <1>12, <1>13, <1>14 DEF AnswerInv

\* SyncEndpoints.
LEMMA CountedAnswers ==
    ASSUME AnswerInv, NEW f \in Families, UpdateEndpoints(f), UNCHANGED phase
    PROVE  AnswerInv'
<1>1. /\ pc' = [pc EXCEPT ![f] = "idle"] /\ pc[f] = "opened"
      /\ services' = [services EXCEPT ![f] = [s \in DOMAIN services[f] |->
            [port |-> services[f][s].port, endpoints |-> LocalReadyEndpoints(f, s)]]]
      /\ UNCHANGED <<watch, running, initialized, looping, nodeIPs, synced, lastUpdatedMap, sockets, failures>>
  BY Zenon DEF UpdateEndpoints, SyncEndpoints, health, process
<1>2. /\ services'[f] = [s \in DOMAIN services[f] |->
            [port |-> services[f][s].port, endpoints |-> LocalReadyEndpoints(f, s)]]
      /\ \A g \in Families \ {f} : services'[g] = services[g] /\ pc'[g] = pc[g]
      /\ DOMAIN services' = Families /\ DOMAIN pc' = Families /\ pc'[f] = "idle"
  BY Zenon, <1>1 DEF AnswerInv, Shapes
<1>3. /\ DOMAIN services'[f] = DOMAIN services[f] /\ DOMAIN services[f] \subseteq Services
      /\ \A s \in DOMAIN services[f] : services'[f][s] =
            [port |-> services[f][s].port, endpoints |-> LocalReadyEndpoints(f, s)]
  BY Zenon, <1>2 DEF AnswerInv
<1>4. ASSUME NEW s \in DOMAIN services[f]
      PROVE  /\ services'[f][s].port = services[f][s].port /\ services'[f][s] = synced[f][s]
             /\ synced[f][s] # None
  <2>1. synced[f][s] # None /\ services[f][s].port = synced[f][s].port
    BY Zenon, <1>1 DEF AnswerInv, Counted
  <2>2. synced[f][s] = [port |-> synced[f][s].port, endpoints |-> synced[f][s].endpoints]
    BY Zenon, <1>3, <2>1 DEF AnswerInv, KnownRight
  <2>3. services'[f][s] = [port |-> synced[f][s].port, endpoints |-> synced[f][s].endpoints]
    BY Zenon, <1>3, <2>1 DEF LocalReadyEndpoints
  <2>. QED  BY Zenon, <2>1, <2>2, <2>3
<1>5. Shapes'
  BY Zenon, <1>1, <1>2 DEF AnswerInv, Shapes, Idle
<1>6. NoRivals'
  BY Zenon, <1>1 DEF AnswerInv, NoRivals
<1>7. \A k : Owned(k)' <=> Owned(k)
  <2>1. \A g, s, p : listenAndServeAll(g, s, p)' = listenAndServeAll(g, s, p)
    BY ZenonT(60), <1>1 DEF listenAndServeAll
  <2>2. \A g \in Families : /\ DOMAIN services'[g] = DOMAIN services[g]
                            /\ \A s \in DOMAIN services[g] : services'[g][s].port = services[g][s].port
    BY Zenon, <1>2, <1>3, <1>4
  <2>. QED  BY ZenonT(60), <2>1, <2>2 DEF Owned
<1>8. SocketsOwned'
  BY Zenon, <1>1, <1>7 DEF AnswerInv, SocketsOwned
<1>9. Counted(f)'
  <2>1. (running = {f} /\ failures = 0) => DOMAIN services[f] = HealthCheckNodePorts(f)
    BY Zenon, <1>1 DEF AnswerInv, Counted
  <2>2. HealthCheckNodePorts(f)' = HealthCheckNodePorts(f)
    BY Zenon, <1>1 DEF HealthCheckNodePorts
  <2>. QED  BY Zenon, <1>1, <1>3, <1>4, <2>1, <2>2 DEF Counted
<1>10. \A g \in Families \ {f} : Counted(g)' /\ DOMAIN services'[g] \subseteq Services
  BY ZenonT(60), <1>1, <1>2 DEF AnswerInv, Counted, HealthCheckNodePorts
<1>11. \A g \in Families : KnownRight(g)'
  BY ZenonT(60), <1>1 DEF AnswerInv, KnownRight, OwnPorts
<1>. QED  BY Zenon, <1>3, <1>5, <1>6, <1>8, <1>9, <1>10, <1>11 DEF AnswerInv

\* Every step keeps AnswerInv.
LEMMA AnswerInvariant == Spec => []AnswerInv
<1>1. Init => AnswerInv
  <2>. SUFFICES ASSUME Init PROVE AnswerInv
    BY Zenon
  <2>1. \A f \in Families : Idle(f)
    BY Zenon DEF Init, HealthInit, Fresh, Idle
  <2>2. Shapes
    BY Zenon, <2>1, HealthConstants DEF Init, HealthInit, Fresh, Shapes
  <2>3. NoRivals
    BY Zenon DEF Init, HealthInit, Fresh, NoRivals
  <2>4. SocketsOwned
    BY <2>1 DEF Init, HealthInit, Fresh, SocketsOwned, Owned, Idle
  <2>. QED  BY Zenon, <2>1, <2>2, <2>3, <2>4, IdleRight DEF AnswerInv
<1>2. AnswerInv /\ [Next]_vars => AnswerInv'
  <2>. SUFFICES ASSUME AnswerInv, [Next]_vars PROVE AnswerInv'
    BY Zenon
  <2>0. /\ DOMAIN watch = Services /\ OwnPorts(watch)
        /\ lastUpdatedMap \cup initialized \cup looping \subseteq running
        /\ phase # "running" => running = {}
    BY Zenon DEF AnswerInv, Shapes
  <2>1. CASE Around \/ UNCHANGED vars
    BY Zenon, <2>0, <2>1, QuietAnswers DEF Around, EditConfig, NodeChange, health, vars, healthVars, serverVars, process
  <2>2. CASE Load \/ initWatcher \/ platformCleanup \/ platformSetup
    BY Zenon, <2>0, <2>2, QuietAnswers DEF Load, initWatcher, platformCleanup, platformSetup, health, healthVars, process
  <2>3. CASE (eventHandler \/ OnNodeUpdate \/ OnNodeDelete) /\ ~Exit
    BY Zenon, <2>0, <2>3, QuietAnswers DEF eventHandler, OnNodeUpdate, OnNodeDelete, healthVars, health, process
  <2>4. CASE HealthStep
    <3>1. UNCHANGED phase
      BY Zenon, <2>4 DEF HealthStep, serverVars, WriteRules
    <3>2. ASSUME NEW s \in Services, NEW spec \in Specs \cup {None}, OnServiceUpdate(s, spec) PROVE AnswerInv'
      BY Zenon, <2>0, <3>1, <3>2, QuietAnswers DEF OnServiceUpdate, process
    <3>3. CASE Tick \/ \E f \in Families : SyncLoop(f)
      BY ZenonT(60), <2>0, <3>1, <3>3, QuietAnswers DEF Tick, SyncLoop, Updated, process
    <3>. QED  BY ZenonT(60), <2>4, <3>1, <3>2, <3>3, SyncAnswers, RivalAnswers, OpenedAnswers, CountedAnswers
              DEF HealthStep, HealthNext, InformersSynced, WriteRules
  <2>. QED  BY Zenon, <2>1, <2>2, <2>3, <2>4, Steps, ExitAnswers, CreatedAnswers
<1>. QED  BY <1>1, <1>2, PTL DEF Spec

\* The sockets open are those of the health checks that the proxiers have, each on all its
\* addresses or none; between syncs a health check's count is that of the last completed sync,
\* and a proxier without rivals has every health check it wants, whatever ports Services hand
\* to each other (SyncServices, SyncEndpoints).
THEOREM AnswersStayCurrent == Spec => []AnswersCurrent
<1>1. AnswerInv => AnswersCurrent
  <2>. SUFFICES ASSUME AnswerInv PROVE AnswersCurrent
    BY Zenon
  <2>. DEFINE all == UNION {UNION {listenAndServeAll(f, s, services[f][s].port) : s \in DOMAIN services[f]} : f \in Families}
  <2>1. \A k : k \in all <=> Owned(k)
    BY DEF Owned
  <2>2. {k \in sockets : k.owner[1] # None} = all
    <3>. HIDE DEF all
    <3>. QED  BY Zenon, <2>1 DEF AnswerInv, SocketsOwned
  <2>3. \A f \in running : Counted(f)
    BY Zenon DEF AnswerInv, Shapes
  <2>. QED  BY Zenon, <2>2, <2>3 DEF AnswersCurrent, Counted
<1>. QED  BY <1>1, AnswerInvariant, PTL
=============================================================================
