-------------------------- MODULE NodeConfigProofs ---------------------------
(***************************************************************************)
(* Proofs about the two processes that NodeConfigs bring together, for     *)
(* any number of NodeConfigs, templates, nodes, fields and runners, any    *)
(* MetricTTL and any bound on time.                                        *)
(*                                                                         *)
(* The adapter's controller: Reconciled and StoppedOnce are not inductive, *)
(* as a step could stop or end a runner that is registered for another     *)
(* NodeConfig.  Registry rules that out, and ControllerInv, the            *)
(* conjunction, is inductive.                                              *)
(*                                                                         *)
(* The adapter process implements the controller's specification, so that  *)
(* ControllerInv holds of it too.  With it, AdapterInv is inductive: what  *)
(* a runner's goroutine may hold and do at each of its statements, and     *)
(* what the store then has.                                                *)
(*                                                                         *)
(* wao-core's controller: it converges, and the NodeConfigs are then owned *)
(* by the templates that exist.  Converged and Owned speak of templates    *)
(* with nothing left to do.  Due says what there is to do meanwhile: for a *)
(* pair that nobody has given up, whose node has no event under way and    *)
(* whose template is not queued, the NodeConfig is right, its owner        *)
(* included, or the Reconcile that is running is of this template, has     *)
(* read template and node as they are now, and has the node still before   *)
(* it.  The owner is what keeps another template with a NodeConfig of the  *)
(* same name from writing to it.                                           *)
(***************************************************************************)
EXTENDS MetricsAdapter, NodeConfigTemplate, WellFoundedInduction, TLAPS

-----------------------------------------------------------------------------
(* The controller and its collector. *)

ControllerInv == ControllerTypeOK /\ Registry /\ StoppedOnce /\ Reconciled

\* The initial state: nothing is registered and nothing is queued.
LEMMA ControllerStarts == ControllerInit => ControllerInv
BY ZenonT(60), ControllerConstants DEF ControllerInit, ControllerInv, ControllerTypeOK, Registry, StoppedOnce, Reconciled, ValueTypes

\* Objects change and are queued.
LEMMA ChangePreserves ==
    ASSUME ControllerInv, NEW c \in Configs, ChangeConfig(c) \/ Resync(c)
    PROVE  ControllerInv'
<1>1. CASE ChangeConfig(c)
  <2>. USE <1>1 DEF ChangeConfig
  <2>1. ControllerTypeOK'
    BY Zenon DEF ControllerInv, ControllerTypeOK
  <2>2. Registry'
    BY Zenon DEF ControllerInv, Registry
  <2>3. Reconciled'
    BY ZenonT(60) DEF ControllerInv, Reconciled, ControllerTypeOK
  <2>. QED  BY Zenon, <2>1, <2>2, <2>3 DEF ControllerInv, StoppedOnce
<1>2. CASE Resync(c)
  <2>. USE <1>2 DEF Resync
  <2>1. ControllerTypeOK'
    BY Zenon DEF ControllerInv, ControllerTypeOK
  <2>2. Registry'
    BY Zenon DEF ControllerInv, Registry
  <2>3. Reconciled'
    BY Zenon DEF ControllerInv, Reconciled
  <2>. QED  BY Zenon, <2>1, <2>2, <2>3 DEF ControllerInv, StoppedOnce
<1>. QED  BY Zenon, <1>1, <1>2

\* A deletion stops exactly the runners of its object, once.
LEMMA DeletionPreserves ==
    ASSUME ControllerInv, NEW c \in Configs, ReconcileDeletion(c)
    PROVE  ControllerInv'
<1>. USE DEF ReconcileDeletion, Unregister
<1>1. ControllerTypeOK'
  BY DEF ControllerInv, ControllerTypeOK, Registered, ValueTypes
<1>2. \A d \in Configs, vt \in ValueTypes :
        /\ d = c => collector'[<<d, vt>>] = None
        /\ d # c => /\ collector'[<<d, vt>>] = collector[<<d, vt>>]
                    /\ collector[<<d, vt>>] # None => collector[<<d, vt>>] \notin Registered(c)
  BY Zenon DEF ControllerInv, ControllerTypeOK, Registry, Registered
<1>3. Registered(c) \cap stopped = {}
  BY Zenon DEF ControllerInv, ControllerTypeOK, Registry, Registered
<1>4. Registry'
  <2>1. \A k \in Configs \X ValueTypes :
          collector'[k] # None => collector'[k] = collector[k] /\ collector[k] \in alive' \ stopped'
    <3>. TAKE k \in Configs \X ValueTypes
    <3>. HAVE collector'[k] # None
    <3>1. collector'[k] = collector[k] /\ k[1] # c
      BY Zenon DEF ControllerInv, ControllerTypeOK
    <3>2. k = <<k[1], k[2]>> /\ k[1] \in Configs /\ k[2] \in ValueTypes
      OBVIOUS
    <3>3. collector[k] \notin Registered(c)
      BY <1>2, <3>1, <3>2
    <3>. QED  BY Zenon, <3>1, <3>3 DEF ControllerInv, ControllerTypeOK, Registry
  <2>2. DOMAIN collector' = Configs \X ValueTypes /\ DOMAIN collector = Configs \X ValueTypes
    BY Zenon DEF ControllerInv, ControllerTypeOK
  <2>. QED  BY Zenon, <2>1, <2>2 DEF ControllerInv, Registry
<1>5. StoppedOnce'
  BY Zenon, <1>3 DEF ControllerInv, StoppedOnce
<1>6. Reconciled'
  <2>. SUFFICES ASSUME NEW d \in Configs \ queue', NEW vt \in ValueTypes
                PROVE  LET r == collector'[<<d, vt>>] IN
                         IF nc'[d] = None \/ nc'[d].deleting THEN r = None
                         ELSE /\ r \in alive' \ stopped'
                              /\ job'[r] = [config |-> d, vt |-> vt, node |-> nc'[d].node]
    BY Zenon DEF Reconciled
  <2>1. CASE d = c
    BY Zenon, <2>1, <1>2
  <2>2. CASE d # c
    <3>1. d \notin queue /\ collector'[<<d, vt>>] = collector[<<d, vt>>]
      BY Zenon, <2>2, <1>2
    <3>2. collector[<<d, vt>>] # None => collector[<<d, vt>>] \notin Registered(c)
      BY Zenon, <2>2, <1>2
    <3>. QED  BY Zenon, <3>1, <3>2, ControllerConstants DEF ControllerInv, Reconciled, ControllerTypeOK
  <2>. QED  BY Zenon, <2>1, <2>2
<1>. QED  BY Zenon, <1>1, <1>4, <1>5, <1>6 DEF ControllerInv

\* Register puts new runners, one per value type, under the keys of its object and leaves
\* every other runner alone.
LEMMA RegisterPreserves ==
    ASSUME ControllerInv, NEW c \in Configs, ReconcileNodeConfig(c)
    PROVE  ControllerInv'
<1>. DEFINE vts == Registrable(nc[c])
<1>1. nc[c] \in NodeConfig /\ vts \subseteq ValueTypes
  BY Zenon DEF ControllerInv, ControllerTypeOK, ReconcileNodeConfig, Registrable, NodeConfig
<1>2. PICK new \in [vts -> Unused] :
        /\ \A vt, wt \in DOMAIN new : new[vt] = new[wt] => vt = wt
        /\ Register(c, new)
  BY Zenon DEF ReconcileNodeConfig
<1>. DEFINE started == {new[vt] : vt \in vts}
<1>3. /\ started \subseteq Runners
      /\ \A r \in started : r \notin alive /\ \A k \in DOMAIN collector : collector[k] # r
  BY Zenon DEF Unused
<1>4. /\ collector' = [k \in DOMAIN collector |->
                         IF k[1] = c /\ k[2] \in vts THEN new[k[2]] ELSE collector[k]]
      /\ alive' = alive \cup started
      /\ stopped' = stopped \ started
      /\ \A r \in Runners \ started : job'[r] = job[r]
  BY Zenon, <1>2 DEF Register
<1>5. \A vt \in vts : (CHOOSE wt \in vts : new[wt] = new[vt]) = vt
  BY Zenon, <1>2
<1>6. \A vt \in vts : job'[new[vt]] = [config |-> c, vt |-> vt, node |-> nc[c].node]
  <2>. TAKE vt \in vts
  <2>1. new[vt] \in started /\ new[vt] \in Runners
    BY Zenon, <1>3
  <2>2. job'[new[vt]] = [config |-> c, vt |-> CHOOSE wt \in vts : new[wt] = new[vt],
                         node |-> nc[c].node]
    BY Zenon, <1>2, <2>1 DEF Register
  <2>. QED  BY Zenon, <2>2, <1>5
<1>7. ControllerTypeOK'
  <2>1. job' \in [Runners -> Job \cup {None}]
    <3>1. \A r \in Runners : job'[r] \in Job \cup {None}
      <4>. TAKE r \in Runners
      <4>1. CASE r \in started
        <5>1. PICK vt \in vts : r = new[vt]
          BY Zenon, <4>1
        <5>2. nc[c].node \in Nodes
          BY Zenon, <1>1 DEF NodeConfig
        <5>3. job'[r] = [config |-> c, vt |-> vt, node |-> nc[c].node]
          BY Zenon, <5>1, <1>6
        <5>4. vt \in ValueTypes
          BY Zenon, <1>1
        <5>. QED  BY <5>2, <5>3, <5>4 DEF Job
      <4>2. CASE r \notin started
        BY Zenon, <4>2, <1>4 DEF ControllerInv, ControllerTypeOK
      <4>. QED  BY Zenon, <4>1, <4>2
    <3>2. job' = [r \in Runners |-> job'[r]]
      BY Zenon, <1>2 DEF Register
    <3>. QED  BY Zenon, <3>1, <3>2
  <2>2. collector' \in [Configs \X ValueTypes -> Runners \cup {None}]
    BY <1>4, <1>3 DEF ControllerInv, ControllerTypeOK
  <2>. QED  BY Zenon, <2>1, <2>2, <1>3, <1>4 DEF ControllerInv, ControllerTypeOK, ReconcileNodeConfig
<1>8. Registry'
  <2>1. DOMAIN collector' = Configs \X ValueTypes /\ DOMAIN collector = Configs \X ValueTypes
    BY Zenon, <1>7 DEF ControllerInv, ControllerTypeOK
  <2>2. \A k \in Configs \X ValueTypes :
          \/ k[1] = c /\ k[2] \in vts /\ collector'[k] = new[k[2]] /\ collector'[k] \in started
          \/ ~(k[1] = c /\ k[2] \in vts) /\ collector'[k] = collector[k] /\ collector'[k] \notin started
    BY Zenon, <1>3, <1>4, <2>1
  <2>3. \A k \in Configs \X ValueTypes : collector'[k] # None => collector'[k] \in alive' \ stopped'
    BY Zenon, <2>1, <2>2, <1>4 DEF ControllerInv, Registry
  <2>4. ASSUME NEW k \in Configs \X ValueTypes, NEW l \in Configs \X ValueTypes,
               collector'[k] # None, collector'[k] = collector'[l]
        PROVE  k = l
    <3>1. CASE collector'[k] \in started
      <4>1. k[1] = l[1] /\ k[2] = l[2]
        BY <3>1, <2>2, <2>4, <1>2
      <4>. QED  BY <4>1
    <3>2. CASE collector'[k] \notin started
      BY Zenon, <3>2, <2>1, <2>2, <2>4 DEF ControllerInv, Registry
    <3>. QED  BY Zenon, <3>1, <3>2
  <2>. QED  BY Zenon, <2>1, <2>3, <2>4 DEF Registry
<1>9. StoppedOnce'
  BY Zenon DEF ControllerInv, StoppedOnce, ReconcileNodeConfig
<1>10. Reconciled'
  <2>. SUFFICES ASSUME NEW d \in Configs \ queue', NEW vt \in ValueTypes
                PROVE  LET r == collector'[<<d, vt>>] IN
                         IF nc'[d] = None \/ nc'[d].deleting THEN r = None
                         ELSE /\ r \in alive' \ stopped'
                              /\ job'[r] = [config |-> d, vt |-> vt, node |-> nc'[d].node]
    BY Zenon DEF Reconciled
  <2>1. nc' = nc /\ nc[c] # None /\ ~nc[c].deleting
    BY Zenon DEF ReconcileNodeConfig
  <2>2. DOMAIN collector = Configs \X ValueTypes
    BY Zenon DEF ControllerInv, ControllerTypeOK
  <2>3. CASE d = c
    <3>1. vts = ValueTypes
      BY Zenon, <2>3 DEF ReconcileNodeConfig
    <3>2. collector'[<<d, vt>>] = new[vt] /\ new[vt] \in started
      BY Zenon, <2>2, <2>3, <3>1, <1>4
    <3>. QED  BY <2>1, <2>3, <3>1, <3>2, <1>4, <1>6
  <2>4. CASE d # c
    <3>1. collector'[<<d, vt>>] = collector[<<d, vt>>] /\ d \notin queue
      BY Zenon, <2>2, <2>4, <1>4 DEF ReconcileNodeConfig
    <3>2. collector[<<d, vt>>] \notin started
      BY Zenon, <2>2, <1>3
    <3>. QED  BY ZenonT(60), <2>1, <3>1, <3>2, <1>4 DEF ControllerInv, Reconciled, ControllerTypeOK
  <2>. QED  BY Zenon, <2>3, <2>4
<1>. QED  BY Zenon, <1>7, <1>8, <1>9, <1>10 DEF ControllerInv

\* Only a stopped runner ends, and no stopped runner is registered.
LEMMA ExitPreserves ==
    ASSUME ControllerInv, NEW r \in Runners, Exit(r)
    PROVE  ControllerInv'
<1>. USE DEF Exit
<1>1. ControllerTypeOK'
  BY Zenon DEF ControllerInv, ControllerTypeOK
<1>2. Registry'
  BY Zenon DEF ControllerInv, Registry
<1>3. Reconciled'
  <2>1. \A s \in alive \ stopped : s \in alive' \ stopped' /\ job'[s] = job[s]
    BY Zenon DEF ControllerInv, ControllerTypeOK
  <2>. QED  BY ZenonT(60), <2>1 DEF ControllerInv, Reconciled
<1>. QED  BY Zenon, <1>1, <1>2, <1>3 DEF ControllerInv, StoppedOnce

\* Every step keeps ControllerInv.
LEMMA ControllerInvariant == ControllerSpec => []ControllerInv
<1>1. ControllerInv /\ [ControllerNext]_controllerVars => ControllerInv'
  <2>. SUFFICES ASSUME ControllerInv, [ControllerNext]_controllerVars PROVE ControllerInv'
    BY Zenon
  <2>1. CASE ControllerNext
    BY Zenon, <2>1, ChangePreserves, DeletionPreserves, RegisterPreserves, ExitPreserves
       DEF ControllerNext, ControllerStep
  <2>2. CASE UNCHANGED controllerVars
    BY Zenon, <2>2 DEF controllerVars, ControllerInv, ControllerTypeOK, Registry, StoppedOnce, Reconciled
  <2>. QED  BY Zenon, <2>1, <2>2
<1>. QED  BY ControllerStarts, <1>1, PTL DEF ControllerSpec

\* Every variable of the controller and the collector keeps its type, however many NodeConfigs
\* and runners there are.
THEOREM ControllerTypes == ControllerSpec => []ControllerTypeOK
<1>1. ControllerInv => ControllerTypeOK
  BY Zenon DEF ControllerInv
<1>. QED  BY <1>1, ControllerInvariant, PTL

\* Whatever NodeConfigs are created, changed and deleted, and in whatever order they are
\* reconciled: one that is off the work queue has exactly the registered runners it should have
\* (reconcileNodeConfig, reconcileNodeConfigDeletion).
THEOREM CollectorReconciled == ControllerSpec => []Reconciled
<1>1. ControllerInv => Reconciled
  BY Zenon DEF ControllerInv
<1>. QED  BY <1>1, ControllerInvariant, PTL

\* The collector's map holds running, unstopped runners only, each under one key
\* (Collector.Register, Collector.Unregister).
THEOREM CollectorConsistent == ControllerSpec => []Registry
<1>1. ControllerInv => Registry
  BY Zenon DEF ControllerInv
<1>. QED  BY <1>1, ControllerInvariant, PTL

\* No sequence of reconciliations closes a stopCh twice, which would panic
\* (Collector.Unregister, agentRunner.Stop).
THEOREM StopsAreUnique == ControllerSpec => []StoppedOnce
<1>1. ControllerInv => StoppedOnce
  BY Zenon DEF ControllerInv
<1>. QED  BY <1>1, ControllerInvariant, PTL

-----------------------------------------------------------------------------
(* The process. *)

\* Whatever the runners, the store, the provider and the clock do, the adapter process
\* implements the specification of its controller, in which a runner just returns at some
\* time after its stopCh is closed (agentRunner.Run returns nowhere else).
THEOREM AdapterImplementsController == Spec => ImplementsController
<1>1. Init => ControllerInit
  BY Zenon DEF Init
<1>2. [Next]_vars => [ControllerNext]_controllerVars
  <2>. SUFFICES ASSUME [Next]_vars PROVE [ControllerNext]_controllerVars
    BY Zenon
  <2>1. CASE Tick \/ \E nodes \in (SUBSET Nodes) \ {{}}, vt \in ValueTypes : Query(nodes, vt)
    BY Zenon, <2>1 DEF Tick, Query, controllerVars
  <2>2. ASSUME NEW c \in Configs, ControllerRuns(c) PROVE ControllerNext
    BY Zenon, <2>2 DEF ControllerRuns, ControllerNext
  <2>3. ASSUME NEW r \in Runners, RunnerStep(r)
        PROVE  ControllerNext \/ UNCHANGED controllerVars
    <3>1. CASE SeeStop(r)
      BY Zenon, <3>1 DEF SeeStop, ControllerNext
    <3>2. CASE ~SeeStop(r)
      BY Zenon, <2>3, <3>2 DEF RunnerStep, Wake, Block, Fire, FetchOk, FetchErr, GetOrInitLoad,
         GetOrInitSet, GetOrInitReload, SetStore, controllerVars
    <3>. QED  BY Zenon, <3>1, <3>2
  <2>4. CASE UNCHANGED vars
    BY Zenon, <2>4 DEF vars, controllerVars
  <2>. QED  BY Zenon, <2>1, <2>2, <2>3, <2>4 DEF Next
<1>. QED  BY <1>1, <1>2, PTL DEF Spec, ImplementsController, ControllerSpec

\* What is proved of the controller holds of the process.
LEMMA ControllerCarriesOver == Spec => []ControllerInv
BY ControllerInvariant, AdapterImplementsController, PTL DEF ImplementsController

-----------------------------------------------------------------------------

Types ==
    /\ now \in 0 .. MaxTime
    /\ pc \in [Runners -> {"sleep", "loop", "select", "fetch", "load", "init", "reload", "set", "exited"}]
    /\ md \in [Runners -> MetricData]
    /\ lateWrites \in [Runners -> Nat]
    /\ store \in [Nodes -> MetricData \cup {None}]
    /\ served \subseteq [reading : Reading, node : Nodes, vt : ValueTypes]

\* The readings of m are of sensors of node n, each in its field, and not of the future.
Of(m, n) ==
    \A vt \in ValueTypes : m[vt] # None => m[vt].node = n /\ m[vt].vt = vt /\ m[vt].timestamp <= now

\* What holds at the statements of a runner's goroutine.
Goroutine(r) ==
    /\ pc[r] # "exited" <=> r \in alive
    /\ r \in alive => job[r] \in Job
    /\ pc[r] = "reload" => store[job[r].node] \in MetricData /\ Of(store[job[r].node], job[r].node)
    /\ pc[r] = "set" => Of(md[r], job[r].node)
    /\ lateWrites[r] # 0 => lateWrites[r] = 1 /\ pc[r] = "loop" /\ r \in stopped

Stored == \A n \in Nodes : store[n] # None => Of(store[n], n)

Answered ==
    \A a \in served : /\ a.reading.node = a.node /\ a.reading.vt = a.vt
                      /\ a.reading.timestamp \in now - MetricTTL .. now

AdapterInv == Types /\ (\A r \in Runners : Goroutine(r)) /\ Stored /\ Answered

\* In the initial state nothing runs and nothing is stored.
LEMMA AdapterStarts == Init => AdapterInv
<1>. SUFFICES ASSUME Init PROVE AdapterInv
  BY Zenon
<1>1. EmptyData \in MetricData /\ \A n \in Nodes : Of(EmptyData, n)
  BY Zenon DEF EmptyData, MetricData, Of
<1>2. Types
  BY <1>1, AdapterConstants DEF Init, Types
<1>3. \A r \in Runners : Goroutine(r)
  BY Zenon DEF Init, Goroutine, ControllerInit
<1>4. Stored
  BY Zenon DEF Init, Stored
<1>. QED  BY Zenon, <1>2, <1>3, <1>4 DEF AdapterInv, Answered, Init

\* The controller starts, stops and replaces runners, and does nothing else to one that runs.
LEMMA ControllerKeeps ==
    ASSUME AdapterInv, ControllerInv, ControllerInv', NEW c \in Configs, ControllerRuns(c)
    PROVE  AdapterInv'
<1>1. /\ UNCHANGED <<now, md, lateWrites, store>> /\ served' = {}
      /\ pc' = [r \in Runners |-> IF r \in alive' \ alive THEN "sleep" ELSE pc[r]]
  BY Zenon DEF ControllerRuns
<1>2. /\ alive \subseteq alive'
      /\ \A r \in alive : job'[r] = job[r] /\ (r \in stopped => r \in stopped')
      /\ \A r \in alive' \ alive : job'[r] \in Job
  <2>1. CASE ChangeConfig(c) \/ Resync(c) \/ ReconcileDeletion(c)
    BY Zenon, <2>1 DEF ChangeConfig, Resync, ReconcileDeletion, Unregister
  <2>2. CASE ReconcileNodeConfig(c)
    <3>1. alive \subseteq Runners /\ job' \in [Runners -> Job \cup {None}]
      BY Zenon DEF ControllerInv, ControllerTypeOK
    <3>2. PICK new \in [Registrable(nc[c]) -> Unused] : Register(c, new)
      BY Zenon, <2>2 DEF ReconcileNodeConfig
    <3>. DEFINE vts == DOMAIN new
                started == {new[vt] : vt \in vts}
    <3>3. /\ alive' = alive \cup started /\ stopped' = stopped \ started
          /\ \A r \in Runners : job'[r] =
                IF r \in started
                THEN [config |-> c, vt |-> CHOOSE vt \in vts : new[vt] = r, node |-> nc[c].node] ELSE job[r]
      BY Zenon, <3>2 DEF Register
    <3>4. started \subseteq Runners \ alive
      BY Zenon DEF Unused
    <3>5. vts \subseteq ValueTypes /\ nc[c].node \in Nodes
      BY Zenon, <2>2 DEF ReconcileNodeConfig, Registrable, ControllerInv, ControllerTypeOK, NodeConfig
    <3>6. \A r \in started : job'[r] \in Job
      <4>. TAKE r \in started
      <4>1. (CHOOSE vt \in vts : new[vt] = r) \in vts
        BY Zenon
      <4>2. (CHOOSE vt \in vts : new[vt] = r) \in ValueTypes
        BY Zenon, <4>1, <3>5
      <4>3. r \in Runners
        BY Zenon, <3>4
      <4>4. job'[r] = [config |-> c, vt |-> CHOOSE vt \in vts : new[vt] = r, node |-> nc[c].node]
        BY Zenon, <3>3, <4>3
      <4>5. \E w \in ValueTypes : job'[r] = [config |-> c, vt |-> w, node |-> nc[c].node]
        BY ZenonT(60), <4>2, <4>4
      <4>. QED  BY <4>5, <3>5 DEF Job, ValueTypes
    <3>. QED  BY Zenon, <3>1, <3>3, <3>4, <3>6
  <2>. QED  BY Zenon, <2>1, <2>2 DEF ControllerRuns, ControllerStep
<1>3. alive' \subseteq Runners
  BY Zenon DEF ControllerInv, ControllerTypeOK
<1>4. Types'
  BY Zenon, <1>1 DEF AdapterInv, Types
<1>5. \A r \in Runners : Goroutine(r)'
  BY <1>1, <1>2 DEF AdapterInv, Goroutine, Of
<1>6. Stored' /\ Answered'
  BY Zenon, <1>1 DEF AdapterInv, Stored, Answered, Of
<1>. QED  BY Zenon, <1>4, <1>5, <1>6 DEF AdapterInv

\* Time passes: what has been stored is not of the future.
LEMMA TickKeeps ==
    ASSUME AdapterInv, Tick
    PROVE  AdapterInv'
<1>1. Types'
  BY AdapterConstants DEF AdapterInv, Types, Tick
<1>2. \A m \in MetricData, n \in Nodes : Of(m, n) => Of(m, n)'
  BY DEF AdapterInv, Types, Tick, Of, MetricData, Reading
<1>3. \A r \in Runners : Goroutine(r)'
  BY Zenon, <1>2 DEF AdapterInv, Types, Goroutine, Tick, controllerVars, Job
<1>4. Stored' /\ Answered'
  BY Zenon, <1>2 DEF AdapterInv, Types, Stored, Answered, Tick
<1>. QED  BY Zenon, <1>1, <1>3, <1>4 DEF AdapterInv

\* The provider answers with what is in the store and not too old.
LEMMA QueryKeeps ==
    ASSUME AdapterInv, NEW nodes \in (SUBSET Nodes) \ {{}}, NEW vt \in ValueTypes, Query(nodes, vt)
    PROVE  AdapterInv'
<1>. USE DEF Query
<1>1. \A n \in nodes : Servable(n, vt) =>
         /\ store[n][vt] \in Reading
         /\ store[n][vt].node = n /\ store[n][vt].vt = vt
         /\ store[n][vt].timestamp \in now - MetricTTL .. now
  BY SMTT(60), AdapterConstants DEF AdapterInv, Types, Stored, Of, Servable, MetricData, Reading
<1>2. served' \subseteq [reading : Reading, node : Nodes, vt : ValueTypes] /\ Answered'
  BY SMTT(60), <1>1 DEF Answered
<1>3. Types'
  BY Zenon, <1>2 DEF AdapterInv, Types
<1>4. (\A r \in Runners : Goroutine(r)') /\ Stored'
  BY DEF AdapterInv, Goroutine, Stored, Of, controllerVars
<1>. QED  BY Zenon, <1>2, <1>3, <1>4 DEF AdapterInv

\* Steps of a runner that only move it on.
LEMMA MoveKeeps ==
    ASSUME AdapterInv, NEW r \in Runners,
           Wake(r) \/ Block(r) \/ Fire(r) \/ FetchOk(r) \/ FetchErr(r) \/ GetOrInitLoad(r)
    PROVE  AdapterInv'
<1>1. PICK to \in {"loop", "select", "fetch", "load", "init", "reload"} :
        /\ pc' = [pc EXCEPT ![r] = to] /\ served' = {} /\ pc[r] # "exited"
        /\ to = "reload" => store[job[r].node] # None
        /\ pc[r] = "loop" => r \notin stopped
        /\ UNCHANGED <<controllerVars, now, md, lateWrites, store>>
  BY Zenon DEF Wake, Block, Fire, FetchOk, FetchErr, GetOrInitLoad, Goto
<1>2. r \in alive /\ job[r] \in Job
  BY Zenon, <1>1 DEF AdapterInv, Goroutine
<1>3. to = "reload" => store[job[r].node] \in MetricData /\ Of(store[job[r].node], job[r].node)
  BY Zenon, <1>1, <1>2 DEF AdapterInv, Types, Stored, Job
<1>4. Types'
  BY ZenonT(60), <1>1 DEF AdapterInv, Types
<1>5. \A s \in Runners : Goroutine(s)'
  BY <1>1, <1>3 DEF AdapterInv, Goroutine, Of, controllerVars
<1>6. Stored' /\ Answered'
  BY <1>1 DEF AdapterInv, Stored, Answered, Of
<1>. QED  BY Zenon, <1>4, <1>5, <1>6 DEF AdapterInv

\* A stopped runner returns.
LEMMA StopKeeps ==
    ASSUME AdapterInv, ControllerInv, NEW r \in Runners, SeeStop(r)
    PROVE  AdapterInv'
<1>. USE DEF SeeStop, Exit
<1>1. Types'
  BY ZenonT(60) DEF AdapterInv, Types
<1>2. \A s \in Runners \ {r} : s \in alive => job'[s] = job[s]
  BY Zenon DEF ControllerInv, ControllerTypeOK
<1>3. \A s \in Runners : Goroutine(s)'
  BY DEF AdapterInv, Types, Goroutine, Of
<1>4. Stored' /\ Answered'
  BY Zenon DEF AdapterInv, Stored, Answered, Of
<1>. QED  BY ZenonT(60), <1>1, <1>3, <1>4 DEF AdapterInv

\* A copy of the node's data gets the runner's own reading in its own field.
LEMMA ReloadKeeps ==
    ASSUME AdapterInv, NEW r \in Runners, GetOrInitReload(r)
    PROVE  AdapterInv'
<1>. DEFINE n == job[r].node
            reading == [node |-> n, vt |-> job[r].vt, timestamp |-> now]
            data == [store[n] EXCEPT ![job[r].vt] = reading]
<1>1. r \in alive /\ job[r].node \in Nodes /\ job[r].vt \in ValueTypes
  BY Zenon DEF AdapterInv, Goroutine, GetOrInitReload, Goto, Job, ValueTypes
<1>2. store[n] \in MetricData /\ Of(store[n], n)
  BY Zenon DEF AdapterInv, Goroutine, GetOrInitReload, Goto
<1>3. reading \in Reading
  BY Zenon, <1>1 DEF AdapterInv, Types, Reading
<1>4. /\ pc[r] = "reload" /\ pc' = [pc EXCEPT ![r] = "set"] /\ served' = {}
      /\ md' = [md EXCEPT ![r] = data]
      /\ UNCHANGED <<now, controllerVars, lateWrites, store>>
  BY Zenon DEF GetOrInitReload, Goto
<1>. HIDE DEF reading
<1>5. data \in MetricData
  BY Zenon, <1>1, <1>2, <1>3 DEF MetricData
<1>6. Of(data, n)
  BY <1>2 DEF Of, MetricData, reading, AdapterInv, Types
<1>. HIDE DEF data
<1>7. Types'
  BY Zenon, <1>4, <1>5 DEF AdapterInv, Types
<1>8. ASSUME NEW s \in Runners PROVE Goroutine(s)'
  <2>1. CASE s = r
    <3>1. md'[r] = data /\ pc'[r] = "set" /\ job' = job /\ alive' = alive /\ now' = now
          /\ stopped' = stopped /\ lateWrites' = lateWrites
      BY Zenon, <1>4 DEF AdapterInv, Types, controllerVars
    <3>2. Of(md[r], job[r].node)'
      BY Zenon, <3>1, <1>6 DEF Of
    <3>. QED  BY Zenon, <1>1, <1>4, <3>1, <3>2, <2>1 DEF AdapterInv, Goroutine
  <2>2. CASE s # r
    BY <1>4, <2>2 DEF AdapterInv, Goroutine, Of, controllerVars
  <2>. QED  BY Zenon, <2>1, <2>2
<1>9. Stored' /\ Answered'
  BY Zenon, <1>4 DEF AdapterInv, Stored, Answered, Of
<1>. QED  BY Zenon, <1>7, <1>8, <1>9 DEF AdapterInv

\* Writes to the store: an empty MetricData, or the copy, of which a stopped runner writes one.
LEMMA WriteKeeps ==
    ASSUME AdapterInv, NEW r \in Runners, GetOrInitSet(r) \/ SetStore(r)
    PROVE  AdapterInv'
<1>1. r \in alive /\ job[r].node \in Nodes
  BY Zenon DEF AdapterInv, Goroutine, GetOrInitSet, SetStore, Goto, Job
<1>2. EmptyData \in MetricData /\ \A n \in Nodes : Of(EmptyData, n)
  BY Zenon DEF EmptyData, MetricData, Of
<1>. DEFINE m == IF pc[r] = "init" THEN EmptyData ELSE md[r]
<1>3. /\ m \in MetricData /\ Of(m, job[r].node) /\ store' = [store EXCEPT ![job[r].node] = m]
      /\ served' = {} /\ UNCHANGED <<now, controllerVars>>
      /\ \/ /\ pc[r] = "init" /\ pc' = [pc EXCEPT ![r] = "reload"]
            /\ UNCHANGED <<md, lateWrites>>
         \/ /\ pc[r] = "set" /\ pc' = [pc EXCEPT ![r] = "loop"]
            /\ md' = [md EXCEPT ![r] = EmptyData]
            /\ lateWrites' = [lateWrites EXCEPT ![r] = IF r \in stopped THEN @ + 1 ELSE @]
  <2>1. CASE GetOrInitSet(r)
    BY Zenon, <2>1, <1>1, <1>2 DEF GetOrInitSet, Goto
  <2>2. CASE SetStore(r)
    <3>1. md[r] \in MetricData /\ Of(md[r], job[r].node)
      BY Zenon, <2>2 DEF AdapterInv, Types, Goroutine, SetStore, Goto
    <3>. QED  BY Zenon, <2>2, <3>1 DEF SetStore, Goto
  <2>. QED  BY Zenon, <2>1, <2>2
<1>. HIDE DEF m
<1>4. \A n \in Nodes : store'[n] = IF n = job[r].node THEN m ELSE store[n]
  BY Zenon, <1>1, <1>3 DEF AdapterInv, Types
<1>5. Types'
  BY <1>1, <1>2, <1>3 DEF AdapterInv, Types
<1>6. Stored' /\ Answered'
  BY <1>3 DEF AdapterInv, Stored, Answered, Of
<1>7. ASSUME NEW s \in Runners PROVE Goroutine(s)'
  <2>1. lateWrites[r] = 0
    BY ZenonT(60), <1>3 DEF AdapterInv, Goroutine
  <2>2. s \in alive => job[s].node \in Nodes
    BY ZenonT(60) DEF AdapterInv, Goroutine, Job
  <2>3. CASE s = r
    BY SMTT(60), <1>1, <1>3, <2>1, <2>3 DEF AdapterInv, Types, Goroutine, Of, controllerVars
  <2>4. CASE s # r
    BY <1>3, <2>2, <2>4 DEF AdapterInv, Types, Goroutine, Of, controllerVars
  <2>. QED  BY Zenon, <2>3, <2>4
<1>. QED  BY Zenon, <1>5, <1>6, <1>7 DEF AdapterInv

\* The types, the late writes and the readings of the process.
LEMMA AdapterInvariant == Spec => [](TypeOK /\ OneLateWrite /\ WholeReadings)
<1>1. AdapterInv /\ ControllerInv /\ ControllerInv' /\ [Next]_vars => AdapterInv'
  <2>. SUFFICES ASSUME AdapterInv, ControllerInv, ControllerInv', [Next]_vars PROVE AdapterInv'
    BY ZenonT(60)
  <2>1. CASE Next
    BY ZenonT(60), <2>1, ControllerKeeps, TickKeeps, QueryKeeps, MoveKeeps, StopKeeps, ReloadKeeps, WriteKeeps
       DEF Next, RunnerStep
  <2>2. CASE UNCHANGED vars
    BY <2>2 DEF vars, controllerVars, AdapterInv, Types, Goroutine, Stored, Answered, Of
  <2>. QED  BY Zenon, <2>1, <2>2
<1>2. AdapterInv /\ ControllerInv => TypeOK /\ OneLateWrite /\ WholeReadings
  <2>. SUFFICES ASSUME AdapterInv, ControllerInv PROVE TypeOK /\ OneLateWrite /\ WholeReadings
    BY Zenon
  <2>1. ControllerTypeOK
    BY Zenon DEF ControllerInv
  <2>2. OneLateWrite
    BY DEF AdapterInv, Types, Goroutine, OneLateWrite
  <2>3. WholeReadings
    BY ZenonT(60) DEF AdapterInv, Stored, Of, Answered, WholeReadings
  <2>. QED  BY Zenon, <2>1, <2>2, <2>3 DEF AdapterInv, Types, TypeOK
<1>. QED  BY AdapterStarts, ControllerCarriesOver, <1>1, <1>2, PTL DEF Spec

\* A runner that has been stopped writes at most once more, wherever in its loop it was
\* (agentRunner.Run).
THEOREM StoppedWritesOnce == Spec => []OneLateWrite
BY AdapterInvariant, PTL

\* A reading in the store or in an answer is one that a sensor of that node and type produced,
\* and an answered one was stored at most MetricTTL ago, however the runners of a node
\* interleave (Store.GetOrInit, Store.Set, provider.metricFor).
THEOREM ReadingsAreWhole == Spec => []WholeReadings
BY AdapterInvariant, PTL

-----------------------------------------------------------------------------
(* The controller of templates. *)

Right(t, n) ==
    /\ NodeConfigOf(t, n) # None
    /\ NodeConfigOf(t, n).owner = [name |-> t, uid |-> nct[t].uid]
    /\ \A i \in Fields : nct[t].fields[i] # "" =>
         NodeConfigOf(t, n).fields[i] = Execute(nct[t].fields[i], node[n].data)

Ahead(t, n) ==
    /\ active # None /\ active.name = t /\ n \in active.todo
    /\ active.nct = nct[t] /\ active.data[n] = node[n].data

DueFor(t, n) ==
    n \notin nodeEvents /\ t \in Matching(n) /\ <<t, n>> \notin missed /\ t \notin templateQueue
      => Right(t, n) \/ Ahead(t, n)

Due == \A t \in Templates, n \in TemplateNodes : DueFor(t, n)

\* A Reconcile has the data of the nodes it is to write.
Read == active # None => \A n \in active.todo : active.data[n] \in Data

TemplateInv == TemplateTypeOK /\ Read /\ Due

-----------------------------------------------------------------------------
(* Template parsing. *)

\* A non-empty set of positions has a last one.
LEMMA MaxExists ==
    ASSUME NEW i \in Nat, NEW P \in SUBSET (1 .. i), P # {}
    PROVE  \E j \in P : \A k \in P : k <= j
<1>. DEFINE R == OpToRel(<, Nat)
            T == {i - j : j \in P}
<1>1. \A x, y \in Nat : <<x, y>> \in R <=> x < y
  BY Zenon DEF OpToRel
<1>2. IsWellFoundedOn(R, Nat)
  BY Zenon, NatLessThanWellFounded
<1>. HIDE DEF R
<1>3. \A j \in P : j \in Nat /\ i - j \in Nat
  OBVIOUS
<1>4. T \subseteq Nat /\ T # {}
  BY Zenon, <1>3
<1>5. PICK x \in T : \A y \in T : ~ (<<y, x>> \in R)
  <2>. HIDE DEF T
  <2>. QED BY Zenon, <1>2, <1>4, WFMin
<1>6. PICK j \in P : x = i - j
  BY Zenon
<1>7. \A k \in P : ~ (i - k < i - j)
  BY Zenon, <1>1, <1>3, <1>5, <1>6
<1>8. ASSUME NEW k \in P PROVE k <= j
  <2>1. k \in Nat /\ j \in Nat /\ ~ (i - k < i - j)
    BY Zenon, <1>3, <1>7
  <2>. QED  BY <2>1
<1>. QED  BY Zenon, <1>8

\* The body executed for a field that is not empty is the field's own text; for an empty one
\* it is some text, the last one parsed (TemplateParseNodeConfig).
LEMMA Bodies ==
    ASSUME NumFields \in Nat, tmpl \in Raw, NEW fields \in [Fields -> Raw], NEW i \in Fields
    PROVE  /\ Body(fields, i) \in Raw
           /\ fields[i] # "" => Body(fields, i) = fields[i]
<1>. DEFINE parsed == {j \in 1 .. i : fields[j] # ""}
            last == CHOOSE j \in parsed : \A k \in parsed : k <= j
<1>0. i \in Nat /\ i >= 1 /\ i <= NumFields
  BY DEF Fields
<1>1. 1 .. i \subseteq Fields /\ parsed \in SUBSET (1 .. i)
  <2>1. \A j \in 1 .. i : j \in Fields
    BY <1>0 DEF Fields
  <2>. QED  BY Zenon, <2>1
<1>2. CASE parsed = {}
  <2>1. i \in 1 .. i
    BY <1>0
  <2>2. fields[i] = ""
    BY Zenon, <1>2, <2>1
  <2>. QED  BY Zenon, <1>2, <2>2 DEF Body
<1>3. CASE parsed # {}
  <2>. HIDE DEF parsed
  <2>1. \E j \in parsed : \A k \in parsed : k <= j
    BY Zenon, <1>0, <1>1, <1>3, MaxExists
  <2>2. last \in parsed /\ \A k \in parsed : k <= last
    BY Zenon, <2>1
  <2>3. last \in Fields
    BY Zenon, <1>1, <2>2
  <2>4. Body(fields, i) = fields[last]
    BY Zenon, <1>3 DEF Body, parsed
  <2>. HIDE DEF last
  <2>5. fields[i] # "" => last = i
    <3>1. fields[i] # "" => i \in parsed
      <4>1. i \in 1 .. i
        BY <1>0
      <4>. QED  BY Zenon, <4>1 DEF parsed
    <3>2. last \in Nat /\ last <= i
      BY <1>0, <1>1, <2>2
    <3>3. ASSUME fields[i] # "" PROVE last = i
      <4>1. i <= last
        BY Zenon, <2>2, <3>1, <3>3
      <4>. QED  BY <1>0, <3>2, <4>1
    <3>. QED  BY Zenon, <3>3
  <2>. QED  BY Zenon, <2>3, <2>4, <2>5
<1>. QED  BY Zenon, <1>2, <1>3

\* Each field is rendered from its own text, whatever template was parsed before (Parse).
LEMMA RenderedFields ==
    ASSUME tmpl \in Raw, NEW fields \in [Fields -> Raw], NEW d \in Data
    PROVE  /\ Rendered(fields, d) \in [Fields -> Raw \cup Data]
           /\ \A i \in Fields : fields[i] # "" => Rendered(fields, d)[i] = Execute(fields[i], d)
           /\ Body(fields, NumFields) \in Raw
<1>1. NumFields \in Nat /\ NumFields \in Fields
  <2>1. NumFields \in Nat /\ NumFields # 0
    BY Zenon, TemplateConstants
  <2>. QED  BY <2>1 DEF Fields
<1>2. \A i \in Fields : Body(fields, i) \in Raw /\ (fields[i] # "" => Body(fields, i) = fields[i])
  BY Zenon, <1>1, Bodies
<1>. QED  BY Zenon, <1>1, <1>2 DEF Rendered, Execute

-----------------------------------------------------------------------------
(* The objects and the watches. *)

\* TemplateInv holds in the beginning.
LEMMA TemplateStarts == ASSUME TemplateInit PROVE TemplateInv
<1>1. TemplateTypeOK
  <2>0. uids = 0 /\ MaxUID \in Nat
    BY Zenon, TemplateConstants DEF TemplateInit
  <2>1. uids \in 0 .. MaxUID
    BY <2>0
  <2>. QED  BY Zenon, <2>1, TemplateConstants DEF TemplateInit, TemplateTypeOK
<1>2. Read /\ Due
  BY Zenon DEF TemplateInit, Read, Due, DueFor, Matching
<1>. QED  BY Zenon, <1>1, <1>2 DEF TemplateInv

\* The NodeConfig of a pair that is right names the template as its owner.
LEMMA RightOwner ==
    ASSUME NEW t \in Templates, NEW n \in TemplateNodes, Right(t, n)
    PROVE  NodeConfigOf(t, n) # None /\ NodeConfigOf(t, n).owner.name = t
<1>1. NodeConfigOf(t, n) # None /\ NodeConfigOf(t, n).owner = [name |-> t, uid |-> nct[t].uid]
  BY Zenon DEF Right
<1>2. [name |-> t, uid |-> nct[t].uid].name = t
  BY Zenon
<1>. QED  BY Zenon, <1>1, <1>2

\* A pair is due as before when nothing it is about has changed.
LEMMA SamePair ==
    ASSUME NEW t \in Templates, NEW n \in TemplateNodes, DueFor(t, n),
           nct'[t] = nct[t], node'[n] = node[n], NodeConfigOf(t, n)' = NodeConfigOf(t, n),
           UNCHANGED active,
           (n \notin nodeEvents' /\ <<t, n>> \notin missed' /\ t \notin templateQueue' /\ t \in Matching(n))
             => (n \notin nodeEvents /\ <<t, n>> \notin missed /\ t \notin templateQueue)
    PROVE  DueFor(t, n)'
BY Zenon DEF DueFor, Matching, Right, Ahead

\* A template that is created or changed keeps TemplateInv.
LEMMA ApplyKeeps == ASSUME TemplateInv, NEW t \in Templates, ApplyTemplate(t) PROVE TemplateInv'
<1>1. TemplateTypeOK'
  <2>1. nct' \in [Templates -> NCT \cup {None}] /\ uids' \in 0 .. MaxUID
    <3>0. PICK l \in Labels, fs \in [Fields -> Raw] :
            IF nct[t] = None
            THEN /\ uids < MaxUID
                 /\ uids' = uids + 1
                 /\ nct' = [nct EXCEPT ![t] = [uid |-> uids', label |-> l, fields |-> fs]]
            ELSE /\ nct' = [nct EXCEPT ![t] = [@ EXCEPT !.label = l, !.fields = fs]]
                 /\ UNCHANGED uids
      BY Zenon DEF ApplyTemplate
    <3>1. CASE nct[t] = None
      <4>0. uids \in 0 .. MaxUID /\ uids < MaxUID /\ uids' = uids + 1 /\ MaxUID \in Nat
        BY Zenon, <3>0, <3>1, TemplateConstants DEF TemplateInv, TemplateTypeOK
      <4>1. uids' \in 0 .. MaxUID /\ uids' \in 1 .. MaxUID
        BY <4>0
      <4>2. [uid |-> uids', label |-> l, fields |-> fs] \in NCT
        BY Zenon, <4>1 DEF NCT
      <4>. QED  BY Zenon, <3>0, <3>1, <4>1, <4>2 DEF TemplateInv, TemplateTypeOK
    <3>2. CASE nct[t] # None
      <4>1. nct[t] \in NCT
        BY Zenon, <3>2 DEF TemplateInv, TemplateTypeOK
      <4>2. [nct[t] EXCEPT !.label = l, !.fields = fs] \in NCT
        BY Zenon, <4>1 DEF NCT
      <4>. QED  BY Zenon, <3>0, <3>2, <4>2 DEF TemplateInv, TemplateTypeOK
    <3>. QED  BY Zenon, <3>1, <3>2
  <2>2. templateQueue' \subseteq Templates /\ UNCHANGED <<node, objects, nodeEvents, active, tmpl, missed>>
    BY Zenon DEF TemplateInv, TemplateTypeOK, ApplyTemplate
  <2>. QED  BY Zenon, <2>1, <2>2 DEF TemplateInv, TemplateTypeOK
<1>2. Read'
  BY Zenon DEF TemplateInv, ApplyTemplate, Read
<1>3. ASSUME NEW u \in Templates, NEW n \in TemplateNodes PROVE DueFor(u, n)'
  <2>1. CASE u = t
    BY Zenon, <2>1 DEF ApplyTemplate, DueFor
  <2>2. CASE u # t
    <3>1. nct'[u] = nct[u]
      BY Zenon, <2>2 DEF ApplyTemplate, TemplateInv, TemplateTypeOK
    <3>2. UNCHANGED <<node, objects, nodeEvents, active, missed>> /\ templateQueue' = templateQueue \cup {t}
      BY Zenon DEF ApplyTemplate
    <3>. QED  BY Zenon, <3>1, <3>2, SamePair DEF TemplateInv, Due, NodeConfigOf
  <2>. QED  BY Zenon, <2>1, <2>2
<1>. QED  BY Zenon, <1>1, <1>2, <1>3 DEF TemplateInv, Due

\* A deleted template keeps TemplateInv: nothing is due for it.
LEMMA DeleteKeeps == ASSUME TemplateInv, NEW t \in Templates, DeleteTemplate(t) PROVE TemplateInv'
<1>1. TemplateTypeOK' /\ Read'
  BY Zenon DEF TemplateInv, TemplateTypeOK, Read, DeleteTemplate
<1>2. ASSUME NEW u \in Templates, NEW n \in TemplateNodes PROVE DueFor(u, n)'
  <2>1. CASE u = t
    BY Zenon, <2>1 DEF DeleteTemplate, DueFor
  <2>2. CASE u # t
    <3>1. nct'[u] = nct[u]
      BY Zenon, <2>2 DEF DeleteTemplate, TemplateInv, TemplateTypeOK
    <3>2. UNCHANGED <<node, objects, nodeEvents, active, missed>> /\ templateQueue' = templateQueue \cup {t}
      BY Zenon DEF DeleteTemplate
    <3>. QED  BY Zenon, <3>1, <3>2, SamePair DEF TemplateInv, Due, NodeConfigOf
  <2>. QED  BY Zenon, <2>1, <2>2
<1>. QED  BY Zenon, <1>1, <1>2 DEF TemplateInv, Due

\* A Node that joins, changes or leaves keeps TemplateInv: its event is on the way.
LEMMA NodeKeeps == ASSUME TemplateInv, NEW m \in TemplateNodes, ChangeNode(m) PROVE TemplateInv'
<1>1. TemplateTypeOK' /\ Read'
  BY Zenon DEF TemplateInv, TemplateTypeOK, Read, ChangeNode
<1>2. ASSUME NEW u \in Templates, NEW n \in TemplateNodes PROVE DueFor(u, n)'
  <2>1. CASE n = m
    BY Zenon, <2>1 DEF ChangeNode, DueFor
  <2>2. CASE n # m
    <3>1. node'[n] = node[n]
      BY Zenon, <2>2 DEF ChangeNode, TemplateInv, TemplateTypeOK
    <3>2. UNCHANGED <<nct, objects, templateQueue, active, missed>> /\ nodeEvents' = nodeEvents \cup {m}
      BY Zenon DEF ChangeNode
    <3>. QED  BY Zenon, <3>1, <3>2, SamePair DEF TemplateInv, Due, NodeConfigOf
  <2>. QED  BY Zenon, <2>1, <2>2
<1>. QED  BY Zenon, <1>1, <1>2 DEF TemplateInv, Due

\* A NodeConfig that somebody else changes keeps TemplateInv: its owner is enqueued.
LEMMA NodeConfigKeeps == ASSUME TemplateInv, NEW k \in Names, ChangeNodeConfig(k) PROVE TemplateInv'
<1>0. objects[k] # None /\ objects[k] \in NC /\ objects[k].owner.name \in Templates
  BY Zenon DEF TemplateInv, TemplateTypeOK, ChangeNodeConfig, NC
<1>1. TemplateTypeOK'
  <2>1. objects' \in [Names -> NC \cup {None}]
    BY Zenon DEF TemplateInv, TemplateTypeOK, ChangeNodeConfig, NC
  <2>2. templateQueue' \subseteq Templates /\ UNCHANGED <<nct, node, uids, nodeEvents, active, tmpl, missed>>
    BY Zenon, <1>0 DEF TemplateInv, TemplateTypeOK, ChangeNodeConfig
  <2>. QED  BY Zenon, <2>1, <2>2 DEF TemplateInv, TemplateTypeOK
<1>2. Read'
  BY Zenon DEF TemplateInv, Read, ChangeNodeConfig
<1>3. ASSUME NEW u \in Templates, NEW n \in TemplateNodes PROVE DueFor(u, n)'
  <2>0. /\ UNCHANGED <<nct, node, nodeEvents, active, missed>>
        /\ templateQueue' = templateQueue \cup {objects[k].owner.name}
    BY Zenon DEF ChangeNodeConfig
  <2>1. CASE k = ObjectName[<<u, n>>]
    <3>1. CASE objects[k].owner.name = u
      BY Zenon, <2>0, <3>1 DEF DueFor
    <3>2. CASE objects[k].owner.name # u
      <4>1. ~ Right(u, n)
        BY Zenon, <2>1, <3>2, RightOwner DEF NodeConfigOf
      <4>. QED  BY Zenon, <2>0, <4>1 DEF TemplateInv, Due, DueFor, Ahead, Matching
    <3>. QED  BY Zenon, <3>1, <3>2
  <2>2. CASE k # ObjectName[<<u, n>>]
    <3>0. ObjectName[<<u, n>>] \in Names
      BY Zenon DEF Names, Pairs
    <3>1. NodeConfigOf(u, n)' = NodeConfigOf(u, n)
      BY Zenon, <2>2, <3>0 DEF ChangeNodeConfig, TemplateInv, TemplateTypeOK, NodeConfigOf
    <3>. QED  BY Zenon, <2>0, <3>1, SamePair DEF TemplateInv, Due
  <2>. QED  BY Zenon, <2>1, <2>2
<1>. QED  BY Zenon, <1>1, <1>2, <1>3 DEF TemplateInv, Due

\* An event of a node brings each template that selects it into the queue or among the pairs
\* that were given up.
LEMMA MapKeeps == ASSUME TemplateInv, NEW m \in TemplateNodes, MapNode(m) PROVE TemplateInv'
<1>0. \A t \in Matching(m) : t \in templateQueue' \/ <<t, m>> \in missed'
  BY Zenon DEF MapNode
<1>1. /\ nodeEvents' = nodeEvents \ {m} /\ templateQueue \subseteq templateQueue' /\ missed \subseteq missed'
      /\ UNCHANGED <<nct, node, objects, uids, active, tmpl>>
  BY Zenon DEF MapNode
<1>2. templateQueue' \subseteq Templates /\ missed' \subseteq Pairs
  BY Zenon DEF MapNode, Matching, TemplateInv, TemplateTypeOK, Pairs
<1>3. TemplateTypeOK' /\ Read'
  BY Zenon, <1>1, <1>2 DEF TemplateInv, TemplateTypeOK, Read
<1>4. ASSUME NEW u \in Templates, NEW n \in TemplateNodes PROVE DueFor(u, n)'
  BY Zenon, <1>0, <1>1, SamePair DEF TemplateInv, Due, NodeConfigOf
<1>. QED  BY Zenon, <1>3, <1>4 DEF TemplateInv, Due

-----------------------------------------------------------------------------
(* Reconcile. *)

\* The beginning of Reconcile, with its reads, keeps TemplateInv.
LEMMA StartKeeps == ASSUME TemplateInv, NEW t \in Templates, Start(t) PROVE TemplateInv'
<1>1. /\ active = None /\ templateQueue' = templateQueue \ {t} /\ missed' = missed \ ({t} \X TemplateNodes)
      /\ active' = IF nct[t] = None THEN None ELSE Listed(t)
      /\ UNCHANGED <<nct, node, objects, uids, nodeEvents, tmpl>>
  BY Zenon DEF Start
<1>2. nct[t] # None => Listed(t) \in Run
  <2>1. \A n \in TemplateNodes : node[n] # None => node[n].data \in Data
    BY Zenon DEF TemplateInv, TemplateTypeOK, Node
  <2>. QED  BY Zenon, <2>1 DEF TemplateInv, TemplateTypeOK, Listed, Run
<1>3. TemplateTypeOK'
  BY Zenon, <1>1, <1>2 DEF TemplateInv, TemplateTypeOK
<1>4. Read'
  <2>1. \A n \in TemplateNodes : t \in Matching(n) => node[n] # None /\ node[n].data \in Data
    BY Zenon DEF TemplateInv, TemplateTypeOK, Node, Matching
  <2>. QED  BY Zenon, <1>1, <2>1 DEF Read, Listed
<1>5. ASSUME NEW u \in Templates, NEW n \in TemplateNodes PROVE DueFor(u, n)'
  <2>1. CASE u = t
    <3>. SUFFICES ASSUME t \in Matching(n) PROVE Ahead(t, n)'
      BY Zenon, <1>1, <2>1 DEF DueFor, Matching
    <3>1. nct[t] # None /\ node[n] # None
      BY Zenon DEF Matching
    <3>2. active' = Listed(t) /\ active' # None
      BY Zenon, <1>1, <1>2, <3>1, TemplateConstants
    <3>. QED  BY <1>1, <3>1, <3>2 DEF Ahead, Listed
  <2>2. CASE u # t
    <3>1. DueFor(u, n) /\ ~ Ahead(u, n)
      BY Zenon, <1>1 DEF TemplateInv, Due, Ahead
    <3>2. <<u, n>> \in missed <=> <<u, n>> \in missed'
      BY Zenon, <1>1, <2>2
    <3>. QED  BY Zenon, <1>1, <2>2, <3>1, <3>2 DEF DueFor, Matching, Right, NodeConfigOf
  <2>. QED  BY Zenon, <2>1, <2>2
<1>. QED  BY Zenon, <1>3, <1>4, <1>5 DEF TemplateInv, Due

\* Taking a node off the list leaves the rest of the Reconcile as it is.
LEMMA OneLess ==
    ASSUME TemplateInv, active # None, NEW n \in TemplateNodes,
           active' = [active EXCEPT !.todo = @ \ {n}]
    PROVE  /\ active \in Run /\ active' \in Run /\ active' # None
           /\ active'.name = active.name /\ active'.nct = active.nct /\ active'.data = active.data
           /\ active'.todo = active.todo \ {n}
<1>1. active \in Run
  BY Zenon DEF TemplateInv, TemplateTypeOK
<1>. QED  BY ZenonT(60), <1>1, TemplateConstants DEF Run

\* A write that changes the NodeConfig comes back as an event; one that does not has found it
\* right.
LEMMA ReconcileKeeps == ASSUME TemplateInv, NEW m \in TemplateNodes, ReconcileTemplateNode(m) PROVE TemplateInv'
<1>. DEFINE new == Written(m)
            key == ObjectName[<<active.name, m>>]
<1>1. /\ active # None /\ m \in active.todo /\ active' = [active EXCEPT !.todo = @ \ {m}]
      /\ tmpl' = Body(active.nct.fields, NumFields)
      /\ objects' = [objects EXCEPT ![key] = new]
      /\ objects[key] # None => objects[key].owner.name = active.name
      /\ templateQueue' = IF objects' # objects THEN templateQueue \cup {active.name} ELSE templateQueue
      /\ UNCHANGED <<nct, node, uids, nodeEvents, missed>>
  BY Zenon DEF ReconcileTemplateNode, NodeConfigOf
<1>2. /\ active' \in Run /\ active' # None
      /\ active'.name = active.name /\ active'.nct = active.nct /\ active'.data = active.data
      /\ active'.todo = active.todo \ {m}
  BY Zenon, <1>1, OneLess
<1>3. active.name \in Templates /\ active.nct \in NCT /\ active.data[m] \in Data
  BY Zenon, <1>1, OneLess DEF Run, TemplateInv, Read
<1>4. /\ Rendered(active.nct.fields, active.data[m]) \in [Fields -> Raw \cup Data]
      /\ \A i \in Fields : active.nct.fields[i] # "" =>
           Rendered(active.nct.fields, active.data[m])[i] = Execute(active.nct.fields[i], active.data[m])
      /\ Body(active.nct.fields, NumFields) \in Raw
  <2>1. active.nct.fields \in [Fields -> Raw] /\ tmpl \in Raw
    BY Zenon, <1>3 DEF NCT, TemplateInv, TemplateTypeOK
  <2>. QED  BY Zenon, <1>3, <2>1, RenderedFields
<1>5. new \in NC /\ new # None
  <2>1. active.nct.uid \in 1 .. MaxUID
    BY Zenon, <1>3 DEF NCT
  <2>2. new \in NC
    BY Zenon, <1>3, <1>4, <2>1 DEF NC, Written
  <2>3. None \notin NC
    BY Zenon, TemplateConstants
  <2>. QED  BY Zenon, <2>2, <2>3
<1>6. key \in Names /\ \A k \in Names : objects'[k] = IF k = key THEN new ELSE objects[k]
  <2>1. key \in Names
    BY Zenon, <1>3 DEF Names, Pairs
  <2>. QED  BY Zenon, <1>1, <2>1 DEF TemplateInv, TemplateTypeOK
<1>7. /\ new.fields = Rendered(active.nct.fields, active.data[m])
      /\ new.owner = [name |-> active.name, uid |-> active.nct.uid]
  BY Zenon DEF Written
<1>. HIDE DEF new
<1>8. TemplateTypeOK'
  <2>1. objects' \in [Names -> NC \cup {None}]
    BY Zenon, <1>1, <1>5 DEF TemplateInv, TemplateTypeOK
  <2>2. templateQueue' \subseteq Templates
    BY Zenon, <1>1, <1>3 DEF TemplateInv, TemplateTypeOK
  <2>. QED  BY Zenon, <1>1, <1>2, <1>4, <2>1, <2>2 DEF TemplateInv, TemplateTypeOK
<1>9. Read'
  BY Zenon, <1>1, <1>2 DEF TemplateInv, Read
<1>10. ASSUME NEW u \in Templates, NEW n \in TemplateNodes PROVE DueFor(u, n)'
  <2>. SUFFICES ASSUME n \notin nodeEvents, u \in Matching(n), <<u, n>> \notin missed, u \notin templateQueue'
                PROVE  Right(u, n)' \/ Ahead(u, n)'
    BY Zenon, <1>1 DEF DueFor, Matching
  <2>1. u \notin templateQueue /\ (Right(u, n) \/ Ahead(u, n))
    BY Zenon, <1>1 DEF TemplateInv, Due, DueFor
  <2>. DEFINE mine == ObjectName[<<u, n>>]
  <2>0. mine \in Names /\ NodeConfigOf(u, n)' = objects'[mine] /\ NodeConfigOf(u, n) = objects[mine]
    BY Zenon DEF Names, Pairs, NodeConfigOf
  <2>2. CASE mine = key
    <3>1. objects'[mine] = new
      BY Zenon, <1>6, <2>0, <2>2
    <3>2. u = active.name
      <4>1. CASE Right(u, n)
        <5>1. objects[mine] # None /\ objects[mine].owner.name = u
          BY Zenon, <2>0, <4>1, RightOwner
        <5>2. objects[key] # None => objects[key].owner.name = active.name
          BY Zenon, <1>1
        <5>. QED  BY Zenon, <2>2, <5>1, <5>2
      <4>2. CASE Ahead(u, n)
        BY Zenon, <4>2 DEF Ahead
      <4>. QED  BY Zenon, <2>1, <4>1, <4>2
    <3>3. n = m
      BY Zenon, <2>2, <3>2, TemplateConstants
    <3>4. objects' = objects
      BY Zenon, <1>1, <3>2
    <3>5. CASE Right(u, n)
      BY Zenon, <1>1, <3>4, <3>5 DEF Right, NodeConfigOf
    <3>6. CASE Ahead(u, n)
      <4>1. active.nct = nct[u] /\ active.data[m] = node[n].data
        BY Zenon, <3>3, <3>6 DEF Ahead
      <4>2. NodeConfigOf(u, n)' = new /\ nct'[u] = active.nct /\ node'[n].data = active.data[m]
        BY Zenon, <1>1, <2>0, <3>1, <4>1
      <4>3. NodeConfigOf(u, n)' # None /\ NodeConfigOf(u, n)'.owner = [name |-> u, uid |-> nct'[u].uid]
        BY Zenon, <1>5, <1>7, <3>2, <4>2
      <4>4. \A i \in Fields : nct'[u].fields[i] # "" =>
               NodeConfigOf(u, n)'.fields[i] = Execute(nct'[u].fields[i], node'[n].data)
        BY Zenon, <1>4, <1>7, <4>2
      <4>. QED  BY Zenon, <4>3, <4>4 DEF Right, Execute
    <3>. QED  BY Zenon, <2>1, <3>5, <3>6
  <2>3. CASE mine # key
    <3>1. NodeConfigOf(u, n)' = NodeConfigOf(u, n)
      BY Zenon, <1>6, <2>0, <2>3
    <3>. QED  BY Zenon, <1>1, <1>2, <2>1, <2>3, <3>1 DEF Right, Ahead
  <2>. QED  BY Zenon, <2>2, <2>3
<1>. QED  BY Zenon, <1>8, <1>9, <1>10 DEF TemplateInv, Due

\* A node for which Reconcile fails keeps TemplateInv: it is recorded as missed, as the error is only logged.
LEMMA FailKeeps == ASSUME TemplateInv, NEW m \in TemplateNodes, ReconcileTemplateNodeFails(m) PROVE TemplateInv'
<1>1. /\ active # None /\ m \in active.todo /\ active' = [active EXCEPT !.todo = @ \ {m}]
      /\ tmpl' \in {tmpl, Body(active.nct.fields, NumFields)}
      /\ missed' = missed \cup {<<active.name, m>>}
      /\ UNCHANGED <<nct, node, objects, uids, templateQueue, nodeEvents>>
  BY Zenon DEF ReconcileTemplateNodeFails
<1>2. /\ active' \in Run /\ active' # None
      /\ active'.name = active.name /\ active'.nct = active.nct /\ active'.data = active.data
      /\ active'.todo = active.todo \ {m}
  BY Zenon, <1>1, OneLess
<1>3. active.name \in Templates /\ active.nct.fields \in [Fields -> Raw] /\ active.data[m] \in Data /\ tmpl \in Raw
  BY Zenon, <1>1, OneLess DEF Run, NCT, TemplateInv, Read, TemplateTypeOK
<1>4. tmpl' \in Raw
  BY Zenon, <1>1, <1>3, RenderedFields
<1>5. missed' \subseteq Pairs
  BY <1>1, <1>3 DEF TemplateInv, TemplateTypeOK, Pairs
<1>6. TemplateTypeOK' /\ Read'
  BY Zenon, <1>1, <1>2, <1>4, <1>5 DEF TemplateInv, TemplateTypeOK, Read
<1>7. ASSUME NEW u \in Templates, NEW n \in TemplateNodes PROVE DueFor(u, n)'
  BY ZenonT(60), <1>1, <1>2 DEF TemplateInv, Due, DueFor, Matching, Right, Ahead, NodeConfigOf
<1>. QED  BY Zenon, <1>6, <1>7 DEF TemplateInv, Due

\* The end of Reconcile keeps TemplateInv.
LEMMA FinishKeeps == ASSUME TemplateInv, Finish PROVE TemplateInv'
BY Zenon DEF TemplateInv, TemplateTypeOK, Read, Due, DueFor, Finish, Matching, Right, Ahead, NodeConfigOf

-----------------------------------------------------------------------------
(* Theorems. *)

\* Every step keeps TemplateInv.
LEMMA StepKeeps == ASSUME TemplateInv, [TemplateNext]_templateVars PROVE TemplateInv'
<1>1. CASE UNCHANGED templateVars
  <2>1. TemplateTypeOK' /\ Read'
    BY Zenon, <1>1 DEF templateVars, TemplateInv, TemplateTypeOK, Read
  <2>2. Due'
    BY Zenon, <1>1, SamePair DEF templateVars, TemplateInv, Due, NodeConfigOf
  <2>. QED  BY Zenon, <2>1, <2>2 DEF TemplateInv
<1>. QED  BY Zenon, <1>1, ApplyKeeps, DeleteKeeps, StartKeeps, NodeKeeps, MapKeeps, ReconcileKeeps, FailKeeps,
             NodeConfigKeeps, FinishKeeps DEF TemplateNext

\* Every step keeps TemplateInv.
LEMMA TemplateInvariant == TemplateSpec => []TemplateInv
<1>1. TemplateInit => TemplateInv
  BY Zenon, TemplateStarts
<1>2. TemplateInv /\ [TemplateNext]_templateVars => TemplateInv'
  BY Zenon, StepKeeps
<1>. QED  BY <1>1, <1>2, PTL DEF TemplateSpec

\* wao-core's controller converges, whatever templates, nodes and NodeConfigs do while it
\* reconciles: a pair of a template and a node it selects that has nothing left to do and was
\* not given up has the NodeConfig that the template asks for (Reconcile, reconcileNodeConfig,
\* mapFuncNodeToNodeConfigTemplate).
THEOREM ControllerConverges == TemplateSpec => []Converged
<1>1. TemplateInv => Converged
  BY Zenon DEF TemplateInv, Due, DueFor, Converged, Settled, Right, Ahead
<1>. QED  BY <1>1, TemplateInvariant, PTL

\* A NodeConfig that has been reconciled is owned by the template that exists, also when that
\* template was deleted and created again meanwhile (SetControllerReference in
\* reconcileNodeConfig): the garbage collector does not take it.
THEOREM ReconciledAreOwned == TemplateSpec => []Owned
<1>1. TemplateInv => Owned
  BY Zenon DEF TemplateInv, Due, DueFor, Owned, Settled, Right, Ahead
<1>. QED  BY <1>1, TemplateInvariant, PTL
=============================================================================
