------------------------ MODULE NodeConfigController ------------------------
(***************************************************************************)
(* The NodeConfig controller of the metrics adapter and the Collector it   *)
(* drives: one agentRunner, a goroutine, per NodeConfig and value type.    *)
(*                                                                         *)
(* The controller has one worker, and nothing but it touches the           *)
(* collector's map, so a Reconcile is one action.  What a runner does      *)
(* between its start and its end is left to module MetricsAdapter.         *)
(***************************************************************************)
EXTENDS ClusterNodes

CONSTANTS
    Configs,     \* names of NodeConfig objects
    Runners      \* agentRunner goroutines; bounds how many can be alive

ASSUME ControllerConstants == None \notin Runners

VARIABLES
    nc,          \* the NodeConfig objects, as the controller's client sees them
    queue,       \* the controller's work queue
    collector,   \* Collector.m: (config, value type) -> runner or None
    alive,       \* the runners whose goroutine has not returned
    job,         \* runner -> the config, value type and node it was created for
    stopped,     \* the runners whose stopCh is closed
    panicked     \* a stopCh has been closed twice

controllerVars == <<nc, queue, collector, alive, job, stopped, panicked>>

ValueTypes == {"inlet_temp", "delta_p"}

\* What the controller looks at in a NodeConfig: the node, the value types whose endpoint
\* type is supported, and whether a DeletionTimestamp is set.
NodeConfig == [node : Nodes, supported : SUBSET ValueTypes, deleting : BOOLEAN]

Job == [config : Configs, vt : ValueTypes, node : Nodes]

\* Every variable has its type.
ControllerTypeOK ==
    /\ nc \in [Configs -> NodeConfig \cup {None}]
    /\ queue \subseteq Configs
    /\ collector \in [Configs \X ValueTypes -> Runners \cup {None}]
    /\ alive \subseteq Runners
    /\ job \in [Runners -> Job \cup {None}]
    /\ stopped \subseteq Runners
    /\ panicked \in BOOLEAN

ControllerInit ==
    /\ nc = [c \in Configs |-> None]
    /\ queue = {}
    /\ collector = [k \in Configs \X ValueTypes |-> None]
    /\ alive = {}
    /\ job = [r \in Runners |-> None]
    /\ stopped = {}
    /\ panicked = FALSE

-----------------------------------------------------------------------------

\* A NodeConfig is created, changed, marked as deleting or removed, and the watch adds
\* its name to the work queue (which holds a name once).
ChangeConfig(c) ==
    /\ \E x \in NodeConfig \cup {None} :
        /\ nc[c] = None => x # None /\ ~x.deleting
        /\ (nc[c] # None /\ x # None) => (nc[c].deleting => x.deleting)
        /\ nc' = [nc EXCEPT ![c] = x]
    /\ queue' = queue \cup {c}
    /\ UNCHANGED <<collector, alive, job, stopped, panicked>>

\* The periodic resync of the watch enqueues an unchanged object.
Resync(c) ==
    /\ nc[c] # None
    /\ queue' = queue \cup {c}
    /\ UNCHANGED <<nc, collector, alive, job, stopped, panicked>>

\* Mutant of Registered: the result of Load is used although it is nil.
RegisteredWithNil(c) == {collector[<<c, vt>>] : vt \in ValueTypes}

\* The runners the collector holds for a NodeConfig.
Registered(c) == {collector[<<c, vt>>] : vt \in ValueTypes} \ {None}

\* Mutant of Unregister: the stopped runner stays in the map.
UnregisterKeepingKey(c) ==
    /\ stopped' = stopped \cup Registered(c)
    /\ panicked' = (panicked \/ Registered(c) \cap stopped # {})
    /\ UNCHANGED collector

\* Collector.Unregister for both value types: close the stopCh of the runner the map
\* holds, if any, and delete the key.
Unregister(c) ==
    /\ stopped' = stopped \cup Registered(c)
    /\ panicked' = (panicked \/ Registered(c) \cap stopped # {})
    /\ collector' = [k \in DOMAIN collector |-> IF k[1] = c THEN None ELSE collector[k]]

\* The object is gone or going: reconcileNodeConfigDeletion.
ReconcileDeletion(c) ==
    /\ c \in queue
    /\ nc[c] # None => nc[c].deleting
    /\ Unregister(c)
    /\ queue' = queue \ {c}
    /\ UNCHANGED <<nc, alive, job>>

\* The value types reconcileNodeConfig gets to register before it returns an error: inlet
\* temperature comes first, and an unsupported type ends it.
Registrable(config) ==
    IF "inlet_temp" \in config.supported THEN config.supported ELSE {}

\* Runners that do not exist yet.  (The identity of one that has returned and that the
\* collector does not refer to is used again.)
Unused == {r \in Runners : r \notin alive /\ \A k \in DOMAIN collector : collector[k] # r}

\* Mutant of Register: a key that is present keeps its runner.
RegisterUnlessPresent(c, new) ==
    LET vts == {vt \in DOMAIN new : collector[<<c, vt>>] = None}
        started == {new[vt] : vt \in vts}
    IN  /\ collector' = [k \in DOMAIN collector |->
                           IF k[1] = c /\ k[2] \in vts THEN new[k[2]] ELSE collector[k]]
        /\ job' = [r \in Runners |->
                     IF r \in started
                     THEN [config |-> c, vt |-> CHOOSE vt \in vts : new[vt] = r, node |-> nc[c].node]
                     ELSE job[r]]
        /\ alive' = alive \cup started
        /\ stopped' = stopped \ started

\* Collector.Register: start a runner per value type and store it under the key, over
\* whatever runner was there.
Register(c, new) ==
    LET vts == DOMAIN new
        started == {new[vt] : vt \in vts}
    IN  /\ collector' = [k \in DOMAIN collector |->
                           IF k[1] = c /\ k[2] \in vts THEN new[k[2]] ELSE collector[k]]
        /\ job' = [r \in Runners |->
                     IF r \in started
                     THEN [config |-> c, vt |-> CHOOSE vt \in vts : new[vt] = r, node |-> nc[c].node]
                     ELSE job[r]]
        /\ alive' = alive \cup started
        /\ stopped' = stopped \ started

\* reconcileNodeConfig.  An error puts the name back on the queue.
ReconcileNodeConfig(c) ==
    /\ c \in queue
    /\ nc[c] # None
    /\ ~nc[c].deleting
    /\ \E new \in [Registrable(nc[c]) -> Unused] :
        /\ \A vt, wt \in DOMAIN new : new[vt] = new[wt] => vt = wt
        /\ Register(c, new)
    /\ queue' = IF Registrable(nc[c]) = ValueTypes THEN queue \ {c} ELSE queue
    /\ UNCHANGED <<nc, panicked>>

\* A runner returns, which it does only when it has seen its stopCh closed.
Exit(r) ==
    /\ r \in alive \cap stopped
    /\ alive' = alive \ {r}
    /\ job' = [job EXCEPT ![r] = None]
    /\ UNCHANGED <<nc, queue, collector, stopped, panicked>>

ControllerStep(c) ==
    ChangeConfig(c) \/ Resync(c) \/ ReconcileDeletion(c) \/ ReconcileNodeConfig(c)

ControllerNext ==
    \/ \E c \in Configs : ControllerStep(c)
    \/ \E r \in Runners : Exit(r)

ControllerSpec == ControllerInit /\ [][ControllerNext]_controllerVars

-----------------------------------------------------------------------------

\* Once a NodeConfig is off the work queue, the collector reflects it: no runner for one
\* that is gone or going, and for a live one a runner per value type that was started for
\* its present node, is running and has not been stopped.
Reconciled ==
    \A c \in Configs \ queue, vt \in ValueTypes : LET r == collector[<<c, vt>>] IN
        IF nc[c] = None \/ nc[c].deleting THEN r = None
        ELSE /\ r \in alive \ stopped
             /\ job[r] = [config |-> c, vt |-> vt, node |-> nc[c].node]

\* No stopCh is closed twice (which would panic), although a deletion is reconciled
\* several times and a runner is replaced without being stopped.
StoppedOnce == ~panicked

\* The collector holds only running, unstopped runners, and none under two keys, so that
\* Unregister never stops a runner of another NodeConfig.
Registry ==
    /\ \A k \in DOMAIN collector : collector[k] # None => collector[k] \in alive \ stopped
    /\ \A k, l \in DOMAIN collector :
        (collector[k] # None /\ collector[k] = collector[l]) => k = l

-----------------------------------------------------------------------------
(* What the code's documentation claims. *)

\* "FetchInterval specifies the data retrieval interval.": the value of a NodeConfig is
\* retrieved by one runner, not by several that each keep an interval.
OneRunnerPerValue ==
    \A r, s \in alive \ stopped :
        (job[r].config = job[s].config /\ job[r].vt = job[s].vt) => r = s
=============================================================================
