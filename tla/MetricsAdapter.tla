--------------------------- MODULE MetricsAdapter ---------------------------
(***************************************************************************)
(* The metrics adapter process: the NodeConfig controller with its         *)
(* collector (module NodeConfigController); the agentRunners, goroutines   *)
(* that fetch a sensor value once per interval and write it into the       *)
(* store; the store, a sync.Map of MetricData per node; and the custom     *)
(* metrics provider, which answers queries from the store.                 *)
(*                                                                         *)
(* A runner's steps are its accesses to stopCh and to the store, in the    *)
(* order of its code.                                                      *)
(***************************************************************************)
EXTENDS NodeConfigController

CONSTANTS
    MetricTTL,   \* provider.MetricTTL, in clock ticks
    MaxTime      \* bound on the clock, for model checking

ASSUME AdapterConstants == MetricTTL \in Nat /\ MaxTime \in Nat

VARIABLES
    now,         \* time.Now()
    pc,          \* runner -> where its goroutine is
    md,          \* runner -> its local variable m
    lateWrites,  \* runner -> readings it has written since it was stopped
    store,       \* Store.m: node -> MetricData or None
    served       \* what the provider answers in this step ({} for an error or no query)

vars == <<controllerVars, now, pc, md, lateWrites, store, served>>

\* One value of a MetricData with its timestamp; None is the zero value, whose zero
\* timestamp lies more than MetricTTL before any time.  node and vt say which sensor
\* produced it.
Reading == [node : Nodes, vt : ValueTypes, timestamp : 0 .. MaxTime]
MetricData == [ValueTypes -> Reading \cup {None}]
EmptyData == [vt \in ValueTypes |-> None]

\* Every variable has its type.
TypeOK ==
    /\ ControllerTypeOK
    /\ now \in 0 .. MaxTime
    /\ pc \in [Runners -> {"sleep", "loop", "select", "fetch", "load", "init",
                           "reload", "set", "exited"}]
    /\ md \in [Runners -> MetricData]
    /\ lateWrites \in [Runners -> Nat]
    /\ store \in [Nodes -> MetricData \cup {None}]
    /\ served \subseteq [reading : Reading, node : Nodes, vt : ValueTypes]

Init ==
    /\ ControllerInit
    /\ now = 0
    /\ pc = [r \in Runners |-> "exited"]
    /\ md = [r \in Runners |-> EmptyData]
    /\ lateWrites = [r \in Runners |-> 0]
    /\ store = [n \in Nodes |-> None]
    /\ served = {}

\* A step of the controller.  Register starts goroutines.
ControllerRuns(c) ==
    /\ ControllerStep(c)
    /\ pc' = [r \in Runners |-> IF r \in alive' \ alive THEN "sleep" ELSE pc[r]]
    /\ served' = {}
    /\ UNCHANGED <<now, md, lateWrites, store>>

-----------------------------------------------------------------------------
(* The runners: agentRunner.Run. *)

Goto(r, from, to) ==
    /\ pc[r] = from
    /\ pc' = [pc EXCEPT ![r] = to]
    /\ served' = {}

\* The initial delay, which cannot be interrupted, is over.
Wake(r) ==
    /\ Goto(r, "sleep", "loop")
    /\ UNCHANGED <<now, controllerVars, md, lateWrites, store>>

\* select finds stopCh open and its new timer not yet fired: it blocks.
Block(r) ==
    /\ Goto(r, "loop", "select")
    /\ r \notin stopped
    /\ UNCHANGED <<now, controllerVars, md, lateWrites, store>>

\* Mutant of SeeStop: a break that leaves the select statement, not the loop.
SeeStopBreaksSelect(r) ==
    /\ pc[r] \in {"loop", "select"}
    /\ r \in stopped
    /\ pc' = [pc EXCEPT ![r] = "loop"]
    /\ served' = {}
    /\ UNCHANGED <<controllerVars, now, md, lateWrites, store>>

\* select takes the stopCh case, on entry or while it is blocked, and the goroutine returns.
SeeStop(r) ==
    /\ pc[r] \in {"loop", "select"}
    /\ Exit(r)
    /\ pc' = [pc EXCEPT ![r] = "exited"]
    /\ lateWrites' = [lateWrites EXCEPT ![r] = 0]
    /\ served' = {}
    /\ UNCHANGED <<now, md, store>>

\* The timer of a blocked select fires.  When stopCh is closed as well, Go picks either.
Fire(r) ==
    /\ Goto(r, "select", "fetch")
    /\ UNCHANGED <<now, controllerVars, md, lateWrites, store>>

\* agent.Fetch returns a value ...
FetchOk(r) ==
    /\ Goto(r, "fetch", "load")
    /\ UNCHANGED <<now, controllerVars, md, lateWrites, store>>

\* Mutant of FetchErr: the goroutine returns instead of going on with the loop.
FetchErrReturns(r) ==
    /\ Goto(r, "fetch", "exited")
    /\ alive' = alive \ {r}
    /\ UNCHANGED <<now, nc, queue, collector, job, stopped, panicked, md, lateWrites, store>>

\* ... or an error, also when its timeout expires.
FetchErr(r) ==
    /\ Goto(r, "fetch", "loop")
    /\ UNCHANGED <<now, controllerVars, md, lateWrites, store>>

\* GetOrInit: the first Load only asks whether the node has an entry,
GetOrInitLoad(r) ==
    /\ Goto(r, "load", IF store[job[r].node] = None THEN "init" ELSE "reload")
    /\ UNCHANGED <<now, controllerVars, md, lateWrites, store>>

\* Set(k, MetricData{}) makes one if not,
GetOrInitSet(r) ==
    /\ Goto(r, "init", "reload")
    /\ store' = [store EXCEPT ![job[r].node] = EmptyData]
    /\ UNCHANGED <<now, controllerVars, md, lateWrites>>

\* Mutant of GetOrInitReload: every value goes into the inlet temperature.
ReloadIntoWrongField(r) ==
    /\ Goto(r, "reload", "set")
    /\ md' = [md EXCEPT ![r] = [store[job[r].node] EXCEPT !["inlet_temp"] =
                 [node |-> job[r].node, vt |-> job[r].vt, timestamp |-> now]]]
    /\ UNCHANGED <<now, controllerVars, lateWrites, store>>

\* and the second Load fetches it.  The runner then writes its value and the time into
\* its copy.
GetOrInitReload(r) ==
    /\ Goto(r, "reload", "set")
    /\ md' = [md EXCEPT ![r] = [store[job[r].node] EXCEPT ![job[r].vt] =
                 [node |-> job[r].node, vt |-> job[r].vt, timestamp |-> now]]]
    /\ UNCHANGED <<now, controllerVars, lateWrites, store>>

\* Mutant of SetStore: a period that has passed meanwhile is made up for at once.
SetStoreCatchesUp(r) ==
    /\ Goto(r, "set", IF md[r][job[r].vt].timestamp < now THEN "fetch" ELSE "loop")
    /\ store' = [store EXCEPT ![job[r].node] = md[r]]
    /\ lateWrites' = [lateWrites EXCEPT ![r] = IF r \in stopped THEN @ + 1 ELSE @]
    /\ md' = [md EXCEPT ![r] = EmptyData]
    /\ UNCHANGED <<now, controllerVars>>

\* store.Set(k, m) replaces the whole MetricData of the node; m goes out of scope.
SetStore(r) ==
    /\ Goto(r, "set", "loop")
    /\ store' = [store EXCEPT ![job[r].node] = md[r]]
    /\ lateWrites' = [lateWrites EXCEPT ![r] = IF r \in stopped THEN @ + 1 ELSE @]
    /\ md' = [md EXCEPT ![r] = EmptyData]
    /\ UNCHANGED <<now, controllerVars>>

RunnerStep(r) ==
    \/ Wake(r) \/ Block(r) \/ SeeStop(r) \/ Fire(r) \/ FetchOk(r) \/ FetchErr(r)
    \/ GetOrInitLoad(r) \/ GetOrInitSet(r) \/ GetOrInitReload(r) \/ SetStore(r)

-----------------------------------------------------------------------------
(* The custom metrics provider. *)

\* Mutant of Servable: the timestamp is not checked.
ServableIgnoringAge(n, vt) ==
    /\ store[n] # None
    /\ store[n][vt] # None

\* metricFor succeeds: the node is in the store and the asked value has not expired.
Servable(n, vt) ==
    /\ store[n] # None
    /\ store[n][vt] # None
    /\ store[n][vt].timestamp + MetricTTL >= now

\* GetMetricByName for one node, GetMetricBySelector for several: one node without a
\* fresh value fails the whole answer.
Query(nodes, vt) ==
    /\ served' = IF \A n \in nodes : Servable(n, vt)
                 THEN {[reading |-> store[n][vt], node |-> n, vt |-> vt] : n \in nodes}
                 ELSE {}
    /\ UNCHANGED <<controllerVars, now, pc, md, lateWrites, store>>

Tick ==
    /\ now < MaxTime
    /\ now' = now + 1
    /\ served' = {}
    /\ UNCHANGED <<controllerVars, pc, md, lateWrites, store>>

Next ==
    \/ Tick
    \/ \E c \in Configs : ControllerRuns(c)
    \/ \E r \in Runners : RunnerStep(r)
    \/ \E nodes \in (SUBSET Nodes) \ {{}}, vt \in ValueTypes : Query(nodes, vt)

Spec == Init /\ [][Next]_vars

\* Goroutines that can run are run, timers fire, and a fetch ends (its context has a
\* timeout).
FairSpec == Spec /\ \A r \in Runners : WF_vars(RunnerStep(r))

-----------------------------------------------------------------------------

\* The runners do to the controller's world what it expects of them: they return only
\* when they have been stopped.
ImplementsController == ControllerSpec

\* A runner that has been stopped writes into the store at most once more: only a fetch
\* or a timer that was under way when stopCh was closed gets through.
OneLateWrite == \A r \in Runners : lateWrites[r] <= 1

\* Concurrent writers of a node lose updates but never mix them: a reading in the store or
\* in an answer of the provider is a value that a sensor of that node and type produced,
\* and an answered one was stored at most MetricTTL ago.
WholeReadings ==
    /\ \A n \in Nodes, vt \in ValueTypes :
        (store[n] # None /\ store[n][vt] # None) =>
            store[n][vt].node = n /\ store[n][vt].vt = vt
    /\ \A a \in served :
            /\ a.reading.node = a.node /\ a.reading.vt = a.vt
            /\ a.reading.timestamp \in now - MetricTTL .. now

\* A stopped runner terminates, wherever in its loop it was.
StoppedRunnersExit ==
    \A r \in Runners : (r \in stopped) ~> (r \notin alive)

-----------------------------------------------------------------------------
(* What the code's documentation claims. *)

\* GetOrInit "returns a MetricData for the given storeKey or inits it if not found.
\* Thread-safe.": its initialisation never wipes out a value that is there.
InitOnlyIfNotFound ==
    [][\A r \in Runners : GetOrInitSet(r) => store[job[r].node] \in {None, EmptyData}]_vars
=============================================================================
