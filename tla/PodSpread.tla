------------------------------ MODULE PodSpread ------------------------------
(***************************************************************************)
(* The PodSpread plugin of the scheduler, with the parts of the scheduling *)
(* cycle and of the cluster that it reads: nodes that come and go,         *)
(* ReplicaSets that are created, scaled and deleted, and pods that are     *)
(* created, scheduled one at a time, bound asynchronously and deleted.     *)
(*                                                                         *)
(* A rate is a number of RateUnit-ths.  A session stands for its           *)
(* Redunduncy, the only field that outlives a PreFilter: the others are    *)
(* computed again by every updateSchedulingSession.                        *)
(***************************************************************************)
EXTENDS ClusterNodes, FiniteSets

CONSTANTS
    Topologies,   \* label assignments: records with fields region, zone (functions from
                  \* Nodes to a label or None) and controlPlane (a set of nodes)
    ReplicaSets,  \* ReplicaSet objects ("namespace/name")
    NameOf,       \* ReplicaSet -> its name, without the namespace
    SpreadPods,   \* pod names
    MaxReplicas,  \* bound on spec.replicas, for model checking
    Rates,        \* podspread-rate annotations, in RateUnit-ths
    RateUnit

VARIABLES
    topology,   \* the labels of the nodes
    up,         \* the nodes of the cluster
    rs,         \* ReplicaSet -> its spec or None
    spreadPod,  \* pod -> its state or None
    session,    \* PodSpread.schedulingSession: ReplicaSet name -> Redunduncy or None
    cycle,      \* the running scheduling cycle: its pod and the nodes PreFilter left, or None
    disturbed   \* history: ReplicaSets whose pods were not all placed by undisturbed cycles

spreading == <<topology, up, rs, spreadPod, session, cycle, disturbed>>

Names == {NameOf[r] : r \in ReplicaSets}

ReplicaSetSpec == [replicas : 0 .. MaxReplicas, rate : Rates \cup {None}, tolerates : BOOLEAN]
Pod == [rs : ReplicaSets, node : Nodes \cup {None}, bound : BOOLEAN]

\* A rate is at most 100 percent; clusters are finite; None is no node, ReplicaSet, pod or spec.
ASSUME PodSpreadConstants ==
    /\ RateUnit \in Nat \ {0} /\ Rates \subseteq 0 .. RateUnit /\ MaxReplicas \in Nat
    /\ IsFiniteSet(Nodes) /\ IsFiniteSet(SpreadPods)
    /\ None \notin Nodes \cup ReplicaSets \cup Pod \cup ReplicaSetSpec

\* Every variable has its type.
SpreadTypes ==
    /\ topology \in Topologies
    /\ up \subseteq Nodes
    /\ rs \in [ReplicaSets -> ReplicaSetSpec \cup {None}]
    /\ spreadPod \in [SpreadPods -> Pod \cup {None}]
    /\ session \in [Names -> 0 .. MaxReplicas \cup {None}]
    /\ cycle \in [pod : SpreadPods, nodes : SUBSET Nodes] \cup {None}
    /\ disturbed \subseteq ReplicaSets

SpreadInit ==
    /\ topology \in Topologies
    /\ up = Nodes
    /\ rs = [r \in ReplicaSets |-> None]
    /\ spreadPod = [p \in SpreadPods |-> None]
    /\ session = [n \in Names |-> None]
    /\ cycle = None
    /\ disturbed = {}

-----------------------------------------------------------------------------
(* What PreFilter computes from the node and pod lists. *)

PodsOf(r) == {p \in SpreadPods : spreadPod[p] # None /\ spreadPod[p].rs = r}

\* setDeployNodes: the pods on some nodes, as far as the API server reports them scheduled.
Deployed(r, nodes) == Cardinality({p \in PodsOf(r) : spreadPod[p].bound /\ spreadPod[p].node \in nodes})

AreasOf(label) == {label[n] : n \in up} \ {None}

SpreadMode ==
    IF Cardinality(AreasOf(topology.region)) >= 2 THEN "region"
    ELSE IF Cardinality(AreasOf(topology.zone)) >= 2 THEN "zone" ELSE "node"

\* SpreadInfo: the area of each node.  In node mode each node is its own area.
SpreadInfo ==
    CASE SpreadMode = "region" -> topology.region
      [] SpreadMode = "zone" -> topology.zone
      [] SpreadMode = "node" -> [n \in Nodes |-> n]

Members(area) == {n \in up : SpreadInfo[n] = area}

\* A pod of r may run on node n: it is a worker, or the pod tolerates the control plane.
Schedulable(r, n) == n \notin topology.controlPlane \/ rs[r].tolerates

\* Region and zone mode: the schedulable nodes of the areas with the fewest pods, where
\* the fewest are taken over all areas.
NodesOfMinAreas(r) ==
    {n \in up : /\ SpreadInfo[n] # None
                /\ \A a \in AreasOf(SpreadInfo) :
                     Deployed(r, Members(SpreadInfo[n])) <= Deployed(r, Members(a))
                /\ Schedulable(r, n)}

\* Node mode: the schedulable nodes with the fewest pods, where a node that is gone but
\* has pods still counts (and is no control plane).
MinNodes(r) ==
    LET candidates == {n \in Nodes : IF n \in up THEN Schedulable(r, n) ELSE Deployed(r, {n}) > 0}
    IN  {n \in candidates : \A m \in candidates : Deployed(r, {n}) <= Deployed(r, {m})}

\* Mutant of AllocatableNodes: the last pod that falls under the rate is left free.
AllocatableNodesOneShort(r, redunduncy) ==
    IF Deployed(r, Nodes) + 1 >= redunduncy THEN up
    ELSE IF SpreadMode = "node" THEN MinNodes(r) ELSE NodesOfMinAreas(r)

\* Mutant of AllocatableNodes: control plane nodes and areas are not told apart.
AllocatableNodesIgnoringTaint(r, redunduncy) ==
    IF Deployed(r, Nodes) >= redunduncy THEN up
    ELSE {n \in up : \A m \in up : Deployed(r, {n}) <= Deployed(r, {m})}

\* getAllocatableNodes.
AllocatableNodes(r, redunduncy) ==
    IF Deployed(r, Nodes) >= redunduncy THEN up
    ELSE IF SpreadMode = "node" THEN MinNodes(r) ELSE NodesOfMinAreas(r)

\* int(float64(replicas) * rate).
Redunduncy(spec) == (spec.replicas * spec.rate) \div RateUnit

-----------------------------------------------------------------------------
(* The scheduling cycle. *)

Pending(p) == spreadPod[p] # None /\ spreadPod[p].node = None

\* PreFilter leaves the pod alone: no usable annotation on the pod or on its ReplicaSet
\* (which it reads only to open a session), or the API server answered an error.
PreFilterSkip(p) ==
    /\ cycle = None /\ Pending(p)
    /\ cycle' = [pod |-> p, nodes |-> up]
    /\ disturbed' = disturbed \cup {spreadPod[p].rs}
    /\ UNCHANGED <<topology, up, rs, spreadPod, session>>

\* PreFilter: updateSchedulingSession opens the session of the ReplicaSet's name at its
\* first pod, and getAllocatableNodes restricts the nodes.
SpreadPreFilter(p) ==
    /\ cycle = None /\ Pending(p)
    /\ LET r == spreadPod[p].rs
           name == NameOf[r]
       IN  /\ rs[r] # None
           /\ session[name] = None => rs[r].rate # None
           /\ session' = IF session[name] = None
                         THEN [session EXCEPT ![name] = Redunduncy(rs[r])] ELSE session
           /\ cycle' = [pod |-> p, nodes |-> AllocatableNodes(r, session'[name])]
           /\ disturbed' = IF \E q \in PodsOf(r) : spreadPod[q].node # None /\ ~spreadPod[q].bound
                           THEN disturbed \cup {r} ELSE disturbed
    /\ UNCHANGED <<topology, up, rs, spreadPod>>

\* The rest of the cycle picks one of the nodes that are left, that exist and that the
\* pod tolerates, and assumes the pod there.
Place(n) ==
    /\ cycle # None
    /\ n \in cycle.nodes \cap up
    /\ Schedulable(spreadPod[cycle.pod].rs, n)
    /\ spreadPod' = [spreadPod EXCEPT ![cycle.pod].node = n]
    /\ cycle' = None
    /\ UNCHANGED <<topology, up, rs, session, disturbed>>

\* No node is left, or a later plugin rejects the pod: it is tried again.
Reject ==
    /\ cycle # None
    /\ cycle' = None
    /\ UNCHANGED <<topology, up, rs, spreadPod, session, disturbed>>

\* The binding cycle, which runs beside the next scheduling cycles, ends: only now does
\* the API server report the pod as scheduled.
BindPod(p) ==
    /\ spreadPod[p] # None /\ spreadPod[p].node # None /\ ~spreadPod[p].bound
    /\ spreadPod' = [spreadPod EXCEPT ![p].bound = TRUE]
    /\ UNCHANGED <<topology, up, rs, session, cycle, disturbed>>

BindFails(p) ==
    /\ spreadPod[p] # None /\ spreadPod[p].node # None /\ ~spreadPod[p].bound
    /\ spreadPod' = [spreadPod EXCEPT ![p].node = None]
    /\ UNCHANGED <<topology, up, rs, session, cycle, disturbed>>

-----------------------------------------------------------------------------
(* The cluster. *)

\* A cycle whose pod is deleted comes to nothing (a new pod is never mistaken for it).
CycleWithout(pods) == IF cycle # None /\ cycle.pod \in pods THEN None ELSE cycle

\* A ReplicaSet is created, or created again under a name that has a session.
CreateReplicaSet(r) ==
    /\ rs[r] = None
    /\ \E spec \in ReplicaSetSpec : rs' = [rs EXCEPT ![r] = spec]
    /\ disturbed' = IF session[NameOf[r]] = None THEN disturbed \ {r} ELSE disturbed \cup {r}
    /\ UNCHANGED <<topology, up, spreadPod, session, cycle>>

Scale(r) ==
    /\ rs[r] # None
    /\ \E n \in 0 .. MaxReplicas : rs' = [rs EXCEPT ![r].replicas = n]
    /\ disturbed' = disturbed \cup {r}
    /\ UNCHANGED <<topology, up, spreadPod, session, cycle>>

\* A ReplicaSet is deleted with its pods.
DeleteReplicaSet(r) ==
    /\ rs[r] # None
    /\ rs' = [rs EXCEPT ![r] = None]
    /\ spreadPod' = [p \in SpreadPods |-> IF p \in PodsOf(r) THEN None ELSE spreadPod[p]]
    /\ cycle' = CycleWithout(PodsOf(r))
    /\ UNCHANGED <<topology, up, session, disturbed>>

CreatePod(p, r) ==
    /\ spreadPod[p] = None /\ rs[r] # None
    /\ Cardinality(PodsOf(r)) < rs[r].replicas
    /\ spreadPod' = [spreadPod EXCEPT ![p] = [rs |-> r, node |-> None, bound |-> FALSE]]
    /\ UNCHANGED <<topology, up, rs, session, cycle, disturbed>>

DeletePod(p) ==
    /\ spreadPod[p] # None
    /\ spreadPod' = [spreadPod EXCEPT ![p] = None]
    /\ cycle' = CycleWithout({p})
    /\ disturbed' = disturbed \cup {spreadPod[p].rs}
    /\ UNCHANGED <<topology, up, rs, session>>

\* A node leaves the cluster (its pods are deleted later) or joins it again.
ChangeNodes(n) ==
    /\ up' = IF n \in up THEN up \ {n} ELSE up \cup {n}
    /\ disturbed' = ReplicaSets
    /\ UNCHANGED <<topology, rs, spreadPod, session, cycle>>

SpreadNext ==
    \/ \E p \in SpreadPods : PreFilterSkip(p) \/ SpreadPreFilter(p) \/ BindPod(p) \/ BindFails(p) \/ DeletePod(p)
    \/ \E n \in Nodes : Place(n) \/ ChangeNodes(n)
    \/ Reject
    \/ \E r \in ReplicaSets :
         CreateReplicaSet(r) \/ Scale(r) \/ DeleteReplicaSet(r) \/ \E p \in SpreadPods : CreatePod(p, r)

SpreadSpec == SpreadInit /\ [][SpreadNext]_spreading

-----------------------------------------------------------------------------

\* The areas (nodes in node mode) that a pod of r can be put into.
UsableAreas(r) == {SpreadInfo[n] : n \in {m \in up : Schedulable(r, m)}} \ {None}

\* The promise of the annotation, for a ReplicaSet whose pods are scheduled one after the
\* other in a cluster that stays as it is: the pods that fall under its rate lie in
\* different areas, as long as there are areas left (PreFilter of podspread.go).
Spread ==
    \A r \in ReplicaSets \ disturbed : (rs[r] # None /\ rs[r].rate # None) =>
        LET placed == {p \in PodsOf(r) : spreadPod[p].node # None}
            used == {SpreadInfo[spreadPod[p].node] : p \in placed} \ {None}
            least == {Cardinality(placed), Redunduncy(rs[r]), Cardinality(UsableAreas(r))}
        IN  \E x \in least : Cardinality(used) >= x

PlacesOutside ==
    \A p \in SpreadPods : (SpreadPreFilter(p) /\ Deployed(spreadPod[p].rs, Nodes) < session'[NameOf[spreadPod[p].rs]]) =>
        \A n \in cycle'.nodes \cap up : Schedulable(spreadPod[p].rs, n) /\ SpreadInfo[n] # None

\* A pod of a spread ReplicaSet that does not tolerate the control plane is never left with a
\* control plane node, or a node outside the areas, before the rate is reached (PreFilter).
NoControlPlane == [][PlacesOutside]_spreading

-----------------------------------------------------------------------------
(* What the code's comments claim. *)

OtherAreasUsable ==
    \A p \in SpreadPods : (SpreadPreFilter(p) /\ UsableAreas(spreadPod[p].rs) # {} /\ SpreadMode # "node") =>
        \E n \in cycle'.nodes : Schedulable(spreadPod[p].rs, n)

\* "Areas with only control plane nodes are excluded from scheduling.": such areas do not keep a
\* pod from the other areas (comment in podspread.go).
ControlPlaneAreasExcluded == [][OtherAreasUsable]_spreading
=============================================================================
