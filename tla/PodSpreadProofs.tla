--------------------------- MODULE PodSpreadProofs ---------------------------
(***************************************************************************)
(* Proofs about the spreading of pods, for all topologies, ReplicaSets,    *)
(* rates and numbers of pods.                                              *)
(*                                                                         *)
(* Spread alone is not inductive: a cycle that is running may have been    *)
(* left nodes that Spread does not mention.  SpreadInv says of every       *)
(* ReplicaSet whose pods are scheduled undisturbed that at most one pod is *)
(* placed and not bound, that the pods without it are spread as well, and  *)
(* that a running cycle left only nodes that keep it so.                   *)
(***************************************************************************)
EXTENDS PodSpread, FiniteSetTheorems, TLAPS

-----------------------------------------------------------------------------
(* Division. *)

\* Integer division rounds down.
LEMMA DivFits ==
    ASSUME NEW a \in Nat, NEW b \in Nat \ {0}
    PROVE  a \div b \in Nat /\ b * (a \div b) <= a /\ a < b * (a \div b) + b
BY SMT

\* The quotient is the greatest number that fits.
LEMMA DivGreatest ==
    ASSUME NEW a \in Nat, NEW b \in Nat \ {0}, NEW q \in Nat
    PROVE  (b * q <= a => q <= a \div b) /\ (a < b * q => a \div b < q)
<1>1. a \div b \in Nat /\ b * (a \div b) <= a /\ a < b * (a \div b) + b
  BY Zenon, DivFits
<1>2. ASSUME a \div b < q PROVE ~ (b * q <= a)
  <2>1. b * (a \div b + 1) <= b * q BY <1>1, <1>2
  <2>. QED BY <2>1, <1>1
<1>3. ASSUME q <= a \div b PROVE ~ (a < b * q)
  <2>1. b * q <= b * (a \div b) BY <1>1, <1>3
  <2>. QED BY <2>1, <1>1
<1>. QED BY <1>1, <1>2, <1>3

\* A part of c is between 0 and c.
LEMMA ShareFits ==
    ASSUME NEW c \in Nat, NEW a \in Nat, NEW b \in Nat \ {0}, a <= b
    PROVE  (c * a) \div b \in 0 .. c
<1>1. c * a \in Nat /\ c * a <= c * b OBVIOUS
<1>2. c * a < b * (c + 1) BY <1>1
<1>3. (c * a) \div b \in Nat BY Zenon, <1>1, DivFits
<1>. QED BY <1>1, <1>2, <1>3, DivGreatest

-----------------------------------------------------------------------------
(* The spreading of pods. *)

\* No ReplicaSet of another namespace has the name of r.
OwnName(r) == \A s \in ReplicaSets : NameOf[s] = NameOf[r] => s = r
UniqueNames == \A r \in ReplicaSets : OwnName(r)

\* The pods of r that have a node, those of them that are bound, and the areas they use.
Placed(r) == {p \in PodsOf(r) : spreadPod[p].node # None}
BoundOf(r) == {p \in Placed(r) : spreadPod[p].bound}
UsedBy(pods) == {SpreadInfo[spreadPod[p].node] : p \in pods} \ {None}

\* The pods are spread as Spread wants it.
SpreadOver(r, pods) ==
    \E x \in {Cardinality(pods), Redunduncy(rs[r]), Cardinality(UsableAreas(r))} :
        Cardinality(UsedBy(pods)) >= x

\* A pod of r may be put on node n: enough areas are used, or n's is not.
MayTake(r, n) ==
    \/ \E x \in {Redunduncy(rs[r]), Cardinality(UsableAreas(r))} :
          Cardinality(UsedBy(Placed(r))) >= x
    \/ SpreadInfo[n] \notin UsedBy(Placed(r)) \cup {None}

\* The pods of an undisturbed ReplicaSet.
PlacedInv(r) ==
    /\ \A p \in Placed(r) : spreadPod[p].node \in up
    /\ \A p, q \in Placed(r) \ BoundOf(r) : p = q
    /\ rs[r].rate # None => SpreadOver(r, Placed(r)) /\ SpreadOver(r, BoundOf(r))

\* The session of an undisturbed ReplicaSet is its own.
SessionInv(r) ==
    session[NameOf[r]] # None /\ rs[r].rate # None => session[NameOf[r]] = Redunduncy(rs[r])

\* A running cycle for a pod of an undisturbed ReplicaSet.
CycleInv(r) ==
    cycle # None /\ spreadPod[cycle.pod].rs = r =>
        /\ Placed(r) = BoundOf(r)
        /\ rs[r].rate # None => \A n \in cycle.nodes \cap up : Schedulable(r, n) => MayTake(r, n)

\* The pods and the cycle, disturbed or not.
PodsInv ==
    /\ SpreadTypes
    /\ \A r \in ReplicaSets : rs[r] = None => PodsOf(r) = {}
    /\ \A p \in SpreadPods : spreadPod[p] # None /\ spreadPod[p].bound => spreadPod[p].node # None
    /\ cycle # None => Pending(cycle.pod)

\* What is claimed of an undisturbed ReplicaSet with a name of its own.
ReplicaSetInv(r) == PlacedInv(r) /\ SessionInv(r) /\ CycleInv(r)

\* The invariant of the spreading.
SpreadInv == PodsInv /\ \A r \in ReplicaSets \ disturbed : OwnName(r) /\ rs[r] # None => ReplicaSetInv(r)

\* The image of a finite set is finite.
LEMMA ImageFinite ==
    ASSUME NEW S, IsFiniteSet(S), NEW f
    PROVE  IsFiniteSet({f[x] : x \in S})
<1>. DEFINE T == {f[x] : x \in S}
            g == [x \in S |-> f[x]]
<1>1. g \in Surjection(S, T)
  BY Zenon DEF Surjection
<1>. HIDE DEF g, T
<1>2. IsFiniteSet(T)
  BY Zenon, <1>1, FS_Surjection
<1>. QED  BY Zenon, <1>2 DEF T

\* The areas that pods use are finitely many.
LEMMA UsedFinite ==
    ASSUME NEW pods \in SUBSET SpreadPods
    PROVE  /\ IsFiniteSet(pods) /\ Cardinality(pods) \in Nat
           /\ IsFiniteSet(UsedBy(pods)) /\ Cardinality(UsedBy(pods)) \in Nat
<1>. DEFINE f == [p \in pods |-> SpreadInfo[spreadPod[p].node]]
            T == {f[p] : p \in pods}
<1>1. IsFiniteSet(pods)
  BY Zenon, PodSpreadConstants, FS_Subset
<1>2. IsFiniteSet(T)
  <2>. HIDE DEF f
  <2>. QED  BY Zenon, <1>1, ImageFinite
<1>3. UsedBy(pods) \subseteq T
  BY Zenon DEF UsedBy
<1>4. IsFiniteSet(UsedBy(pods))
  <2>. HIDE DEF T
  <2>. QED  BY Zenon, <1>2, <1>3, FS_Subset
<1>. QED  BY Zenon, <1>1, <1>4, FS_CardinalityType

\* The areas that can be used are finitely many.
LEMMA UsableFinite ==
    ASSUME up \subseteq Nodes, NEW r
    PROVE  IsFiniteSet(UsableAreas(r)) /\ Cardinality(UsableAreas(r)) \in Nat
<1>. DEFINE S == {m \in up : Schedulable(r, m)}
            T == {SpreadInfo[n] : n \in S}
<1>1. IsFiniteSet(S)
  <2>1. S \in SUBSET Nodes
    BY Zenon
  <2>. HIDE DEF S
  <2>. QED  BY Zenon, <2>1, PodSpreadConstants, FS_Subset
<1>2. IsFiniteSet(T)
  <2>. HIDE DEF S
  <2>. QED  BY Zenon, <1>1, ImageFinite
<1>3. UsableAreas(r) = T \ {None}
  BY Zenon DEF UsableAreas
<1>4. IsFiniteSet(T \ {None})
  <2>. HIDE DEF T
  <2>. QED  BY Zenon, <1>2, FS_Difference
<1>. HIDE DEF T
<1>. QED  BY Zenon, <1>3, <1>4, FS_CardinalityType

\* The number of pods that fall under the rate is a number of replicas.
LEMMA RedunduncyType ==
    ASSUME NEW spec \in ReplicaSetSpec, spec.rate # None
    PROVE  Redunduncy(spec) \in 0 .. MaxReplicas
<1>1. /\ spec.replicas \in 0 .. MaxReplicas /\ spec.rate \in Rates
  BY Zenon DEF ReplicaSetSpec
<1>. DEFINE a == spec.replicas
            c == spec.rate
<1>2. a \in 0 .. MaxReplicas /\ c \in 0 .. RateUnit /\ RateUnit \in Nat \ {0} /\ MaxReplicas \in Nat
  BY Zenon, <1>1, PodSpreadConstants
<1>3. Redunduncy(spec) = (a * c) \div RateUnit
  BY Zenon DEF Redunduncy
<1>. HIDE DEF a, c
<1>4. (a * c) \div RateUnit \in 0 .. a
  BY <1>2, ShareFits
<1>. QED  BY <1>2, <1>3, <1>4

\* The areas in which pods are counted, in node mode and in the others.
LEMMA Areas ==
    /\ SpreadMode \in {"region", "zone", "node"}
    /\ SpreadMode = "node" => SpreadInfo = [n \in Nodes |-> n]
<1>1. SpreadMode \in {"region", "zone", "node"}
  BY Zenon DEF SpreadMode
<1>. QED  BY Zenon, <1>1 DEF SpreadInfo

\* What PreFilter leaves before the rate is reached.
LEMMA NodesLeft ==
    ASSUME SpreadTypes, NEW r \in ReplicaSets,
           NEW n \in (IF SpreadMode = "node" THEN MinNodes(r)
                      ELSE NodesOfMinAreas(r)) \cap up
    PROVE  Schedulable(r, n) /\ SpreadInfo[n] # None
<1>1. n \in Nodes /\ n # None
  BY Zenon, PodSpreadConstants DEF SpreadTypes
<1>2. CASE SpreadMode = "node"
  <2>1. Schedulable(r, n)
    BY Zenon, <1>2 DEF MinNodes
  <2>. QED  BY Zenon, <1>1, <1>2, <2>1, Areas
<1>3. CASE SpreadMode # "node"
  BY Zenon, <1>3 DEF NodesOfMinAreas
<1>. QED  BY Zenon, <1>2, <1>3

\* The pods that are placed, and those that Deployed counts.
LEMMA PlacedPods ==
    ASSUME PodsInv, NEW r \in ReplicaSets
    PROVE  /\ Placed(r) \subseteq SpreadPods /\ BoundOf(r) \subseteq Placed(r)
           /\ \A p \in Placed(r) : /\ spreadPod[p] \in Pod /\ spreadPod[p].rs = r
                                   /\ spreadPod[p].node \in Nodes /\ spreadPod[p].bound \in BOOLEAN
           /\ \A S : {p \in PodsOf(r) : spreadPod[p].bound /\ spreadPod[p].node \in S}
                        = {p \in BoundOf(r) : spreadPod[p].node \in S}
<1>1. \A p \in SpreadPods : spreadPod[p] # None => spreadPod[p] \in Pod
  BY Zenon DEF PodsInv, SpreadTypes
<1>2. \A x \in Pod : /\ x.rs \in ReplicaSets /\ x.node \in Nodes \cup {None}
                                  /\ x.bound \in BOOLEAN
  BY Zenon DEF Pod
<1>. QED  BY Zenon, <1>1, <1>2 DEF Placed, BoundOf, PodsOf, PodsInv

\* Deployed counts the bound pods of some nodes.
LEMMA DeployedCounts ==
    ASSUME PodsInv, NEW r \in ReplicaSets, NEW S
    PROVE  /\ Deployed(r, S) \in Nat
           /\ Deployed(r, S) = 0 <=> \A p \in BoundOf(r) : spreadPod[p].node \notin S
           /\ Nodes \subseteq S => Deployed(r, S) = Cardinality(BoundOf(r))
<1>. DEFINE T == {p \in BoundOf(r) : spreadPod[p].node \in S}
<1>1. Deployed(r, S) = Cardinality(T)
  <2>1. {p \in PodsOf(r) : spreadPod[p].bound /\ spreadPod[p].node \in S} = T
    BY PlacedPods
  <2>2. Deployed(r, S) =
            Cardinality({p \in PodsOf(r) : spreadPod[p].bound /\ spreadPod[p].node \in S})
    BY Zenon DEF Deployed
  <2>. QED  BY Zenon, <2>1, <2>2
<1>2. T \in SUBSET SpreadPods
  BY Zenon, PlacedPods
<1>3. Nodes \subseteq S => T = BoundOf(r)
  BY Zenon, PlacedPods
<1>4. T = {} <=> \A p \in BoundOf(r) : spreadPod[p].node \notin S
  BY Zenon
<1>. HIDE DEF T
<1>5. IsFiniteSet(T)
  BY Zenon, <1>2, PodSpreadConstants, FS_Subset
<1>6. Cardinality(T) \in Nat /\ (Cardinality(T) = 0 <=> T = {})
  BY Zenon, <1>5, FS_CardinalityType, FS_EmptySet
<1>. QED  BY Zenon, <1>1, <1>3, <1>4, <1>6

\* While areas are left, the nodes with the fewest pods are in areas without any
\* (getAllocatableNodes).
LEMMA AllocatableNodesFresh ==
    ASSUME PodsInv, NEW r \in ReplicaSets, rs[r] # None, rs[r].rate # None,
           PlacedInv(r), Placed(r) = BoundOf(r),
           NEW n \in AllocatableNodes(r, Redunduncy(rs[r])) \cap up,
           Schedulable(r, n)
    PROVE  MayTake(r, n)
<1>. DEFINE red == Redunduncy(rs[r])
            usable == UsableAreas(r)
            used == UsedBy(Placed(r))
            info == SpreadInfo
<1>1. red \in Nat
  <2>1. rs[r] \in ReplicaSetSpec
    BY Zenon DEF PodsInv, SpreadTypes
  <2>2. red \in 0 .. MaxReplicas
    BY Zenon, <2>1, RedunduncyType
  <2>. HIDE DEF red
  <2>. QED  BY <2>2, PodSpreadConstants
<1>2. /\ IsFiniteSet(used) /\ Cardinality(used) \in Nat /\ Cardinality(Placed(r)) \in Nat
      /\ IsFiniteSet(usable) /\ Cardinality(usable) \in Nat
  <2>1. Placed(r) \in SUBSET SpreadPods
    BY Zenon, PlacedPods
  <2>2. up \subseteq Nodes
    BY Zenon DEF PodsInv, SpreadTypes
  <2>. QED  BY Zenon, <2>1, <2>2, UsedFinite, UsableFinite
<1>3. /\ n \in up /\ n \in Nodes /\ up \subseteq Nodes
  BY Zenon DEF PodsInv, SpreadTypes
<1>. SUFFICES ASSUME ~ (Cardinality(used) >= red), ~ (Cardinality(used) >= Cardinality(usable))
              PROVE  info[n] \notin used \cup {None}
  BY Zenon DEF MayTake
<1>4. Cardinality(used) >= Cardinality(Placed(r))
  <2>1. SpreadOver(r, Placed(r))
    BY Zenon DEF PlacedInv
  <2>. HIDE DEF red, usable, used
  <2>2. \E x \in {Cardinality(Placed(r)), red, Cardinality(usable)} : Cardinality(used) >= x
    BY Zenon, <2>1 DEF SpreadOver, red, usable, used
  <2>. QED  BY Zenon, <2>2
<1>5. ~ (Deployed(r, Nodes) >= red)
  <2>1. Deployed(r, Nodes) = Cardinality(Placed(r))
    BY Zenon, DeployedCounts
  <2>. HIDE DEF red, used, usable
  <2>. QED  BY <2>1, <1>1, <1>2, <1>4
<1>6. n \in IF SpreadMode = "node" THEN MinNodes(r) ELSE NodesOfMinAreas(r)
  <2>. HIDE DEF usable, used
  <2>. QED  BY Zenon, <1>5 DEF AllocatableNodes
<1>7. info[n] # None
  BY Zenon, <1>3, <1>6, NodesLeft DEF PodsInv
<1>8. PICK a \in usable : a \notin used
  <2>1. ~ (usable \subseteq used)
    <3>. HIDE DEF usable, used, red
    <3>. QED  BY Zenon, <1>2, FS_Subset
  <2>. QED  BY Zenon, <2>1
<1>9. PICK m \in up : Schedulable(r, m) /\ a = info[m] /\ a # None
  BY Zenon, <1>8 DEF UsableAreas
<1>10. \A p \in Placed(r) : info[spreadPod[p].node] # a
  <2>. HIDE DEF info, usable
  <2>. QED  BY Zenon, <1>8, <1>9 DEF UsedBy, info
<1>11. \A p \in Placed(r) : info[spreadPod[p].node] # info[n]
  <2>1. CASE SpreadMode = "node"
    <3>1. \A k \in Nodes : info[k] = k
      BY Zenon, <2>1, Areas
    <3>2. Deployed(r, {n}) <= Deployed(r, {m})
      <4>. HIDE DEF info, used, usable, red
      <4>. QED  BY Zenon, <1>3, <1>6, <1>9, <2>1 DEF MinNodes
    <3>3. Deployed(r, {m}) = 0
      <4>1. \A p \in BoundOf(r) : spreadPod[p].node \notin {m}
        BY Zenon, <1>9, <1>10
      <4>. QED  BY Zenon, <4>1, DeployedCounts
    <3>4. Deployed(r, {n}) = 0
      <4>1. Deployed(r, {n}) \in Nat
        BY Zenon, DeployedCounts
      <4>. QED  BY <3>2, <3>3, <4>1
    <3>5. \A p \in BoundOf(r) : spreadPod[p].node # n
      BY Zenon, <3>4, DeployedCounts
    <3>6. \A p \in Placed(r) : spreadPod[p].node \in Nodes
      BY Zenon, PlacedPods
    <3>. HIDE DEF info
    <3>. QED  BY Zenon, <1>3, <3>1, <3>5, <3>6
  <2>2. CASE SpreadMode # "node"
    <3>1. a \in AreasOf(info)
      BY Zenon, <1>9 DEF AreasOf
    <3>2. Deployed(r, Members(info[n])) <= Deployed(r, Members(a))
      BY Zenon, <1>6, <2>2, <3>1 DEF NodesOfMinAreas
    <3>3. Deployed(r, Members(a)) = 0
      <4>1. \A p \in BoundOf(r) : spreadPod[p].node \notin Members(a)
        BY Zenon, <1>10 DEF Members
      <4>. QED  BY Zenon, <4>1, DeployedCounts
    <3>4. Deployed(r, Members(info[n])) = 0
      <4>1. Deployed(r, Members(info[n])) \in Nat
        BY Zenon, DeployedCounts
      <4>. QED  BY <3>2, <3>3, <4>1
    <3>5. \A p \in BoundOf(r) : spreadPod[p].node \notin Members(info[n])
      BY Zenon, <3>4, DeployedCounts
    <3>6. \A p \in Placed(r) : spreadPod[p].node \in up
      BY Zenon DEF PlacedInv
    <3>. QED  BY Zenon, <3>5, <3>6 DEF Members
  <2>. QED  BY Zenon, <2>1, <2>2
<1>. QED  BY Zenon, <1>7, <1>11 DEF UsedBy

\* What a step that is not about r leaves as it is.
Same(r) ==
    /\ up' = up /\ topology' = topology /\ rs'[r] = rs[r]
    /\ Placed(r)' = Placed(r) /\ BoundOf(r)' = BoundOf(r)
    /\ \A p \in Placed(r) : spreadPod'[p].node = spreadPod[p].node

\* Nodes and labels stay: so do the areas.
LEMMA SameAreas ==
    ASSUME up' = up, topology' = topology, NEW r, rs'[r] = rs[r]
    PROVE  /\ SpreadInfo' = SpreadInfo
           /\ UsableAreas(r)' = UsableAreas(r)
           /\ \A n : Schedulable(r, n)' <=> Schedulable(r, n)
<1>1. SpreadInfo' = SpreadInfo
  BY DEF SpreadInfo, SpreadMode, AreasOf
<1>2. \A n : Schedulable(r, n)' <=> Schedulable(r, n)
  BY Zenon DEF Schedulable
<1>3. UsableAreas(r)' = UsableAreas(r)
  BY Zenon, <1>1, <1>2 DEF UsableAreas
<1>. QED  BY Zenon, <1>1, <1>2, <1>3

\* A step that is not about r leaves the areas it uses.
LEMMA SameUsed ==
    ASSUME NEW r \in ReplicaSets, Same(r)
    PROVE  UsedBy(Placed(r))' = UsedBy(Placed(r)) /\ UsedBy(BoundOf(r))' = UsedBy(BoundOf(r))
<1>1. SpreadInfo' = SpreadInfo
  BY Zenon, SameAreas DEF Same
<1>2. \A p \in BoundOf(r) : p \in Placed(r)
  BY Zenon DEF BoundOf
<1>. QED  BY Zenon, <1>1, <1>2 DEF Same, UsedBy

\* A step that is not about r keeps PlacedInv and MayTake.
LEMMA SameInv ==
    ASSUME NEW r \in ReplicaSets, Same(r), PlacedInv(r)
    PROVE  PlacedInv(r)' /\ \A n : MayTake(r, n)' <=> MayTake(r, n)
<1>1. /\ SpreadInfo' = SpreadInfo
      /\ UsableAreas(r)' = UsableAreas(r)
  BY Zenon, SameAreas DEF Same
<1>2. /\ UsedBy(Placed(r))' = UsedBy(Placed(r)) /\ UsedBy(BoundOf(r))' = UsedBy(BoundOf(r))
      /\ Placed(r)' = Placed(r) /\ BoundOf(r)' = BoundOf(r) /\ rs'[r] = rs[r]
  BY Zenon, SameUsed DEF Same
<1>3. /\ SpreadOver(r, Placed(r))' <=> SpreadOver(r, Placed(r))
      /\ SpreadOver(r, BoundOf(r))' <=> SpreadOver(r, BoundOf(r))
  BY Zenon, <1>1, <1>2 DEF SpreadOver
<1>4. \A n : MayTake(r, n)' <=> MayTake(r, n)
  BY Zenon, <1>1, <1>2 DEF MayTake
<1>5. \A p \in Placed(r)' : spreadPod'[p].node \in up'
  BY Zenon DEF Same, PlacedInv
<1>. QED  BY Zenon, <1>2, <1>3, <1>4, <1>5 DEF PlacedInv

\* Two of three invariants of a ReplicaSet that a step is not about; the third is about the cycle.
LEMMA SameReplicaSet ==
    ASSUME NEW r \in ReplicaSets, Same(r), PlacedInv(r), SessionInv(r), session'[NameOf[r]] = session[NameOf[r]],
           \/ CycleInv(r) /\ cycle' = cycle /\ (cycle # None => spreadPod'[cycle.pod].rs = spreadPod[cycle.pod].rs)
           \/ cycle' = None
           \/ cycle' # None /\ spreadPod'[cycle'.pod].rs # r
    PROVE  PlacedInv(r)' /\ SessionInv(r)' /\ CycleInv(r)'
<1>1. PlacedInv(r)'
  BY Zenon, SameInv
<1>2. rs'[r] = rs[r]
  BY Zenon DEF Same
<1>3. SessionInv(r)'
  BY Zenon, <1>2 DEF SessionInv, Redunduncy
<1>4. CycleInv(r)'
  <2>1. CASE CycleInv(r) /\ cycle' = cycle /\ (cycle # None => spreadPod'[cycle.pod].rs = spreadPod[cycle.pod].rs)
    <3>1. \A n : Schedulable(r, n)' <=> Schedulable(r, n)
      BY Zenon, SameAreas DEF Same
    <3>2. \A n : MayTake(r, n)' <=> MayTake(r, n)
      BY Zenon, SameInv
    <3>3. up' = up /\ Placed(r)' = Placed(r) /\ BoundOf(r)' = BoundOf(r)
      BY Zenon DEF Same
    <3>. QED  BY Zenon, <1>2, <2>1, <3>1, <3>2, <3>3 DEF CycleInv
  <2>2. CASE cycle' = None
    BY Zenon, <2>2 DEF CycleInv
  <2>3. CASE cycle' # None /\ spreadPod'[cycle'.pod].rs # r
    BY Zenon, <2>3 DEF CycleInv
  <2>. QED  BY Zenon, <2>1, <2>2, <2>3
<1>. QED  BY Zenon, <1>1, <1>3, <1>4

\* The specs and pods that the steps write.
LEMMA RecordsTyped ==
    /\ \A x \in ReplicaSetSpec : /\ x.replicas \in 0 .. MaxReplicas /\ x.rate \in Rates \cup {None}
                                              /\ x.tolerates \in BOOLEAN
    /\ \A x \in Pod : x.rs \in ReplicaSets /\ x.node \in Nodes \cup {None} /\ x.bound \in BOOLEAN
    /\ \A x \in ReplicaSetSpec, n \in 0 .. MaxReplicas :
          LET y == [x EXCEPT !.replicas = n] IN y \in ReplicaSetSpec
    /\ \A x \in Pod, n \in Nodes \cup {None} :
          LET y == [x EXCEPT !.node = n]
          IN  y \in Pod /\ y.rs = x.rs /\ y.node = n /\ y.bound = x.bound
    /\ \A x \in Pod :
          LET y == [x EXCEPT !.bound = TRUE]
          IN  y \in Pod /\ y.rs = x.rs /\ y.node = x.node /\ y.bound = TRUE
    /\ \A r \in ReplicaSets :
          LET y == [rs |-> r, node |-> None, bound |-> FALSE]
          IN  y \in Pod /\ y.rs = r /\ y.node = None /\ y.bound = FALSE
BY ZenonT(60) DEF ReplicaSetSpec, Pod

\* The pod of every step is a record, and the steps change one pod.
LEMMA PodTyped ==
    ASSUME PodsInv, NEW p \in SpreadPods, spreadPod[p] # None
    PROVE  /\ spreadPod[p] \in Pod /\ spreadPod[p].rs \in ReplicaSets
           /\ spreadPod[p].node \in Nodes \cup {None} /\ spreadPod[p].bound \in BOOLEAN
           /\ rs[spreadPod[p].rs] # None
<1>1. spreadPod[p] \in Pod
  BY Zenon DEF PodsInv, SpreadTypes
<1>2. p \in PodsOf(spreadPod[p].rs)
  BY Zenon DEF PodsOf
<1>. QED  BY Zenon, <1>1, <1>2, RecordsTyped DEF PodsInv

\* The pod of a running cycle exists and is not placed.
LEMMA CycleTyped ==
    ASSUME PodsInv, cycle # None
    PROVE  /\ cycle.pod \in SpreadPods /\ cycle.nodes \subseteq Nodes
           /\ spreadPod[cycle.pod] # None /\ spreadPod[cycle.pod].node = None /\ spreadPod[cycle.pod].bound = FALSE
<1>1. cycle \in [pod : SpreadPods, nodes : SUBSET Nodes]
  BY Zenon DEF PodsInv, SpreadTypes
<1>2. cycle.pod \in SpreadPods /\ cycle.nodes \subseteq Nodes
  BY Zenon, <1>1
<1>3. spreadPod[cycle.pod] # None /\ spreadPod[cycle.pod].node = None
  BY Zenon DEF PodsInv, Pending
<1>. QED  BY Zenon, <1>2, <1>3, PodTyped DEF PodsInv

\* A step that changes a pod that exists keeps PodsInv.
LEMMA PodChanged ==
    ASSUME PodsInv, NEW p \in SpreadPods, spreadPod[p] # None, NEW x \in Pod,
           spreadPod' = [spreadPod EXCEPT ![p] = x], x.rs = spreadPod[p].rs, x.bound => x.node # None,
           UNCHANGED <<topology, up, rs, session, disturbed>>,
           cycle' = None \/ (cycle' = cycle /\ (cycle # None => cycle.pod # p))
    PROVE  PodsInv'
<1>1. spreadPod' \in [SpreadPods -> Pod \cup {None}]
  BY Zenon DEF PodsInv, SpreadTypes
<1>2. SpreadTypes'
  BY Zenon, <1>1 DEF PodsInv, SpreadTypes
<1>3. spreadPod'[p] = x /\ \A q \in SpreadPods \ {p} : spreadPod'[q] = spreadPod[q]
  BY Zenon DEF PodsInv, SpreadTypes
<1>4. ASSUME NEW r \in ReplicaSets, rs'[r] = None PROVE PodsOf(r)' = {}
  BY <1>3, <1>4, PodTyped DEF PodsInv, PodsOf
<1>5. \A q \in SpreadPods : spreadPod'[q] # None /\ spreadPod'[q].bound => spreadPod'[q].node # None
  BY Zenon, <1>3 DEF PodsInv
<1>6. cycle' # None => Pending(cycle.pod)'
  BY ZenonT(60), <1>3, CycleTyped DEF Pending
<1>. QED  BY Zenon, <1>2, <1>4, <1>5, <1>6 DEF PodsInv

\* A step about a pod that is no placed pod of r leaves r as it is.
LEMMA OtherPod ==
    ASSUME up' = up, topology' = topology, NEW r \in ReplicaSets, rs'[r] = rs[r], NEW p \in SpreadPods,
           \A q \in SpreadPods \ {p} : spreadPod'[q] = spreadPod[q], p \notin Placed(r), p \notin Placed(r)'
    PROVE  Same(r)
<1>1. Placed(r)' = Placed(r) /\ \A q \in Placed(r) : spreadPod'[q] = spreadPod[q]
  BY Zenon DEF Placed, PodsOf
<1>2. BoundOf(r)' = BoundOf(r)
  BY Zenon, <1>1 DEF BoundOf
<1>. QED  BY Zenon, <1>1, <1>2 DEF Same

\* A step that changes no pod leaves r as it is.
LEMMA SamePods ==
    ASSUME up' = up, topology' = topology, NEW r \in ReplicaSets, rs'[r] = rs[r], spreadPod' = spreadPod
    PROVE  Same(r)
BY Zenon DEF Same, Placed, BoundOf, PodsOf

\* PreFilter leaves a pod alone: its ReplicaSet is not watched further.
LEMMA SkipKept ==
    ASSUME SpreadInv, NEW p \in SpreadPods, PreFilterSkip(p)
    PROVE  SpreadInv'
<1>1. /\ spreadPod[p] # None /\ spreadPod[p].node = None /\ cycle' = [pod |-> p, nodes |-> up]
      /\ disturbed' = disturbed \cup {spreadPod[p].rs} /\ UNCHANGED <<topology, up, rs, spreadPod, session>>
  BY Zenon DEF PreFilterSkip, Pending
<1>2. cycle'.pod = p /\ spreadPod[p].rs \in ReplicaSets /\ up \subseteq Nodes
  BY Zenon, <1>1, PodTyped DEF SpreadInv, PodsInv, SpreadTypes
<1>3. SpreadTypes'
  BY Zenon, <1>1, <1>2 DEF SpreadInv, PodsInv, SpreadTypes
<1>4. PodsInv'
  <2>1. \A r : PodsOf(r)' = PodsOf(r)
    BY Zenon, <1>1 DEF PodsOf
  <2>. QED  BY Zenon, <1>1, <1>2, <1>3, <2>1 DEF SpreadInv, PodsInv, Pending
<1>5. ASSUME NEW r \in ReplicaSets \ disturbed', OwnName(r), rs'[r] # None PROVE ReplicaSetInv(r)'
  <2>1. ReplicaSetInv(r) /\ spreadPod'[cycle'.pod].rs # r
    BY Zenon, <1>1, <1>2, <1>5 DEF SpreadInv
  <2>2. Same(r)
    BY Zenon, <1>1, SamePods
  <2>. QED  BY Zenon, <1>1, <2>1, <2>2, SameReplicaSet DEF ReplicaSetInv
<1>. QED  BY Zenon, <1>4, <1>5 DEF SpreadInv

\* PreFilter opens the session and restricts the nodes.
LEMMA PreFilterKept ==
    ASSUME SpreadInv, NEW p \in SpreadPods, SpreadPreFilter(p)
    PROVE  SpreadInv'
<1>. DEFINE o == spreadPod[p].rs
            nodes == AllocatableNodes(o, session'[NameOf[o]])
<1>1. /\ spreadPod[p] # None /\ spreadPod[p].node = None /\ rs[o] # None
      /\ session[NameOf[o]] = None => rs[o].rate # None
      /\ session' = IF session[NameOf[o]] = None
                    THEN [session EXCEPT ![NameOf[o]] = Redunduncy(rs[o])] ELSE session
      /\ cycle' = [pod |-> p, nodes |-> nodes]
      /\ disturbed' = IF \E q \in PodsOf(o) : spreadPod[q].node # None /\ ~spreadPod[q].bound
                      THEN disturbed \cup {o} ELSE disturbed
      /\ UNCHANGED <<topology, up, rs, spreadPod>>
  BY ZenonT(60) DEF SpreadPreFilter, Pending
<1>2. /\ o \in ReplicaSets /\ up \subseteq Nodes /\ rs[o] \in ReplicaSetSpec
      /\ session \in [Names -> 0 .. MaxReplicas \cup {None}] /\ NameOf[o] \in Names
  BY Zenon, <1>1, PodTyped DEF SpreadInv, PodsInv, SpreadTypes, Names
<1>3. nodes \subseteq Nodes
  BY Zenon, <1>2 DEF AllocatableNodes, MinNodes, NodesOfMinAreas
<1>. HIDE DEF nodes
<1>4. cycle'.pod = p /\ cycle'.nodes = nodes /\ cycle' \in [pod : SpreadPods, nodes : SUBSET Nodes]
  BY Zenon, <1>1, <1>3
<1>5. rs[o].rate # None => Redunduncy(rs[o]) \in 0 .. MaxReplicas
  BY Zenon, <1>2, RedunduncyType
<1>6. session' \in [Names -> 0 .. MaxReplicas \cup {None}]
  <2>. HIDE DEF o
  <2>. QED  BY Zenon, <1>1, <1>2, <1>5
<1>7. PodsInv'
  <2>1. \A r : PodsOf(r)' = PodsOf(r)
    BY Zenon, <1>1 DEF PodsOf
  <2>2. disturbed' \subseteq ReplicaSets
    BY Zenon, <1>1, <1>2 DEF SpreadInv, PodsInv, SpreadTypes
  <2>3. SpreadTypes'
    BY Zenon, <1>1, <1>4, <1>6, <2>2 DEF SpreadInv, PodsInv, SpreadTypes
  <2>. QED  BY Zenon, <1>1, <1>4, <2>1, <2>3 DEF SpreadInv, PodsInv, Pending
<1>8. ASSUME NEW r \in ReplicaSets \ disturbed', OwnName(r), rs'[r] # None PROVE ReplicaSetInv(r)'
  <2>1. ReplicaSetInv(r)
    BY Zenon, <1>1, <1>8 DEF SpreadInv
  <2>2. Same(r)
    BY Zenon, <1>1, SamePods
  <2>3. CASE r # o
    <3>1. session'[NameOf[r]] = session[NameOf[r]]
      <4>1. NameOf[r] # NameOf[o] /\ NameOf[r] \in Names
        BY Zenon, <1>2, <1>8, <2>3 DEF OwnName, Names
      <4>. QED  BY Zenon, <1>1, <1>2, <4>1
    <3>2. spreadPod'[cycle'.pod].rs # r
      BY Zenon, <1>1, <1>4, <2>3
    <3>. QED  BY Zenon, <2>1, <2>2, <3>1, <3>2, SameReplicaSet DEF ReplicaSetInv
  <2>4. CASE r = o
    <3>1. Placed(r) = BoundOf(r)
      BY Zenon, <1>1, <1>8, <2>4 DEF Placed, BoundOf
    <3>2. rs[r].rate # None => session'[NameOf[r]] = Redunduncy(rs[r])
      BY Zenon, <1>1, <1>2, <2>1, <2>4 DEF ReplicaSetInv, SessionInv
    <3>3. PlacedInv(r)' /\ \A n : MayTake(r, n)' <=> MayTake(r, n)
      BY Zenon, <2>1, <2>2, SameInv DEF ReplicaSetInv
    <3>4. SessionInv(r)'
      BY Zenon, <1>1, <3>2 DEF SessionInv, Redunduncy
    <3>5. rs[r].rate # None => \A n \in nodes \cap up : Schedulable(r, n) => MayTake(r, n)
      BY Zenon, <1>1, <2>1, <2>4, <3>1, <3>2, AllocatableNodesFresh DEF SpreadInv, ReplicaSetInv, nodes
    <3>6. \A n : Schedulable(r, n)' <=> Schedulable(r, n)
      BY <1>1, SameAreas
    <3>7. CycleInv(r)'
      BY Zenon, <1>1, <1>4, <2>2, <3>1, <3>3, <3>5, <3>6 DEF CycleInv, Same
    <3>. QED  BY Zenon, <3>3, <3>4, <3>7 DEF ReplicaSetInv
  <2>. QED  BY Zenon, <2>3, <2>4
<1>. QED  BY Zenon, <1>7, <1>8 DEF SpreadInv

\* One more pod, in an area of its own or after enough areas are used.
LEMMA OneMore ==
    ASSUME NEW P, IsFiniteSet(P), NEW U, IsFiniteSet(U), NEW p, p \notin P, NEW a,
           NEW red \in Nat, NEW usable \in Nat,
           \E x \in {Cardinality(P), red, usable} : Cardinality(U) >= x,
           (\E x \in {red, usable} : Cardinality(U) >= x) \/ a \notin U \cup {None}
    PROVE  \E x \in {Cardinality(P \cup {p}), red, usable} : Cardinality((U \cup {a}) \ {None}) >= x
           \/ None \in U
<1>. DEFINE V == (U \cup {a}) \ {None}
<1>. SUFFICES ASSUME None \notin U
              PROVE  \E x \in {Cardinality(P \cup {p}), red, usable} : Cardinality(V) >= x
  BY Zenon
<1>1. Cardinality(P) \in Nat /\ Cardinality(P \cup {p}) = Cardinality(P) + 1
  BY Zenon, FS_CardinalityType, FS_AddElement
<1>2. Cardinality(U) \in Nat
  BY Zenon, FS_CardinalityType
<1>3. CASE a \notin U \cup {None}
  <2>1. V = U \cup {a}
    BY Zenon, <1>3
  <2>. HIDE DEF V
  <2>2. Cardinality(V) = Cardinality(U) + 1
    BY Zenon, <1>3, <2>1, FS_AddElement
  <2>. QED  BY <1>1, <1>2, <2>2
<1>4. CASE \E x \in {red, usable} : Cardinality(U) >= x
  <2>1. V = U \/ V = U \cup {a}
    BY Zenon
  <2>. HIDE DEF V
  <2>2. Cardinality(U \cup {a}) = IF a \in U THEN Cardinality(U) ELSE Cardinality(U) + 1
    BY Zenon, FS_AddElement
  <2>3. Cardinality(V) \in Nat /\ Cardinality(V) >= Cardinality(U)
    BY <1>2, <2>1, <2>2
  <2>. QED  BY <1>2, <1>4, <2>3
<1>. QED  BY Zenon, <1>3, <1>4

\* The numbers that Spread compares with are naturals.
LEMMA CardinalitiesTyped ==
    ASSUME PodsInv, NEW r \in ReplicaSets, rs[r] # None, rs[r].rate # None
    PROVE  Redunduncy(rs[r]) \in Nat /\ Cardinality(UsableAreas(r)) \in Nat
<1>1. rs[r] \in ReplicaSetSpec /\ up \subseteq Nodes
  BY Zenon DEF PodsInv, SpreadTypes
<1>2. Redunduncy(rs[r]) \in 0 .. MaxReplicas
  BY Zenon, <1>1, RedunduncyType
<1>. QED  BY <1>1, <1>2, PodSpreadConstants, UsableFinite

\* The cycle places its pod.
LEMMA PlaceKept ==
    ASSUME SpreadInv, NEW n \in Nodes, Place(n)
    PROVE  SpreadInv'
<1>. DEFINE p == cycle.pod
            o == spreadPod[p].rs
            x == [spreadPod[p] EXCEPT !.node = n]
<1>1. /\ cycle # None /\ n \in cycle.nodes \cap up /\ Schedulable(o, n)
      /\ spreadPod' = [spreadPod EXCEPT ![cycle.pod].node = n]
      /\ cycle' = None /\ UNCHANGED <<topology, up, rs, session, disturbed>>
  BY Zenon DEF Place
<1>2. /\ p \in SpreadPods /\ spreadPod[p] # None /\ spreadPod[p].node = None /\ spreadPod[p].bound = FALSE
      /\ spreadPod[p] \in Pod /\ o \in ReplicaSets /\ rs[o] # None
  BY Zenon, <1>1, CycleTyped, PodTyped DEF SpreadInv
<1>3. x \in Pod /\ x.rs = o /\ x.node = n /\ x.bound = FALSE /\ n # None
  BY <1>2, RecordsTyped, PodSpreadConstants
<1>4. spreadPod' = [spreadPod EXCEPT ![p] = x]
  BY Zenon, <1>1
<1>5. PodsInv'
  <2>. HIDE DEF x, p
  <2>. QED  BY ZenonT(60), <1>1, <1>2, <1>3, <1>4, PodChanged DEF SpreadInv
<1>6. spreadPod'[p] = x /\ \A q \in SpreadPods \ {p} : spreadPod'[q] = spreadPod[q]
  BY Zenon, <1>2, <1>4 DEF SpreadInv, PodsInv, SpreadTypes
<1>. HIDE DEF x, p
<1>7. ASSUME NEW r \in ReplicaSets \ disturbed', OwnName(r), rs'[r] # None PROVE ReplicaSetInv(r)'
  <2>1. ReplicaSetInv(r)
    BY Zenon, <1>1, <1>7 DEF SpreadInv
  <2>2. CASE r # o
    <3>1. p \notin Placed(r) /\ p \notin Placed(r)'
      BY Zenon, <1>3, <1>6, <2>2 DEF Placed, PodsOf
    <3>2. Same(r)
      BY Zenon, <1>1, <1>2, <1>6, <3>1, OtherPod
    <3>. QED  BY Zenon, <1>1, <2>1, <3>2, SameReplicaSet DEF ReplicaSetInv
  <2>3. CASE r = o
    <3>. DEFINE P == Placed(r)
                U == UsedBy(Placed(r))
                info == SpreadInfo
    <3>1. P = BoundOf(r) /\ (rs[r].rate # None => MayTake(r, n))
      BY Zenon, <1>1, <2>1, <2>3 DEF ReplicaSetInv, CycleInv, p
    <3>2. p \notin P /\ P \subseteq SpreadPods
      BY Zenon, <1>2 DEF Placed, PodsOf
    <3>3. Placed(r)' = P \cup {p} /\ \A q \in P : spreadPod'[q] = spreadPod[q]
      <4>1. x # None
        BY Zenon, <1>3, PodSpreadConstants DEF Pod
      <4>. QED  BY <1>2, <1>3, <1>6, <2>3, <3>2, <4>1 DEF Placed, PodsOf
    <3>4. BoundOf(r)' = P
      BY Zenon, <1>3, <1>6, <3>1, <3>2, <3>3 DEF BoundOf
    <3>5. SpreadInfo' = info /\ UsableAreas(r)' = UsableAreas(r)
      BY Zenon, <1>1, SameAreas
    <3>6. UsedBy(BoundOf(r))' = U
      BY SMTT(60), <3>3, <3>4, <3>5 DEF UsedBy
    <3>7. UsedBy(Placed(r))' = (U \cup {info[n]}) \ {None}
      BY <1>3, <1>6, <3>2, <3>3, <3>5 DEF UsedBy
    <3>8. ASSUME rs[r].rate # None PROVE SpreadOver(r, Placed(r))' /\ SpreadOver(r, BoundOf(r))'
      <4>. DEFINE red == Redunduncy(rs[r])
                  usable == Cardinality(UsableAreas(r))
      <4>1. SpreadOver(r, P)
        BY Zenon, <2>1, <3>8 DEF ReplicaSetInv, PlacedInv
      <4>2. SpreadOver(r, BoundOf(r))'
        BY Zenon, <1>1, <3>4, <3>5, <3>6, <4>1 DEF SpreadOver, Redunduncy
      <4>3. red \in Nat /\ usable \in Nat
        BY Zenon, <1>1, <1>7, <3>8, CardinalitiesTyped DEF SpreadInv
      <4>4. IsFiniteSet(P) /\ IsFiniteSet(U)
        BY Zenon, <3>2, UsedFinite
      <4>5. \E y \in {Cardinality(P), red, usable} : Cardinality(U) >= y
        BY ZenonT(60), <4>1 DEF SpreadOver
      <4>6. (\E y \in {red, usable} : Cardinality(U) >= y) \/ info[n] \notin U \cup {None}
        BY ZenonT(60), <3>1, <3>8 DEF MayTake
      <4>7. None \notin U
        BY ZenonT(60) DEF UsedBy
      <4>8. \E y \in {Cardinality(P \cup {p}), red, usable} : Cardinality((U \cup {info[n]}) \ {None}) >= y
        <5>. HIDE DEF P, U, red, usable, info
        <5>. QED  BY SMTT(60), <3>2, <4>3, <4>4, <4>5, <4>6, <4>7, OneMore
      <4>9. SpreadOver(r, Placed(r))'
        BY ZenonT(60), <1>1, <3>3, <3>5, <3>7, <4>8 DEF SpreadOver, Redunduncy
      <4>. QED  BY Zenon, <4>2, <4>9
    <3>9. \A q \in Placed(r)' : spreadPod'[q].node \in up'
      BY SMTT(60), <1>1, <1>3, <1>6, <2>1, <3>3 DEF ReplicaSetInv, PlacedInv
    <3>10. PlacedInv(r)'
      BY Zenon, <1>1, <3>3, <3>4, <3>8, <3>9 DEF PlacedInv
    <3>11. SessionInv(r)' /\ CycleInv(r)'
      BY Zenon, <1>1, <2>1 DEF ReplicaSetInv, SessionInv, CycleInv, Redunduncy
    <3>. QED  BY Zenon, <3>10, <3>11 DEF ReplicaSetInv
  <2>. QED  BY Zenon, <2>2, <2>3
<1>. QED  BY Zenon, <1>5, <1>7 DEF SpreadInv

\* The end of a binding cycle, well or not: the last pod placed is bound, or is placed no more.
LEMMA BindingKept ==
    ASSUME SpreadInv, NEW p \in SpreadPods, NEW x \in Pod,
           spreadPod[p] # None, spreadPod[p].node # None, ~spreadPod[p].bound,
           spreadPod' = [spreadPod EXCEPT ![p] = x], x.rs = spreadPod[p].rs,
           (x.bound /\ x.node = spreadPod[p].node) \/ (~x.bound /\ x.node = None),
           UNCHANGED <<topology, up, rs, session, cycle, disturbed>>
    PROVE  SpreadInv'
<1>. DEFINE o == spreadPod[p].rs
<1>1. cycle # None => cycle.pod # p
  BY Zenon, CycleTyped DEF SpreadInv
<1>2. PodsInv'
  BY ZenonT(60), <1>1, PodChanged DEF SpreadInv
<1>3. spreadPod'[p] = x /\ \A q \in SpreadPods \ {p} : spreadPod'[q] = spreadPod[q]
  BY Zenon DEF SpreadInv, PodsInv, SpreadTypes
<1>4. cycle # None => cycle.pod \in SpreadPods /\ spreadPod'[cycle.pod].rs = spreadPod[cycle.pod].rs
  BY Zenon, <1>1, <1>3, CycleTyped DEF SpreadInv
<1>5. ASSUME NEW r \in ReplicaSets \ disturbed', OwnName(r), rs'[r] # None PROVE ReplicaSetInv(r)'
  <2>1. ReplicaSetInv(r)
    BY Zenon, <1>5 DEF SpreadInv
  <2>2. CASE r # o
    <3>1. p \notin Placed(r) /\ p \notin Placed(r)'
      BY Zenon, <1>3, <2>2 DEF Placed, PodsOf
    <3>2. Same(r)
      BY Zenon, <1>3, <3>1, OtherPod
    <3>. QED  BY Zenon, <1>4, <2>1, <3>2, SameReplicaSet DEF ReplicaSetInv
  <2>3. CASE r = o
    <3>. DEFINE S == IF x.bound THEN Placed(r) ELSE BoundOf(r)
    <3>1. p \in Placed(r) /\ p \notin BoundOf(r)
      BY Zenon, <2>3 DEF Placed, BoundOf, PodsOf
    <3>2. Placed(r) = BoundOf(r) \cup {p}
      BY SMTT(60), <2>1, <3>1 DEF ReplicaSetInv, PlacedInv, BoundOf
    <3>3. x # None
      BY Zenon, PodSpreadConstants DEF Pod
    <3>4. Placed(r)' = S
      <4>1. CASE x.bound
        BY SMTT(60), <1>3, <2>3, <3>1, <3>3, <4>1 DEF Placed, PodsOf
      <4>2. CASE ~x.bound
        <5>1. Placed(r)' = Placed(r) \ {p}
          BY Zenon, <1>3, <4>2 DEF Placed, PodsOf
        <5>. QED  BY Zenon, <3>1, <3>2, <4>2, <5>1
      <4>. QED  BY Zenon, <4>1, <4>2
    <3>5. \A q \in S : spreadPod'[q].node = spreadPod[q].node
      <4>1. S \subseteq SpreadPods /\ (p \in S => x.bound)
        BY Zenon, <3>1 DEF Placed, BoundOf, PodsOf
      <4>. QED  BY Zenon, <1>3, <4>1
    <3>6. BoundOf(r)' = S
      <4>1. \A q \in BoundOf(r) : q \in SpreadPods \ {p} /\ spreadPod[q].bound
        BY Zenon, <3>1 DEF Placed, BoundOf, PodsOf
      <4>2. \A q \in S : spreadPod'[q].bound
        BY Zenon, <1>3, <3>2, <4>1
      <4>. HIDE DEF S
      <4>. QED  BY Zenon, <3>4, <4>2 DEF BoundOf
    <3>7. \A q \in S : q \in Placed(r)
      BY Zenon DEF BoundOf
    <3>8. SpreadInfo' = SpreadInfo /\ UsableAreas(r)' = UsableAreas(r)
      BY Zenon, SameAreas
    <3>9. rs[r].rate # None => SpreadOver(r, S)
      BY Zenon, <2>1 DEF ReplicaSetInv, PlacedInv
    <3>. HIDE DEF S
    <3>10. UsedBy(Placed(r))' = UsedBy(S) /\ UsedBy(BoundOf(r))' = UsedBy(S)
      BY <3>4, <3>5, <3>6, <3>8 DEF UsedBy
    <3>11. rs[r].rate # None => SpreadOver(r, Placed(r))' /\ SpreadOver(r, BoundOf(r))'
      BY ZenonT(60), <3>4, <3>6, <3>8, <3>9, <3>10 DEF SpreadOver, Redunduncy
    <3>12. \A q \in Placed(r)' : spreadPod'[q].node \in up'
      BY <2>1, <3>4, <3>5, <3>7 DEF ReplicaSetInv, PlacedInv
    <3>13. PlacedInv(r)'
      BY Zenon, <3>4, <3>6, <3>11, <3>12 DEF PlacedInv
    <3>14. SessionInv(r)'
      BY Zenon, <2>1 DEF ReplicaSetInv, SessionInv, Redunduncy
    <3>15. CycleInv(r)'
      BY Zenon, <1>4, <2>1, <3>1 DEF ReplicaSetInv, CycleInv
    <3>. QED  BY Zenon, <3>13, <3>14, <3>15 DEF ReplicaSetInv
  <2>. QED  BY Zenon, <2>2, <2>3
<1>. QED  BY Zenon, <1>2, <1>5 DEF SpreadInv

\* Bind and BindFails keep SpreadInv.
LEMMA BindKept ==
    ASSUME SpreadInv, NEW p \in SpreadPods, BindPod(p) \/ BindFails(p)
    PROVE  SpreadInv'
<1>1. /\ spreadPod[p] # None /\ spreadPod[p].node # None /\ ~spreadPod[p].bound
      /\ UNCHANGED <<topology, up, rs, session, cycle, disturbed>>
  BY Zenon DEF BindPod, BindFails
<1>2. spreadPod[p] \in Pod
  BY Zenon, <1>1, PodTyped DEF SpreadInv
<1>3. CASE BindPod(p)
  <2>. DEFINE x == [spreadPod[p] EXCEPT !.bound = TRUE]
  <2>1. x \in Pod /\ x.rs = spreadPod[p].rs /\ x.node = spreadPod[p].node /\ x.bound
    BY Zenon, <1>2, RecordsTyped
  <2>2. spreadPod' = [spreadPod EXCEPT ![p] = x]
    BY Zenon, <1>3 DEF BindPod
  <2>. HIDE DEF x
  <2>. QED  BY Zenon, <1>1, <2>1, <2>2, BindingKept
<1>4. CASE BindFails(p)
  <2>. DEFINE x == [spreadPod[p] EXCEPT !.node = None]
  <2>1. x \in Pod /\ x.rs = spreadPod[p].rs /\ x.node = None /\ x.bound = spreadPod[p].bound
    BY Zenon, <1>2, RecordsTyped
  <2>2. spreadPod' = [spreadPod EXCEPT ![p] = x]
    BY Zenon, <1>4 DEF BindFails
  <2>. HIDE DEF x
  <2>. QED  BY ZenonT(60), <1>1, <2>1, <2>2, BindingKept
<1>. QED  BY Zenon, <1>3, <1>4

\* Pods are deleted, alone or with their ReplicaSet.
LEMMA DeletionKept ==
    ASSUME SpreadInv, NEW gone \in SUBSET SpreadPods, NEW o \in ReplicaSets,
           \A p \in gone : spreadPod[p] # None /\ spreadPod[p].rs = o,
           spreadPod' = [p \in SpreadPods |-> IF p \in gone THEN None ELSE spreadPod[p]],
           cycle' = CycleWithout(gone),
           rs' \in [ReplicaSets -> ReplicaSetSpec \cup {None}],
           \A r \in ReplicaSets \ {o} : rs'[r] = rs[r],
           rs'[o] = None => gone = PodsOf(o),
           disturbed' \subseteq ReplicaSets, disturbed \subseteq disturbed', rs'[o] = None \/ o \in disturbed',
           UNCHANGED <<topology, up, session>>
    PROVE  SpreadInv'
<1>1. spreadPod \in [SpreadPods -> Pod \cup {None}] /\ SpreadTypes
  BY Zenon DEF SpreadInv, PodsInv, SpreadTypes
<1>2. cycle' = None \/ (cycle' = cycle /\ (cycle # None => cycle.pod \notin gone))
  BY Zenon DEF CycleWithout
<1>3. spreadPod' \in [SpreadPods -> Pod \cup {None}]
  BY Zenon, <1>1
<1>4. \A p \in gone : spreadPod'[p] = None
  BY Zenon
<1>5. \A p \in SpreadPods \ gone : spreadPod'[p] = spreadPod[p]
  BY Zenon
<1>6. SpreadTypes'
  BY Zenon, <1>1, <1>2, <1>3 DEF SpreadTypes
<1>7. \A r \in ReplicaSets : rs'[r] = None => PodsOf(r)' = {}
  <2>1. \A r \in ReplicaSets \ {o} : rs[r] = None => PodsOf(r) = {}
    BY Zenon DEF SpreadInv, PodsInv
  <2>. QED  BY <2>1, <1>4, <1>5 DEF PodsOf
<1>8. PodsInv'
  <2>1. \A p \in SpreadPods : spreadPod'[p] # None /\ spreadPod'[p].bound => spreadPod'[p].node # None
    BY Zenon, <1>4, <1>5 DEF SpreadInv, PodsInv
  <2>2. cycle' # None => Pending(cycle.pod)'
    BY ZenonT(60), <1>2, <1>5, CycleTyped DEF SpreadInv, Pending
  <2>. QED  BY Zenon, <1>6, <1>7, <2>1, <2>2 DEF PodsInv
<1>9. ASSUME NEW r \in ReplicaSets \ disturbed', OwnName(r), rs'[r] # None PROVE ReplicaSetInv(r)'
  <2>1. r # o /\ rs'[r] = rs[r] /\ ReplicaSetInv(r)
    BY Zenon, <1>9 DEF SpreadInv
  <2>2. Placed(r)' = Placed(r) /\ \A p \in Placed(r) : spreadPod'[p] = spreadPod[p]
    BY <1>4, <1>5, <2>1 DEF Placed, PodsOf
  <2>3. BoundOf(r)' = BoundOf(r)
    BY Zenon, <2>2 DEF BoundOf
  <2>4. Same(r)
    BY ZenonT(60), <2>1, <2>2, <2>3 DEF Same
  <2>5. cycle' # None => cycle' = cycle /\ spreadPod'[cycle.pod].rs = spreadPod[cycle.pod].rs
    BY Zenon, <1>2, <1>5, CycleTyped DEF SpreadInv
  <2>. QED  BY Zenon, <2>1, <2>4, <2>5, SameReplicaSet DEF ReplicaSetInv
<1>. QED  BY Zenon, <1>8, <1>9 DEF SpreadInv

\* A pod is deleted.
LEMMA DeletePodKept ==
    ASSUME SpreadInv, NEW p \in SpreadPods, DeletePod(p)
    PROVE  SpreadInv'
<1>. DEFINE o == spreadPod[p].rs
<1>1. /\ spreadPod[p] # None /\ spreadPod' = [spreadPod EXCEPT ![p] = None]
      /\ cycle' = CycleWithout({p}) /\ disturbed' = disturbed \cup {o}
      /\ UNCHANGED <<topology, up, rs, session>>
  BY Zenon DEF DeletePod
<1>2. /\ o \in ReplicaSets /\ rs[o] # None /\ rs \in [ReplicaSets -> ReplicaSetSpec \cup {None}]
      /\ disturbed \subseteq ReplicaSets
  BY Zenon, <1>1, PodTyped DEF SpreadInv, PodsInv, SpreadTypes
<1>3. spreadPod' = [q \in SpreadPods |-> IF q \in {p} THEN None ELSE spreadPod[q]]
  BY ZenonT(60), <1>1 DEF SpreadInv, PodsInv, SpreadTypes
<1>4. /\ {p} \in SUBSET SpreadPods /\ \A q \in {p} : spreadPod[q] # None /\ spreadPod[q].rs = o
      /\ rs' \in [ReplicaSets -> ReplicaSetSpec \cup {None}] /\ rs'[o] # None
      /\ \A r \in ReplicaSets \ {o} : rs'[r] = rs[r]
      /\ disturbed' \subseteq ReplicaSets /\ disturbed \subseteq disturbed' /\ o \in disturbed'
  BY Zenon, <1>1, <1>2
<1>. HIDE DEF o
<1>. QED  BY ZenonT(60), <1>1, <1>2, <1>3, <1>4, DeletionKept

\* A ReplicaSet is deleted with its pods.
LEMMA DeleteReplicaSetKept ==
    ASSUME SpreadInv, NEW o \in ReplicaSets, DeleteReplicaSet(o)
    PROVE  SpreadInv'
<1>1. /\ rs' = [rs EXCEPT ![o] = None] /\ cycle' = CycleWithout(PodsOf(o))
      /\ spreadPod' = [p \in SpreadPods |-> IF p \in PodsOf(o) THEN None ELSE spreadPod[p]]
      /\ UNCHANGED <<topology, up, session, disturbed>>
  BY Zenon DEF DeleteReplicaSet
<1>2. /\ rs' \in [ReplicaSets -> ReplicaSetSpec \cup {None}] /\ disturbed \subseteq ReplicaSets
      /\ rs'[o] = None /\ \A r \in ReplicaSets \ {o} : rs'[r] = rs[r]
  BY Zenon, <1>1 DEF SpreadInv, PodsInv, SpreadTypes
<1>3. /\ PodsOf(o) \in SUBSET SpreadPods
      /\ \A p \in PodsOf(o) : spreadPod[p] # None /\ spreadPod[p].rs = o
  BY Zenon DEF PodsOf
<1>. QED  BY <1>1, <1>2, <1>3, DeletionKept

\* The spec of a ReplicaSet is written: a new one has no pods, a scaled one is not watched further.
LEMMA ReplicaSetWritten ==
    ASSUME SpreadInv, NEW o \in ReplicaSets, NEW spec \in ReplicaSetSpec,
           rs' = [rs EXCEPT ![o] = spec], disturbed' \subseteq ReplicaSets, disturbed \subseteq disturbed' \cup {o},
           UNCHANGED <<topology, up, spreadPod, session, cycle>>,
           o \in disturbed' \/ (rs[o] = None /\ session[NameOf[o]] = None)
    PROVE  SpreadInv'
<1>1. /\ rs' \in [ReplicaSets -> ReplicaSetSpec \cup {None}]
      /\ rs'[o] = spec /\ \A r \in ReplicaSets \ {o} : rs'[r] = rs[r]
  BY Zenon DEF SpreadInv, PodsInv, SpreadTypes
<1>2. SpreadTypes'
  BY Zenon, <1>1 DEF SpreadInv, PodsInv, SpreadTypes
<1>3. \A r : PodsOf(r)' = PodsOf(r)
  BY Zenon DEF PodsOf
<1>4. \A r \in ReplicaSets : rs'[r] = None => PodsOf(r)' = {}
  <2>1. spec # None
    BY Zenon, PodSpreadConstants DEF ReplicaSetSpec
  <2>. QED  BY Zenon, <2>1, <1>1, <1>3 DEF SpreadInv, PodsInv
<1>5. PodsInv'
  BY Zenon, <1>2, <1>4 DEF SpreadInv, PodsInv, Pending
<1>6. ASSUME NEW r \in ReplicaSets \ disturbed', OwnName(r), rs'[r] # None PROVE ReplicaSetInv(r)'
  <2>1. CASE r # o
    <3>1. rs'[r] = rs[r] /\ ReplicaSetInv(r)
      BY Zenon, <1>1, <1>6, <2>1 DEF SpreadInv
    <3>2. Same(r)
      BY Zenon, <3>1, SamePods
    <3>. QED  BY Zenon, <3>1, <3>2, SameReplicaSet DEF ReplicaSetInv
  <2>2. CASE r = o
    <3>1. rs[r] = None /\ session[NameOf[r]] = None /\ PodsOf(r)' = {}
      BY Zenon, <1>3, <1>6, <2>2 DEF SpreadInv, PodsInv
    <3>2. Placed(r)' = {} /\ BoundOf(r)' = {}
      BY Zenon, <3>1 DEF Placed, BoundOf
    <3>3. UsedBy(Placed(r))' = {} /\ UsedBy(BoundOf(r))' = {}
      BY Zenon, <3>2 DEF UsedBy
    <3>4. Cardinality({}) = 0
      BY Zenon, FS_EmptySet
    <3>5. SpreadOver(r, Placed(r))' /\ SpreadOver(r, BoundOf(r))'
      BY <3>2, <3>3, <3>4 DEF SpreadOver
    <3>6. PlacedInv(r)' /\ SessionInv(r)'
      BY Zenon, <3>1, <3>2, <3>5 DEF PlacedInv, SessionInv
    <3>7. CycleInv(r)'
      <4>1. cycle # None => spreadPod[cycle.pod].rs # r
        BY Zenon, <3>1, <1>3, CycleTyped DEF SpreadInv, PodsOf
      <4>. QED  BY Zenon, <4>1 DEF CycleInv
    <3>. QED  BY Zenon, <3>6, <3>7 DEF ReplicaSetInv
  <2>. QED  BY Zenon, <2>1, <2>2
<1>. QED  BY Zenon, <1>5, <1>6 DEF SpreadInv

\* A ReplicaSet is created or scaled.
LEMMA WriteReplicaSetKept ==
    ASSUME SpreadInv, NEW o \in ReplicaSets, CreateReplicaSet(o) \/ Scale(o)
    PROVE  SpreadInv'
<1>1. UNCHANGED <<topology, up, spreadPod, session, cycle>> /\ disturbed \subseteq ReplicaSets
  BY Zenon DEF CreateReplicaSet, Scale, SpreadInv, PodsInv, SpreadTypes
<1>2. CASE CreateReplicaSet(o)
  <2>1. PICK spec \in ReplicaSetSpec : rs' = [rs EXCEPT ![o] = spec]
    BY Zenon, <1>2 DEF CreateReplicaSet
  <2>2. /\ disturbed' \subseteq ReplicaSets /\ disturbed \subseteq disturbed' \cup {o}
        /\ o \in disturbed' \/ (rs[o] = None /\ session[NameOf[o]] = None)
    BY Zenon, <1>1, <1>2 DEF CreateReplicaSet
  <2>. QED  BY Zenon, <1>1, <2>1, <2>2, ReplicaSetWritten
<1>3. CASE Scale(o)
  <2>1. PICK n \in 0 .. MaxReplicas : rs' = [rs EXCEPT ![o].replicas = n]
    BY ZenonT(60), <1>3 DEF Scale
  <2>. DEFINE spec == [rs[o] EXCEPT !.replicas = n]
  <2>2. rs[o] \in ReplicaSetSpec
    BY Zenon, <1>3 DEF Scale, SpreadInv, PodsInv, SpreadTypes
  <2>3. spec \in ReplicaSetSpec /\ rs' = [rs EXCEPT ![o] = spec]
    BY Zenon, <2>1, <2>2, RecordsTyped
  <2>4. disturbed' \subseteq ReplicaSets /\ disturbed \subseteq disturbed' /\ o \in disturbed'
    BY Zenon, <1>1, <1>3 DEF Scale
  <2>. HIDE DEF spec
  <2>. QED  BY Zenon, <1>1, <2>3, <2>4, ReplicaSetWritten
<1>. QED  BY Zenon, <1>2, <1>3

\* A pod is created.
LEMMA CreatePodKept ==
    ASSUME SpreadInv, NEW o \in ReplicaSets, NEW p \in SpreadPods, CreatePod(p, o)
    PROVE  SpreadInv'
<1>. DEFINE x == [rs |-> o, node |-> None, bound |-> FALSE]
<1>1. /\ spreadPod[p] = None /\ rs[o] # None /\ spreadPod' = [spreadPod EXCEPT ![p] = x]
      /\ UNCHANGED <<topology, up, rs, session, cycle, disturbed>>
  BY Zenon DEF CreatePod
<1>2. x \in Pod /\ x.rs = o /\ x.node = None /\ x.bound = FALSE
  BY Zenon, RecordsTyped
<1>. HIDE DEF x
<1>3. spreadPod'[p] = x /\ \A q \in SpreadPods \ {p} : spreadPod'[q] = spreadPod[q]
  BY Zenon, <1>1 DEF SpreadInv, PodsInv, SpreadTypes
<1>4. SpreadTypes'
  BY Zenon, <1>1, <1>2 DEF SpreadInv, PodsInv, SpreadTypes
<1>5. \A r \in ReplicaSets : rs'[r] = None => PodsOf(r)' = {}
  BY <1>1, <1>2, <1>3 DEF SpreadInv, PodsInv, PodsOf
<1>6. cycle # None => cycle.pod \in SpreadPods \ {p}
  BY Zenon, <1>1, CycleTyped DEF SpreadInv
<1>7. PodsInv'
  <2>1. \A q \in SpreadPods : spreadPod'[q] # None /\ spreadPod'[q].bound => spreadPod'[q].node # None
    BY Zenon, <1>2, <1>3 DEF SpreadInv, PodsInv
  <2>2. cycle' # None => Pending(cycle.pod)'
    BY Zenon, <1>1, <1>3, <1>6 DEF SpreadInv, PodsInv, Pending
  <2>. QED  BY Zenon, <1>4, <1>5, <2>1, <2>2 DEF PodsInv
<1>8. ASSUME NEW r \in ReplicaSets \ disturbed', OwnName(r), rs'[r] # None PROVE ReplicaSetInv(r)'
  <2>1. rs'[r] = rs[r] /\ ReplicaSetInv(r)
    BY Zenon, <1>1, <1>8 DEF SpreadInv
  <2>2. p \notin Placed(r) /\ p \notin Placed(r)'
    BY Zenon, <1>1, <1>2, <1>3 DEF Placed, PodsOf
  <2>3. Same(r)
    BY ZenonT(60), <1>1, <1>3, <2>1, <2>2, OtherPod
  <2>4. cycle # None => spreadPod'[cycle.pod].rs = spreadPod[cycle.pod].rs
    BY Zenon, <1>3, <1>6
  <2>. QED  BY ZenonT(60), <1>1, <2>1, <2>3, <2>4, SameReplicaSet DEF ReplicaSetInv
<1>. QED  BY Zenon, <1>7, <1>8 DEF SpreadInv

\* A cycle ends without a node.
LEMMA RejectKept == ASSUME SpreadInv, Reject PROVE SpreadInv'
<1>1. cycle' = None /\ UNCHANGED <<topology, up, rs, spreadPod, session, disturbed>>
  BY Zenon DEF Reject
<1>2. \A r : PodsOf(r)' = PodsOf(r)
  BY Zenon, <1>1 DEF PodsOf
<1>3. PodsInv'
  BY Zenon, <1>1, <1>2 DEF SpreadInv, PodsInv, SpreadTypes
<1>4. ASSUME NEW r \in ReplicaSets \ disturbed', OwnName(r), rs'[r] # None PROVE ReplicaSetInv(r)'
  <2>1. ReplicaSetInv(r) /\ Same(r)
    BY Zenon, <1>1, <1>4, SamePods DEF SpreadInv
  <2>. QED  BY ZenonT(60), <1>1, <2>1, SameReplicaSet DEF ReplicaSetInv
<1>. QED  BY Zenon, <1>3, <1>4 DEF SpreadInv

\* A node leaves or joins: nothing is claimed from then on.
LEMMA ChangeNodesKept == ASSUME SpreadInv, NEW n \in Nodes, ChangeNodes(n) PROVE SpreadInv'
<1>1. up' \subseteq Nodes /\ disturbed' = ReplicaSets /\ UNCHANGED <<topology, rs, spreadPod, session, cycle>>
  BY Zenon DEF ChangeNodes, SpreadInv, PodsInv, SpreadTypes
<1>2. \A r : PodsOf(r)' = PodsOf(r)
  BY Zenon, <1>1 DEF PodsOf
<1>3. PodsInv'
  BY Zenon, <1>1, <1>2 DEF SpreadInv, PodsInv, SpreadTypes, Pending
<1>. QED  BY Zenon, <1>1, <1>3 DEF SpreadInv

\* SpreadInv holds in the beginning.
LEMMA SpreadingStarts == SpreadInit => SpreadInv
<1>. SUFFICES ASSUME SpreadInit PROVE SpreadInv
  BY Zenon
<1>2. /\ topology \in Topologies /\ up = Nodes /\ rs = [r \in ReplicaSets |-> None] /\ cycle = None /\ disturbed = {}
      /\ spreadPod = [p \in SpreadPods |-> None] /\ session = [n \in Names |-> None]
  BY Zenon DEF SpreadInit
<1>3. SpreadTypes
  BY Zenon, <1>2 DEF SpreadTypes
<1>4. \A r : PodsOf(r) = {}
  BY Zenon, <1>2 DEF PodsOf
<1>. QED  BY Zenon, <1>2, <1>3, <1>4 DEF SpreadInv, PodsInv

\* Every step keeps SpreadInv.
LEMMA SpreadingKept == SpreadInv /\ [SpreadNext]_spreading => SpreadInv'
<1>. SUFFICES ASSUME SpreadInv, [SpreadNext]_spreading PROVE SpreadInv'
  BY Zenon
<1>1. CASE UNCHANGED spreading
  <2>1. UNCHANGED <<topology, up, rs, spreadPod, session, cycle, disturbed>>
    BY Zenon, <1>1 DEF spreading
  <2>2. \A r : PodsOf(r)' = PodsOf(r)
    BY Zenon, <2>1 DEF PodsOf
  <2>3. PodsInv'
    BY Zenon, <2>1, <2>2 DEF SpreadInv, PodsInv, SpreadTypes, Pending
  <2>4. ASSUME NEW r \in ReplicaSets \ disturbed', OwnName(r), rs'[r] # None PROVE ReplicaSetInv(r)'
    <3>1. ReplicaSetInv(r) /\ Same(r)
      BY ZenonT(60), <2>1, <2>4, SamePods DEF SpreadInv
    <3>. QED  BY Zenon, <2>1, <3>1, SameReplicaSet DEF ReplicaSetInv
  <2>. QED  BY Zenon, <2>3, <2>4 DEF SpreadInv
<1>2. CASE SpreadNext
  <2>1. ASSUME NEW p \in SpreadPods,
               \/ PreFilterSkip(p) \/ SpreadPreFilter(p) \/ BindPod(p)
               \/ BindFails(p) \/ DeletePod(p)
        PROVE  SpreadInv'
    BY Zenon, <2>1, SkipKept, PreFilterKept, BindKept, DeletePodKept
  <2>2. ASSUME NEW n \in Nodes, Place(n) \/ ChangeNodes(n) PROVE SpreadInv'
    BY Zenon, <2>2, PlaceKept, ChangeNodesKept
  <2>3. ASSUME NEW r \in ReplicaSets,
               \/ CreateReplicaSet(r) \/ Scale(r) \/ DeleteReplicaSet(r)
               \/ \E p \in SpreadPods : CreatePod(p, r)
        PROVE  SpreadInv'
    BY Zenon, <2>3, WriteReplicaSetKept, DeleteReplicaSetKept, CreatePodKept
  <2>. QED  BY Zenon, <1>2, <2>1, <2>2, <2>3, RejectKept DEF SpreadNext
<1>. QED  BY Zenon, <1>1, <1>2

\* SpreadInv implies Spread.
LEMMA SpreadHolds == ASSUME UniqueNames PROVE SpreadInv => Spread
<1>. SUFFICES ASSUME SpreadInv, NEW r \in ReplicaSets \ disturbed, rs[r] # None, rs[r].rate # None
              PROVE  LET placed == {p \in PodsOf(r) : spreadPod[p].node # None}
                         used == {SpreadInfo[spreadPod[p].node] : p \in placed} \ {None}
                         least == {Cardinality(placed), Redunduncy(rs[r]),
                                   Cardinality(UsableAreas(r))}
                     IN  \E x \in least : Cardinality(used) >= x
  BY ZenonT(60) DEF Spread
<1>1. SpreadOver(r, Placed(r))
  BY Zenon DEF SpreadInv, ReplicaSetInv, PlacedInv, UniqueNames
<1>. QED  BY Zenon, <1>1 DEF SpreadOver, UsedBy, Placed

\* SpreadInv is an invariant.
LEMMA SpreadingInvariant == SpreadSpec => []SpreadInv
BY SpreadingStarts, SpreadingKept, PTL DEF SpreadSpec

\* For all topologies, ReplicaSets, rates and numbers of pods: the pods of an undisturbed
\* ReplicaSet that fall under its rate are in different areas while there are areas left. The
\* scheduling sessions are keyed by name alone, so the names have to be unique over namespaces.
THEOREM PodsStaySpread == ASSUME UniqueNames PROVE SpreadSpec => []Spread
BY SpreadingInvariant, SpreadHolds, PTL

\* Before the rate is reached PreFilter leaves schedulable nodes inside the areas only.
LEMMA ControlPlaneLeft == SpreadInv => PlacesOutside
<1>. SUFFICES ASSUME SpreadInv, NEW p \in SpreadPods, SpreadPreFilter(p),
                     Deployed(spreadPod[p].rs, Nodes) < session'[NameOf[spreadPod[p].rs]],
                     NEW n \in cycle'.nodes \cap up
              PROVE  Schedulable(spreadPod[p].rs, n) /\ SpreadInfo[n] # None
  BY Zenon DEF PlacesOutside
<1>. DEFINE r == spreadPod[p].rs
            red == session'[NameOf[r]]
            nodes == AllocatableNodes(r, red)
<1>1. cycle' = [pod |-> p, nodes |-> nodes] /\ spreadPod[p] # None /\ rs[r] # None
  BY Zenon DEF SpreadPreFilter, Pending
<1>2. r \in ReplicaSets
  BY ZenonT(60), <1>1, PodTyped DEF SpreadInv
<1>3. n \in nodes
  <2>. HIDE DEF nodes
  <2>. QED  BY Zenon, <1>1
<1>4. ~ (Deployed(r, Nodes) >= red)
  <2>1. SpreadInv'
    BY Zenon, PreFilterKept
  <2>2. session' \in [Names -> 0 .. MaxReplicas \cup {None}]
    BY ZenonT(60), <2>1 DEF SpreadInv, PodsInv, SpreadTypes
  <2>3. NameOf[r] \in Names
    <3>. HIDE DEF r
    <3>. QED  BY ZenonT(60), <1>2 DEF Names
  <2>. DEFINE name == NameOf[r]
  <2>4. red # None
    <3>1. /\ session[name] = None => rs[r].rate # None
          /\ session' = IF session[name] = None THEN [session EXCEPT ![name] = Redunduncy(rs[r])] ELSE session
      BY ZenonT(60) DEF SpreadPreFilter
    <3>2. session \in [Names -> 0 .. MaxReplicas \cup {None}] /\ rs[r] \in ReplicaSetSpec
      BY ZenonT(60), <1>1, <1>2 DEF SpreadInv, PodsInv, SpreadTypes
    <3>3. session[name] = None => Redunduncy(rs[r]) \in Nat
      BY SMTT(60), <3>1, <3>2, RedunduncyType
    <3>. HIDE DEF name
    <3>. QED  BY <3>1, <3>2, <3>3, <2>3, NoNumber DEF name
  <2>5. red \in Nat
    <3>. HIDE DEF r
    <3>. QED  BY <2>2, <2>3, <2>4, PodSpreadConstants
  <2>6. Deployed(r, Nodes) \in Nat
    BY Zenon, <1>2, DeployedCounts DEF SpreadInv
  <2>. HIDE DEF r
  <2>7. Deployed(r, Nodes) < red
    BY Zenon DEF r
  <2>. HIDE DEF red
  <2>. QED  BY <2>5, <2>6, <2>7
<1>5. n \in (IF SpreadMode = "node" THEN MinNodes(r) ELSE NodesOfMinAreas(r)) \cap up
  <2>. HIDE DEF r, red
  <2>. QED  BY Zenon, <1>3, <1>4 DEF AllocatableNodes
<1>. QED  BY Zenon, <1>2, <1>5, NodesLeft DEF SpreadInv, PodsInv

\* For all topologies and ReplicaSets, with shared names too: a pod under the rate is never
\* left with a control plane node it does not tolerate, or with a node outside the areas.
THEOREM ControlPlaneStaysFree == SpreadSpec => NoControlPlane
<1>1. SpreadInv /\ [SpreadNext]_spreading => [PlacesOutside]_spreading
  BY Zenon, ControlPlaneLeft
<1>. QED  BY <1>1, SpreadingInvariant, PTL DEF SpreadSpec, NoControlPlane
=============================================================================
