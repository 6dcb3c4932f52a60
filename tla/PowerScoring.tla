---------------------------- MODULE PowerScoring ----------------------------
(***************************************************************************)
(* What places pods and connections: the two plugins of the scheduler      *)
(* (PodSpread, MinimizePower) and the load balancer's scoring (WAOLB).     *)
(* The plugins are enabled by different profiles, and the load balancer is *)
(* a process of its own; a behaviour is about one.                         *)
(***************************************************************************)
EXTENDS MinimizePower, WAOLB, PodSpread

CONSTANT Processes      \* what a behaviour may be about

VARIABLE process        \* what the behaviour is about

allVars == <<process, cluster, scheduler, balancer, spreading>>
NoCluster ==
    /\ usage = None /\ inletTemp = None /\ deltaP = None /\ serverType = None /\ config = None /\ net = None
    /\ secrets = None /\ changes = None
Init ==
    /\ process \in Processes /\ SchedulerInit /\ BalancerInit /\ SpreadInit
    /\ \/ process = "spread" /\ NoCluster
       \/ process # "spread" /\ ClusterInit /\ topology = CHOOSE t \in Topologies : TRUE
Next ==
    /\ UNCHANGED process
    /\ \/ process = "spread" /\ SpreadNext /\ UNCHANGED <<cluster, scheduler, balancer>>
       \/ process = "scheduler" /\ Schedule /\ UNCHANGED <<balancer, spreading>>
       \/ process = "balancer" /\ Balance /\ UNCHANGED <<scheduler, spreading>>
       \/ process # "spread" /\ (Fetch \/ Change) /\ UNCHANGED <<scheduler, balancer, spreading>>
Spec == Init /\ [][Next]_allVars
=============================================================================
