---------------------------- MODULE MCProxyServer ----------------------------
(***************************************************************************)
(* An instance with two Services.  iptables is present for IPv4 only, so   *)
(* that modes iptables and ipvs are single-stack and mode nftables is      *)
(* dual-stack.  The Services may hand a port to each other, and have one   *)
(* or both families.                                                       *)
(***************************************************************************)
EXTENDS ProxyServer, TLC

CONSTANTS v4, v6, s1, s2, anyip, n4, n6, none

MCFamilies == {v4, v6}
MCServices == {s1, s2}
Shared == [port |-> 1, families |-> {v4, v6}, local |-> {v4, v6}]
MCSpecs == {Shared, [port |-> 2, families |-> {v6}, local |-> {}]}
MCInitialServices == (s1 :> Shared) @@ (s2 :> None)
MCAddresses == {n4}
MCNodeIP == (v4 :> n4) @@ (v6 :> n6)
MCIPTables == {v4}
MCConfigs ==
    {[mode |-> "nftables", gate |-> TRUE, detect |-> "node", clusterCIDRs |-> <<>>, bind |-> None, hardfail |-> FALSE],
     [mode |-> "ipvs", gate |-> TRUE, detect |-> "cluster", clusterCIDRs |-> (v4 :> 0), bind |-> None, hardfail |-> TRUE]}
MCNodes ==
    {[ips |-> <<v4>>, podCIDRs |-> (v4 :> 1), deleting |-> FALSE, tainted |-> FALSE],
     [ips |-> <<v6, v4>>, podCIDRs |-> (v4 :> 2), deleting |-> FALSE, tainted |-> TRUE]}

\* The proxiers meet only over the ports: a sync that has written its rules goes on to its end,
\* as the syncs end in any order.  The two SyncLoops begin together.
MCNext ==
    /\ Next
    /\ \A f \in Families : pc[f] \in {"written", "opened"} => pc'[f] # pc[f]
    /\ looping \notin {{}, running} => looping' # looping
MCSpec == Init /\ [][MCNext]_vars /\ Fairness
=============================================================================
