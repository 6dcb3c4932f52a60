------------------------- MODULE MCServiceTracking -------------------------
(* One Service with a UDP and a TCP port, two IPv4 slices that may list the *)
(* same endpoints, and an IPv6 slice that this proxier never sees.          *)
EXTENDS ServiceTracking, TLC

CONSTANTS s1, l1, l2, l6, dns, web, e1, e2, c1, x4, x6

Service(ports, external) ==
    [type |-> "ClusterIP", clusterIP |-> c1, families |-> {"IPv4"}, ports |-> ports,
     externalIPs |-> external, ingress |-> {}, localPolicy |-> FALSE, healthCheckNodePort |-> 0]
Slice(ports, endpoints) == [ports |-> ports, endpoints |-> endpoints]

MCSpecs == {Service({dns, web}, {x4, x6}), Service({web}, {}),
            [Service({dns}, {}) EXCEPT !.clusterIP = "None"]}

MCContents == {Slice({dns, web}, (e1 :> "ready") @@ (e2 :> "terminating")), Slice({dns}, e1 :> "stopped"),
               Slice({dns}, e2 :> "ready")}
MCContentsStopping == {Slice({dns}, e1 :> "ready"), Slice({dns}, e1 :> "stopped"),
                       Slice({dns}, e2 :> "ready")}

MCServiceOf == [l \in Slices |-> s1]
MCAddressType == [l \in Slices |-> IF l = l6 THEN "IPv6" ELSE "IPv4"]
MCFamilyOf == [i \in {e1, e2, c1, x4, x6} |-> IF i = x6 THEN "IPv6" ELSE "IPv4"]
MCClusterIP == s1 :> c1
MCOrders == {(l1 :> 1) @@ (l2 :> 2) @@ (l6 :> 3), (l1 :> 2) @@ (l2 :> 1) @@ (l6 :> 3)}

\* One EndpointSlice is enough for the slice that the proxier does not see, and the sync that
\* OnServiceSynced or OnEndpointSlicesSynced owes is the next one.
MCNext ==
    /\ Next
    /\ seenSlice'[l6] \in {None, Slice({dns}, e2 :> "ready")}
    /\ owed # {} /\ pc = "idle" => pc' = "idle" \/ owed' # owed
MCSpec == Init /\ [][MCNext]_vars

Symmetry == Permutations({l1, l2})
=============================================================================
