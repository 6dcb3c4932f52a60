--------------------------- MODULE MCPowerScoring ---------------------------
(* Instances of the three, for TLC. *)
EXTENDS PowerScoring, TLC

CONSTANTS n1, n2, n3, bmc, api, ml1, ml2, prov, key, e1, e2, e3, a, b

Unlabelled == [n \in Nodes |-> None]

\* Node mode with and without a control plane; two zones of which one has the control plane
\* and a worker; three zones of which one is control plane only; two regions and a node
\* without a region.
SmallTopologies ==
    {[region |-> Unlabelled, zone |-> Unlabelled, controlPlane |-> {}],
     [region |-> Unlabelled, zone |-> Unlabelled, controlPlane |-> {n1}],
     [region |-> Unlabelled, zone |-> n1 :> "a" @@ n2 :> "a" @@ n3 :> "b", controlPlane |-> {n1}],
     [region |-> Unlabelled, zone |-> n1 :> "a" @@ n2 :> "b" @@ n3 :> "c", controlPlane |-> {n1}],
     [region |-> n1 :> "east" @@ n2 :> "west" @@ n3 :> None,
      zone |-> n1 :> "a" @@ n2 :> "b" @@ n3 :> "c", controlPlane |-> {}]}

MCNameOf == [r \in ReplicaSets |-> "web"]
Symmetry == Permutations(SpreadPods)

At(server, path) == [address |-> server, path |-> path]
Term(type, server, path, secret) == [type |-> type, endpoint |-> At(server, path), secret |-> secret]

Sensors == [inletTemp |-> Term("Redfish", bmc, None, key), deltaP |-> Term("DifferentialPressureAPI", api, "x", None)]
Direct(server) == Sensors @@ [power |-> Term("V2InferenceProtocol", server, "m", key), provider |-> None]
Provided == Sensors @@ [power |-> None, provider |-> Term("Redfish", prov, None, None)]
Faked == Sensors @@ [power |-> Term("Fake", ml1, None, None), provider |-> None]
Nothing == Sensors @@ [power |-> None, provider |-> None]

MCConfigs == (n1 :> {{Direct(ml1)}, {}} @@ n2 :> {{Provided}, {Direct(ml1)}} @@ n3 :> {{Provided}, {Faked, Nothing}})
MCVendor == [s \in {bmc, api, ml1, ml2, prov} |-> IF s = bmc THEN {"iDRAC"} ELSE {}]
MCPublished == [s \in {bmc, api, ml1, ml2, prov} |->
                  IF s = prov THEN [type |-> "V2InferenceProtocol", endpoint |-> At(ml2, "m")] ELSE None]
MCPower(ep, cpu, temp, dp) == IF ep.address = ml1 THEN 7 * cpu + temp ELSE 2500 * cpu + dp
MCReading(server) == IF server = bmc THEN 20 ELSE 3
MCCapacity == (n1 :> 8 @@ n2 :> 8 @@ n3 :> 5)
MCPods == <<(<<[request |-> 2, limit |-> 4], [request |-> 0, limit |-> 0]>>), (<<[request |-> 0, limit |-> 4]>>),
            (<<[request |-> 0, limit |-> 0]>>)>>
MCSlices == (a :> {{e1, e2}, {e3}} @@ b :> {{e2, e3}})
MCNodeOf == (e1 :> n1 @@ e2 :> n2 @@ e3 :> n3)
MCCPUPerRequest == (a :> None @@ b :> 2)
=============================================================================
