--------------------------- MODULE MCNFTProxier ---------------------------
(* Two Services: a has an external frontend with policy Local and endpoints *)
(* that come, terminate and go, b has a ClusterIP and no endpoints.         *)
EXTENDS NFTProxier, TLC

CONSTANTS a, b, e1, e2, k1, k2, k3, z1, z2

MCServices == {a, b}
MCEndpoints == {e1, e2}
MCSpecs == (a :> {[ip |-> k1, ext |-> {k2}, intLocal |-> FALSE, extLocal |-> TRUE]})
           @@ (b :> {[ip |-> k3, ext |-> {}, intLocal |-> FALSE, extLocal |-> FALSE]})
Slice(ready, terminating) == [ready |-> ready, terminating |-> terminating]
MCSlices == (a :> {Slice({}, {}), Slice({e1, e2}, {}), Slice({}, {e2})})
            @@ (b :> {Slice({}, {})})
MCHint == (e1 :> z1) @@ (e2 :> z2)

\* Score() starts from nothing, and Commit reads only the scores of the
\* endpoints of the Services it does not skip.
ReadScores ==
  LET written == IF pc = "commit" THEN Active \ Skipped ELSE {}
  IN  [s \in written |-> [e \in endpointsMap[s].ready \cup endpointsMap[s].terminating |-> scores[s][e]]]
View == <<watch, svcPortMap, endpointsMap, nodeLabels, synced, queued, needFullSync, pc,
          updated, ReadScores, elements, stale, kernel, bounds>>
=============================================================================
