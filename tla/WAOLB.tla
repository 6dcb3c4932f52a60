------------------------------- MODULE WAOLB -------------------------------
(***************************************************************************)
(* The scoring of the load balancer (pkg/proxy/nftables/wao.go): Score     *)
(* works on all service ports in parallel, ScoreService on the endpoints   *)
(* of one, ScoreNode on the node of an endpoint, and the results are       *)
(* written into the map Scores, which has no lock.                         *)
(*                                                                         *)
(* A write to a Go map is two steps.  If another write begins between      *)
(* them, the runtime ends the process, or one of the writes is lost.       *)
(***************************************************************************)
EXTENDS PowerPrediction

CONSTANTS
    ServicePorts,
    Slices,         \* service port -> its Service's EndpointSlices of the family, sets of endpoints
    NodeOf,         \* endpoint -> its node, or None
    CPUPerRequest,  \* service port -> the CPU of one request; None: the annotation is no quantity
    DefaultCPUPerRequest,
    Parallelism, ScoreTop       \* ScoreMax of wao.go

ASSUME BalancerConstants == ScoreTop \in Nat \ {0} /\ \A e \in DOMAIN NodeOf : NodeOf[e] \in Nodes \cup {None}

VARIABLES
    state,          \* service port -> where its piece is
    todo,           \* service port -> endpoints still to be scored
    watts,          \* service port -> endpoint -> watts
    Scores,         \* service port -> endpoint -> score
    crashed

balancer == <<state, todo, watts, Scores, crashed>>

Empty == [e \in {} |-> 0]

BalancerInit ==
    /\ state = [p \in ServicePorts |-> "idle"] /\ todo = [p \in ServicePorts |-> {}]
    /\ watts = [p \in ServicePorts |-> Empty] /\ Scores = [p \in {} |-> Empty] /\ crashed = FALSE

Busy == {p \in ServicePorts : state[p] \in {"scoring", "writing"}}

\* Score clears the map and starts the workers.
StartScore ==
    /\ ~crashed /\ \A p \in ServicePorts : state[p] \in {"idle", "done"}
    /\ Scores' = [p \in {} |-> Empty] /\ watts' = [p \in ServicePorts |-> Empty]
    /\ state' = [p \in ServicePorts |-> "queued"]
    /\ UNCHANGED <<todo, crashed, cluster>>

\* ScoreService: the first EndpointSlice of the family in the list; the Service or a slice may
\* not be found, and then the service port is left out.
ScoreService(p) ==
    /\ ~crashed /\ state[p] = "queued" /\ Cardinality(Busy) < Parallelism
    /\ \/ \E slice \in Slices[p] : todo' = [todo EXCEPT ![p] = slice] /\ state' = [state EXCEPT ![p] = "scoring"]
       \/ UNCHANGED todo /\ state' = [state EXCEPT ![p] = "done"]
    /\ UNCHANGED <<watts, Scores, crashed, cluster>>

cpuPerRequest(p) == IF CPUPerRequest[p] = None THEN DefaultCPUPerRequest ELSE CPUPerRequest[p]

\* ScoreNode: the watts of one more request, or None for an error.  What the cached client hands
\* out as nil when another worker's fetch fails counts as 0 watts, as does a node without
\* NodeConfig.
NodeWatts(n, cpu, shared) ==
    LET failed == IF shared THEN {None, 0} ELSE {None}
    IN  IF n = None THEN {None}
        ELSE IF usage[n] = None THEN {None}
        ELSE IF cpu = 0 THEN {0}
        ELSE IF inletTemp[n] = None \/ deltaP[n] = None THEN failed
        ELSE IF config[n] = {} THEN {0}
        ELSE UNION {IF PredictorTerm(nc) = None THEN failed
                    ELSE Increases(n, nc, usage[n], usage[n] + cpu, shared) : nc \in config[n]}

\* An endpoint without watts is left out.  Node metrics that are nil are dereferenced.
ScoreNode(p, e) ==
    /\ ~crashed /\ state[p] = "scoring" /\ e \in todo[p]
    /\ todo' = [todo EXCEPT ![p] = @ \ {e}]
    /\ \E w \in NodeWatts(NodeOf[e], cpuPerRequest(p), Cardinality(Busy) > 1) :
          watts' = IF w = None THEN watts
                   ELSE [watts EXCEPT ![p] = [x \in DOMAIN watts[p] \cup {e} |-> IF x = e THEN w ELSE watts[p][x]]]
    /\ crashed' \in (IF NodeOf[e] # None /\ usage[NodeOf[e]] = None /\ Cardinality(Busy) > 1
                     THEN BOOLEAN ELSE {FALSE})
    /\ UNCHANGED <<state, Scores, cluster>>

\* normalizeScores: round(100 * min / watts), all watts raised by one.
normalizeScoresUnraised(w) ==
    LET least == Min(Range(w))
    IN  [e \in DOMAIN w |-> IF w[e] = 0 THEN 0 ELSE (2 * ScoreTop * least + w[e]) \div (2 * w[e])]
normalizeScores(w) ==
    LET raised == [e \in DOMAIN w |-> w[e] + 1]
        least == Min(Range(raised))
    IN  [e \in DOMAIN w |-> (2 * ScoreTop * least + raised[e]) \div (2 * raised[e])]

\* w.Scores[svcPortName] = scores, begun and finished; nothing is written if no endpoint has a
\* score.
BeginWrite(p) ==
    /\ ~crashed /\ state[p] = "scoring" /\ todo[p] = {}
    /\ state' = [state EXCEPT ![p] = IF watts[p] = Empty THEN "done" ELSE "writing"]
    /\ crashed' \in (IF watts[p] # Empty /\ \E q \in ServicePorts : state[q] = "writing" THEN BOOLEAN ELSE {FALSE})
    /\ UNCHANGED <<todo, watts, Scores, cluster>>

FinishWrite(p) ==
    /\ ~crashed /\ state[p] = "writing" /\ state' = [state EXCEPT ![p] = "done"]
    /\ LET written == [q \in DOMAIN Scores \cup {p} |-> IF q = p THEN normalizeScores(watts[p]) ELSE Scores[q]]
       IN  Scores' \in {written} \cup (IF Cardinality({q \in ServicePorts : state[q] = "writing"}) > 1 THEN {Scores} ELSE {})
    /\ UNCHANGED <<todo, watts, crashed, cluster>>

Balance ==
    \/ StartScore
    \/ \E p \in ServicePorts : ScoreService(p) \/ BeginWrite(p) \/ FinishWrite(p)
    \/ \E p \in ServicePorts, e \in DOMAIN NodeOf : ScoreNode(p, e)

-----------------------------------------------------------------------------

\* Scores that the proxier reads are in its range, an endpoint of the least power has the top
\* score, and none is above one that takes less; a service port without any is not in the map,
\* so that the proxier falls back to equal weights (normalizeScores, Score).
ScoresRankEndpoints ==
    \A p \in DOMAIN Scores :
        LET scored == DOMAIN Scores[p]
        IN  /\ scored # {} /\ \E slice \in Slices[p] : scored \subseteq slice
            /\ \A e \in scored : Scores[p][e] \in 0..ScoreTop
            /\ \E e \in scored : Scores[p][e] = ScoreTop
            /\ \A e, f \in scored : watts[p][e] < watts[p][f] => Scores[p][e] >= Scores[p][f]
            /\ \A e \in scored : Scores[p][e] = 0 => \E f \in scored : watts[p][e] > 2 * ScoreTop * watts[p][f]

\* "w.Scores is not thread-safe, but we don't update the same key in parallel, so it's safe
\* here": every service port that got scores has them in the map when Score is done (wao.go).
WritesAreSafe ==
    ~crashed /\ (\A p \in ServicePorts : state[p] = "done") =>
        \A p \in ServicePorts : watts[p] # Empty => p \in DOMAIN Scores
=============================================================================
