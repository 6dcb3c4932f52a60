---------------------------- MODULE MinimizePower ----------------------------
(***************************************************************************)
(* The scheduler's MinimizePower plugin (pkg/plugins/minimizepower):       *)
(* PreFilter, Score of every node, NormalizeScore, and the scheduler       *)
(* around it, which binds the pod to a node of the highest score.          *)
(*                                                                         *)
(* CPU is in tenths of a core.  int64 is narrowed to TLC's 31 bits, which  *)
(* keeps the two special scores above every number of watts.               *)
(***************************************************************************)
EXTENDS PowerPrediction

CONSTANTS
    Pods,           \* pod -> its containers' [request, limit]
    PodUsageAssumption,     \* in percent
    ScoreBase, MaxNodeScore

ASSUME ScoreConstants == ScoreBase \in Nat /\ MaxNodeScore \in Nat /\ 1 < ScoreBase /\ ScoreBase <= MaxNodeScore

VARIABLES
    phase,          \* of the scheduling cycle
    pod,            \* the pod it is about
    tried,          \* pods that have had a cycle
    pending,        \* node -> pods bound to it that do not run yet
    raw,            \* node -> what Score has returned, or None
    score,          \* node -> its score after NormalizeScore
    seen            \* history: node -> what Score read

scheduler == <<phase, pod, tried, pending, raw, score, seen>>

ScoreError == 2^30 + (2^30 - 1)     \* math.MaxInt64
ScoreMax == 2^30 - 1                \* math.MaxInt64 >> 1
ScoreReplaceMap == [s \in {ScoreError, ScoreMax} |-> IF s = ScoreError THEN 0 ELSE 1]

NoScores == [n \in Nodes |-> None]

SchedulerInit ==
    /\ phase = "idle" /\ pod = None /\ tried = {} /\ pending = [n \in Nodes |-> {}]
    /\ raw = NoScores /\ score = NoScores /\ seen = NoScores

\* PreFilter: a pod without CPU requests or limits is unschedulable.
PreFilter(p) ==
    /\ phase = "idle" /\ p \notin tried /\ tried' = tried \cup {p}
    /\ IF PodCPURequestOrLimit(Pods[p]) = 0 THEN UNCHANGED <<phase, pod>>
       ELSE phase' = "scoring" /\ pod' = p
    /\ UNCHANGED <<pending, raw, score, seen, cluster>>

\* Pods that are bound and do not run yet are assumed to use a part of what they ask for.
AssumedOf(pods) ==
    FoldFunctionOnSet(+, 0, [p \in DOMAIN Pods |-> (PodCPURequestOrLimit(Pods[p]) * PodUsageAssumption) \div 100], pods)
assumedUsageOfNone(n) == 0
assumedAdditionalUsage(n) == AssumedOf(pending[n])

\* Another node's Score call asks the same provider, or predicts with the same model, meanwhile.
SharedProvider(n) ==
    \E m \in Nodes \ {n} : \E nc \in config[n], other \in config[m] :
        nc.provider # None /\ other.provider = nc.provider
SharedPredictor(n) ==
    \E m \in Nodes \ {n} : \E nc \in config[n], other \in config[m] :
        PredictorTerm(nc) # None /\ PredictorTerm(other) = PredictorTerm(nc)

\* The provider fails for another node's call, and the cached client hands this one nil.
NilEndpoint(n) == \E nc \in config[n] : PredictorTerm(nc) = None /\ SharedProvider(n)

\* Score of one node.  The NodeConfig is the first of the node in the list, any of them here.
RawScores(n) ==
    LET before == usage[n] + assumedAdditionalUsage(n)
        after == before + PodCPURequestOrLimit(Pods[pod])
    IN  IF usage[n] = None \/ after = before THEN {ScoreError}
        ELSE IF after > Capacity[n] THEN {ScoreMax}
        ELSE IF inletTemp[n] = None \/ deltaP[n] = None \/ config[n] = {} THEN {ScoreError}
        ELSE {IF watt = None THEN ScoreError ELSE watt :
                 watt \in UNION {Increases(n, nc, before, after, SharedPredictor(n)) : nc \in config[n]}}
Score(n) ==
    /\ phase = "scoring" /\ raw[n] = None
    /\ \/ \E s \in RawScores(n) : raw' = [raw EXCEPT ![n] = s] /\ UNCHANGED phase
       \/ ScoreError \in RawScores(n) /\ NilEndpoint(n) /\ phase' = "panic" /\ UNCHANGED raw
    /\ seen' = [seen EXCEPT ![n] = [usage |-> usage[n], metrics |-> {inletTemp[n], deltaP[n]},
                                    pending |-> pending[n]]]
    /\ UNCHANGED <<pod, tried, pending, score, cluster>>

\* Special scores are replaced; the others are spread over ScoreBase..MaxNodeScore, the lowest
\* power highest, or are all ScoreBase if they are equal.
Stretched(scores, base) ==
    LET calculated == {n \in Nodes : scores[n] \notin DOMAIN ScoreReplaceMap}
        highest == Max({scores[n] : n \in calculated})
        lowest == Min({scores[n] : n \in calculated})
    IN  [n \in Nodes |->
            IF n \notin calculated THEN ScoreReplaceMap[scores[n]]
            ELSE IF highest = lowest THEN base
            ELSE MaxNodeScore - ((MaxNodeScore - base) * (scores[n] - lowest)) \div (highest - lowest)]
PowerConsumptions2ScoresFromZero(scores) == Stretched(scores, 0)
PowerConsumptions2Scores(scores) == Stretched(scores, ScoreBase)

NormalizeScore ==
    /\ phase = "scoring" /\ \A n \in Nodes : raw[n] # None
    /\ score' = PowerConsumptions2Scores(raw) /\ phase' = "scored"
    /\ UNCHANGED <<pod, tried, pending, raw, seen, cluster>>

\* The scheduler binds the pod to a node with the highest score.
Best(n) == \A m \in Nodes : score[m] <= score[n]
Bind(n) ==
    /\ phase = "scored" /\ Best(n)
    /\ pending' = [pending EXCEPT ![n] = @ \cup {pod}]
    /\ phase' = "idle" /\ pod' = None /\ raw' = NoScores /\ score' = NoScores /\ seen' = NoScores
    /\ UNCHANGED <<tried, cluster>>

Run(n, p) ==
    /\ p \in pending[n] /\ pending' = [pending EXCEPT ![n] = @ \ {p}]
    /\ UNCHANGED <<phase, pod, tried, raw, score, seen, cluster>>

Schedule ==
    \/ \E p \in DOMAIN Pods : PreFilter(p)
    \/ \E n \in Nodes : Score(n) \/ Bind(n)
    \/ NormalizeScore
    \/ \E n \in Nodes, p \in DOMAIN Pods : Run(n, p)

-----------------------------------------------------------------------------

Predicted(n) == raw[n] \notin {ScoreError, ScoreMax}

\* Whether the node had all its data when it was scored, and room for the pod beside what
\* runs and what is bound to it.
Usable(n) ==
    /\ None \notin {seen[n].usage} \cup seen[n].metrics
    /\ ~ (seen[n].usage + AssumedOf(seen[n].pending) + PodCPURequestOrLimit(Pods[pod]) > Capacity[n])

\* While a usable node could be scored, no node without data or without room for the pod is
\* chosen, pods bound in earlier cycles that do not run yet included (Score, NormalizeScore).
NoOvercommit ==
    phase = "scored" /\ (\E m \in Nodes : Usable(m) /\ raw[m] # ScoreError) =>
        \A n \in Nodes : Best(n) => Usable(n)

\* The scores are in the framework's range; no node is above one that uses less, all scored
\* nodes are above the overcommitted, and those above the failed (PowerConsumptions2Scores).
RankedByPower ==
    phase = "scored" =>
        /\ \A n \in Nodes : score[n] \in 0..MaxNodeScore
        /\ \A n, m \in Nodes : raw[n] < raw[m] => score[n] >= score[m]
        /\ \A n, m \in Nodes : Predicted(n) /\ ~Predicted(m) => score[n] > score[m]
        /\ \A n, m \in Nodes : raw[n] = ScoreMax /\ raw[m] = ScoreError => score[n] > score[m]
=============================================================================
