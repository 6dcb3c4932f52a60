--------------------------- MODULE PowerPrediction ---------------------------
(***************************************************************************)
(* What a node's power consumption is predicted from: the CPU usage of     *)
(* metrics-server, the inlet temperature and differential pressure that    *)
(* the agents fetch (metrics/redfish, metrics/dpapi), the node's           *)
(* NodeConfig, and the predictors it names (predictor/fromnodeconfig,      *)
(* redfish, v2inferenceprotocol).  MinimizePower and WAOLB score with it.  *)
(*                                                                         *)
(* A URL is a record; a server answers, answers only with credentials, or  *)
(* does not (no answer, an error status, a body that cannot be used).      *)
(* The clients' caches are CachedClient's and the way from an agent to     *)
(* the Custom Metrics API MetricsAdapter's: neither is repeated here.      *)
(***************************************************************************)
EXTENDS ClusterNodes, FiniteSets, FiniteSetsExt, Functions

CONSTANTS
    Capacity,       \* node -> its CPU capacity
    Usages,         \* CPU usages that metrics-server may report
    Configs,        \* node -> the NodeConfigs it may have
    Servers,        \* addresses of BMCs, sensors' API and predictors
    Protected,      \* servers that want credentials
    Secrets,
    Vendor,         \* server -> the vendor URLs that a BMC answers
    Published,      \* server -> what its MachineLearningModel names: [type, endpoint] or None
    Power(_, _, _, _),      \* a model's answer, in tenths of a watt: endpoint, usage, temperature, pressure
    Reading(_),     \* server -> the value of its sensor
    FetchedAtStart, \* nodes whose agents have fetched before the behaviour begins
    Percent,        \* CPUUsageFormat is Percent, not Raw
    MaxChanges

VARIABLES
    usage,          \* node -> the CPU usage metrics-server reports, or None
    inletTemp, deltaP,      \* node -> the custom metric, or None
    serverType,     \* node -> the vendor its inlet temperature agent has found, or None
    config,         \* node -> its NodeConfigs
    net,            \* server -> "open", "protected" or "down"
    secrets,        \* the Secrets that can be read
    changes

cluster == <<usage, inletTemp, deltaP, serverType, config, net, secrets, changes>>

ClusterInit ==
    /\ config \in [Nodes -> UNION {Configs[n] : n \in Nodes}] /\ \A n \in Nodes : config[n] \in Configs[n]
    /\ LET fetched(value(_)) == [n \in Nodes |-> IF n \in FetchedAtStart
                                                 THEN value(CHOOSE nc \in UNION Configs[n] : TRUE) ELSE None]
       IN  /\ inletTemp = fetched(LAMBDA nc : Reading(nc.inletTemp.endpoint.address))
           /\ deltaP = fetched(LAMBDA nc : Reading(nc.deltaP.endpoint.address))
           /\ serverType = fetched(LAMBDA nc : CHOOSE type \in Vendor[nc.inletTemp.endpoint.address] : TRUE)
    /\ usage \in [Nodes -> Usages]
    /\ net = [s \in Servers |-> IF s \in Protected THEN "protected" ELSE "open"]
    /\ secrets = Secrets /\ changes = 0

-----------------------------------------------------------------------------
(* The agents. *)

\* util.WithBasicAuth with GetBasicAuthFromNamespaceScopedSecret: a Secret that cannot be read
\* means no credentials.
Credentials(term) == term.secret \in secrets
Answers(term) ==
    \/ net[term.endpoint.address] = "open"
    \/ net[term.endpoint.address] = "protected" /\ Credentials(term)

\* GetInletTempForTypeDelliDRAC, ...LenovoXClarity and ...SupermicroSSM: one vendor's URL.
GetInletTempFns == {"iDRAC", "XClarity", "SSM"}
GetInletTemp(type, term) == Answers(term) /\ type \in Vendor[term.endpoint.address]

\* InletTempAgent.Fetch: all vendors are tried at once until one has answered, any one of
\* those that answer is remembered, and only it is asked from then on.
FetchInletTemp(n, nc) ==
    LET term == nc.inletTemp
        tried == IF serverType[n] = None THEN GetInletTempFns ELSE {serverType[n]}
    IN  /\ \E type \in {t \in tried : GetInletTemp(t, term)} :
              serverType' = [serverType EXCEPT ![n] = type]
        /\ inletTemp' = [inletTemp EXCEPT ![n] = Reading(term.endpoint.address)]
        /\ UNCHANGED <<usage, deltaP, config, net, secrets, changes>>

\* DeltaPAgent.Fetch: the first sensor of the answer, asked for by sensor, node name or address.
FetchDeltaP(n, nc) ==
    /\ Answers(nc.deltaP) /\ nc.deltaP.endpoint.path # None
    /\ deltaP' = [deltaP EXCEPT ![n] = Reading(nc.deltaP.endpoint.address)]
    /\ UNCHANGED <<usage, inletTemp, serverType, config, net, secrets, changes>>

Fetch == \E n \in Nodes : \E nc \in config[n] : FetchInletTemp(n, nc) \/ FetchDeltaP(n, nc)

\* The world changes.
Change ==
    /\ changes < MaxChanges /\ changes' = changes + 1
    /\ \/ \E n \in Nodes, u \in Usages \cup {None} :
             usage' = [usage EXCEPT ![n] = u] /\ UNCHANGED <<net, secrets, config>>
       \/ \E s \in Servers : net' = [net EXCEPT ![s] = "down"] /\ UNCHANGED <<usage, secrets, config>>
       \/ secrets # {} /\ secrets' = {} /\ UNCHANGED <<usage, net, config>>
       \/ \E n \in Nodes : \E ncs \in Configs[n] :
             config' = [config EXCEPT ![n] = ncs] /\ UNCHANGED <<usage, net, secrets>>
    /\ UNCHANGED <<inletTemp, deltaP, serverType>>

-----------------------------------------------------------------------------
(* The predictors. *)

\* fromnodeconfig.NewEndpointProvider and EndpointProvider.Get: the model a server publishes.
FakeEndpoint == [type |-> "Fake", endpoint |-> [address |-> None, path |-> None]]
GetPredictorEndpoint(term) ==
    CASE term.type = "Fake" -> FakeEndpoint
      [] term.type = "Redfish" -> IF Answers(term) THEN Published[term.endpoint.address] ELSE None
      [] OTHER -> None

\* The term to predict with: what the provider names takes the place of the NodeConfig's type
\* and endpoint, not of its credentials.  None if the provider fails.
PredictorTerm(nc) ==
    LET own == IF nc.power # None THEN nc.power
               ELSE [type |-> None, endpoint |-> [address |-> None, path |-> None], secret |-> None]
        named == GetPredictorEndpoint(nc.provider)
    IN  IF nc.provider = None THEN own
        ELSE IF named = None THEN None
        ELSE [own EXCEPT !.type = named.type, !.endpoint = named.endpoint]

\* fromnodeconfig.NewPowerConsumptionPredictor and Predict: tenths of a watt, or None.  The
\* cached client hands 0 to a caller that waited for another's fetch, if that one fails.
PredictPowerConsumption(term, cpu, temp, dp, shared) ==
    CASE term.type = "Fake" -> {31}
      [] term.type = "V2InferenceProtocol" /\ term.endpoint.path # None /\ Answers(term) ->
            {Power(term.endpoint, cpu, temp, dp)}
      [] OTHER -> IF shared THEN {None, 0} ELSE {None}

\* PodCPURequestOrLimit: the limit stands for a request that is missing.
PodCPURequestOrLimit(pod) ==
    FoldFunction(+, 0, [c \in DOMAIN pod |-> IF pod[c].request = 0 THEN pod[c].limit ELSE pod[c].request])

\* Usage as the model wants it.
Format(n, cpu) == IF Percent THEN (cpu * 100) \div Capacity[n] ELSE cpu

\* The rise in power from one usage to another, in whole watts and not negative; None if
\* something that is needed cannot be had.  All values it may come out as.
Increases(n, nc, before, after, shared) ==
    LET term == PredictorTerm(nc)
        watts(cpu) == PredictPowerConsumption(term, Format(n, cpu), inletTemp[n], deltaP[n], shared)
    IN  IF term = None THEN {None}
        ELSE UNION {{IF None \in {b, a} THEN None ELSE IF a < b THEN 0 ELSE (a - b) \div 10 :
                       a \in watts(after)} : b \in watts(before)}
=============================================================================
