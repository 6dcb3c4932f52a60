---------------------------- MODULE MCNodeConfigs ----------------------------
(***************************************************************************)
(* Instances of the two controllers of NodeConfigs for TLC: the one of the *)
(* metrics adapter, which follows NodeConfigs (NodeConfigController), and  *)
(* the one of wao-core, which makes them (NodeConfigTemplate).  They are   *)
(* processes of their own that meet only in the API, where either          *)
(* specification lets NodeConfigs change at any time; a behaviour is of    *)
(* one of them.                                                            *)
(***************************************************************************)
EXTENDS NodeConfigController, NodeConfigTemplate, TLC

CONSTANTS t1, t2, n1, n2

VARIABLE process        \* the instance that the behaviour is about

allVars == <<process, controllerVars, templateVars>>

\* The templates "a" and "a-b" and the nodes "b-c" and "c": the NodeConfig of t1 and n1 and
\* the one of t2 and n2 have the same name.
MCObjectName == [p \in Pairs |-> IF p = <<t2, n2>> THEN <<t1, n1>> ELSE p]

\* Two instances of wao-core's controller: one node that changes in every way, with a second
\* template that has a text, and the two nodes of MCObjectName, which have the same data and
\* do not change any more than their templates do.
OneNode ==
    /\ node[n2] = None
    /\ nct[t2] # None => \A i \in Fields : nct[t2].fields[i] # ""
    /\ \A k \in Names : objects[k] # None => \A i \in Fields : objects[k].fields[i] \in Data \cup {""}
TwoNodes ==
    \E d \in Data :
        /\ \A n \in TemplateNodes : node[n] # None => node[n].data = d /\ node[n].label # None
        /\ \A t \in Templates : nct[t] # None => \A i \in Fields : nct[t].fields[i] # ""
        /\ \A k \in Names : objects[k] # None => \A i \in Fields : objects[k].fields[i] = d
Stay ==
    /\ \A n \in TemplateNodes : node[n] # None => node'[n] = node[n]
    /\ \A t \in Templates : nct[t] # None => nct'[t] = nct[t]

MCInit == process \in {"adapter", "core", "names"} /\ ControllerInit /\ TemplateInit
MCNext ==
    /\ UNCHANGED process
    /\ \/ process = "adapter" /\ ControllerNext /\ UNCHANGED templateVars
       \/ process = "core" /\ TemplateNext /\ OneNode' /\ UNCHANGED controllerVars
       \/ process = "names" /\ TemplateNext /\ TwoNodes' /\ Stay /\ UNCHANGED controllerVars
MCSpec == MCInit /\ [][MCNext]_allVars

Symmetry == Permutations(Data)

\* A runner is known by its entry in the collector or by what it does, and by nothing else.
Info(r) == IF r = None THEN None ELSE <<job[r], r \in stopped, r \in alive>>
InCollector == {collector[k] : k \in DOMAIN collector}
Observed ==
    <<nc, queue, panicked, [k \in DOMAIN collector |-> Info(collector[k])],
      {<<k, l>> \in (DOMAIN collector) \X (DOMAIN collector) : collector[k] = collector[l]},
      {<<Info(r), Cardinality({q \in alive \ InCollector : Info(q) = Info(r)})>> : r \in alive \ InCollector},
      process, templateVars>>
=============================================================================
