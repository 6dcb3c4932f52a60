------------------------- MODULE NodeConfigTemplate -------------------------
(***************************************************************************)
(* The NodeConfigTemplate controller of wao-core: it makes a NodeConfig    *)
(* out of a template for every node that the template selects.             *)
(*                                                                         *)
(* The controller has one worker.  It takes a template from its queue,     *)
(* lists the nodes, and creates or updates their NodeConfigs one by one    *)
(* while nodes, templates and NodeConfigs go on changing.  A template's    *)
(* spec is a sequence of text fields in the order in which they are        *)
(* parsed; a node is known by its label and by the data its fields refer   *)
(* to.                                                                     *)
(***************************************************************************)
EXTENDS ClusterNodes, FiniteSets

CONSTANTS
    Templates,   \* names of NodeConfigTemplate objects
    TemplateNodes,   \* the nodes that they may select
    Labels,      \* node labels that templates select
    ObjectName,  \* <<template, node>> -> name "template-node" of its NodeConfig
    Data,        \* template data of a node (hostname, addresses)
    Raw,         \* texts of a field: "", "{{.Hostname}}", other text
    NumFields,   \* text fields of a NodeConfigSpec
    MaxUID       \* bound on the number of templates created, for model checking

VARIABLES
    nct,         \* template name -> NodeConfigTemplate or None
    node,        \* node name -> node or None
    objects,     \* name -> the NodeConfig of that name or None
    uids,        \* number of templates created so far
    templateQueue,   \* the controller's work queue
    nodeEvents,  \* nodes with an event that has not been mapped yet
    active,      \* the Reconcile that is running, or None
    tmpl,        \* the body of the global template object
    missed       \* history: <<template, node>> whose last reconcileNodeConfig failed, or
                 \* that the mapping of a node event left out, since the last Start

templateVars == <<nct, node, objects, uids, templateQueue, nodeEvents, active, tmpl, missed>>

Fields == 1 .. NumFields
Pairs == Templates \X TemplateNodes

Names == {ObjectName[p] : p \in Pairs}

NCT == [uid : 1 .. MaxUID, label : Labels, fields : [Fields -> Raw]]
Node == [label : Labels \cup {None}, data : Data]
NC == [owner : [name : Templates, uid : 1 .. MaxUID], fields : [Fields -> Raw \cup Data]]
Run == [name : Templates, nct : NCT, todo : SUBSET TemplateNodes, data : [TemplateNodes -> Data \cup {None}]]

ASSUME TemplateConstants ==
    /\ "" \in Raw /\ NumFields \in Nat \ {0} /\ MaxUID \in Nat
    /\ None \notin NC /\ None \notin Run
    /\ \A t \in Templates, m, n \in TemplateNodes : ObjectName[<<t, m>>] = ObjectName[<<t, n>>] => m = n

\* Every variable has its type.
TemplateTypeOK ==
    /\ nct \in [Templates -> NCT \cup {None}]
    /\ node \in [TemplateNodes -> Node \cup {None}]
    /\ objects \in [Names -> NC \cup {None}]
    /\ uids \in 0 .. MaxUID
    /\ templateQueue \subseteq Templates
    /\ nodeEvents \subseteq TemplateNodes
    /\ active = None \/ active \in Run
    /\ tmpl \in Raw
    /\ missed \subseteq Pairs

TemplateInit ==
    /\ nct = [t \in Templates |-> None]
    /\ node = [n \in TemplateNodes |-> None]
    /\ objects = [k \in Names |-> None]
    /\ uids = 0
    /\ templateQueue = {}
    /\ nodeEvents = {}
    /\ active = None
    /\ tmpl = ""
    /\ missed = {}

-----------------------------------------------------------------------------
(* Template parsing. *)

\* The body that is executed for field i: Parse replaces the body of the global template
\* object unless the text is empty, in which case the last body stays.
Body(fields, i) ==
    LET parsed == {j \in 1 .. i : fields[j] # ""}
    IN  IF parsed = {} THEN tmpl
        ELSE fields[CHOOSE j \in parsed : \A k \in parsed : k <= j]

Execute(body, data) == IF body = "{{.Hostname}}" THEN data ELSE body

\* TemplateParseNodeConfig.
Rendered(fields, data) == [i \in Fields |-> Execute(Body(fields, i), data)]

-----------------------------------------------------------------------------
(* The API objects and the watches. *)

\* A template is created, with a new UID, or changed.
ApplyTemplate(t) ==
    /\ \E l \in Labels, fs \in [Fields -> Raw] :
        IF nct[t] = None
        THEN /\ uids < MaxUID
             /\ uids' = uids + 1
             /\ nct' = [nct EXCEPT ![t] = [uid |-> uids', label |-> l, fields |-> fs]]
        ELSE /\ nct' = [nct EXCEPT ![t] = [@ EXCEPT !.label = l, !.fields = fs]]
             /\ UNCHANGED uids
    /\ templateQueue' = templateQueue \cup {t}
    /\ UNCHANGED <<node, objects, nodeEvents, active, tmpl, missed>>

DeleteTemplate(t) ==
    /\ nct[t] # None
    /\ nct' = [nct EXCEPT ![t] = None]
    /\ templateQueue' = templateQueue \cup {t}
    /\ UNCHANGED <<node, objects, uids, nodeEvents, active, tmpl, missed>>

\* A node joins, changes or leaves.
ChangeNode(n) ==
    /\ \E x \in Node \cup {None} : node' = [node EXCEPT ![n] = x]
    /\ nodeEvents' = nodeEvents \cup {n}
    /\ UNCHANGED <<nct, objects, uids, templateQueue, active, tmpl, missed>>

\* Somebody edits or deletes a NodeConfig, or the garbage collector deletes one whose
\* owner is gone; the watch enqueues the template that its owner reference names.
ChangeNodeConfig(k) ==
    /\ objects[k] # None
    /\ \/ objects' = [objects EXCEPT ![k] = None]
       \/ \E fs \in [Fields -> Raw \cup Data] : objects' = [objects EXCEPT ![k].fields = fs]
    /\ templateQueue' = templateQueue \cup {objects[k].owner.name}
    /\ UNCHANGED <<nct, node, uids, nodeEvents, active, tmpl, missed>>

\* The templates that select node n.
Matching(n) == {t \in Templates : nct[t] # None /\ node[n] # None /\ nct[t].label = node[n].label}

\* The NodeConfig of a template and a node, or None.
NodeConfigOf(t, n) == objects[ObjectName[<<t, n>>]]

\* Mutant of MapNode: an update of a node that has its NodeConfig is ignored.
MapNodeOnce(n) ==
    /\ n \in nodeEvents
    /\ nodeEvents' = nodeEvents \ {n}
    /\ templateQueue' = templateQueue \cup {t \in Matching(n) : NodeConfigOf(t, n) = None \/ NodeConfigOf(t, n).owner.name # t}
    /\ UNCHANGED <<nct, node, objects, uids, active, tmpl, missed>>

\* mapFuncNodeToNodeConfigTemplate: enqueue the first template of the list that selects
\* the node, or nothing when the node or the list cannot be read.  The list comes from a
\* cache in no particular order.
MapNode(n) ==
    /\ n \in nodeEvents
    /\ nodeEvents' = nodeEvents \ {n}
    /\ \/ /\ missed' = missed \cup Matching(n) \X {n}
          /\ UNCHANGED templateQueue
       \/ \E t \in Matching(n) : /\ templateQueue' = templateQueue \cup {t}
                                 /\ missed' = missed \cup (Matching(n) \ {t}) \X {n}
    /\ UNCHANGED <<nct, node, objects, uids, active, tmpl>>

-----------------------------------------------------------------------------
(* Reconcile. *)

\* A Reconcile of t that finds the template as it is and the nodes it selects.
Listed(t) == [name |-> t, nct |-> nct[t],
              todo |-> {n \in TemplateNodes : t \in Matching(n)},
              data |-> [n \in TemplateNodes |-> IF node[n] = None THEN None ELSE node[n].data]]

\* Get the template and list the nodes it selects; nothing to do for one that is gone.
\* (A Reconcile in which either fails is queued again: no step of this specification.)
Start(t) ==
    /\ active = None
    /\ t \in templateQueue
    /\ templateQueue' = templateQueue \ {t}
    /\ active' = IF nct[t] = None THEN None ELSE Listed(t)
    /\ missed' = missed \ ({t} \X TemplateNodes)
    /\ UNCHANGED <<nct, node, objects, uids, nodeEvents, tmpl>>

\* Mutant of Written: a NodeConfig that exists keeps its owner reference.
WrittenOnce(n) ==
    [owner |-> IF NodeConfigOf(active.name, n) = None THEN [name |-> active.name, uid |-> active.nct.uid]
               ELSE NodeConfigOf(active.name, n).owner,
     fields |-> Rendered(active.nct.fields, active.data[n])]

\* What reconcileNodeConfig makes of the NodeConfig of a node.
Written(n) == [owner |-> [name |-> active.name, uid |-> active.nct.uid],
               fields |-> Rendered(active.nct.fields, active.data[n])]

\* reconcileNodeConfig for one of the nodes: CreateOrUpdate succeeds unless the NodeConfig
\* is controlled by a template of another name.  SetControllerReference compares group, kind
\* and name, so a template that was deleted and created again takes the NodeConfig over.
\* The change comes back through the watch.
ReconcileTemplateNode(n) ==
    /\ active # None
    /\ n \in active.todo
    /\ NodeConfigOf(active.name, n) # None => NodeConfigOf(active.name, n).owner.name = active.name
    /\ active' = [active EXCEPT !.todo = @ \ {n}]
    /\ tmpl' = Body(active.nct.fields, NumFields)
    /\ objects' = [objects EXCEPT ![ObjectName[<<active.name, n>>]] = Written(n)]
    /\ templateQueue' = IF objects' # objects THEN templateQueue \cup {active.name} ELSE templateQueue
    /\ UNCHANGED <<nct, node, uids, nodeEvents, missed>>

\* The API server answers an error, or the NodeConfig belongs to another template: the error
\* is logged, and the loop goes on with the next node.
ReconcileTemplateNodeFails(n) ==
    /\ active # None
    /\ n \in active.todo
    /\ active' = [active EXCEPT !.todo = @ \ {n}]
    /\ tmpl' \in {tmpl, Body(active.nct.fields, NumFields)}
    /\ missed' = missed \cup {<<active.name, n>>}
    /\ UNCHANGED <<nct, node, objects, uids, templateQueue, nodeEvents>>

\* Reconcile returns nil.
Finish ==
    /\ active # None
    /\ active.todo = {}
    /\ active' = None
    /\ UNCHANGED <<nct, node, objects, uids, templateQueue, nodeEvents, tmpl, missed>>

TemplateNext ==
    \/ \E t \in Templates : ApplyTemplate(t) \/ DeleteTemplate(t) \/ Start(t)
    \/ \E n \in TemplateNodes : \/ ChangeNode(n) \/ MapNode(n)
                        \/ ReconcileTemplateNode(n) \/ ReconcileTemplateNodeFails(n)
    \/ \E k \in Names : ChangeNodeConfig(k)
    \/ Finish

TemplateSpec == TemplateInit /\ [][TemplateNext]_templateVars

-----------------------------------------------------------------------------

\* Nothing is left to do for a template.
Settled(t) == t \notin templateQueue /\ (active = None \/ active.name # t)

\* When the events of a node and the queued reconciliations of a template that selects it
\* have been worked off, the node has the NodeConfig that the template asks for, whatever
\* changed meanwhile.  The code gives two pairs up: one whose write failed, as Reconcile
\* returns no error, and one that mapFuncNodeToNodeConfigTemplate did not enqueue.  (A write
\* fails for good when the name "template-node" belongs to another template.)
Converged ==
    \A t \in Templates, n \in TemplateNodes \ nodeEvents :
        (t \in Matching(n) /\ Settled(t) /\ <<t, n>> \notin missed) =>
            /\ NodeConfigOf(t, n) # None
            /\ \A i \in Fields : nct[t].fields[i] # "" =>
                 NodeConfigOf(t, n).fields[i] = Execute(nct[t].fields[i], node[n].data)

\* Such a NodeConfig is owned by the template that exists now, so that the garbage collector
\* leaves it alone: a template that is deleted and created again, possibly while a Reconcile
\* that read the old one is still writing, ends up as the owner of its NodeConfigs.
Owned ==
    \A t \in Templates, n \in TemplateNodes \ nodeEvents :
        (t \in Matching(n) /\ Settled(t) /\ <<t, n>> \notin missed) =>
            NodeConfigOf(t, n).owner = [name |-> t, uid |-> nct[t].uid]

-----------------------------------------------------------------------------
(* What the README claims. *)

\* A field that is left empty stays empty ('endpoint: ""  # Endpoint provider will set this.').
EmptyStaysEmpty ==
    \A t \in Templates, n \in TemplateNodes \ nodeEvents :
        (t \in Matching(n) /\ Settled(t) /\ <<t, n>> \notin missed) =>
            \A i \in Fields : nct[t].fields[i] = "" => NodeConfigOf(t, n).fields[i] = ""
=============================================================================
