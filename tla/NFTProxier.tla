---------------------------- MODULE NFTProxier ----------------------------
(***************************************************************************)
(* The nftables proxier of wao-loadbalancer: the watch handlers record     *)
(* changes of Services, EndpointSlices and the Node, and syncProxyRules    *)
(* turns them into one nftables transaction, full or partial.  The proxier *)
(* may crash at any moment; what it wrote to the kernel stays.             *)
(*                                                                         *)
(* A Service is a record of its ClusterIP frontend, its external frontends *)
(* (external IPs, load-balancer IPs, node ports) and its two traffic       *)
(* policies.  An EndpointSlice is its set of ready endpoints and its set   *)
(* of endpoints that terminate but still serve.  A chain is <<kind,        *)
(* service, endpoint>>, and its rules are pairs of a target and a weight.  *)
(* The elements of all maps and sets are pairs <<<<container, key>>,       *)
(* value>>.                                                                *)
(***************************************************************************)
EXTENDS Naturals

CONSTANTS
  Services,   \* names of Services (one port each)
  Specs,      \* Specs[s]: what the Service s may be, when it exists
  Endpoints,  \* endpoint addresses
  Slices,     \* Slices[s]: what the EndpointSlice of s may be
  Local,      \* the endpoints that run on this node
  Hint,       \* Hint[e]: the zone the endpoint is hinted for, None without a hint
  Zones,      \* values of this node's zone label
  MaxScore,   \* the largest score, 100 in the code
  MaxChanges, \* bound: watch events that one run of the proxy sees
  MaxFaults,  \* bound: failed nft calls and crashes, altogether
  None

ASSUME ProxierConstants ==
  /\ DOMAIN Specs = Services
  /\ \A s \in Services : \A p \in Specs[s] : p.ip \notin p.ext
  /\ Slices \in [Services -> SUBSET [ready : SUBSET Endpoints, terminating : SUBSET Endpoints]]
  /\ \A s \in Services : [ready |-> {}, terminating |-> {}] \in Slices[s] /\ None \notin Specs[s]
  /\ Local \subseteq Endpoints
  /\ DOMAIN Hint = Endpoints
  /\ MaxScore \in Nat \ {0} /\ MaxChanges \in Nat /\ MaxFaults \in Nat

VARIABLES
  svcObj,        \* the Services as the handlers last saw them
  svcPortMap,    \* proxier.svcPortMap
  pending,       \* endpointSliceCache: pending data of a Service's slice
  endpointsMap,  \* proxier.endpointsMap, the applied data of the slices
  nodeLabels,    \* the node's zone label
  svcHandler, epHandler,  \* a handler recorded a change, Sync() not decided yet
  svcSynced, epSynced,    \* "wait", "set" (flag stored, sync to run), "done"
  queued,        \* the sync runner has a run to do
  needFullSync,
  pc,            \* where syncProxyRules is; "idle" when proxier.mu is free
  updated,       \* UpdatedServices of the sync in progress
  scores,        \* waoLB.Scores; a missing score is 0
  elements,      \* nftElementStorage.elements, all containers
  staleChains,   \* the keys of proxier.staleChains
  staleOld,      \* their timestamp is more than a second ago
  kElements,     \* kernel: the elements of the maps and sets
  kChains,       \* kernel: the rules of every service chain that exists
  changes, faults  \* counted against MaxChanges and MaxFaults

watch == <<svcObj, pending, svcHandler, epHandler>>
synced == <<svcSynced, epSynced>>
stale == <<staleChains, staleOld>>
kernel == <<kElements, kChains>>
bounds == <<changes, faults>>
vars == <<watch, svcPortMap, endpointsMap, nodeLabels, synced, queued, needFullSync,
          pc, updated, scores, elements, stale, kernel, bounds>>

Keys == UNION {{p.ip} \cup p.ext : p \in UNION {Specs[s] : s \in Services}}
Chain(kind, s) == <<kind, s, None>>
EndpointChain(s, e) == <<"endpoint", s, e>>
Dnat(s, e) == <<"dnat", s, e>>
Verdict(v) == <<v, None, None>>
NoScores == [s \in Services |-> [e \in Endpoints |-> 0]]
Change == changes < MaxChanges /\ changes' = changes + 1 /\ UNCHANGED faults
Fault == faults < MaxFaults /\ faults' = faults + 1
initialized == svcSynced # "wait" /\ epSynced # "wait"

-----------------------------------------------------------------------------
(* What one Service needs in the kernel.                                   *)

UsesClusterEndpoints(p) == ~p.intLocal \/ p.ext # {}
UsesLocalEndpoints(p) == p.intLocal \/ (p.extLocal /\ p.ext # {})

\* Every ready endpoint has a hint, and one of them for this node's zone.
canUseTopology(E) == (\A e \in E : Hint[e] # None) /\ \E e \in E : Hint[e] = nodeLabels

\* CategorizeEndpoints; the union of the two is what is locally reachable.  Terminating
\* endpoints are used when there is no ready one, in the cluster or on this node.
ClusterEndpoints(s) ==
  LET E == endpointsMap[s].ready
  IN  IF ~UsesClusterEndpoints(svcPortMap[s]) THEN {}
      ELSE IF E = {} THEN endpointsMap[s].terminating
      ELSE IF canUseTopology(E) THEN {e \in E : Hint[e] = nodeLabels}
      ELSE E
LocalEndpoints(s) ==
  IF ~UsesLocalEndpoints(svcPortMap[s]) THEN {}
  ELSE IF endpointsMap[s].ready \cap Local # {} THEN endpointsMap[s].ready \cap Local
  ELSE endpointsMap[s].terminating \cap Local
HasEndpoints(s) == endpointsMap[s].ready # {} \/ endpointsMap[s].terminating # {}
HasInternal(s) == HasEndpoints(s) /\ (svcPortMap[s].intLocal => LocalEndpoints(s) # {})
HasExternal(s) == HasEndpoints(s) /\ (svcPortMap[s].extLocal => LocalEndpoints(s) # {})
PolicyChain(s, local) == Chain(IF local THEN "local" ELSE "cluster", s)

ServiceChains(s) ==
  {EndpointChain(s, e) : e \in ClusterEndpoints(s) \cup LocalEndpoints(s)}
  \cup (IF ClusterEndpoints(s) # {} THEN {Chain("cluster", s)} ELSE {})
  \cup (IF LocalEndpoints(s) # {} THEN {Chain("local", s)} ELSE {})
  \cup (IF HasEndpoints(s) /\ svcPortMap[s].ext # {} THEN {Chain("external", s)} ELSE {})

\* A packet for a frontend without usable endpoints is rejected when the
\* Service has none anywhere, and dropped when it only has none here.
NoEndpointVerdict(s) == Verdict(IF HasEndpoints(s) THEN "drop" ELSE "reject")

ServiceElements(s) ==
  LET p == svcPortMap[s]
  IN  {<<<<"clusterIPs", p.ip>>, Verdict("member")>>}
      \cup {IF HasInternal(s)
              THEN <<<<"services", p.ip>>, PolicyChain(s, p.intLocal)>>
              ELSE <<<<"noEndpoints", p.ip>>, NoEndpointVerdict(s)>>}
      \cup {<<<<"services", k>>, Chain("external", s)>> :
              k \in IF HasEndpoints(s) THEN p.ext ELSE {}}
      \cup {<<<<"noEndpoints", k>>, NoEndpointVerdict(s)>> :
              k \in IF HasExternal(s) THEN {} ELSE p.ext}

\* The load-balancing rule: by score if some endpoint has a positive one,
\* leaving out those that have not; evenly otherwise.
writeServiceToEndpointRules(s, E) ==
  LET scored == {e \in E : scores[s][e] > 0}
  IN  IF scored # {}
        THEN {<<EndpointChain(s, e), scores[s][e]>> : e \in scored}
        ELSE {<<EndpointChain(s, e), 1>> : e \in E}

Rules(c) ==
  LET s == c[2]
  IN  CASE c[1] = "endpoint" -> {<<Dnat(s, c[3]), 1>>}
        [] c[1] = "cluster" -> writeServiceToEndpointRules(s, ClusterEndpoints(s))
        [] c[1] = "local" -> writeServiceToEndpointRules(s, LocalEndpoints(s))
        [] c[1] = "external" ->
             {<<Chain("cluster", s), 1>>}
             \cup (IF HasExternal(s) THEN {<<PolicyChain(s, svcPortMap[s].extLocal), 1>>} ELSE {})

-----------------------------------------------------------------------------
(* The transaction of a sync, from what is in memory and the listing of    *)
(* the chains in the kernel.                                               *)

Active == {s \in Services : svcPortMap[s] # None}
Skipped == IF needFullSync THEN {} ELSE Active \ updated
ActiveChains == UNION {ServiceChains(s) : s \in Active}
EnsuredChains == UNION {ServiceChains(s) : s \in Active \ Skipped}
Wanted == UNION {ServiceElements(s) : s \in Active}

\* Mutant of StorageBefore: a full sync keeps the contents of the storages.
StorageNotReset == elements
\* nftElementStorage.reset: a full sync flushes the containers first.
StorageBefore == IF needFullSync THEN {} ELSE elements
FlushedElements == IF needFullSync THEN {} ELSE kElements
\* ensureElem and cleanupLeftoverKeys
AddedElements == Wanted \ StorageBefore
DeletedKeys == {x[1] : x \in StorageBefore \ Wanted}

StaleInKernel == DOMAIN kChains \ ActiveChains
ElementsAfter ==
  LET deleted == DeletedKeys
  IN  {x \in FlushedElements : x[1] \notin deleted} \cup AddedElements
ChainsAfter(listed) ==
  LET ensured == EnsuredChains
      flushed == IF listed THEN StaleInKernel ELSE {}
  IN  [c \in DOMAIN kChains \cup ensured |->
         IF c \in ensured THEN Rules(c) ELSE IF c \in flushed THEN {} ELSE kChains[c]]

References(E, C) == {x[2] : x \in E} \cup UNION {{r[1] : r \in C[c]} : c \in DOMAIN C}
IsChain(t) == t[1] \in {"cluster", "local", "external", "endpoint"}

\* What the kernel demands of the transaction: a deleted element exists, an
\* added one is new or the same, and no rule or element leads nowhere.
TransactionValid(listed) ==
  /\ DeletedKeys \subseteq {x[1] : x \in FlushedElements}
  /\ \A x, y \in ElementsAfter : x[1] = y[1] => x = y
  /\ {t \in References(ElementsAfter, ChainsAfter(listed)) : IsChain(t)}
       \subseteq DOMAIN ChainsAfter(listed)

-----------------------------------------------------------------------------
(* NewProxier: nothing in memory; also the state after a restart.          *)

NoObjects == [s \in Services |-> None]
NoEndpoints == [s \in Services |-> [ready |-> {}, terminating |-> {}]]

Init ==
  /\ svcObj = NoObjects /\ svcPortMap = NoObjects
  /\ pending = NoObjects /\ endpointsMap = NoEndpoints
  /\ nodeLabels = None
  /\ svcHandler = FALSE /\ epHandler = FALSE
  /\ svcSynced = "wait" /\ epSynced = "wait"
  /\ queued = FALSE /\ needFullSync = TRUE
  /\ pc = "idle" /\ updated = {} /\ scores = NoScores
  /\ elements = {} /\ staleChains = {} /\ staleOld = FALSE
  /\ kElements = {} /\ kChains = [c \in {} |-> {}]
  /\ changes = 0 /\ faults = 0

-----------------------------------------------------------------------------
(* The watch handlers.  Recording a change and deciding whether to call    *)
(* Sync() are two steps: the trackers have their own locks.                *)

\* The API server gives a frontend to one Service at a time.
KeysOf(p) == {p.ip} \cup p.ext
Free(s, p) == \A t \in Services \ {s} : svcObj[t] # None => KeysOf(svcObj[t]) \cap KeysOf(p) = {}

\* ServiceChangeTracker.Update: the tracker holds the Services that differ
\* from svcPortMap (a change that is undone disappears).
OnServiceUpdate(s, p) ==
  /\ Change
  /\ ~svcHandler /\ svcObj[s] # p
  /\ p # None => Free(s, p)
  /\ svcObj' = [svcObj EXCEPT ![s] = p]
  /\ svcHandler' = (svcObj' # svcPortMap)
  /\ UNCHANGED <<pending, epHandler, svcPortMap, endpointsMap, nodeLabels, synced, queued,
                 needFullSync, pc, updated, scores, elements, stale, kernel>>

OnServiceUpdateSync ==
  /\ svcHandler /\ svcHandler' = FALSE
  /\ queued' = (queued \/ initialized)
  /\ UNCHANGED <<svcObj, pending, epHandler, svcPortMap, endpointsMap, nodeLabels, synced,
                 needFullSync, pc, updated, scores, elements, stale, kernel, bounds>>

\* EndpointSliceUpdate: compared with the pending data, else the applied
\* data (a change that is undone stays pending).
LastSlice(s) == IF pending[s] # None THEN pending[s] ELSE endpointsMap[s]
OnEndpointSliceUpdate(s, E) ==
  /\ Change
  /\ ~epHandler /\ LastSlice(s) # E
  /\ pending' = [pending EXCEPT ![s] = E]
  /\ epHandler' = TRUE
  /\ UNCHANGED <<svcObj, svcHandler, svcPortMap, endpointsMap, nodeLabels, synced, queued,
                 needFullSync, pc, updated, scores, elements, stale, kernel>>

OnEndpointSliceUpdateSync ==
  /\ epHandler /\ epHandler' = FALSE
  /\ queued' = (queued \/ initialized)
  /\ UNCHANGED <<svcObj, pending, svcHandler, svcPortMap, endpointsMap, nodeLabels, synced,
                 needFullSync, pc, updated, scores, elements, stale, kernel, bounds>>

\* Mutant of OnNode: no full sync is asked for.
OnNodePartial(z) ==
  /\ Change
  /\ pc = "idle" /\ (nodeLabels # z \/ z = None)
  /\ nodeLabels' = z /\ queued' = TRUE
  /\ UNCHANGED <<watch, svcPortMap, endpointsMap, synced, needFullSync, pc, updated, scores,
                 elements, stale, kernel>>
\* OnNodeAdd and OnNodeUpdate when the labels differ, and OnNodeDelete; all
\* take proxier.mu.
OnNode(z) ==
  /\ Change
  /\ pc = "idle" /\ (nodeLabels # z \/ z = None)
  /\ nodeLabels' = z /\ needFullSync' = TRUE /\ queued' = TRUE
  /\ UNCHANGED <<watch, svcPortMap, endpointsMap, synced, pc, updated, scores, elements,
                 stale, kernel>>

\* The flag is stored under proxier.mu, which is released before the sync.
OnServiceSynced ==
  /\ pc = "idle" /\ svcSynced = "wait" /\ svcSynced' = "set"
  /\ UNCHANGED <<watch, svcPortMap, endpointsMap, nodeLabels, epSynced, queued, needFullSync,
                 pc, updated, scores, elements, stale, kernel, bounds>>

OnEndpointSlicesSynced ==
  /\ pc = "idle" /\ epSynced = "wait" /\ epSynced' = "set"
  /\ UNCHANGED <<watch, svcPortMap, endpointsMap, nodeLabels, svcSynced, queued, needFullSync,
                 pc, updated, scores, elements, stale, kernel, bounds>>

-----------------------------------------------------------------------------
(* syncProxyRules, under proxier.mu from Start to Commit.                  *)

\* The start of a sync: returns at once before initialization, else takes
\* the changes of the Services.
Start ==
  /\ pc = "idle"
  /\ IF initialized
       THEN /\ pc' = "endpoints"
            /\ updated' = {s \in Services : svcObj[s] # svcPortMap[s]}
            /\ svcPortMap' = svcObj
       ELSE UNCHANGED <<pc, updated, svcPortMap>>
  /\ UNCHANGED <<watch, endpointsMap, nodeLabels, needFullSync, scores, elements, stale, kernel, bounds>>

\* The sync runner runs because Sync() or RetryAfter() asked it to, or
\* because its maximal interval is over.
RunnerSync == Start /\ queued' = FALSE /\ UNCHANGED synced
ServiceSyncedSync ==
  Start /\ svcSynced = "set" /\ svcSynced' = "done" /\ UNCHANGED <<epSynced, queued>>
EndpointSlicesSyncedSync ==
  Start /\ epSynced = "set" /\ epSynced' = "done" /\ UNCHANGED <<svcSynced, queued>>

\* endpointsMap.Update, then the transaction that deletes the chains that
\* have been stale for a second.  The kernel refuses to delete a chain that
\* has rules or is referenced; the entries are dropped either way.
Deletable(C) ==
  /\ \A c \in C : kChains[c] = {}
  /\ C \cap References(kElements, kChains) = {}
\* Mutant of DeleteStale: the entries stay when the chains are deleted.
DeleteStaleKeepingEntries ==
  \/ ~staleOld /\ UNCHANGED <<stale, kChains, faults>>
  \/ /\ staleOld /\ Deletable(staleChains) /\ UNCHANGED <<stale, faults>>
     /\ kChains' = [c \in DOMAIN kChains \ staleChains |-> kChains[c]]
DeleteStale ==
  \/ ~staleOld /\ UNCHANGED <<stale, kChains, faults>>
  \/ /\ staleOld /\ staleChains' = {} /\ staleOld' = FALSE
     /\ \/ (IF Deletable(staleChains) THEN Fault ELSE UNCHANGED faults) /\ UNCHANGED kChains
        \/ /\ Deletable(staleChains) /\ UNCHANGED faults
           /\ kChains' = [c \in DOMAIN kChains \ staleChains |-> kChains[c]]
UpdateEndpoints ==
  /\ pc = "endpoints" /\ pc' = "score"
  /\ updated' = updated \cup {s \in Services : pending[s] # None}
  /\ endpointsMap' = [s \in Services |-> LastSlice(s)]
  /\ pending' = [s \in Services |-> None]
  /\ DeleteStale
  /\ UNCHANGED <<svcObj, svcHandler, epHandler, svcPortMap, nodeLabels, synced, queued,
                 needFullSync, scores, elements, kElements, changes>>

\* waoLB.Score: whatever the metrics and the predictor answer, for the
\* Services of svcPortMap.  A Service whose scoring fails has no scores.
Score ==
  /\ pc = "score" /\ pc' = "commit"
  /\ scores' \in {f \in [Services -> [Endpoints -> 0 .. MaxScore]] :
                    \A s \in Services \ Active : f[s] = NoScores[s]}
  /\ UNCHANGED <<watch, svcPortMap, endpointsMap, nodeLabels, synced, queued, needFullSync,
                 updated, elements, stale, kernel, bounds>>

\* The storages take the wanted elements while the transaction is built,
\* before it is known whether it runs.
Built ==
  /\ pc = "commit" /\ pc' = "idle" /\ updated' = {}
  /\ elements' = (StorageBefore \cap Wanted) \cup AddedElements

\* The transaction runs.  When listing the chains failed, no chain is
\* flushed and staleChains stays as it is.
Commit(listed) ==
  /\ Built
  /\ TransactionValid(listed)
  /\ kElements' = ElementsAfter
  /\ kChains' = ChainsAfter(listed)
  /\ IF listed
       THEN staleChains' = StaleInKernel /\ staleOld' = FALSE /\ UNCHANGED faults
       ELSE Fault /\ UNCHANGED stale
  /\ needFullSync' = FALSE
  /\ UNCHANGED <<watch, svcPortMap, endpointsMap, nodeLabels, synced, queued, scores, changes>>

\* Mutant of CommitFails: no retry is scheduled.
CommitFailsForGood ==
  /\ Built /\ Fault
  /\ staleChains' = {} /\ staleOld' = FALSE
  /\ needFullSync' = TRUE
  /\ UNCHANGED <<watch, svcPortMap, endpointsMap, nodeLabels, synced, queued, scores, kernel, changes>>
\* The transaction fails: nothing is written, the sync is retried, in full.
CommitFails ==
  /\ Built /\ Fault
  /\ staleChains' = {} /\ staleOld' = FALSE
  /\ needFullSync' = TRUE /\ queued' = TRUE
  /\ UNCHANGED <<watch, svcPortMap, endpointsMap, nodeLabels, synced, scores, kernel, changes>>

\* More than a second passes before the next sync; all entries of staleChains have one timestamp.
Age ==
  /\ pc = "idle" /\ staleChains # {} /\ ~staleOld /\ staleOld' = TRUE
  /\ UNCHANGED <<watch, svcPortMap, endpointsMap, nodeLabels, synced, queued, needFullSync,
                 pc, updated, scores, elements, staleChains, kernel, bounds>>

\* The proxy crashes and starts again.
Restart ==
  /\ svcObj' = NoObjects /\ svcPortMap' = NoObjects
  /\ pending' = NoObjects /\ endpointsMap' = NoEndpoints
  /\ nodeLabels' = None
  /\ svcHandler' = FALSE /\ epHandler' = FALSE
  /\ svcSynced' = "wait" /\ epSynced' = "wait"
  /\ queued' = FALSE /\ needFullSync' = TRUE
  /\ pc' = "idle" /\ updated' = {} /\ scores' = NoScores
  /\ elements' = {} /\ staleChains' = {} /\ staleOld' = FALSE
  /\ Fault /\ changes' = 0 /\ UNCHANGED kernel

Next ==
  \/ \E s \in Services : \/ \E p \in Specs[s] \cup {None} : OnServiceUpdate(s, p)
                        \/ \E E \in Slices[s] : OnEndpointSliceUpdate(s, E)
  \/ OnServiceUpdateSync \/ OnEndpointSliceUpdateSync
  \/ \E z \in Zones \cup {None} : OnNode(z)
  \/ OnServiceSynced \/ OnEndpointSlicesSynced
  \/ RunnerSync \/ ServiceSyncedSync \/ EndpointSlicesSyncedSync
  \/ UpdateEndpoints \/ Score
  \/ \E listed \in BOOLEAN : Commit(listed)
  \/ CommitFails \/ Age \/ Restart

Spec == Init /\ [][Next]_vars

-----------------------------------------------------------------------------
(* Properties.                                                             *)

Chains == {Chain(k, s) : k \in {"cluster", "local", "external"}, s \in Services}
          \cup {EndpointChain(s, e) : s \in Services, e \in Endpoints}
ElementSet ==
  ({"clusterIPs", "services", "noEndpoints"} \X Keys)
    \X (Chains \cup {Verdict(v) : v \in {"member", "reject", "drop"}})

\* The shape of the proxier's fields and of the kernel's tables; the stale
\* chains of syncProxyRules are chains the kernel has.
TypeOK ==
  /\ \A s \in Services : /\ svcObj[s] \in Specs[s] \cup {None}
                         /\ svcPortMap[s] \in Specs[s] \cup {None}
                         /\ pending[s] \in Slices[s] \cup {None}
                         /\ endpointsMap[s] \in Slices[s]
  /\ nodeLabels \in Zones \cup {None}
  /\ {svcHandler, epHandler, queued, needFullSync, staleOld} \subseteq BOOLEAN
  /\ {svcSynced, epSynced} \subseteq {"wait", "set", "done"}
  /\ pc \in {"idle", "endpoints", "score", "commit"}
  /\ updated \subseteq Services
  /\ scores \in [Services -> [Endpoints -> 0 .. MaxScore]]
  /\ elements \subseteq ElementSet /\ kElements \subseteq ElementSet
  /\ DOMAIN kChains \subseteq Chains
  /\ staleChains \subseteq DOMAIN kChains

\* Where the kernel sends a packet for a frontend: the endpoints reached
\* from its map element (external, policy and endpoint chains: three hops).
Targets(C) == UNION {{r[1] : r \in kChains[c]} : c \in C \cap DOMAIN kChains}
Value(m, k) == {x[2] : x \in {y \in kElements : y[1] = <<m, k>>}}
Destinations(k) ==
  LET one == Targets(Value("services", k))
      two == Targets(one)
  IN  {t \in one \cup two \cup Targets(two) : t[1] = "dnat"}

\* The endpoints that may serve a frontend of s under its traffic policy.
Eligible(s, k) ==
  LET p == svcPortMap[s]
      Preferred(E, F) == IF E # {} THEN E ELSE F
      ready == endpointsMap[s].ready
      terminating == endpointsMap[s].terminating
      near == IF None \in {Hint[e] : e \in ready} THEN {} ELSE {e \in ready : Hint[e] = nodeLabels}
      anywhere == Preferred(near, Preferred(ready, terminating))
      here == Preferred(ready \cap Local, terminating \cap Local)
  IN  IF k = p.ip THEN IF p.intLocal THEN here ELSE anywhere
      ELSE IF p.extLocal THEN anywhere \cup here ELSE anywhere

RoutedAsSpecified(s, k) ==
  LET E == Eligible(s, k)
      none == endpointsMap[s].ready = {} /\ endpointsMap[s].terminating = {}
  IN  /\ Destinations(k) \subseteq {Dnat(s, e) : e \in E}
      /\ E # {} => Destinations(k) # {}
      /\ none <=> Value("noEndpoints", k) = {Verdict("reject")}
      /\ E = {} /\ ~none => Value("noEndpoints", k) = {Verdict("drop")}

\* After a successful sync, full or partial, and until the next: a packet for
\* a frontend in svcPortMap reaches only eligible endpoints of the Service
\* that has the frontend, and some if there are any; it is rejected or
\* dropped otherwise.  A frontend of no Service is not captured
\* (syncProxyRules with skipServiceUpdate, the element storages and the
\* stale chains).
RoutesCurrent ==
  initialized /\ pc = "idle" /\ ~needFullSync =>
    \A k \in Keys :
      /\ \A s \in Active : k \in KeysOf(svcPortMap[s]) => RoutedAsSpecified(s, k)
      /\ (\A s \in Active : k \notin KeysOf(svcPortMap[s]))
           => \A x \in kElements : x[1][2] # k

\* No change is forgotten: once the handlers have returned, the initial syncs
\* have run, no run is queued and no sync is in progress, every change the
\* handlers recorded is in the maps of the last successful sync (the
\* isInitialized() test of the handlers against OnServiceSynced and
\* OnEndpointSlicesSynced, and the retry of a failed sync).
NoLostChange ==
  /\ svcSynced = "done" /\ epSynced = "done" /\ pc = "idle"
  /\ ~svcHandler /\ ~epHandler /\ ~queued
  => /\ ~needFullSync
     /\ svcObj = svcPortMap
     /\ \A s \in Services : pending[s] = None

\* The transaction syncProxyRules has built is one the kernel accepts: the
\* element storages never ask to delete what is not there or to add a second
\* value for a key, and no chain a skipped Service relies on is missing.
TransactionsValid == pc = "commit" => \A listed \in BOOLEAN : TransactionValid(listed)

\* Claim of wao-loadbalancer/README.md: the weight of each node is computed
\* and then updated in the kube-proxy implementation.  After a successful
\* sync the load-balancing rules have the weights of the scores that this
\* sync computed.
WeightsFollowScores ==
  initialized /\ pc = "idle" /\ ~needFullSync =>
    \A s \in Active :
      Chain("cluster", s) \in ServiceChains(s) =>
        kChains[Chain("cluster", s)] = writeServiceToEndpointRules(s, ClusterEndpoints(s))
=============================================================================
