-------------------------- MODULE NFTProxierProofs --------------------------
(***************************************************************************)
(* Proofs about the nftables proxier, for any Services, endpoints, scores  *)
(* and bounds: no change is lost, every transaction that syncProxyRules    *)
(* builds is one that the kernel accepts, and after every successful sync  *)
(* packets go where the Services ask.                                      *)
(*                                                                         *)
(* For the first, Remembered says who still knows of a change once both    *)
(* initial syncs have run.  For the second, the element storages mirror    *)
(* the kernel unless a full sync is due (Mirror), frontends belong to one  *)
(* Service at a time (Apart), a Service that the sync will skip has all    *)
(* its elements in the storages (Written), and no element or rule of the   *)
(* kernel leads to a chain that is not there (Closed).  For the third, the *)
(* chains of such a Service have in them what a sync writes for some       *)
(* scores (Ruled), and between syncs nothing else is in the storages.      *)
(***************************************************************************)
EXTENDS NFTProxier, TLAPS

-----------------------------------------------------------------------------
(* Changes. *)

Shape ==
  /\ DOMAIN svcObj = Services /\ DOMAIN pending = Services
  /\ queued \in BOOLEAN /\ needFullSync \in BOOLEAN /\ svcHandler \in BOOLEAN /\ epHandler \in BOOLEAN
  /\ svcSynced \in {"wait", "set", "done"} /\ epSynced \in {"wait", "set", "done"}

Remembered ==
  svcSynced = "done" /\ epSynced = "done" =>
    /\ svcObj # svcPortMap => svcHandler \/ queued
    /\ (\E s \in Services : pending[s] # None) => epHandler \/ queued \/ pc = "endpoints"
    /\ needFullSync => queued \/ pc # "idle"

LInv == Shape /\ Remembered

\* What the informers deliver is remembered until a sync has read it (the On... handlers).
LEMMA EventsRemember ==
  ASSUME LInv, \/ \E s \in Services : \/ \E p \in Specs[s] \cup {None} : OnServiceUpdate(s, p)
                                      \/ \E E \in Slices[s] : OnEndpointSliceUpdate(s, E)
               \/ OnServiceUpdateSync \/ OnEndpointSliceUpdateSync
               \/ \E z \in Zones \cup {None} : OnNode(z)
               \/ OnServiceSynced \/ OnEndpointSlicesSynced
  PROVE  LInv'
<1>1. CASE \E s \in Services : \E p \in Specs[s] \cup {None} : OnServiceUpdate(s, p)
  <2>0. PICK s \in Services : \E p \in Specs[s] \cup {None} : OnServiceUpdate(s, p)
    BY Zenon, <1>1
  <2>1. PICK p \in Specs[s] \cup {None} : OnServiceUpdate(s, p)
    BY Zenon, <2>0
  <2>2. /\ svcObj' = [svcObj EXCEPT ![s] = p] /\ svcHandler' = (svcObj' # svcPortMap)
        /\ UNCHANGED <<pending, epHandler, svcPortMap, svcSynced, epSynced, queued, needFullSync, pc>>
    BY Zenon, <2>1 DEF OnServiceUpdate, synced
  <2>3. svcHandler' \in BOOLEAN /\ (svcObj' # svcPortMap' => svcHandler')
    BY Zenon, <2>2
  <2>. QED  BY Zenon, <2>2, <2>3 DEF LInv, Shape, Remembered
<1>2. CASE \E s \in Services : \E E \in Slices[s] : OnEndpointSliceUpdate(s, E)
  BY <1>2 DEF LInv, Shape, Remembered, OnEndpointSliceUpdate, synced
<1>3. CASE OnServiceUpdateSync
  BY Zenon, <1>3 DEF LInv, Shape, Remembered, OnServiceUpdateSync, synced, initialized
<1>4. CASE OnEndpointSliceUpdateSync
  BY Zenon, <1>4 DEF LInv, Shape, Remembered, OnEndpointSliceUpdateSync, synced, initialized
<1>5. CASE \E z \in Zones \cup {None} : OnNode(z)
  BY Zenon, <1>5 DEF LInv, Shape, Remembered, OnNode, synced, watch
<1>6. CASE OnServiceSynced \/ OnEndpointSlicesSynced
  BY Zenon, <1>6 DEF LInv, Shape, Remembered, OnServiceSynced, OnEndpointSlicesSynced, watch
<1>. QED  BY Zenon, <1>1, <1>2, <1>3, <1>4, <1>5, <1>6

\* A sync, successful or failed, and a restart lose no change that has been delivered.
LEMMA SyncsRemember ==
  ASSUME LInv, \/ RunnerSync \/ ServiceSyncedSync \/ EndpointSlicesSyncedSync
               \/ UpdateEndpoints \/ Score
               \/ \E listed \in BOOLEAN : Commit(listed)
               \/ CommitFails \/ Age \/ Restart
  PROVE  LInv'
<1>1. CASE RunnerSync
  BY Zenon, <1>1 DEF LInv, Shape, Remembered, RunnerSync, Start, initialized, watch, synced
<1>2. CASE ServiceSyncedSync
  BY Zenon, <1>2 DEF LInv, Shape, Remembered, ServiceSyncedSync, Start, initialized, watch, synced
<1>3. CASE EndpointSlicesSyncedSync
  BY Zenon, <1>3 DEF LInv, Shape, Remembered, EndpointSlicesSyncedSync, Start, initialized, watch, synced
<1>4. CASE UpdateEndpoints
  BY Zenon, <1>4 DEF LInv, Shape, Remembered, UpdateEndpoints, synced
<1>5. CASE Score \/ Age
  BY <1>5 DEF LInv, Shape, Remembered, Score, Age, watch, synced
<1>6. CASE \E listed \in BOOLEAN : Commit(listed)
  <2>1. /\ needFullSync' = FALSE /\ pc = "commit" /\ pc' = "idle"
        /\ UNCHANGED <<svcObj, pending, svcHandler, epHandler, svcPortMap, svcSynced, epSynced, queued>>
    BY Zenon, <1>6 DEF Commit, Built, watch, synced
  <2>. QED  BY Zenon, <2>1 DEF LInv, Shape, Remembered
<1>7. CASE CommitFails
  BY Zenon, <1>7 DEF LInv, Shape, Remembered, CommitFails, Built, watch, synced
<1>8. CASE Restart
  BY Zenon, <1>8 DEF LInv, Shape, Remembered, Restart, NoObjects
<1>. QED  BY Zenon, <1>1, <1>2, <1>3, <1>4, <1>5, <1>6, <1>7, <1>8

\* The handlers' invariant, step by step.
LEMMA ChangeInvariant == Spec => []LInv
<1>1. Init => LInv
  BY Zenon DEF Init, LInv, Shape, Remembered, NoObjects
<1>2. LInv /\ [Next]_vars => LInv'
  <2>1. LInv /\ UNCHANGED vars => LInv'
    BY DEF LInv, Shape, Remembered, vars, watch, synced
  <2>. QED  BY Zenon, <2>1, EventsRemember, SyncsRemember DEF Next
<1>. QED  BY <1>1, <1>2, PTL DEF Spec

\* No change is forgotten, however the handlers, the two initial syncs, failing syncs and
\* restarts interleave (the isInitialized() test of the handlers, the retry of a failed sync).
THEOREM ChangesKept == Spec => []NoLostChange
<1>1. LInv => NoLostChange
  BY Zenon DEF LInv, Shape, Remembered, NoLostChange
<1>. QED  BY <1>1, ChangeInvariant, PTL

-----------------------------------------------------------------------------
(* Transactions. *)

Types ==
  /\ DOMAIN svcObj = Services /\ DOMAIN svcPortMap = Services
  /\ \A s \in Services : svcObj[s] \in Specs[s] \cup {None} /\ svcPortMap[s] \in Specs[s] \cup {None}

Apart(m) ==
  \A s, t \in Services : s # t /\ m[s] # None /\ m[t] # None => KeysOf(m[s]) \cap KeysOf(m[t]) = {}

Functional(E) == \A x, y \in E : x[1] = y[1] => x = y

Closed == {t \in References(kElements, kChains) : IsChain(t)} \subseteq DOMAIN kChains

Mirror == ~needFullSync => elements = kElements

Written == ~needFullSync => \A s \in Active \ updated : ServiceElements(s) \subseteq elements

TInv ==
  /\ Types /\ needFullSync \in BOOLEAN
  /\ Apart(svcObj) /\ Apart(svcPortMap)
  /\ Functional(elements)
  /\ Closed /\ Mirror /\ Written
  /\ pc = "idle" => updated = {}

\* A Service that has endpoints has some for each policy by which it is reached.
LEMMA SomeEndpoints ==
  ASSUME NEW s \in Services
  PROVE  /\ HasEndpoints(s) /\ UsesClusterEndpoints(svcPortMap[s]) => ClusterEndpoints(s) # {}
         /\ HasEndpoints(s) /\ svcPortMap[s].ext # {} => ClusterEndpoints(s) # {}
         /\ HasInternal(s) /\ ~svcPortMap[s].intLocal => ClusterEndpoints(s) # {}
BY Zenon DEF HasEndpoints, HasInternal, ClusterEndpoints, UsesClusterEndpoints, canUseTopology

\* What an element of a Service is: a pair for one of its frontends.
LEMMA ElementKinds ==
  ASSUME NEW s \in Services, NEW x \in ServiceElements(s)
  PROVE  \/ x = <<<<"clusterIPs", svcPortMap[s].ip>>, Verdict("member")>>
         \/ HasInternal(s) /\ x = <<<<"services", svcPortMap[s].ip>>, PolicyChain(s, svcPortMap[s].intLocal)>>
         \/ ~HasInternal(s) /\ x = <<<<"noEndpoints", svcPortMap[s].ip>>, NoEndpointVerdict(s)>>
         \/ HasEndpoints(s) /\ \E k \in svcPortMap[s].ext : x = <<<<"services", k>>, Chain("external", s)>>
         \/ \E k \in svcPortMap[s].ext : x = <<<<"noEndpoints", k>>, NoEndpointVerdict(s)>>
BY Zenon DEF ServiceElements

\* No two Services, and no two elements of one, have the same key.
LEMMA WantedFunctional == ASSUME Types, Apart(svcPortMap) PROVE Functional(Wanted)
<1>. SUFFICES ASSUME NEW x \in Wanted, NEW y \in Wanted, x[1] = y[1] PROVE x = y
  BY Zenon DEF Functional
<1>1. PICK s \in Active : x \in ServiceElements(s)
  BY Zenon DEF Wanted
<1>2. PICK t \in Active : y \in ServiceElements(t)
  BY Zenon DEF Wanted
<1>3. /\ s \in Services /\ svcPortMap[s] # None /\ svcPortMap[s] \in Specs[s]
      /\ t \in Services /\ svcPortMap[t] # None /\ svcPortMap[t] \in Specs[t]
  BY Zenon, <1>1, <1>2 DEF Active, Types
<1>4. x[1][2] \in KeysOf(svcPortMap[s]) /\ y[1][2] \in KeysOf(svcPortMap[t])
  BY <1>1, <1>2, <1>3, ElementKinds DEF KeysOf
<1>5. s = t
  BY Zenon, <1>3, <1>4 DEF Apart
<1>6. svcPortMap[s].ip \notin svcPortMap[s].ext
  BY Zenon, <1>3, ProxierConstants
<1>. QED  BY <1>1, <1>2, <1>3, <1>5, <1>6, ElementKinds

\* The chains that elements and rules of a Service lead to are chains of the Service.
LEMMA ElementsLeadInside ==
  ASSUME NEW s \in Services, NEW x \in ServiceElements(s), IsChain(x[2])
  PROVE  x[2] \in ServiceChains(s)
<1>1. \/ HasInternal(s) /\ x[2] = PolicyChain(s, svcPortMap[s].intLocal)
      \/ HasEndpoints(s) /\ svcPortMap[s].ext # {} /\ x[2] = Chain("external", s)
  BY ElementKinds DEF IsChain, Verdict, NoEndpointVerdict
<1>2. CASE HasInternal(s) /\ x[2] = PolicyChain(s, svcPortMap[s].intLocal)
  BY Zenon, <1>2, SomeEndpoints DEF PolicyChain, ServiceChains, HasInternal
<1>3. CASE HasEndpoints(s) /\ svcPortMap[s].ext # {} /\ x[2] = Chain("external", s)
  BY Zenon, <1>3 DEF ServiceChains
<1>. QED  BY Zenon, <1>1, <1>2, <1>3

\* The rules of a Service's chains jump to chains of that Service only (writeServiceToEndpointRules).
LEMMA RulesLeadInside ==
  ASSUME NEW s \in Services, NEW c \in ServiceChains(s), NEW r \in Rules(c), IsChain(r[1])
  PROVE  r[1] \in ServiceChains(s)
<1>1. \/ \E e \in ClusterEndpoints(s) \cup LocalEndpoints(s) : c = EndpointChain(s, e)
      \/ c = Chain("cluster", s)
      \/ c = Chain("local", s)
      \/ c = Chain("external", s) /\ HasEndpoints(s) /\ svcPortMap[s].ext # {}
  BY Zenon DEF ServiceChains
<1>0. \A E : \A q \in writeServiceToEndpointRules(s, E) : \E e \in E : q[1] = EndpointChain(s, e)
  BY DEF writeServiceToEndpointRules
<1>2. CASE \E e \in ClusterEndpoints(s) \cup LocalEndpoints(s) : c = EndpointChain(s, e)
  BY <1>2 DEF Rules, EndpointChain, Dnat, IsChain
<1>3. CASE c = Chain("cluster", s)
  <2>1. r \in writeServiceToEndpointRules(s, ClusterEndpoints(s))
    BY Zenon, <1>3 DEF Rules, Chain
  <2>. QED  BY <1>0, <2>1 DEF ServiceChains
<1>4. CASE c = Chain("local", s)
  <2>1. r \in writeServiceToEndpointRules(s, LocalEndpoints(s))
    BY Zenon, <1>4 DEF Rules, Chain
  <2>. QED  BY <1>0, <2>1 DEF ServiceChains
<1>5. CASE c = Chain("external", s) /\ HasEndpoints(s) /\ svcPortMap[s].ext # {}
  <2>1. \/ r[1] = Chain("cluster", s)
        \/ HasExternal(s) /\ r[1] = PolicyChain(s, svcPortMap[s].extLocal)
    BY <1>5 DEF Rules, Chain
  <2>2. ClusterEndpoints(s) # {}
    BY Zenon, <1>5, SomeEndpoints
  <2>. QED  BY Zenon, <2>1, <2>2 DEF PolicyChain, ServiceChains, HasExternal
<1>. QED  BY Zenon, <1>1, <1>2, <1>3, <1>4, <1>5

\* The transaction makes the kernel's elements the wanted ones, and so the storages'.
LEMMA AfterIsWanted ==
  ASSUME TInv
  PROVE  /\ ElementsAfter = Wanted
         /\ (StorageBefore \cap Wanted) \cup AddedElements = Wanted
         /\ DeletedKeys \subseteq {x[1] : x \in FlushedElements}
<1>1. (StorageBefore \cap Wanted) \cup AddedElements = Wanted
  BY Zenon DEF AddedElements
<1>2. CASE needFullSync
  BY Zenon, <1>1, <1>2 DEF ElementsAfter, FlushedElements, AddedElements, DeletedKeys, StorageBefore
<1>3. CASE ~needFullSync
  <2>1. StorageBefore = elements /\ FlushedElements = elements /\ Functional(elements)
    BY Zenon, <1>3 DEF StorageBefore, FlushedElements, TInv, Mirror
  <2>2. \A x \in elements : x[1] \notin DeletedKeys <=> x \in Wanted
    BY Zenon, <2>1 DEF DeletedKeys, Functional
  <2>. QED  BY Zenon, <1>1, <2>1, <2>2 DEF ElementsAfter, AddedElements, DeletedKeys
<1>. QED  BY Zenon, <1>2, <1>3 DEF TInv

\* The kernel accepts the transaction of every sync, full or partial, whether chains could be
\* listed or not (syncProxyRules).
LEMMA Valid == ASSUME TInv, NEW listed \in BOOLEAN PROVE TransactionValid(listed)
<1>. DEFINE after == ChainsAfter(listed)
<1>1. DOMAIN after = DOMAIN kChains \cup EnsuredChains
  BY Zenon DEF ChainsAfter
<1>2. \A c \in DOMAIN after : IF c \in EnsuredChains THEN after[c] = Rules(c)
                              ELSE c \in DOMAIN kChains /\ after[c] \subseteq kChains[c]
  BY Zenon DEF ChainsAfter
<1>. HIDE DEF after
<1>3. \A x, y \in ElementsAfter : x[1] = y[1] => x = y
  BY Zenon, AfterIsWanted, WantedFunctional DEF TInv, Functional
<1>4. ASSUME NEW x \in Wanted, IsChain(x[2]) PROVE x[2] \in DOMAIN after
  <2>1. PICK s \in Active : x \in ServiceElements(s)
    BY Zenon DEF Wanted
  <2>2. s \in Services /\ x[2] \in ServiceChains(s)
    BY Zenon, <1>4, <2>1, ElementsLeadInside DEF Active
  <2>3. CASE s \notin Skipped
    BY Zenon, <1>1, <2>1, <2>2, <2>3 DEF EnsuredChains
  <2>4. CASE s \in Skipped
    <3>1. ~needFullSync /\ s \in Active \ updated
      BY Zenon, <2>4 DEF Skipped
    <3>2. x \in kElements
      BY Zenon, <2>1, <3>1 DEF TInv, Written, Mirror
    <3>3. x[2] \in References(kElements, kChains)
      BY Zenon, <3>2 DEF References
    <3>. QED  BY Zenon, <1>1, <1>4, <3>3 DEF TInv, Closed
  <2>. QED  BY Zenon, <2>3, <2>4
<1>5. ASSUME NEW c \in DOMAIN after, NEW r \in after[c], IsChain(r[1]) PROVE r[1] \in DOMAIN after
  <2>1. CASE c \in EnsuredChains
    <3>1. PICK s \in Active \ Skipped : c \in ServiceChains(s)
      BY Zenon, <2>1 DEF EnsuredChains
    <3>2. r[1] \in ServiceChains(s)
      BY Zenon, <1>2, <1>5, <2>1, <3>1, RulesLeadInside DEF Active
    <3>. QED  BY Zenon, <1>1, <3>1, <3>2 DEF EnsuredChains
  <2>2. CASE c \notin EnsuredChains
    <3>1. c \in DOMAIN kChains /\ r \in kChains[c]
      BY Zenon, <1>2, <2>2
    <3>2. r[1] \in References(kElements, kChains)
      BY <3>1 DEF References
    <3>. QED  BY Zenon, <1>1, <1>5, <3>2 DEF TInv, Closed
  <2>. QED  BY Zenon, <2>1, <2>2
<1>6. {t \in References(ElementsAfter, after) : IsChain(t)} \subseteq DOMAIN after
  <2>1. ElementsAfter = Wanted
    BY Zenon, AfterIsWanted
  <2>. QED  BY <1>4, <1>5, <2>1 DEF References
<1>. QED  BY Zenon, <1>3, <1>6, AfterIsWanted DEF TransactionValid, after

\* The elements of a Service follow from its port, its endpoints and the node's labels.
LEMMA SameElements ==
  ASSUME NEW s, svcPortMap'[s] = svcPortMap[s], endpointsMap'[s] = endpointsMap[s], UNCHANGED nodeLabels
  PROVE  ServiceElements(s)' = ServiceElements(s)
<1>1. /\ ClusterEndpoints(s)' = ClusterEndpoints(s) /\ LocalEndpoints(s)' = LocalEndpoints(s)
      /\ HasEndpoints(s)' = HasEndpoints(s)
  BY Zenon DEF ClusterEndpoints, LocalEndpoints, HasEndpoints, canUseTopology
<1>2. /\ HasInternal(s)' = HasInternal(s) /\ HasExternal(s)' = HasExternal(s)
      /\ NoEndpointVerdict(s)' = NoEndpointVerdict(s)
  BY Zenon, <1>1 DEF HasInternal, HasExternal, NoEndpointVerdict
<1>. QED  BY Zenon, <1>1, <1>2 DEF ServiceElements

\* Steps that touch neither the maps nor the storages nor the kernel.
LEMMA QuietKeeps ==
  ASSUME TInv, pc' = "idle" => pc = "idle",
         UNCHANGED <<svcObj, svcPortMap, endpointsMap, nodeLabels, needFullSync, updated, elements, kElements, kChains>>
  PROVE  TInv'
<1>1. Written'
  BY Zenon, SameElements DEF TInv, Written, Active
<1>. QED  BY Zenon, <1>1 DEF TInv, Types, Apart, Functional, Closed, Mirror

\* A Service that is created, changed or deleted keeps TInv (OnServiceUpdate).
LEMMA ServiceUpdateKeeps ==
  ASSUME TInv, NEW s \in Services, NEW p \in Specs[s] \cup {None}, OnServiceUpdate(s, p)
  PROVE  TInv'
<1>1. /\ svcObj' = [svcObj EXCEPT ![s] = p] /\ (p # None => Free(s, p))
      /\ UNCHANGED <<svcPortMap, endpointsMap, nodeLabels, needFullSync, pc, updated, elements, kElements, kChains>>
  BY Zenon DEF OnServiceUpdate, kernel
<1>2. Types'
  BY Zenon, <1>1 DEF TInv, Types
<1>3. Apart(svcObj)'
  BY Zenon, <1>1 DEF TInv, Types, Apart, Free
<1>4. Written'
  BY Zenon, <1>1, SameElements DEF TInv, Written, Active
<1>. QED  BY Zenon, <1>1, <1>2, <1>3, <1>4 DEF TInv, Apart, Functional, Closed, Mirror

\* A sync takes the Services over: the ones that differ are updated, the others as they were.
LEMMA StartKeeps ==
  ASSUME TInv, Start
  PROVE  TInv'
<1>1. CASE ~initialized
  BY Zenon, <1>1, QuietKeeps DEF Start, watch, kernel
<1>2. CASE initialized
  <2>1. /\ pc = "idle" /\ pc' = "endpoints" /\ svcPortMap' = svcObj
        /\ updated' = {s \in Services : svcObj[s] # svcPortMap[s]}
        /\ UNCHANGED <<svcObj, endpointsMap, nodeLabels, needFullSync, elements, kElements, kChains>>
    BY Zenon, <1>2 DEF Start, watch, kernel
  <2>2. Written'
    <3>. SUFFICES ASSUME ~needFullSync, NEW s \in Services, svcObj[s] # None, s \notin updated'
                  PROVE  ServiceElements(s)' \subseteq elements
      BY Zenon, <2>1 DEF Written, Active
    <3>1. svcPortMap'[s] = svcPortMap[s] /\ s \in Active \ updated
      BY Zenon, <2>1 DEF Active, TInv
    <3>. QED  BY Zenon, <2>1, <3>1, SameElements DEF TInv, Written
  <2>. QED  BY Zenon, <2>1, <2>2 DEF TInv, Types, Apart, Functional, Closed, Mirror
<1>. QED  BY Zenon, <1>1, <1>2

\* A sync takes the slices over and deletes stale chains that nothing leads to.
LEMMA UpdateEndpointsKeeps == ASSUME TInv, UpdateEndpoints PROVE TInv'
<1>1. /\ pc' = "score" /\ updated' = updated \cup {s \in Services : pending[s] # None}
      /\ endpointsMap' = [s \in Services |-> LastSlice(s)]
      /\ UNCHANGED <<svcObj, svcPortMap, nodeLabels, needFullSync, elements, kElements>>
  BY Zenon DEF UpdateEndpoints
<1>2. Written'
  <2>. SUFFICES ASSUME ~needFullSync, NEW s \in Services, svcPortMap[s] # None, s \notin updated'
                PROVE  ServiceElements(s)' \subseteq elements
    BY Zenon, <1>1 DEF Written, Active
  <2>1. endpointsMap'[s] = endpointsMap[s] /\ s \in Active \ updated
    BY Zenon, <1>1 DEF Active, LastSlice
  <2>. QED  BY Zenon, <1>1, <2>1, SameElements DEF TInv, Written
<1>3. Closed'
  <2>1. CASE UNCHANGED kChains
    BY Zenon, <1>1, <2>1 DEF TInv, Closed
  <2>2. CASE /\ Deletable(staleChains)
             /\ kChains' = [c \in DOMAIN kChains \ staleChains |-> kChains[c]]
    <3>1. /\ DOMAIN kChains' = DOMAIN kChains \ staleChains
          /\ \A c \in DOMAIN kChains' : kChains'[c] = kChains[c]
      BY Zenon, <2>2
    <3>2. \A t \in References(kElements', kChains') : t \in References(kElements, kChains)
      BY <1>1, <3>1 DEF References
    <3>3. \A t \in References(kElements, kChains) : t \notin staleChains
      BY Zenon, <2>2 DEF Deletable
    <3>. QED  BY Zenon, <3>1, <3>2, <3>3 DEF TInv, Closed
  <2>. QED  BY Zenon, <2>1, <2>2 DEF UpdateEndpoints, DeleteStale
<1>. QED  BY Zenon, <1>1, <1>2, <1>3 DEF TInv, Types, Apart, Functional, Mirror

\* A transaction that the kernel takes keeps TInv (nftables.Run in syncProxyRules).
LEMMA CommitKeeps == ASSUME TInv, NEW listed \in BOOLEAN, Commit(listed) PROVE TInv'
<1>1. /\ kElements' = Wanted /\ elements' = Wanted /\ kChains' = ChainsAfter(listed)
      /\ TransactionValid(listed) /\ ElementsAfter = Wanted
      /\ updated' = {} /\ needFullSync' = FALSE
      /\ UNCHANGED <<svcObj, svcPortMap, endpointsMap, nodeLabels>>
  BY Zenon, AfterIsWanted DEF Commit, Built, watch
<1>2. Closed'
  BY Zenon, <1>1 DEF Closed, TransactionValid
<1>3. Written'
  <2>. SUFFICES ASSUME NEW s \in Active PROVE ServiceElements(s)' \subseteq Wanted
    BY Zenon, <1>1 DEF Written, Active
  <2>. QED  BY Zenon, <1>1, SameElements DEF Wanted
<1>4. Functional(elements)'
  BY Zenon, <1>1, WantedFunctional DEF TInv, Functional
<1>. QED  BY ZenonT(60), <1>1, <1>2, <1>3, <1>4 DEF TInv, Types, Apart, Mirror

\* After a failure the storages are ahead of the kernel, so the next sync must be a full one.
LEMMA CommitFailsKeeps == ASSUME TInv, CommitFails PROVE TInv'
<1>1. /\ elements' = Wanted /\ updated' = {} /\ needFullSync' = TRUE
      /\ UNCHANGED <<svcObj, svcPortMap, kElements, kChains>>
  BY Zenon, AfterIsWanted DEF CommitFails, Built, watch, kernel
<1>2. Functional(elements)'
  BY Zenon, <1>1, WantedFunctional DEF TInv, Functional
<1>. QED  BY Zenon, <1>1, <1>2 DEF TInv, Types, Apart, Closed, Mirror, Written

\* A change of the node's labels keeps TInv (OnNodeUpdate).
LEMMA NodeKeeps == ASSUME TInv, NEW z, OnNode(z) PROVE TInv'
<1>1. needFullSync' = TRUE /\ UNCHANGED <<svcObj, svcPortMap, pc, updated, elements, kElements, kChains>>
  BY Zenon DEF OnNode, watch, kernel
<1>. QED  BY Zenon, <1>1 DEF TInv, Types, Apart, Functional, Closed, Mirror, Written

\* A restarted proxier finds the old rules in the kernel, and TInv holds again.
LEMMA RestartKeeps == ASSUME TInv, Restart PROVE TInv'
<1>1. /\ svcObj' = NoObjects /\ svcPortMap' = NoObjects /\ needFullSync' = TRUE
      /\ updated' = {} /\ elements' = {} /\ UNCHANGED <<kElements, kChains>>
  BY Zenon DEF Restart, kernel
<1>. QED  BY Zenon, <1>1 DEF TInv, Types, Apart, Functional, Closed, Mirror, Written, NoObjects

\* Every step keeps TInv.
LEMMA TransactionInvariant == Spec => []TInv
<1>1. Init => TInv
  BY Zenon DEF Init, TInv, Types, Apart, Functional, Closed, References, Mirror, Written, NoObjects
<1>2. TInv /\ [Next]_vars => TInv'
  <2>. SUFFICES ASSUME TInv, [Next]_vars PROVE TInv'
    BY Zenon
  <2>1. CASE UNCHANGED vars
    BY Zenon, <2>1, QuietKeeps DEF vars, watch, kernel
  <2>2. CASE \/ \E s \in Services : \E E \in Slices[s] : OnEndpointSliceUpdate(s, E)
             \/ OnServiceUpdateSync \/ OnEndpointSliceUpdateSync
    BY Zenon, <2>2, QuietKeeps DEF OnEndpointSliceUpdate, OnServiceUpdateSync, OnEndpointSliceUpdateSync, kernel
  <2>3. CASE OnServiceSynced \/ OnEndpointSlicesSynced \/ Score \/ Age
    BY Zenon, <2>3, QuietKeeps DEF OnServiceSynced, OnEndpointSlicesSynced, Score, Age, watch, kernel
  <2>4. CASE RunnerSync \/ ServiceSyncedSync \/ EndpointSlicesSyncedSync
    BY Zenon, <2>4, StartKeeps DEF RunnerSync, ServiceSyncedSync, EndpointSlicesSyncedSync
  <2>. QED  BY Zenon, <2>1, <2>2, <2>3, <2>4, ServiceUpdateKeeps, NodeKeeps, UpdateEndpointsKeeps, CommitKeeps,
               CommitFailsKeeps, RestartKeeps DEF Next
<1>. QED  BY <1>1, <1>2, PTL DEF Spec

\* Every transaction that syncProxyRules builds is one the kernel accepts, in full and partial
\* syncs, after failures, failed listings and restarts, however the watches interleave: the
\* storages never delete an element that is not there or add a second value for a key, and no
\* element or rule leads to a missing chain (nftElementStorage, skipServiceUpdate, staleChains).
THEOREM TransactionsAccepted == Spec => []TransactionsValid
<1>1. TInv => TransactionsValid
  BY Zenon, Valid DEF TransactionsValid
<1>. QED  BY <1>1, TransactionInvariant, PTL

-----------------------------------------------------------------------------
(* Types. *)

\* What a Service needs in the kernel is made of its frontends and endpoints.
LEMMA ServicesTyped ==
  ASSUME NEW s \in Services, svcPortMap[s] \in Specs[s], endpointsMap[s] \in Slices[s]
  PROVE  ServiceElements(s) \subseteq ElementSet /\ ServiceChains(s) \subseteq Chains
<1>1. endpointsMap[s].ready \subseteq Endpoints /\ endpointsMap[s].terminating \subseteq Endpoints
  BY ProxierConstants
<1>2. ClusterEndpoints(s) \subseteq Endpoints /\ LocalEndpoints(s) \subseteq Endpoints
  BY Zenon, <1>1 DEF ClusterEndpoints, LocalEndpoints
<1>3. ServiceChains(s) \subseteq Chains
  BY <1>2 DEF ServiceChains, Chains
<1>4. KeysOf(svcPortMap[s]) \subseteq Keys
  BY Zenon DEF KeysOf, Keys
<1>5. ASSUME NEW x \in ServiceElements(s) PROVE x \in ElementSet
  <2>1. svcPortMap[s].ip \in Keys /\ svcPortMap[s].ext \subseteq Keys
    BY Zenon, <1>4 DEF KeysOf
  <2>2. \A b \in BOOLEAN : PolicyChain(s, b) \in Chains
    BY DEF PolicyChain, Chains
  <2>3. Chain("external", s) \in Chains
    BY DEF Chains
  <2>. DEFINE Verdicts == {Verdict(v) : v \in {"member", "reject", "drop"}}
  <2>4. NoEndpointVerdict(s) \in Verdicts /\ Verdict("member") \in Verdicts
    BY Zenon DEF NoEndpointVerdict
  <2>. HIDE DEF Verdicts
  <2>5. PolicyChain(s, svcPortMap[s].intLocal) \in Chains
    BY DEF PolicyChain, Chains
  <2>6. ElementSet = ({"clusterIPs", "services", "noEndpoints"} \X Keys) \X (Chains \cup Verdicts)
    BY Zenon DEF ElementSet, Verdicts
  <2>. QED  BY <2>1, <2>3, <2>4, <2>5, <2>6, ElementKinds
<1>. QED  BY Zenon, <1>3, <1>5

\* The chains and elements of all active Services are in the sets of all chains and elements.
LEMMA WantedTyped ==
  ASSUME TypeOK
  PROVE  Wanted \subseteq ElementSet /\ EnsuredChains \subseteq Chains
<1>1. \A s \in Active : s \in Services /\ svcPortMap[s] \in Specs[s] /\ endpointsMap[s] \in Slices[s]
  BY ZenonT(60) DEF Active, TypeOK
<1>2. \A s \in Active : ServiceElements(s) \subseteq ElementSet /\ ServiceChains(s) \subseteq Chains
  BY ZenonT(60), <1>1, ServicesTyped
<1>. QED  BY Zenon, <1>2 DEF Wanted, EnsuredChains

\* The handlers keep the types.
LEMMA EventsTyped ==
  ASSUME TypeOK, Types, DOMAIN pending = Services,
         \/ \E s \in Services : \/ \E p \in Specs[s] \cup {None} : OnServiceUpdate(s, p)
                                \/ \E E \in Slices[s] : OnEndpointSliceUpdate(s, E)
         \/ OnServiceUpdateSync \/ OnEndpointSliceUpdateSync
         \/ \E z \in Zones \cup {None} : OnNode(z)
         \/ OnServiceSynced \/ OnEndpointSlicesSynced
  PROVE  TypeOK'
<1>1. CASE \E s \in Services : \E p \in Specs[s] \cup {None} : OnServiceUpdate(s, p)
  <2>0. PICK s \in Services : \E p \in Specs[s] \cup {None} : OnServiceUpdate(s, p)
    BY Zenon, <1>1
  <2>1. PICK p \in Specs[s] \cup {None} : OnServiceUpdate(s, p)
    BY Zenon, <2>0
  <2>2. /\ svcObj' = [svcObj EXCEPT ![s] = p] /\ svcHandler' \in BOOLEAN
        /\ UNCHANGED <<pending, epHandler, svcPortMap, endpointsMap, nodeLabels, synced, queued,
                       needFullSync, pc, updated, scores, elements, stale, kernel>>
    BY Zenon, <2>1 DEF OnServiceUpdate
  <2>3. \A t \in Services : svcObj'[t] \in Specs[t] \cup {None}
    BY ZenonT(60), <2>2 DEF Types
  <2>. QED  BY Zenon, <2>2, <2>3 DEF TypeOK, synced, stale, kernel
<1>2. CASE \E s \in Services : \E E \in Slices[s] : OnEndpointSliceUpdate(s, E)
  <2>0. PICK s \in Services : \E E \in Slices[s] : OnEndpointSliceUpdate(s, E)
    BY Zenon, <1>2
  <2>1. PICK E \in Slices[s] : OnEndpointSliceUpdate(s, E)
    BY Zenon, <2>0
  <2>2. /\ pending' = [pending EXCEPT ![s] = E] /\ epHandler' = TRUE
        /\ UNCHANGED <<svcObj, svcHandler, svcPortMap, endpointsMap, nodeLabels, synced, queued,
                       needFullSync, pc, updated, scores, elements, stale, kernel>>
    BY Zenon, <2>1 DEF OnEndpointSliceUpdate
  <2>3. \A t \in Services : pending'[t] \in Slices[t] \cup {None}
    BY Zenon, <2>2 DEF TypeOK
  <2>. QED  BY Zenon, <2>2, <2>3 DEF TypeOK, synced, stale, kernel
<1>3. CASE OnServiceUpdateSync
  BY ZenonT(60), <1>3 DEF TypeOK, OnServiceUpdateSync, initialized, synced, stale, kernel
<1>4. CASE OnEndpointSliceUpdateSync
  BY ZenonT(60), <1>4 DEF TypeOK, OnEndpointSliceUpdateSync, initialized, synced, stale, kernel
<1>5. CASE \E z \in Zones \cup {None} : OnNode(z)
  BY Zenon, <1>5 DEF TypeOK, OnNode, watch, synced, stale, kernel
<1>6. CASE OnServiceSynced
  BY Zenon, <1>6 DEF TypeOK, OnServiceSynced, watch, stale, kernel
<1>7. CASE OnEndpointSlicesSynced
  BY Zenon, <1>7 DEF TypeOK, OnEndpointSlicesSynced, watch, stale, kernel
<1>. QED  BY Zenon, <1>1, <1>2, <1>3, <1>4, <1>5, <1>6, <1>7

\* In syncProxyRules: the storages take wanted elements only, chains that are deleted leave
\* staleChains, and a transaction only adds chains.
LEMMA SyncsTyped ==
  ASSUME TypeOK, TInv, RunnerSync \/ ServiceSyncedSync \/ EndpointSlicesSyncedSync \/ UpdateEndpoints \/ Score
  PROVE  TypeOK'
<1>1. CASE Start /\ UNCHANGED <<queued, epSynced>> /\ svcSynced' \in {"wait", "set", "done"}
  BY Zenon, <1>1 DEF TypeOK, Start, watch, stale, kernel
<1>2. CASE Start /\ UNCHANGED <<queued, svcSynced>> /\ epSynced' \in {"wait", "set", "done"}
  BY Zenon, <1>2 DEF TypeOK, Start, watch, stale, kernel
<1>3. CASE Start /\ UNCHANGED <<epSynced, svcSynced>> /\ queued' = FALSE
  BY ZenonT(60), <1>3 DEF TypeOK, Start, watch, stale, kernel
<1>4. CASE Score
  <2>1. scores' \in [Services -> [Endpoints -> 0 .. MaxScore]]
    BY Zenon, <1>4 DEF Score
  <2>. QED  BY Zenon, <1>4, <2>1 DEF TypeOK, Score, watch, synced, stale, kernel
<1>5. CASE UpdateEndpoints
  <2>1. /\ pc' = "score" /\ updated' = updated \cup {s \in Services : pending[s] # None}
        /\ endpointsMap' = [s \in Services |-> LastSlice(s)] /\ pending' = [s \in Services |-> None]
        /\ DeleteStale
        /\ UNCHANGED <<svcObj, svcHandler, epHandler, svcPortMap, nodeLabels, svcSynced, epSynced, queued,
                       needFullSync, scores, elements, kElements>>
    BY Zenon, <1>5 DEF UpdateEndpoints, synced
  <2>2. \A s \in Services : endpointsMap'[s] \in Slices[s] /\ pending'[s] = None
    BY Zenon, <2>1 DEF TypeOK, LastSlice
  <2>3. staleOld' \in BOOLEAN /\ staleChains' \subseteq DOMAIN kChains' /\ DOMAIN kChains' \subseteq Chains
    BY ZenonT(60), <2>1 DEF DeleteStale, TypeOK, stale
  <2>. QED  BY Zenon, <2>1, <2>2, <2>3 DEF TypeOK
<1>. QED  BY ZenonT(60), <1>1, <1>2, <1>3, <1>4, <1>5 DEF RunnerSync, ServiceSyncedSync, EndpointSlicesSyncedSync, synced

\* What NewProxier starts with.
LEMMA NothingTyped ==
  NoScores \in [Services -> [Endpoints -> 0 .. MaxScore]] /\ \A s \in Services : NoEndpoints[s] \in Slices[s]
<1>1. 0 \in 0 .. MaxScore
  BY ProxierConstants
<1>2. \A s \in Services : NoEndpoints[s] \in Slices[s]
  BY Zenon, ProxierConstants DEF NoEndpoints
<1>. QED  BY Zenon, <1>1, <1>2 DEF NoScores

\* The end of a sync, the aging of chains and a restart keep the types.
LEMMA TransactionsTyped ==
  ASSUME TypeOK, TInv, (\E listed \in BOOLEAN : Commit(listed)) \/ CommitFails \/ Age \/ Restart
  PROVE  TypeOK'
<1>1. CASE \E listed \in BOOLEAN : Commit(listed)
  <2>1. PICK listed \in BOOLEAN : Commit(listed)
    BY Zenon, <1>1
  <2>2. /\ pc' = "idle" /\ updated' = {} /\ elements' = Wanted /\ kElements' = Wanted
        /\ needFullSync' = FALSE /\ DOMAIN kChains' = DOMAIN kChains \cup EnsuredChains
        /\ UNCHANGED <<watch, svcPortMap, endpointsMap, nodeLabels, synced, queued, scores>>
    BY ZenonT(60), <2>1, AfterIsWanted DEF Commit, Built, ChainsAfter
  <2>3. staleOld' \in BOOLEAN /\ staleChains' \subseteq DOMAIN kChains'
    BY ZenonT(60), <2>1, <2>2 DEF Commit, StaleInKernel, TypeOK, stale
  <2>. QED  BY ZenonT(60), <2>2, <2>3, WantedTyped DEF TypeOK, watch, synced
<1>2. CASE CommitFails
  <2>1. elements' = Wanted
    BY Zenon, <1>2, AfterIsWanted DEF CommitFails, Built
  <2>. QED  BY ZenonT(60), <1>2, <2>1, WantedTyped DEF TypeOK, CommitFails, Built, watch, synced, kernel
<1>3. CASE Age
  BY ZenonT(60), <1>3 DEF TypeOK, Age, watch, synced, kernel
<1>4. CASE Restart
  BY Zenon, <1>4, NothingTyped DEF TypeOK, Restart, NoObjects, kernel
<1>. QED  BY Zenon, <1>1, <1>2, <1>3, <1>4

\* The shape of the proxier's fields and of the kernel's tables, for all constants; in
\* particular the elements and chains that syncProxyRules builds are of known kinds, and what
\* is in staleChains is in the kernel.
THEOREM ProxierTypes == Spec => []TypeOK
<1>1. Init => TypeOK
  BY ZenonT(60), NothingTyped DEF Init, TypeOK, NoObjects
<1>2. TypeOK /\ LInv /\ TInv /\ [Next]_vars => TypeOK'
  <2>. SUFFICES ASSUME TypeOK, LInv, TInv, [Next]_vars PROVE TypeOK'
    BY Zenon
  <2>1. CASE UNCHANGED vars
    BY Zenon, <2>1 DEF TypeOK, vars, watch, synced, stale, kernel
  <2>. QED  BY ZenonT(60), <2>1, EventsTyped, SyncsTyped, TransactionsTyped DEF Next, LInv, Shape, TInv
<1>. QED  BY <1>1, <1>2, ChangeInvariant, TransactionInvariant, PTL DEF Spec
-----------------------------------------------------------------------------
(* Routes. *)

\* The rules R spread packets over endpoints E of the Service, with whatever weights.
Spreads(R, s, E) == R # {} /\ \A r \in R : \E e \in E : r[1] = EndpointChain(s, e)

\* R is what Rules(c) is for some scores.
Fits(c, R) ==
  LET s == c[2]
  IN  CASE c[1] = "cluster" -> Spreads(R, s, ClusterEndpoints(s))
        [] c[1] = "local" -> Spreads(R, s, LocalEndpoints(s))
        [] OTHER -> R = Rules(c)

Ruled(s) == \A c \in ServiceChains(s) : c \in DOMAIN kChains /\ Fits(c, kChains[c])

RInv ==
  ~needFullSync => /\ \A s \in Active \ updated : Ruled(s)
                   /\ pc = "idle" => elements \subseteq Wanted

\* The chains of a Service, by kind.
LEMMA ChainKinds ==
  ASSUME NEW s \in Services, NEW c \in ServiceChains(s)
  PROVE  /\ c[2] = s
         /\ \/ \E e \in ClusterEndpoints(s) \cup LocalEndpoints(s) : c = EndpointChain(s, e)
            \/ c = Chain("cluster", s) /\ ClusterEndpoints(s) # {}
            \/ c = Chain("local", s) /\ LocalEndpoints(s) # {}
            \/ c = Chain("external", s) /\ HasEndpoints(s) /\ svcPortMap[s].ext # {}
BY DEF ServiceChains, EndpointChain, Chain

\* The rules of chains that do not depend on scores.
LEMMA FixedRules ==
  ASSUME NEW s \in Services
  PROVE  /\ \A e : Rules(EndpointChain(s, e)) = {<<Dnat(s, e), 1>>}
         /\ Rules(Chain("external", s)) =
              {<<Chain("cluster", s), 1>>}
              \cup (IF HasExternal(s) THEN {<<PolicyChain(s, svcPortMap[s].extLocal), 1>>} ELSE {})
BY Zenon DEF Rules, EndpointChain, Chain

\* What a chain of each kind must have in it.
LEMMA FitsKinds ==
  ASSUME NEW s \in Services, NEW R
  PROVE  /\ Fits(Chain("cluster", s), R) <=> Spreads(R, s, ClusterEndpoints(s))
         /\ Fits(Chain("local", s), R) <=> Spreads(R, s, LocalEndpoints(s))
         /\ \A e : Fits(EndpointChain(s, e), R) <=> (R = {<<Dnat(s, e), 1>>})
         /\ Fits(Chain("external", s), R) <=>
              (R = {<<Chain("cluster", s), 1>>}
                   \cup (IF HasExternal(s) THEN {<<PolicyChain(s, svcPortMap[s].extLocal), 1>>} ELSE {}))
<1>1. /\ Fits(Chain("cluster", s), R) <=> Spreads(R, s, ClusterEndpoints(s))
      /\ Fits(Chain("local", s), R) <=> Spreads(R, s, LocalEndpoints(s))
  BY Zenon DEF Fits, Chain
<1>2. \A e : Fits(EndpointChain(s, e), R) <=> (R = Rules(EndpointChain(s, e)))
  BY Zenon DEF Fits, EndpointChain
<1>3. Fits(Chain("external", s), R) <=> (R = Rules(Chain("external", s)))
  BY Zenon DEF Fits, Chain
<1>. QED  BY ZenonT(60), <1>1, <1>2, <1>3, FixedRules

\* The rules a sync writes fit, by score or evenly.
LEMMA RulesFit ==
  ASSUME NEW s \in Services, NEW c \in ServiceChains(s)
  PROVE  Fits(c, Rules(c))
<1>1. \A E : E # {} => Spreads(writeServiceToEndpointRules(s, E), s, E)
  <2>. SUFFICES ASSUME NEW E, E # {} PROVE Spreads(writeServiceToEndpointRules(s, E), s, E)
    BY Zenon
  <2>. DEFINE scored == {e \in E : scores[s][e] > 0}
  <2>1. CASE scored # {}
    <3>1. writeServiceToEndpointRules(s, E) = {<<EndpointChain(s, e), scores[s][e]>> : e \in scored}
      BY Zenon, <2>1 DEF writeServiceToEndpointRules
    <3>2. \A r \in writeServiceToEndpointRules(s, E) : \E e \in E : r[1] = EndpointChain(s, e)
      BY <3>1
    <3>3. PICK e \in scored : TRUE
      BY Zenon, <2>1
    <3>4. <<EndpointChain(s, e), scores[s][e]>> \in writeServiceToEndpointRules(s, E)
      BY Zenon, <3>1, <3>3
    <3>. QED  BY Zenon, <3>2, <3>4 DEF Spreads
  <2>2. CASE scored = {}
    <3>1. writeServiceToEndpointRules(s, E) = {<<EndpointChain(s, e), 1>> : e \in E}
      BY Zenon, <2>2 DEF writeServiceToEndpointRules
    <3>2. \A r \in writeServiceToEndpointRules(s, E) : \E e \in E : r[1] = EndpointChain(s, e)
      BY <3>1
    <3>3. PICK e \in E : TRUE
      BY Zenon
    <3>4. <<EndpointChain(s, e), 1>> \in writeServiceToEndpointRules(s, E)
      BY Zenon, <3>1, <3>3
    <3>. QED  BY Zenon, <3>2, <3>4 DEF Spreads
  <2>. QED  BY Zenon, <2>1, <2>2
<1>2. CASE c = Chain("cluster", s) /\ ClusterEndpoints(s) # {}
  <2>1. Rules(c) = writeServiceToEndpointRules(s, ClusterEndpoints(s))
    BY Zenon, <1>2 DEF Rules, Chain
  <2>. QED  BY <1>1, <1>2, <2>1, FitsKinds
<1>3. CASE c = Chain("local", s) /\ LocalEndpoints(s) # {}
  <2>1. Rules(c) = writeServiceToEndpointRules(s, LocalEndpoints(s))
    BY Zenon, <1>3 DEF Rules, Chain
  <2>. QED  BY <1>1, <1>3, <2>1, FitsKinds
<1>4. CASE \E e : c = EndpointChain(s, e)
  <2>1. PICK e : c = EndpointChain(s, e)
    BY Zenon, <1>4
  <2>. QED  BY <2>1, FixedRules, FitsKinds
<1>5. CASE c = Chain("external", s)
  BY Zenon, <1>5, FixedRules, FitsKinds
<1>. QED  BY Zenon, <1>2, <1>3, <1>4, <1>5, ChainKinds

\* A chain that is in use has rules, so it is never among those that may be deleted.
LEMMA InUse ==
  ASSUME NEW s \in Services, NEW c \in ServiceChains(s), NEW R, Fits(c, R)
  PROVE  R # {}
<1>1. CASE \E e : c = EndpointChain(s, e)
  <2>1. PICK e : c = EndpointChain(s, e)
    BY Zenon, <1>1
  <2>2. Fits(EndpointChain(s, e), R)
    BY Zenon, <2>1
  <2>3. R = {<<Dnat(s, e), 1>>}
    BY Zenon, <2>2, FitsKinds
  <2>. QED  BY ZenonT(60), <2>3
<1>2. CASE c = Chain("cluster", s)
  BY Zenon, <1>2, FitsKinds DEF Spreads
<1>4. CASE c = Chain("local", s)
  BY Zenon, <1>4, FitsKinds DEF Spreads
<1>3. CASE c = Chain("external", s)
  <2>1. <<Chain("cluster", s), 1>> \in R
    BY <1>3, FitsKinds
  <2>. QED  BY Zenon, <2>1
<1>. QED  BY Zenon, <1>1, <1>2, <1>3, <1>4, ChainKinds

\* The chains and what must be in them depend on the Service and its endpoints, not on scores.
LEMMA SameChains ==
  ASSUME NEW s \in Services, svcPortMap'[s] = svcPortMap[s], endpointsMap'[s] = endpointsMap[s],
         UNCHANGED nodeLabels
  PROVE  /\ ServiceChains(s)' = ServiceChains(s)
         /\ \A c \in ServiceChains(s) : \A R : Fits(c, R) => Fits(c, R)'
<1>1. /\ ClusterEndpoints(s)' = ClusterEndpoints(s) /\ LocalEndpoints(s)' = LocalEndpoints(s)
      /\ HasEndpoints(s)' = HasEndpoints(s)
  BY Zenon DEF ClusterEndpoints, LocalEndpoints, HasEndpoints, canUseTopology
<1>2. HasExternal(s)' = HasExternal(s)
  BY Zenon, <1>1 DEF HasExternal
<1>3. ServiceChains(s)' = ServiceChains(s)
  BY Zenon, <1>1 DEF ServiceChains
<1>4. ASSUME NEW c \in ServiceChains(s), NEW R, Fits(c, R) PROVE Fits(c, R)'
  <2>1. CASE c = Chain("cluster", s) \/ c = Chain("local", s)
    <3>1. c[2] = s /\ (c[1] = "cluster" \/ c[1] = "local")
      BY <2>1 DEF Chain
    <3>2. CASE c[1] = "cluster"
      BY Zenon, <1>1, <1>4, <3>1, <3>2 DEF Fits, Spreads
    <3>3. CASE c[1] = "local"
      BY Zenon, <1>1, <1>4, <3>1, <3>3 DEF Fits, Spreads
    <3>. QED  BY Zenon, <3>1, <3>2, <3>3
  <2>2. CASE c = Chain("external", s)
    <3>1. c[2] = s /\ c[1] = "external"
      BY Zenon, <2>2 DEF Chain
    <3>2. Rules(c)' = Rules(c)
      BY Zenon, <1>2, <3>1 DEF Rules, PolicyChain
    <3>. QED  BY Zenon, <1>4, <3>1, <3>2 DEF Fits
  <2>3. CASE \E e : c = EndpointChain(s, e)
    <3>1. c[1] = "endpoint"
      BY <2>3 DEF EndpointChain
    <3>2. Rules(c)' = Rules(c)
      BY Zenon, <3>1 DEF Rules
    <3>. QED  BY Zenon, <1>4, <3>1, <3>2 DEF Fits
  <2>. QED  BY Zenon, <2>1, <2>2, <2>3, ChainKinds
<1>. QED  BY Zenon, <1>3, <1>4
\* A Service keeps its rules while neither it, its endpoints nor its chains change.
LEMMA StaysRuled ==
  ASSUME NEW s \in Services, svcPortMap'[s] = svcPortMap[s], endpointsMap'[s] = endpointsMap[s],
         UNCHANGED nodeLabels, Ruled(s),
         \A c \in ServiceChains(s) : c \in DOMAIN kChains' /\ kChains'[c] = kChains[c]
  PROVE  Ruled(s)'
<1>1. ASSUME NEW c \in ServiceChains(s) PROVE c \in DOMAIN kChains' /\ Fits(c, kChains[c])'
  <2>1. Fits(c, kChains[c])
    BY Zenon DEF Ruled
  <2>2. \A R : Fits(c, R) => Fits(c, R)'
    BY Zenon, SameChains
  <2>. QED  BY Zenon, <2>1, <2>2
<1>2. ServiceChains(s)' = ServiceChains(s)
  BY Zenon, SameChains
<1>. QED  BY Zenon, <1>1, <1>2 DEF Ruled
\* Steps that touch neither the proxier's maps nor its storages nor the chains.
LEMMA QuietRouted ==
  ASSUME RInv, pc' = "idle" => pc = "idle",
         UNCHANGED <<svcPortMap, endpointsMap, nodeLabels, needFullSync, updated, elements, kChains>>
  PROVE  RInv'
<1>1. \A s \in Active \ updated : Ruled(s) => Ruled(s)'
  <2>. SUFFICES ASSUME NEW s \in Active, Ruled(s) PROVE Ruled(s)'
    BY Zenon
  <2>1. \A c \in ServiceChains(s) : c \in DOMAIN kChains' /\ kChains'[c] = kChains[c]
    BY Zenon DEF Ruled
  <2>. QED  BY Zenon, <2>1, StaysRuled DEF Active
<1>2. Active' = Active
  BY Zenon DEF Active
<1>3. Wanted' = Wanted
  BY Zenon, <1>2, SameElements DEF Wanted
<1>. QED  BY Zenon, <1>1, <1>2, <1>3 DEF RInv

\* The beginning of a sync keeps RInv (syncProxyRules).
LEMMA StartRouted == ASSUME TInv, RInv, Start PROVE RInv'
<1>1. CASE ~initialized
  BY Zenon, <1>1, QuietRouted DEF Start, kernel
<1>2. CASE initialized
  <2>1. /\ pc = "idle" /\ pc' = "endpoints" /\ svcPortMap' = svcObj
        /\ updated' = {s \in Services : svcObj[s] # svcPortMap[s]}
        /\ UNCHANGED <<endpointsMap, nodeLabels, needFullSync, kChains>>
    BY Zenon, <1>2 DEF Start, kernel
  <2>. SUFFICES ASSUME ~needFullSync, NEW s \in Services, svcObj[s] # None, s \notin updated'
                PROVE  Ruled(s)'
    BY Zenon, <2>1 DEF RInv, Active
  <2>2. svcPortMap'[s] = svcPortMap[s] /\ s \in Active \ updated
    BY Zenon, <2>1 DEF Active, TInv
  <2>3. Ruled(s)
    BY Zenon, <2>2 DEF RInv
  <2>4. \A c \in ServiceChains(s) : c \in DOMAIN kChains' /\ kChains'[c] = kChains[c]
    BY Zenon, <2>1, <2>3 DEF Ruled
  <2>. QED  BY Zenon, <2>1, <2>2, <2>3, <2>4, StaysRuled
<1>. QED  BY Zenon, <1>1, <1>2

\* Deleting stale chains leaves the chains in use, which have rules.
LEMMA UpdateEndpointsRouted == ASSUME RInv, UpdateEndpoints PROVE RInv'
<1>1. /\ pc' = "score" /\ updated' = updated \cup {s \in Services : pending[s] # None}
      /\ endpointsMap' = [s \in Services |-> LastSlice(s)]
      /\ UNCHANGED <<svcPortMap, nodeLabels, needFullSync>>
  BY Zenon DEF UpdateEndpoints
<1>. SUFFICES ASSUME ~needFullSync, NEW s \in Services, svcPortMap[s] # None, s \notin updated'
              PROVE  Ruled(s)'
  BY Zenon, <1>1 DEF RInv, Active
<1>2. endpointsMap'[s] = endpointsMap[s] /\ s \in Active \ updated
  BY Zenon, <1>1 DEF Active, LastSlice
<1>3. Ruled(s)
  BY Zenon, <1>2 DEF RInv
<1>4. ASSUME NEW c \in ServiceChains(s) PROVE c \in DOMAIN kChains' /\ kChains'[c] = kChains[c]
  <2>1. c \in DOMAIN kChains /\ kChains[c] # {}
    BY Zenon, <1>3, InUse DEF Ruled
  <2>2. CASE UNCHANGED kChains
    BY Zenon, <2>1, <2>2
  <2>3. CASE Deletable(staleChains) /\ kChains' = [d \in DOMAIN kChains \ staleChains |-> kChains[d]]
    BY Zenon, <2>1, <2>3 DEF Deletable
  <2>. QED  BY Zenon, <2>2, <2>3 DEF UpdateEndpoints, DeleteStale
<1>. QED  BY Zenon, <1>1, <1>2, <1>3, <1>4, StaysRuled

\* A sync writes the chains of the Services it does not skip and leaves those of the others.
LEMMA CommitRouted == ASSUME TInv, RInv, NEW listed \in BOOLEAN, Commit(listed) PROVE RInv'
<1>1. /\ elements' = Wanted /\ kChains' = ChainsAfter(listed) /\ updated' = {}
      /\ UNCHANGED <<svcPortMap, endpointsMap, nodeLabels>>
  BY Zenon, AfterIsWanted DEF Commit, Built
<1>2. Active' = Active
  BY Zenon, <1>1 DEF Active
<1>3. Wanted' = Wanted
  BY Zenon, <1>1, <1>2, SameElements DEF Wanted
<1>4. ASSUME NEW s \in Active PROVE Ruled(s)'
  <2>0. s \in Services
    BY Zenon DEF Active
  <2>1. CASE s \in Skipped
    <3>1. Ruled(s)
      BY Zenon, <2>1 DEF Skipped, RInv
    <3>2. ASSUME NEW c \in ServiceChains(s) PROVE c \in DOMAIN kChains' /\ kChains'[c] = kChains[c]
      <4>1. c \in DOMAIN kChains /\ c \in ActiveChains
        BY Zenon, <3>1 DEF Ruled, ActiveChains
      <4>2. c \notin EnsuredChains
        <5>1. \A t \in Active \ Skipped : \A d \in ServiceChains(t) : d[2] = t
          BY Zenon, ChainKinds DEF Active
        <5>2. c[2] = s
          BY Zenon, <2>0, ChainKinds
        <5>. QED  BY Zenon, <2>1, <5>1, <5>2 DEF EnsuredChains
      <4>. QED  BY Zenon, <1>1, <4>1, <4>2 DEF ChainsAfter, StaleInKernel
    <3>. QED  BY ZenonT(60), <1>1, <2>0, <3>1, <3>2, StaysRuled
  <2>2. CASE s \notin Skipped
    <3>1. ServiceChains(s)' = ServiceChains(s)
      BY Zenon, <1>1, <2>0, SameChains
    <3>2. ASSUME NEW c \in ServiceChains(s) PROVE c \in DOMAIN kChains' /\ Fits(c, kChains[c])'
      <4>1. c \in EnsuredChains
        BY Zenon, <2>2 DEF EnsuredChains
      <4>2. c \in DOMAIN kChains' /\ kChains'[c] = Rules(c)
        BY Zenon, <1>1, <4>1 DEF ChainsAfter
      <4>3. Fits(c, Rules(c))
        BY Zenon, <2>0, RulesFit
      <4>4. \A R : Fits(c, R) => Fits(c, R)'
        BY Zenon, <1>1, <2>0, SameChains
      <4>. QED  BY Zenon, <4>2, <4>3, <4>4
    <3>. QED  BY Zenon, <3>1, <3>2 DEF Ruled
  <2>. QED  BY Zenon, <2>1, <2>2
<1>. QED  BY Zenon, <1>1, <1>2, <1>3, <1>4 DEF RInv

\* Every step keeps RInv.
LEMMA RouteInvariant == Spec => []RInv
<1>1. Init => RInv
  BY Zenon DEF Init, RInv
<1>2. TInv /\ RInv /\ [Next]_vars => RInv'
  <2>. SUFFICES ASSUME TInv, RInv, [Next]_vars PROVE RInv'
    BY Zenon
  <2>1. CASE UNCHANGED vars
    BY Zenon, <2>1, QuietRouted DEF vars, kernel
  <2>2. CASE \/ \E s \in Services : \/ \E p \in Specs[s] \cup {None} : OnServiceUpdate(s, p)
                                   \/ \E E \in Slices[s] : OnEndpointSliceUpdate(s, E)
             \/ OnServiceUpdateSync \/ OnEndpointSliceUpdateSync
    BY Zenon, <2>2, QuietRouted DEF OnServiceUpdate, OnEndpointSliceUpdate, OnServiceUpdateSync, OnEndpointSliceUpdateSync, kernel
  <2>3. CASE OnServiceSynced \/ OnEndpointSlicesSynced \/ Score \/ Age
    BY ZenonT(60), <2>3, QuietRouted DEF OnServiceSynced, OnEndpointSlicesSynced, Score, Age, kernel
  <2>4. CASE RunnerSync \/ ServiceSyncedSync \/ EndpointSlicesSyncedSync
    BY Zenon, <2>4, StartRouted DEF RunnerSync, ServiceSyncedSync, EndpointSlicesSyncedSync
  <2>5. CASE (\E z \in Zones \cup {None} : OnNode(z)) \/ CommitFails \/ Restart
    BY Zenon, <2>5 DEF OnNode, CommitFails, Restart, RInv
  <2>. QED  BY Zenon, <2>1, <2>2, <2>3, <2>4, <2>5, UpdateEndpointsRouted, CommitRouted DEF Next
<1>. QED  BY <1>1, <1>2, TransactionInvariant, PTL DEF Spec

\* The kernel's entry for a frontend of a Service in each of the two maps, once the elements
\* are the wanted ones.
LEMMA Entries ==
  ASSUME Types, Apart(svcPortMap), kElements = Wanted, NEW s \in Active, NEW k \in KeysOf(svcPortMap[s])
  PROVE  /\ k = svcPortMap[s].ip =>
              /\ Value("services", k) = IF HasInternal(s) THEN {PolicyChain(s, svcPortMap[s].intLocal)} ELSE {}
              /\ Value("noEndpoints", k) = IF HasInternal(s) THEN {} ELSE {NoEndpointVerdict(s)}
         /\ k # svcPortMap[s].ip =>
              /\ Value("services", k) = IF HasEndpoints(s) THEN {Chain("external", s)} ELSE {}
              /\ Value("noEndpoints", k) = IF HasExternal(s) THEN {} ELSE {NoEndpointVerdict(s)}
<1>1. s \in Services /\ svcPortMap[s] # None /\ svcPortMap[s] \in Specs[s]
  BY Zenon DEF Active, Types
<1>2. svcPortMap[s].ip \notin svcPortMap[s].ext
  BY Zenon, <1>1, ProxierConstants
<1>3. \A x \in Wanted : x[1][2] = k => x \in ServiceElements(s)
  <2>. SUFFICES ASSUME NEW x \in Wanted, x[1][2] = k PROVE x \in ServiceElements(s)
    BY Zenon
  <2>1. PICK t \in Active : x \in ServiceElements(t)
    BY Zenon DEF Wanted
  <2>2. t \in Services /\ svcPortMap[t] # None
    BY Zenon DEF Active
  <2>3. x[1][2] \in KeysOf(svcPortMap[t])
    BY <2>1, <2>2, ElementKinds DEF KeysOf
  <2>4. s = t
    BY Zenon, <1>1, <2>2, <2>3 DEF Apart
  <2>. QED  BY Zenon, <2>1, <2>4
<1>4. ServiceElements(s) \subseteq Wanted
  BY Zenon DEF Wanted
<1>5. ASSUME NEW m, NEW v PROVE v \in Value(m, k) <=> <<<<m, k>>, v>> \in ServiceElements(s)
  <2>1. ASSUME v \in Value(m, k) PROVE <<<<m, k>>, v>> \in ServiceElements(s)
    <3>1. PICK x \in Wanted : x[1] = <<m, k>> /\ v = x[2]
      BY Zenon, <2>1 DEF Value
    <3>2. x \in ServiceElements(s)
      BY <1>3, <3>1
    <3>3. x = <<x[1], x[2]>>
      BY <1>1, <3>2, ElementKinds
    <3>. QED  BY Zenon, <3>1, <3>2, <3>3
  <2>2. ASSUME <<<<m, k>>, v>> \in ServiceElements(s) PROVE v \in Value(m, k)
    BY <1>4, <2>2 DEF Value
  <2>. QED  BY Zenon, <2>1, <2>2
<1>6. CASE k = svcPortMap[s].ip
  <2>1. \A v : <<<<"services", k>>, v>> \in ServiceElements(s)
              <=> HasInternal(s) /\ v = PolicyChain(s, svcPortMap[s].intLocal)
    BY Zenon, <1>2, <1>6 DEF ServiceElements
  <2>2. \A v : <<<<"noEndpoints", k>>, v>> \in ServiceElements(s) <=> ~HasInternal(s) /\ v = NoEndpointVerdict(s)
    BY Zenon, <1>2, <1>6 DEF ServiceElements
  <2>3. Value("services", k) = IF HasInternal(s) THEN {PolicyChain(s, svcPortMap[s].intLocal)} ELSE {}
    BY ZenonT(60), <1>5, <2>1
  <2>4. Value("noEndpoints", k) = IF HasInternal(s) THEN {} ELSE {NoEndpointVerdict(s)}
    BY ZenonT(60), <1>5, <2>2
  <2>. QED  BY Zenon, <1>6, <2>3, <2>4
<1>7. CASE k # svcPortMap[s].ip
  <2>0. k \in svcPortMap[s].ext
    BY Zenon, <1>7 DEF KeysOf
  <2>1. \A v : <<<<"services", k>>, v>> \in ServiceElements(s) <=> HasEndpoints(s) /\ v = Chain("external", s)
    BY ZenonT(60), <1>7, <2>0 DEF ServiceElements
  <2>2. \A v : <<<<"noEndpoints", k>>, v>> \in ServiceElements(s) <=> ~HasExternal(s) /\ v = NoEndpointVerdict(s)
    BY ZenonT(60), <1>7, <2>0 DEF ServiceElements
  <2>3. Value("services", k) = IF HasEndpoints(s) THEN {Chain("external", s)} ELSE {}
    BY ZenonT(60), <1>5, <2>1
  <2>4. Value("noEndpoints", k) = IF HasExternal(s) THEN {} ELSE {NoEndpointVerdict(s)}
    BY Zenon, <1>5, <2>2
  <2>. QED  BY Zenon, <1>7, <2>3, <2>4
<1>. QED  BY Zenon, <1>6, <1>7
\* The endpoints behind a policy chain are those that may serve under the policy.
PolicyEndpoints(s, local) == IF local THEN LocalEndpoints(s) ELSE ClusterEndpoints(s)

\* The endpoints that may serve a frontend, in terms of the policies.
LEMMA EligibleEndpoints ==
  ASSUME NEW s \in Services, NEW k
  PROVE  /\ k = svcPortMap[s].ip => Eligible(s, k) = PolicyEndpoints(s, svcPortMap[s].intLocal)
         /\ k # svcPortMap[s].ip /\ svcPortMap[s].ext # {} =>
              Eligible(s, k) = ClusterEndpoints(s) \cup PolicyEndpoints(s, svcPortMap[s].extLocal)
<1>. DEFINE p == svcPortMap[s]
            ready == endpointsMap[s].ready
            terminating == endpointsMap[s].terminating
            near == IF None \in {Hint[e] : e \in ready} THEN {} ELSE {e \in ready : Hint[e] = nodeLabels}
            anywhere == IF near # {} THEN near ELSE IF ready # {} THEN ready ELSE terminating
            here == IF ready \cap Local # {} THEN ready \cap Local ELSE terminating \cap Local
<1>1. UsesClusterEndpoints(p) => ClusterEndpoints(s) = anywhere
  <2>1. ASSUME ready = {} PROVE near = {}
    BY Zenon, <2>1
  <2>2. canUseTopology(ready) <=> near # {}
    BY Zenon DEF canUseTopology
  <2>3. canUseTopology(ready) => near = {e \in ready : Hint[e] = nodeLabels}
    BY Zenon DEF canUseTopology
  <2>. QED  BY Zenon, <2>1, <2>2, <2>3 DEF ClusterEndpoints
<1>2. UsesLocalEndpoints(p) => LocalEndpoints(s) = here
  BY Zenon DEF LocalEndpoints
<1>3. Eligible(s, k) = IF k = p.ip THEN IF p.intLocal THEN here ELSE anywhere
                       ELSE IF p.extLocal THEN anywhere \cup here ELSE anywhere
  BY Zenon DEF Eligible
<1>. HIDE DEF p, anywhere, here
<1>4. ASSUME k = p.ip PROVE Eligible(s, k) = PolicyEndpoints(s, p.intLocal)
  BY Zenon, <1>1, <1>2, <1>3, <1>4 DEF UsesClusterEndpoints, UsesLocalEndpoints, PolicyEndpoints
<1>5. ASSUME k # p.ip, p.ext # {} PROVE Eligible(s, k) = ClusterEndpoints(s) \cup PolicyEndpoints(s, p.extLocal)
  BY Zenon, <1>1, <1>2, <1>3, <1>5 DEF UsesClusterEndpoints, UsesLocalEndpoints, PolicyEndpoints
<1>. QED  BY Zenon, <1>4, <1>5 DEF p

\* The targets of the rules of a policy chain are endpoint chains of the Service, those of an
\* endpoint chain are its endpoint, and a packet that has reached an endpoint goes no further.
LEMMA PolicyHop ==
  ASSUME NEW s \in Services, Ruled(s), NEW local, PolicyEndpoints(s, local) # {}
  PROVE  /\ Targets({PolicyChain(s, local)}) # {}
         /\ \A t \in Targets({PolicyChain(s, local)}) : \E e \in PolicyEndpoints(s, local) : t = EndpointChain(s, e)
<1>. DEFINE c == PolicyChain(s, local)
<1>1. c \in ServiceChains(s)
  BY Zenon DEF PolicyChain, PolicyEndpoints, ServiceChains
<1>2. c \in DOMAIN kChains /\ Fits(c, kChains[c])
  BY Zenon, <1>1 DEF Ruled
<1>3. Spreads(kChains[c], s, PolicyEndpoints(s, local))
  BY ZenonT(60), <1>2, FitsKinds DEF PolicyChain, PolicyEndpoints
<1>4. Targets({c}) = {r[1] : r \in kChains[c]}
  BY Zenon, <1>2 DEF Targets
<1>. QED  BY ZenonT(60), <1>3, <1>4 DEF Spreads

\* From the chains of some endpoints, packets are translated to exactly those endpoints.
LEMMA EndpointHop ==
  ASSUME NEW s \in Services, Ruled(s), NEW E, E \subseteq ClusterEndpoints(s) \cup LocalEndpoints(s),
         NEW T, \A t \in T : \E e \in E : t = EndpointChain(s, e)
  PROVE  /\ \A d \in Targets(T) : \E e \in E : d = Dnat(s, e)
         /\ T # {} => Targets(T) # {}
<1>1. ASSUME NEW t \in T PROVE t \in DOMAIN kChains /\ \E e \in E : kChains[t] = {<<Dnat(s, e), 1>>}
  <2>1. PICK e \in E : t = EndpointChain(s, e)
    BY Zenon
  <2>2. EndpointChain(s, e) \in ServiceChains(s)
    BY Zenon DEF ServiceChains
  <2>3. t \in DOMAIN kChains /\ Fits(EndpointChain(s, e), kChains[t])
    BY Zenon, <2>1, <2>2 DEF Ruled
  <2>. QED  BY ZenonT(60), <2>3, FitsKinds
<1>2. Targets(T) = UNION {{r[1] : r \in kChains[c]} : c \in T}
  BY Zenon, <1>1 DEF Targets
<1>3. ASSUME NEW d \in Targets(T) PROVE \E e \in E : d = Dnat(s, e)
  <2>1. PICK t \in T : d \in {r[1] : r \in kChains[t]}
    BY Zenon, <1>2
  <2>2. PICK e \in E : kChains[t] = {<<Dnat(s, e), 1>>}
    BY Zenon, <1>1
  <2>. QED  BY <2>1, <2>2
<1>4. ASSUME NEW t \in T PROVE Targets(T) # {}
  <2>2. PICK e \in E : kChains[t] = {<<Dnat(s, e), 1>>}
    BY Zenon, <1>1
  <2>3. Dnat(s, e) \in {r[1] : r \in kChains[t]}
    BY Zenon, <2>2
  <2>. QED  BY ZenonT(60), <1>2, <2>3
<1>. QED  BY Zenon, <1>3, <1>4

\* A translated packet takes no further jump.
LEMMA LastHop ==
  ASSUME DOMAIN kChains \subseteq Chains, NEW D, \A d \in D : d[1] = "dnat"
  PROVE  Targets(D) = {}
<1>1. \A c \in Chains : c[1] # "dnat"
  BY DEF Chains, Chain, EndpointChain
<1>. QED  BY Zenon, <1>1 DEF Targets
\* From the element of a frontend, a packet takes one policy chain (cluster IP) or first the
\* external chain, and then reaches an eligible endpoint.
LEMMA InternalRoute ==
  ASSUME DOMAIN kChains \subseteq Chains, NEW s \in Services, Ruled(s), NEW k, k = svcPortMap[s].ip,
         Value("services", k) = IF HasInternal(s) THEN {PolicyChain(s, svcPortMap[s].intLocal)} ELSE {}
  PROVE  /\ \A d \in Destinations(k) : \E e \in Eligible(s, k) : d = Dnat(s, e)
         /\ Eligible(s, k) # {} => Destinations(k) # {}
<1>. DEFINE E == PolicyEndpoints(s, svcPortMap[s].intLocal)
            one == Targets(Value("services", k))
            two == Targets(one)
<1>1. Eligible(s, k) = E
  BY Zenon, EligibleEndpoints
<1>2. E # {} <=> HasInternal(s)
  BY ZenonT(60), SomeEndpoints DEF PolicyEndpoints, HasInternal, HasEndpoints, ClusterEndpoints, LocalEndpoints
<1>3. CASE ~HasInternal(s)
  <2>1. one = {} /\ two = {} /\ Targets(two) = {}
    <3>1. Targets({}) = {}
      BY ZenonT(60) DEF Targets
    <3>2. Value("services", k) = {}
      BY ZenonT(60), <1>3
    <3>. QED  BY ZenonT(60), <3>1, <3>2
  <2>. QED  BY Zenon, <1>1, <1>2, <1>3, <2>1 DEF Destinations
<1>4. CASE HasInternal(s)
  <2>1. one # {} /\ \A t \in one : \E e \in E : t = EndpointChain(s, e)
    BY <1>2, <1>4, PolicyHop
  <2>2. two # {} /\ \A d \in two : \E e \in E : d = Dnat(s, e)
    BY <2>1, EndpointHop DEF PolicyEndpoints
  <2>3. Targets(two) = {}
    BY <2>2, LastHop DEF Dnat
  <2>4. \A t \in one : t[1] # "dnat"
    BY <2>1 DEF EndpointChain
  <2>5. \A d \in two : d[1] = "dnat"
    BY <2>2 DEF Dnat
  <2>6. Destinations(k) = two
    BY Zenon, <2>3, <2>4, <2>5 DEF Destinations
  <2>. QED  BY Zenon, <1>1, <2>2, <2>6
<1>. QED  BY Zenon, <1>3, <1>4

\* From the element of an external IP, a packet takes the external chain and then one of the
\* policy chains, and reaches an eligible endpoint.
LEMMA ExternalRoute ==
  ASSUME DOMAIN kChains \subseteq Chains, NEW s \in Services, Ruled(s), NEW k, k # svcPortMap[s].ip,
         svcPortMap[s].ext # {},
         Value("services", k) = IF HasEndpoints(s) THEN {Chain("external", s)} ELSE {}
  PROVE  /\ \A d \in Destinations(k) : \E e \in Eligible(s, k) : d = Dnat(s, e)
         /\ Eligible(s, k) # {} => Destinations(k) # {}
         /\ HasEndpoints(s) => Eligible(s, k) # {}
<1>. DEFINE P == PolicyEndpoints(s, svcPortMap[s].extLocal)
            one == Targets(Value("services", k))
            two == Targets(one)
            three == Targets(two)
<1>1. Eligible(s, k) = ClusterEndpoints(s) \cup P
  BY ZenonT(60), EligibleEndpoints
<1>2. CASE ~HasEndpoints(s)
  <2>1. one = {} /\ two = {} /\ three = {}
    BY Zenon, <1>2 DEF Targets
  <2>2. Eligible(s, k) = {}
    BY Zenon, <1>1, <1>2 DEF HasEndpoints, PolicyEndpoints, ClusterEndpoints, LocalEndpoints
  <2>. QED  BY ZenonT(60), <1>2, <2>1, <2>2 DEF Destinations
<1>3. CASE HasEndpoints(s)
  <2>. DEFINE c == Chain("external", s)
              cluster == Chain("cluster", s)
              policy == PolicyChain(s, svcPortMap[s].extLocal)
              E == ClusterEndpoints(s) \cup P
  <2>1. c \in DOMAIN kChains /\ Fits(c, kChains[c])
    BY ZenonT(60), <1>3 DEF Ruled, ServiceChains
  <2>2. one = {cluster} \cup (IF HasExternal(s) THEN {policy} ELSE {})
    <3>1. Value("services", k) = {c}
      BY Zenon, <1>3
    <3>2. one = {r[1] : r \in kChains[c]}
      BY Zenon, <2>1, <3>1 DEF Targets
    <3>3. kChains[c] = {<<cluster, 1>>} \cup (IF HasExternal(s) THEN {<<policy, 1>>} ELSE {})
      BY ZenonT(60), <2>1, FitsKinds
    <3>. HIDE DEF one, cluster, policy
    <3>4. \A t \in one : t = cluster \/ (HasExternal(s) /\ t = policy)
      BY <3>2, <3>3
    <3>5. cluster \in one
      <4>1. <<cluster, 1>> \in kChains[c] /\ <<cluster, 1>>[1] = cluster
        BY Zenon, <3>3
      <4>. QED  BY Zenon, <3>2, <4>1
    <3>6. HasExternal(s) => policy \in one
      BY <3>2, <3>3
    <3>. QED  BY Zenon, <3>4, <3>5, <3>6
  <2>3. ClusterEndpoints(s) # {}
    BY Zenon, <1>3, SomeEndpoints
  <2>4. HasExternal(s) => P # {}
    BY Zenon, <2>3 DEF HasExternal, PolicyEndpoints
  <2>5. two = Targets({cluster}) \cup (IF HasExternal(s) THEN Targets({policy}) ELSE {})
    BY <2>2 DEF Targets
  <2>6. /\ Targets({cluster}) # {}
        /\ \A t \in Targets({cluster}) : \E e \in ClusterEndpoints(s) : t = EndpointChain(s, e)
    <3>1. cluster = PolicyChain(s, FALSE) /\ ClusterEndpoints(s) = PolicyEndpoints(s, FALSE)
      BY Zenon DEF PolicyChain, PolicyEndpoints
    <3>. HIDE DEF cluster
    <3>2. PolicyEndpoints(s, FALSE) # {}
      BY ZenonT(60), <2>3, <3>1
    <3>3. /\ Targets({PolicyChain(s, FALSE)}) # {}
          /\ \A t \in Targets({PolicyChain(s, FALSE)}) : \E e \in PolicyEndpoints(s, FALSE) : t = EndpointChain(s, e)
      BY ZenonT(60), <3>2, PolicyHop
    <3>. QED  BY ZenonT(60), <3>1, <3>3
  <2>7. HasExternal(s) => \A t \in Targets({policy}) : \E e \in P : t = EndpointChain(s, e)
    BY ZenonT(60), <2>4, PolicyHop
  <2>8. two # {} /\ \A t \in two : \E e \in E : t = EndpointChain(s, e)
    BY ZenonT(60), <2>5, <2>6, <2>7
  <2>9. three # {} /\ \A d \in three : \E e \in E : d = Dnat(s, e)
    <3>1. E \subseteq ClusterEndpoints(s) \cup LocalEndpoints(s)
      BY Zenon DEF PolicyEndpoints
    <3>. HIDE DEF two, E
    <3>. QED  BY <2>8, <3>1, EndpointHop
  <2>10. \A t \in one \cup two : t[1] # "dnat"
    BY <2>2, <2>8 DEF Chain, PolicyChain, EndpointChain
  <2>11. \A d \in three : d[1] = "dnat"
    BY <2>9 DEF Dnat
  <2>12. Destinations(k) = three
    BY Zenon, <2>10, <2>11 DEF Destinations
  <2>. QED  BY ZenonT(60), <1>1, <2>3, <2>9, <2>12
<1>. QED  BY ZenonT(60), <1>2, <1>3

\* A frontend whose Service has its chains and elements in the kernel is routed as specified.
LEMMA Routed ==
  ASSUME Types, Apart(svcPortMap), DOMAIN kChains \subseteq Chains, kElements = Wanted,
         NEW s \in Active, Ruled(s), NEW k \in KeysOf(svcPortMap[s])
  PROVE  RoutedAsSpecified(s, k)
<1>0. s \in Services
  BY Zenon DEF Active
<1>1. "drop" # "reject"
  BY Zenon
<1>. DEFINE none == endpointsMap[s].ready = {} /\ endpointsMap[s].terminating = {}
<1>2. NoEndpointVerdict(s) = (IF none THEN Verdict("reject") ELSE Verdict("drop")) /\ Verdict("reject") # Verdict("drop")
  BY Zenon, <1>1 DEF NoEndpointVerdict, HasEndpoints, Verdict
<1>3. CASE k = svcPortMap[s].ip
  <2>1. /\ Value("services", k) = IF HasInternal(s) THEN {PolicyChain(s, svcPortMap[s].intLocal)} ELSE {}
        /\ Value("noEndpoints", k) = IF HasInternal(s) THEN {} ELSE {NoEndpointVerdict(s)}
    BY ZenonT(60), <1>3, Entries
  <2>2. Eligible(s, k) = PolicyEndpoints(s, svcPortMap[s].intLocal)
    BY ZenonT(60), <1>0, <1>3, EligibleEndpoints
  <2>3. (Eligible(s, k) # {} <=> HasInternal(s)) /\ (none => ~HasInternal(s))
    BY ZenonT(60), <1>0, <2>2, SomeEndpoints DEF PolicyEndpoints, HasInternal, HasEndpoints, ClusterEndpoints, LocalEndpoints
  <2>4. /\ \A d \in Destinations(k) : \E e \in Eligible(s, k) : d = Dnat(s, e)
        /\ Eligible(s, k) # {} => Destinations(k) # {}
    BY <1>0, <1>3, <2>1, InternalRoute
  <2>5. none <=> Value("noEndpoints", k) = {Verdict("reject")}
    BY <1>2, <2>1, <2>3
  <2>6. Eligible(s, k) = {} /\ ~none => Value("noEndpoints", k) = {Verdict("drop")}
    BY ZenonT(60), <1>2, <2>1, <2>3
  <2>. QED  BY Zenon, <2>4, <2>5, <2>6 DEF RoutedAsSpecified
<1>4. CASE k # svcPortMap[s].ip
  <2>1. /\ Value("services", k) = IF HasEndpoints(s) THEN {Chain("external", s)} ELSE {}
        /\ Value("noEndpoints", k) = IF HasExternal(s) THEN {} ELSE {NoEndpointVerdict(s)}
    BY Zenon, <1>4, Entries
  <2>2. svcPortMap[s].ext # {}
    BY Zenon, <1>4 DEF KeysOf
  <2>3. /\ \A d \in Destinations(k) : \E e \in Eligible(s, k) : d = Dnat(s, e)
        /\ Eligible(s, k) # {} => Destinations(k) # {}
        /\ ~none => Eligible(s, k) # {}
    BY ZenonT(60), <1>0, <1>4, <2>1, <2>2, ExternalRoute DEF HasEndpoints
  <2>4. none <=> Value("noEndpoints", k) = {Verdict("reject")}
    <3>1. none => ~HasExternal(s)
      BY ZenonT(60) DEF HasExternal, HasEndpoints
    <3>2. Value("noEndpoints", k) = {} \/ Value("noEndpoints", k) = {NoEndpointVerdict(s)}
      BY ZenonT(60), <2>1
    <3>3. none => Value("noEndpoints", k) = {Verdict("reject")}
      BY ZenonT(60), <1>2, <2>1, <3>1
    <3>4. ~none => Verdict("reject") \notin Value("noEndpoints", k)
      BY ZenonT(60), <1>2, <3>2
    <3>. QED  BY ZenonT(60), <3>3, <3>4
  <2>. QED  BY Zenon, <2>3, <2>4 DEF RoutedAsSpecified
<1>. QED  BY Zenon, <1>3, <1>4

\* After every successful sync, full or partial, and until the next: a packet for a frontend in
\* svcPortMap reaches only eligible endpoints of the Service that has the frontend, and some if
\* there are any; else it is rejected or dropped; a frontend of no Service is not captured.  The
\* rules that partial syncs leave alone, the scores that have changed since they were written,
\* failed syncs, failed listings and restarts in between do not matter (syncProxyRules).
THEOREM RoutesStayCurrent == Spec => []RoutesCurrent
<1>1. TypeOK /\ TInv /\ RInv => RoutesCurrent
  <2>. SUFFICES ASSUME TypeOK, TInv, RInv, pc = "idle", ~needFullSync, NEW k \in Keys
                PROVE  /\ \A s \in Active : k \in KeysOf(svcPortMap[s]) => RoutedAsSpecified(s, k)
                       /\ (\A s \in Active : k \notin KeysOf(svcPortMap[s])) => \A x \in kElements : x[1][2] # k
    BY Zenon DEF RoutesCurrent
  <2>1. updated = {} /\ kElements = elements
    BY Zenon DEF TInv, Mirror
  <2>2. \A s \in Active : Ruled(s) /\ ServiceElements(s) \subseteq elements
    BY Zenon, <2>1 DEF RInv, TInv, Written
  <2>3. kElements = Wanted
    BY Zenon, <2>1, <2>2 DEF RInv, Wanted
  <2>4. \A s \in Active : k \in KeysOf(svcPortMap[s]) => RoutedAsSpecified(s, k)
    BY ZenonT(60), <2>2, <2>3, Routed DEF TInv, TypeOK
  <2>5. ASSUME NEW x \in kElements PROVE \E s \in Active : x[1][2] \in KeysOf(svcPortMap[s])
    <3>1. PICK s \in Active : x \in ServiceElements(s)
      BY Zenon, <2>3 DEF Wanted
    <3>. QED  BY <3>1, ElementKinds DEF KeysOf, Active
  <2>. QED  BY Zenon, <2>4, <2>5
<1>. QED  BY <1>1, ProxierTypes, TransactionInvariant, RouteInvariant, PTL
=============================================================================
