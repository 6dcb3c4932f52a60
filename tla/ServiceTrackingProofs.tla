------------------------ MODULE ServiceTrackingProofs ------------------------
(***************************************************************************)
(* Proofs about the change trackers, for any Services, EndpointSlices and  *)
(* bounds: both implement ServiceView, the endpointsMap kept by            *)
(* differences is current, and the clean-up after a sync leaves no stale   *)
(* conntrack entry.                                                        *)
(*                                                                         *)
(* The refinement alone is not inductive: that an update makes the view    *)
(* equal to what has been reported depends on what the trackers have kept. *)
(* Tracked says what that is: a Service with a pending change has the      *)
(* proxier's part of it as previous and the reported one as current; a     *)
(* Service without one is reported as the proxier has it; and likewise for *)
(* the pending and applied slices of the cache. The conntrack entries need *)
(* FInv: in the middle of a sync a flow, or a rule that new flows follow,  *)
(* may be stale, but then the result of the sync so far names it.          *)
(***************************************************************************)
EXTENDS ServiceTracking, FiniteSetTheorems, WellFoundedInduction, TLAPS

Reported(s) == serviceToServiceMap(s, seenService[s])

ServiceTracked(s) ==
    IF s \in DOMAIN items
    THEN items[s].previous = PartOf(s) /\ items[s].current = Reported(s)
    ELSE PartOf(s) = Reported(s)

SliceTracked(l) ==
    IF AddressType[l] = Family
    THEN seenSlice[l] = IF l \in DOMAIN pending THEN pending[l] ELSE applied[l]
    ELSE l \notin DOMAIN pending /\ applied[l] = None

Tracked ==
    /\ DOMAIN seenService = Services /\ DOMAIN items \subseteq Services
    /\ seenSlice \in [Slices -> Contents \cup {None}]
    /\ applied = [l \in Slices |-> applied[l]] /\ DOMAIN pending \subseteq Slices
    /\ \A s \in Services : ServiceTracked(s)
    /\ \A l \in Slices : SliceTracked(l)

\* What a Service's map contains belongs to the Service.
LEMMA OwnPorts ==
    ASSUME NEW s, NEW spec
    PROVE  /\ \A sp \in DOMAIN serviceToServiceMap(s, spec) : sp[1] = s
           /\ serviceToServiceMap(s, spec) =
                [sp \in DOMAIN serviceToServiceMap(s, spec) |-> serviceToServiceMap(s, spec)[sp]]
BY DEF serviceToServiceMap

\* Before the first event there is nothing to track.
LEMMA InitTracked == Init => Tracked
BY DEF Init, Tracked, ServiceTracked, SliceTracked, PartOf, Without, Reported, serviceToServiceMap

\* An event of a Service: the change keeps the first previous, takes the latest current, and
\* is dropped if they are the same.
LEMMA ServiceEvent ==
    ASSUME Tracked, NEW s \in Services, NEW new \in Specs \cup {None}, HandleService(s, new)
    PROVE  Tracked'
<1>. DEFINE previous == IF s \in DOMAIN items THEN items[s].previous ELSE serviceToServiceMap(s, seenService[s])
            current == serviceToServiceMap(s, new)
<1>1. /\ seenService' = [seenService EXCEPT ![s] = new]
      /\ items' = IF previous = current THEN Without(items, {s})
                  ELSE With(items, s, [previous |-> previous, current |-> current])
      /\ UNCHANGED <<seenSlice, applied, pending, svcPortMap>>
  BY Zenon DEF HandleService, OnServiceUpdate, TrackService, maps
<1>2. previous = PartOf(s) /\ Reported(s)' = current
  BY Zenon, <1>1 DEF Tracked, ServiceTracked, Reported
<1>. HIDE DEF previous, current
<1>3. \A t \in Services : PartOf(t)' = PartOf(t) /\ (t # s => Reported(t)' = Reported(t))
  BY Zenon, <1>1 DEF Tracked, PartOf, Reported
<1>4. ServiceTracked(s)'
  <2>1. CASE previous = current
    <3>1. s \notin DOMAIN items'
      BY Zenon, <1>1, <2>1 DEF Without
    <3>. QED  BY Zenon, <1>2, <1>3, <2>1, <3>1 DEF ServiceTracked
  <2>2. CASE previous # current
    <3>1. s \in DOMAIN items' /\ items'[s] = [previous |-> previous, current |-> current]
      BY Zenon, <1>1, <2>2 DEF With
    <3>. QED  BY <1>2, <1>3, <3>1 DEF ServiceTracked
  <2>. QED  BY Zenon, <2>1, <2>2
<1>5. \A t \in Services \ {s} : ServiceTracked(t)'
  <2>1. \A t \in Services \ {s} : (t \in DOMAIN items' <=> t \in DOMAIN items)
                                  /\ (t \in DOMAIN items => items'[t] = items[t])
    BY Zenon, <1>1 DEF With, Without
  <2>. QED  BY Zenon, <1>3, <2>1 DEF Tracked, ServiceTracked
<1>6. DOMAIN seenService' = Services /\ DOMAIN items' \subseteq Services
  BY Zenon, <1>1 DEF Tracked, With, Without
<1>7. \A l \in Slices : SliceTracked(l)'
  BY Zenon, <1>1 DEF Tracked, SliceTracked
<1>. QED  BY Zenon, <1>1, <1>4, <1>5, <1>6, <1>7 DEF Tracked

\* An event of an EndpointSlice: it is pending unless it is what is pending or applied already.
LEMMA SliceEvent ==
    ASSUME Tracked, NEW l \in Slices, NEW new \in Contents \cup {None}, HandleEndpointSlice(l, new)
    PROVE  Tracked'
<1>1. /\ seenSlice' = [seenSlice EXCEPT ![l] = new]
      /\ pending' = IF AddressType[l] = Family /\ esDataChanged(l, new) THEN With(pending, l, new) ELSE pending
      /\ UNCHANGED <<seenService, items, applied, svcPortMap>>
  BY Zenon DEF HandleEndpointSlice, OnEndpointSliceUpdate, EndpointSliceUpdate, updatePending, maps
<1>2. \A k \in Slices : SliceTracked(k)'
  BY Zenon, <1>1 DEF Tracked, SliceTracked, With, esDataChanged
<1>3. \A s \in Services : ServiceTracked(s)'
  BY Zenon, <1>1 DEF Tracked, ServiceTracked, PartOf, Reported
<1>4. DOMAIN pending' \subseteq Slices
  BY Zenon, <1>1 DEF Tracked, With
<1>. QED  BY Zenon, <1>1, <1>2, <1>3, <1>4 DEF Tracked

\* ServicePortMap.Update: the proxier's part of every Service becomes the reported one.
LEMMA ServicesTakenOver ==
    ASSUME Tracked, UpdateServiceMap, NEW s \in Services
    PROVE  PartOf(s)' = Reported(s)
<1>. DEFINE changes == {items[t] : t \in DOMAIN items}
            union == UnionOf({c.current : c \in changes})
            merged == Merge(svcPortMap, union)
            gone == UNION {filter(c) : c \in changes}
<1>1. svcPortMap' = Without(merged, gone)
  BY Zenon DEF UpdateServiceMap
<1>2. \A t \in DOMAIN items : items[t].previous = PartOf(t) /\ items[t].current = Reported(t)
  BY Zenon DEF Tracked, ServiceTracked
<1>3. \A t \in DOMAIN items : /\ \A sp \in DOMAIN items[t].current : sp[1] = t
                              /\ \A sp \in DOMAIN items[t].previous : sp[1] = t
  <2>. TAKE t \in DOMAIN items
  <2>1. \A sp \in DOMAIN items[t].current : sp[1] = t
    BY <1>2, OwnPorts DEF Reported
  <2>2. \A sp \in DOMAIN PartOf(t) : sp[1] = t
    BY Zenon DEF PartOf, Without
  <2>. QED  BY Zenon, <1>2, <2>1, <2>2
<1>4. ASSUME NEW sp, sp[1] = s
      PROVE  sp \in DOMAIN svcPortMap' <=> sp \in DOMAIN Reported(s)
  <2>1. sp \in DOMAIN union <=> s \in DOMAIN items /\ sp \in DOMAIN items[s].current
    BY <1>3, <1>4 DEF UnionOf
  <2>2. sp \in gone <=> s \in DOMAIN items /\ sp \in DOMAIN items[s].previous /\ sp \notin DOMAIN items[s].current
    BY <1>3, <1>4 DEF filter
  <2>3. sp \in DOMAIN svcPortMap <=> sp \in DOMAIN PartOf(s)
    BY Zenon, <1>4 DEF PartOf, Without
  <2>4. sp \in DOMAIN svcPortMap' <=> (sp \in DOMAIN svcPortMap \/ sp \in DOMAIN union) /\ sp \notin gone
    BY Zenon, <1>1 DEF Without, Merge
  <2>. HIDE DEF union, gone
  <2>. QED  BY Zenon, <1>2, <2>1, <2>2, <2>3, <2>4 DEF Tracked, ServiceTracked
<1>5. ASSUME NEW sp, sp[1] = s, sp \in DOMAIN svcPortMap'
      PROVE  svcPortMap'[sp] = Reported(s)[sp]
  <2>1. svcPortMap'[sp] = IF sp \in DOMAIN union THEN union[sp] ELSE svcPortMap[sp]
    BY Zenon, <1>1, <1>5 DEF Without, Merge
  <2>2. CASE s \in DOMAIN items
    <3>1. sp \in DOMAIN items[s].current
      BY Zenon, <1>2, <1>4, <1>5, <2>2
    <3>2. sp \in DOMAIN union
      BY Zenon, <2>2, <3>1 DEF UnionOf
    <3>3. \A m \in {c.current : c \in changes} : sp \in DOMAIN m => m = items[s].current
      BY <1>3, <1>5
    <3>4. items[s].current \in {c.current : c \in changes}
      BY Zenon, <2>2
    <3>5. union[sp] = items[s].current[sp]
      BY Zenon, <3>1, <3>2, <3>3, <3>4 DEF UnionOf
    <3>. QED  BY Zenon, <1>2, <2>1, <2>2, <3>2, <3>5
  <2>3. CASE s \notin DOMAIN items
    <3>1. sp \notin DOMAIN union
      BY <1>3, <1>5, <2>3 DEF UnionOf
    <3>2. PartOf(s) = Reported(s) /\ sp \in DOMAIN Reported(s)
      BY Zenon, <1>4, <1>5, <2>3 DEF Tracked, ServiceTracked
    <3>3. PartOf(s)[sp] = svcPortMap[sp]
      BY Zenon, <3>2 DEF PartOf, Without
    <3>. QED  BY Zenon, <2>1, <3>1, <3>2, <3>3
  <2>. QED  BY Zenon, <2>2, <2>3
<1>6. PartOf(s)' = [sp \in DOMAIN Reported(s) |-> Reported(s)[sp]]
  <2>1. \A sp \in DOMAIN Reported(s) : sp[1] = s
    BY Zenon, OwnPorts DEF Reported
  <2>2. {sp \in DOMAIN svcPortMap' : sp[1] = s} = DOMAIN Reported(s)
    BY Zenon, <1>4, <2>1
  <2>3. PartOf(s)' = [sp \in {q \in DOMAIN svcPortMap' : q[1] = s} |-> svcPortMap'[sp]]
    BY Zenon DEF PartOf, Without
  <2>. QED  BY Zenon, <1>5, <2>2, <2>3
<1>. QED  BY Zenon, <1>6, OwnPorts DEF Reported

\* A sync takes the changes of the Services over.
LEMMA ServicesStep ==
    ASSUME Tracked, UpdateServiceMap
    PROVE  Tracked'
<1>1. items' = <<>> /\ UNCHANGED <<seenService, seenSlice, applied, pending>>
  BY Zenon DEF UpdateServiceMap
<1>2. \A s \in Services : ServiceTracked(s)'
  BY <1>1, ServicesTakenOver DEF ServiceTracked, Reported
<1>3. \A l \in Slices : SliceTracked(l)'
  BY Zenon, <1>1 DEF Tracked, SliceTracked
<1>. QED  BY <1>1, <1>2, <1>3 DEF Tracked

\* EndpointSliceCache.checkoutChanges: the pending slices become applied ones.
LEMMA SlicesTakenOver ==
    ASSUME Tracked, UpdateEndpointsMap
    PROVE  /\ UNCHANGED <<seenService, seenSlice, items, svcPortMap>> /\ pending' = <<>>
           /\ applied' = [l \in Slices |-> IF AddressType[l] = Family THEN seenSlice[l] ELSE None]
<1>1. applied' = Merge(applied, pending) /\ pending' = <<>> /\ UNCHANGED <<seenService, seenSlice, items, svcPortMap>>
  BY Zenon DEF UpdateEndpointsMap, checkoutChanges
<1>2. applied' = [l \in Slices |-> IF l \in DOMAIN pending THEN pending[l] ELSE applied[l]]
  <2>1. DOMAIN applied = Slices /\ DOMAIN applied \cup DOMAIN pending = Slices
    BY Zenon DEF Tracked
  <2>. QED  BY Zenon, <1>1, <2>1 DEF Merge
<1>. QED  BY Zenon, <1>1, <1>2 DEF Tracked, SliceTracked

\* A sync takes the changes of the slices over.
LEMMA SlicesStep ==
    ASSUME Tracked, UpdateEndpointsMap
    PROVE  Tracked'
<1>1. \A s \in Services : ServiceTracked(s)'
  BY Zenon, SlicesTakenOver DEF Tracked, ServiceTracked, PartOf, Reported
<1>2. \A l \in Slices : SliceTracked(l)'
  BY SlicesTakenOver DEF Tracked, SliceTracked
<1>. QED  BY <1>1, <1>2, SlicesTakenOver DEF Tracked

\* Steps that leave the trackers and the Services' map alone.
Elsewhere == UNCHANGED <<seenService, seenSlice, items, applied, pending, svcPortMap>>

\* The handlers' requests for a sync, and the syncs of the informers' initial lists.
Asking == \E informer \in Informers : AskForSync(informer) \/ OnSynced(informer) \/ FirstSync(informer)

\* What a request for a sync leaves alone.
LEMMA AskingElsewhere ==
    ASSUME Asking
    PROVE  /\ UNCHANGED <<seenService, seenSlice, items, applied, pending, svcPortMap, endpointsMap, result, rules, flows,
                          overlooked, events, faults, lost>>
           /\ pc' = pc \/ (pc = "idle" /\ pc' = "services")
<1>1. ASSUME NEW informer \in Informers, AskForSync(informer) \/ OnSynced(informer)
      PROVE  /\ UNCHANGED <<seenService, seenSlice, items, applied, pending, svcPortMap, endpointsMap, result, rules, flows,
                            overlooked, events, faults, lost>>
             /\ pc' = pc
  BY ZenonT(60), <1>1 DEF AskForSync, OnSynced, trackers, maps
<1>2. ASSUME NEW informer \in Informers, FirstSync(informer)
      PROVE  /\ UNCHANGED <<seenService, seenSlice, items, applied, pending, svcPortMap, endpointsMap, result, rules, flows,
                            overlooked, events, faults, lost>>
             /\ pc' = pc \/ (pc = "idle" /\ pc' = "services")
  BY ZenonT(60), <1>2 DEF FirstSync, Enter, trackers, maps
<1>. QED  BY Zenon, <1>1, <1>2 DEF Asking

\* What a step can do to the trackers.
LEMMA StepKinds ==
    ASSUME [Next]_vars
    PROVE  \/ \E s \in Services, new \in Specs \cup {None} : HandleService(s, new)
           \/ \E l \in Slices, new \in Contents \cup {None} : HandleEndpointSlice(l, new)
           \/ UpdateServiceMap \/ UpdateEndpointsMap \/ Elsewhere
<1>1. CASE StartSync \/ WriteRules \/ WriteRulesFails \/ CleanStaleEntries \/ ConntrackFails
  BY Zenon, <1>1 DEF StartSync, WriteRules, WriteRulesFails, CleanStaleEntries, ConntrackFails, Elsewhere, trackers, maps
<1>2. CASE \E sp \in UDPNames : Packet(sp)
  BY Zenon, <1>2 DEF Packet, Elsewhere, trackers, maps
<1>3. CASE UNCHANGED vars
  BY Zenon, <1>3 DEF vars, Elsewhere, trackers, maps
<1>4. CASE Asking
  BY Zenon, <1>4, AskingElsewhere DEF Elsewhere
<1>. QED  BY Zenon, <1>1, <1>2, <1>3, <1>4 DEF Next, Asking

\* Every step keeps Tracked.
LEMMA TrackedInvariant == Spec => []Tracked
<1>1. Tracked /\ [Next]_vars => Tracked'
  <2>. SUFFICES ASSUME Tracked, [Next]_vars PROVE Tracked'
    BY Zenon
  <2>1. CASE Elsewhere
    BY Zenon, <2>1 DEF Elsewhere, Tracked, ServiceTracked, SliceTracked, PartOf, Reported
  <2>. QED  BY Zenon, <2>1, StepKinds, ServiceEvent, SliceEvent, ServicesStep, SlicesStep
<1>. QED  BY InitTracked, <1>1, PTL DEF Spec

services == [s \in Services |-> Reported(s)]
parts == [s \in Services |-> PartOf(s)]
slices == [l \in Slices |-> IF AddressType[l] = Family THEN seenSlice[l] ELSE None]

\* A step of the process is a report, an update or nothing to the Services' view.
LEMMA ServiceStepRefines ==
    ASSUME Tracked, [Next]_vars
    PROVE  [ServiceTracker!Next]_<<services, parts>>
<1>1. ASSUME NEW s \in Services, NEW new \in Specs \cup {None}, HandleService(s, new)
      PROVE  ServiceTracker!Next
  <2>1. parts' = parts
    BY Zenon, <1>1 DEF HandleService, maps, parts, PartOf
  <2>2. services' = [services EXCEPT ![s] = serviceToServiceMap(s, new)]
    BY Zenon, <1>1 DEF HandleService, services, Reported, Tracked
  <2>3. serviceToServiceMap(s, new) \in ServiceMaps
    BY DEF ServiceMaps
  <2>4. ServiceTracker!Report(s)
    BY Zenon, <2>1, <2>2, <2>3 DEF ServiceTracker!Report, services, parts, Reported
  <2>. QED  BY Zenon, <2>4 DEF ServiceTracker!Next
<1>2. CASE UpdateServiceMap
  <2>1. services' = services
    BY Zenon, <1>2 DEF UpdateServiceMap, services, Reported
  <2>2. parts' = services
    BY Zenon, <1>2, ServicesTakenOver DEF parts, services
  <2>. QED  BY Zenon, <2>1, <2>2 DEF ServiceTracker!Next, ServiceTracker!Refresh, services, parts, Reported
<1>3. CASE Elsewhere \/ UpdateEndpointsMap \/ \E l \in Slices, new \in Contents \cup {None} : HandleEndpointSlice(l, new)
  <2>1. UNCHANGED <<seenService, svcPortMap>>
    BY Zenon, <1>3, SlicesTakenOver DEF Elsewhere, HandleEndpointSlice, maps
  <2>. QED  BY Zenon, <2>1 DEF services, parts, Reported, PartOf
<1>. QED  BY Zenon, <1>1, <1>2, <1>3, StepKinds

\* And likewise for the slices'.
LEMMA SliceStepRefines ==
    ASSUME Tracked, [Next]_vars
    PROVE  [SliceTracker!Next]_<<slices, applied>>
<1>1. ASSUME NEW l \in Slices, NEW new \in Contents \cup {None}, HandleEndpointSlice(l, new)
      PROVE  SliceTracker!Next \/ UNCHANGED <<slices, applied>>
  <2>1. applied' = applied /\ seenSlice' = [seenSlice EXCEPT ![l] = new]
    BY Zenon, <1>1 DEF HandleEndpointSlice
  <2>2. CASE AddressType[l] = Family
    <3>1. slices' = [slices EXCEPT ![l] = new]
      BY ZenonT(60), <2>1, <2>2 DEF slices, Tracked
    <3>. QED  BY Zenon, <2>1, <3>1 DEF SliceTracker!Next, SliceTracker!Report, slices
  <2>3. CASE AddressType[l] # Family
    BY Zenon, <2>1, <2>3 DEF slices, Tracked
  <2>. QED  BY Zenon, <2>2, <2>3
<1>2. CASE UpdateEndpointsMap
  <2>1. slices' = slices /\ applied' = slices
    BY Zenon, <1>2, SlicesTakenOver DEF slices
  <2>. QED  BY Zenon, <2>1 DEF SliceTracker!Next, SliceTracker!Refresh, slices
<1>3. CASE Elsewhere \/ UpdateServiceMap \/ \E s \in Services, new \in Specs \cup {None} : HandleService(s, new)
  BY Zenon, <1>3 DEF Elsewhere, UpdateServiceMap, HandleService, slices
<1>. QED  BY Zenon, <1>1, <1>2, <1>3, StepKinds

\* Both change trackers implement the abstract view: however events are coalesced, undone or
\* repeated between two syncs, an update leaves the proxier with exactly what has been
\* reported last, and nothing else changes what it has (ServiceChangeTracker.Update,
\* ServicePortMap.Update, EndpointSliceCache.updatePending and checkoutChanges).
THEOREM TrackersImplementView == Spec => ImplementsServiceView
<1>1. Init => ServiceTracker!Init /\ SliceTracker!Init
  BY DEF Init, ServiceTracker!Init, SliceTracker!Init, PartOf, Without, serviceToServiceMap
<1>2. Tracked /\ [Next]_vars => [ServiceTracker!Next]_<<services, parts>>
  BY Zenon, ServiceStepRefines
<1>3. Tracked /\ [Next]_vars => [SliceTracker!Next]_<<slices, applied>>
  BY Zenon, SliceStepRefines
<1>. QED  BY <1>1, <1>2, <1>3, TrackedInvariant, PTL
          DEF Spec, ImplementsServiceView, ServiceTracker!Spec, SliceTracker!Spec, services, parts, slices, Reported

\* Once both informers have delivered their lists, a change that the proxier has not taken over
\* is never forgotten: a sync that will take it over has been asked for or is on its way to it,
\* or OnServiceSynced, OnEndpointSlicesSynced or the handler that made it is still to ask.  What
\* arrived before was never asked for, as the handlers test isInitialized: there it is the sync
\* that the later of OnServiceSynced and OnEndpointSlicesSynced owes.
THEOREM ChangesAnnounced == Spec => []ChangeAnnounced
<1>1. Init => ChangeAnnounced
  BY Zenon DEF Init, ChangeAnnounced
<1>2. ChangeAnnounced /\ [Next]_vars => ChangeAnnounced'
  <2>. SUFFICES ASSUME ChangeAnnounced, [Next]_vars PROVE ChangeAnnounced'
    BY Zenon
  <2>. USE DEF ChangeAnnounced, isInitialized
  <2>1. ASSUME NEW s \in Services, NEW new \in Specs \cup {None}, HandleService(s, new) PROVE ChangeAnnounced'
    BY ZenonT(60), <2>1 DEF HandleService, OnServiceUpdate, Changed
  <2>2. ASSUME NEW l \in Slices, NEW new \in Contents \cup {None}, HandleEndpointSlice(l, new) PROVE ChangeAnnounced'
    <3>1. UNCHANGED <<items, synced, owed, pc>> /\ (queued => queued') /\ asking \subseteq asking'
      BY ZenonT(60), <2>2 DEF HandleEndpointSlice, OnEndpointSliceUpdate, EndpointSliceUpdate, Changed
    <3>2. pending' = pending \/ (synced = Informers => queued')
      BY ZenonT(60), <2>2 DEF HandleEndpointSlice, OnEndpointSliceUpdate, EndpointSliceUpdate, updatePending, Changed
    <3>. QED  BY ZenonT(60), <3>1, <3>2
  <2>3. CASE StartSync
    BY ZenonT(60), <2>3 DEF StartSync, Enter, trackers, asks
  <2>4. CASE UpdateServiceMap
    BY Zenon, <2>4 DEF UpdateServiceMap, asks
  <2>5. CASE UpdateEndpointsMap
    <3>1. UNCHANGED <<items, synced, owed, asking, queued>> /\ pending' = <<>> /\ pc # "services"
      BY ZenonT(60), <2>5 DEF UpdateEndpointsMap, asks
    <3>. QED  BY ZenonT(60), <3>1
  <2>6. CASE WriteRules \/ WriteRulesFails \/ CleanStaleEntries \/ ConntrackFails
    BY ZenonT(60), <2>6 DEF WriteRules, WriteRulesFails, CleanStaleEntries, ConntrackFails, trackers, asks
  <2>7. CASE \E sp \in UDPNames : Packet(sp)
    <3>1. UNCHANGED <<items, pending, synced, owed, asking, queued, pc>>
      BY Zenon, <2>7 DEF Packet, trackers, asks
    <3>. QED  BY ZenonT(60), <3>1
  <2>8. CASE UNCHANGED vars
    BY Zenon, <2>8 DEF vars, trackers, asks
  <2>9. ASSUME NEW informer \in Informers, AskForSync(informer) PROVE ChangeAnnounced'
    BY ZenonT(60), <2>9 DEF AskForSync, trackers
  <2>10. ASSUME NEW informer \in Informers, OnSynced(informer) PROVE ChangeAnnounced'
    BY ZenonT(60), <2>10 DEF OnSynced, trackers
  <2>11. ASSUME NEW informer \in Informers, FirstSync(informer) PROVE ChangeAnnounced'
    BY ZenonT(60), <2>11 DEF FirstSync, Enter, trackers
  <2>. QED  BY ZenonT(60), <2>1, <2>2, <2>3, <2>4, <2>5, <2>6, <2>7, <2>8, <2>9, <2>10, <2>11 DEF Next
<1>. QED  BY <1>1, <1>2, PTL DEF Spec

-----------------------------------------------------------------------------
(* The incremental endpointsMap. *)

\* In every order of the slices, some slice of a non-empty set comes last and some comes first.
LEMMA Winners ==
    ASSUME NEW order \in Orders, NEW ls \in SUBSET Slices, ls # {}
    PROVE  /\ \E l \in ls : \A k \in ls : order[k] <= order[l]
           /\ \E l \in ls : \A k \in ls : order[l] <= order[k]
<1>. DEFINE R == OpToRel(<, Nat)
            N == Cardinality(Slices)
            low == {order[l] : l \in ls}
            high == {N - order[l] : l \in ls}
<1>1. \A x, y \in Nat : <<x, y>> \in R <=> x < y
  BY Zenon DEF OpToRel
<1>2. IsWellFoundedOn(R, Nat)
  BY Zenon, NatLessThanWellFounded
<1>. HIDE DEF R
<1>3. N \in Nat
  BY Zenon, TrackingConstants, FS_CardinalityType
<1>. HIDE DEF N
<1>4. order \in [Slices -> 1 .. N]
  BY Zenon, TrackingConstants DEF N
<1>5. \A l \in ls : order[l] \in 1 .. N
  BY Zenon, <1>4
<1>6. \A l \in ls : order[l] \in Nat /\ N - order[l] \in Nat
  BY <1>3, <1>5
<1>7. low \subseteq Nat /\ low # {} /\ high \subseteq Nat /\ high # {}
  BY Zenon, <1>6
<1>8. PICK x \in low : \A y \in low : ~ (<<y, x>> \in R)
  <2>. HIDE DEF low
  <2>. QED  BY Zenon, <1>2, <1>7, WFMin
<1>9. PICK z \in high : \A y \in high : ~ (<<y, z>> \in R)
  <2>. HIDE DEF high
  <2>. QED  BY Zenon, <1>2, <1>7, WFMin
<1>10. \E l \in ls : \A k \in ls : order[l] <= order[k]
  <2>1. PICK l \in ls : x = order[l]
    BY Zenon
  <2>2. ASSUME NEW k \in ls PROVE order[l] <= order[k]
    <3>1. order[l] \in Nat /\ order[k] \in Nat /\ ~ (order[k] < order[l])
      BY Zenon, <1>1, <1>6, <1>8, <2>1
    <3>. QED  BY <3>1
  <2>. QED  BY Zenon, <2>2
<1>11. \E l \in ls : \A k \in ls : order[k] <= order[l]
  <2>1. PICK l \in ls : z = N - order[l]
    BY Zenon
  <2>2. ASSUME NEW k \in ls PROVE order[k] <= order[l]
    <3>1. order[l] \in Nat /\ order[k] \in Nat /\ N - order[k] \in Nat /\ N - order[l] \in Nat
      BY Zenon, <1>6
    <3>2. ~ (N - order[k] < N - order[l])
      BY ZenonT(60), <1>1, <1>9, <2>1, <3>1
    <3>. QED  BY <1>3, <3>1, <3>2
  <2>. QED  BY Zenon, <2>2
<1>. QED  BY Zenon, <1>10, <1>11

\* The entry of a port agrees with the slices.
EntryRight(m, sp, from) ==
    /\ DOMAIN m[sp] = ListedFor(sp, from)
    /\ \A e \in DOMAIN m[sp] : \E l \in Listing(sp, from, e) : m[sp][e] = from[l].endpoints[e]

\* A map computed from scratch has the ports with endpoints and nothing else, each endpoint in
\* a condition that one of the slices gives it, whatever the order.
LEMMA Computed ==
    ASSUME NEW S \in SUBSET Services, NEW from, NEW order \in Orders
    PROVE  /\ DOMAIN getEndpointsMap(S, from, order) = {sp \in S \X Ports : ListedFor(sp, from) # {}}
           /\ \A sp \in DOMAIN getEndpointsMap(S, from, order) : EntryRight(getEndpointsMap(S, from, order), sp, from)
<1>. DEFINE info == endpointInfoByServicePort(S, from, order)
            m == getEndpointsMap(S, from, order)
<1>1. /\ DOMAIN info = S \X Ports
      /\ \A sp \in S \X Ports : info[sp] = [e \in ListedFor(sp, from) |-> addEndpoints(sp, from, order, e)]
  BY Zenon DEF endpointInfoByServicePort
<1>2. m = [sp \in DOMAIN info \ {q \in DOMAIN info : DOMAIN info[q] = {}} |-> info[sp]]
  BY Zenon DEF getEndpointsMap, endpointsMapFromEndpointInfo, Without
<1>. HIDE DEF info, m
<1>3. \A sp \in S \X Ports : DOMAIN info[sp] = ListedFor(sp, from)
  BY Zenon, <1>1
<1>4. DOMAIN m = {sp \in S \X Ports : ListedFor(sp, from) # {}}
  BY Zenon, <1>1, <1>2, <1>3
<1>5. ASSUME NEW sp \in DOMAIN m PROVE EntryRight(m, sp, from)
  <2>1. m[sp] = [e \in ListedFor(sp, from) |-> addEndpoints(sp, from, order, e)]
    BY Zenon, <1>1, <1>2
  <2>2. ASSUME NEW e \in ListedFor(sp, from)
        PROVE  \E l \in Listing(sp, from, e) : addEndpoints(sp, from, order, e) = from[l].endpoints[e]
    <3>. DEFINE ls == Listing(sp, from, e)
                winner == CHOOSE l \in ls : \A k \in ls :
                            IF e \in Local THEN order[k] <= order[l] ELSE order[l] <= order[k]
    <3>1. ls \in SUBSET Slices /\ ls # {}
      BY Zenon DEF ListedFor, Listing
    <3>2. addEndpoints(sp, from, order, e) = from[winner].endpoints[e]
      BY Zenon DEF addEndpoints
    <3>. HIDE DEF ls
    <3>3. \E l \in ls : \A k \in ls : IF e \in Local THEN order[k] <= order[l] ELSE order[l] <= order[k]
      BY Zenon, <3>1, Winners
    <3>4. winner \in ls
      BY Zenon, <3>3
    <3>. HIDE DEF winner
    <3>. QED  BY Zenon, <3>2, <3>4 DEF ls
  <2>. QED  BY Zenon, <2>1, <2>2 DEF EntryRight
<1>. QED  BY Zenon, <1>4, <1>5 DEF m

\* A port of a Service without a changed slice is listed as before.
LEMMA SameListing ==
    ASSUME NEW from, NEW to, NEW sp, NEW e, \A l \in Slices : ServiceOf[l] = sp[1] => to[l] = from[l]
    PROVE  Listing(sp, to, e) = Listing(sp, from, e)
BY Zenon DEF Listing

\* Update merges the pending slices into the map and leaves it current (EndpointsMap.Update).
LEMMA EndpointsStep == ASSUME Tracked, EndpointsMapCurrent, UpdateEndpointsMap PROVE EndpointsMapCurrent'
<1>. DEFINE changed == {ServiceOf[l] : l \in DOMAIN pending}
            old(order) == getEndpointsMap(changed, applied, order)
            new(order) == getEndpointsMap(changed, applied', order)
<1>1. applied' = Merge(applied, pending) /\ DOMAIN pending \subseteq Slices /\ DOMAIN applied = Slices
  BY Zenon DEF UpdateEndpointsMap, checkoutChanges, Tracked
<1>2. PICK before \in Orders, after \in Orders :
         endpointsMap' = Merge(Without(endpointsMap, DOMAIN old(before)), new(after))
  BY Zenon DEF UpdateEndpointsMap
<1>3. changed \in SUBSET Services
  BY <1>1, TrackingConstants
<1>4. \A l \in Slices : ServiceOf[l] \notin changed => applied'[l] = applied[l]
  BY Zenon, <1>1 DEF Merge
<1>. DEFINE o == old(before)
            n == new(after)
<1>. HIDE DEF changed
<1>5. /\ DOMAIN o = {sp \in changed \X Ports : ListedFor(sp, applied) # {}}
      /\ \A sp \in DOMAIN o : EntryRight(o, sp, applied)
  BY Zenon, <1>3, Computed
<1>6. /\ DOMAIN n = {sp \in changed \X Ports : ListedFor(sp, applied') # {}}
      /\ \A sp \in DOMAIN n : EntryRight(n, sp, applied')
  BY ZenonT(60), <1>3, Computed
<1>7. endpointsMap' = Merge(Without(endpointsMap, DOMAIN o), n)
  BY Zenon, <1>2
<1>. HIDE DEF o, n
<1>8. /\ DOMAIN endpointsMap' = (DOMAIN endpointsMap \ DOMAIN o) \cup DOMAIN n
      /\ \A sp \in DOMAIN endpointsMap' : endpointsMap'[sp] = IF sp \in DOMAIN n THEN n[sp] ELSE endpointsMap[sp]
  BY Zenon, <1>7 DEF Merge, Without
<1>9. /\ DOMAIN endpointsMap = {sp \in PortNames : ListedFor(sp, applied) # {}}
      /\ \A sp \in DOMAIN endpointsMap : EntryRight(endpointsMap, sp, applied)
  BY Zenon DEF EndpointsMapCurrent, EntryRight
<1>10. ASSUME NEW sp \in PortNames, sp[1] \notin changed
       PROVE  /\ \A e : Listing(sp, applied', e) = Listing(sp, applied, e)
              /\ ListedFor(sp, applied') = ListedFor(sp, applied)
  <2>1. \A e : Listing(sp, applied', e) = Listing(sp, applied, e)
    BY <1>4, <1>10, SameListing
  <2>. QED  BY Zenon, <2>1 DEF ListedFor
<1>11. \A sp \in PortNames : sp \in changed \X Ports <=> sp[1] \in changed
  BY Zenon, <1>3 DEF PortNames
<1>12. DOMAIN n \subseteq PortNames
  BY Zenon, <1>3, <1>6 DEF PortNames
<1>13. DOMAIN endpointsMap' = {sp \in PortNames : ListedFor(sp, applied') # {}}
  <2>1. ASSUME NEW sp \in PortNames PROVE sp \in DOMAIN endpointsMap' <=> ListedFor(sp, applied') # {}
    BY ZenonT(60), <1>5, <1>6, <1>8, <1>9, <1>10, <1>11
  <2>2. DOMAIN endpointsMap' \subseteq PortNames
    BY Zenon, <1>8, <1>9, <1>12
  <2>. QED  BY Zenon, <2>1, <2>2
<1>14. ASSUME NEW sp \in DOMAIN endpointsMap' PROVE EntryRight(endpointsMap', sp, applied')
  <2>1. CASE sp \in DOMAIN n
    BY SMTT(60), <1>6, <1>8, <2>1 DEF EntryRight
  <2>2. CASE sp \notin DOMAIN n
    <3>1. sp \in PortNames /\ sp \in DOMAIN endpointsMap /\ sp \notin DOMAIN o /\ endpointsMap'[sp] = endpointsMap[sp]
      BY Zenon, <1>8, <1>9, <2>2
    <3>2. sp[1] \notin changed
      BY Zenon, <1>5, <1>9, <1>11, <3>1
    <3>3. /\ \A e : Listing(sp, applied', e) = Listing(sp, applied, e)
          /\ ListedFor(sp, applied') = ListedFor(sp, applied)
      BY Zenon, <1>10, <3>1, <3>2
    <3>4. \A l \in Slices : ServiceOf[l] = sp[1] => applied'[l] = applied[l]
      BY Zenon, <1>4, <3>2
    <3>5. \A e, l : l \in Listing(sp, applied, e) => applied'[l] = applied[l]
      BY Zenon, <3>4 DEF Listing
    <3>. QED  BY <1>9, <3>1, <3>3, <3>5 DEF EntryRight
  <2>. QED  BY Zenon, <2>1, <2>2
<1>. QED  BY Zenon, <1>13, <1>14 DEF EndpointsMapCurrent, EntryRight

\* The endpointsMap, updated by differences and in any order of the slices, is at any time one
\* that could be computed from all applied slices (EndpointsMap.Update, getEndpointsMap).
THEOREM EndpointsMapStaysCurrent == Spec => []EndpointsMapCurrent
<1>1. Init => EndpointsMapCurrent
  BY DEF Init, EndpointsMapCurrent, ListedFor, Listing
<1>2. Tracked /\ EndpointsMapCurrent /\ [Next]_vars => EndpointsMapCurrent'
  <2>. SUFFICES ASSUME Tracked, EndpointsMapCurrent, [Next]_vars PROVE EndpointsMapCurrent'
    BY Zenon
  <2>1. CASE UNCHANGED <<applied, endpointsMap>>
    BY Zenon, <2>1 DEF EndpointsMapCurrent
  <2>2. CASE \/ \E s \in Services, x \in Specs \cup {None} : HandleService(s, x)
             \/ \E l \in Slices, x \in Contents \cup {None} : HandleEndpointSlice(l, x)
             \/ \E sp \in UDPNames : Packet(sp)
    BY Zenon, <2>1, <2>2 DEF HandleService, HandleEndpointSlice, Packet, trackers, maps
  <2>3. CASE StartSync \/ WriteRules \/ WriteRulesFails \/ CleanStaleEntries \/ ConntrackFails
    BY Zenon, <2>1, <2>3 DEF StartSync, WriteRules, WriteRulesFails, CleanStaleEntries, ConntrackFails, trackers, maps
  <2>4. CASE UpdateServiceMap
    BY Zenon, <2>1, <2>4 DEF UpdateServiceMap
  <2>5. CASE UNCHANGED vars
    BY Zenon, <2>1, <2>5 DEF vars, trackers, maps
  <2>6. CASE Asking
    BY Zenon, <2>1, <2>6, AskingElsewhere
  <2>. QED  BY Zenon, <2>2, <2>3, <2>4, <2>5, <2>6, EndpointsStep DEF Next, Asking
<1>. QED  BY <1>1, <1>2, TrackedInvariant, PTL DEF Spec

-----------------------------------------------------------------------------
(* Types. *)

\* The inductive invariant behind TypeOK.
TInv ==
    /\ TypeOK
    /\ \A l \in DOMAIN pending : pending[l] \in Contents \cup {None}
    /\ \A sp \in DOMAIN rules : rules[sp] \subseteq Endpoints

\* Events of the informers.
LEMMA EventsTyped ==
    ASSUME TInv,
           \/ \E s \in Services, new \in Specs \cup {None} : HandleService(s, new)
           \/ \E l \in Slices, new \in Contents \cup {None} : HandleEndpointSlice(l, new)
    PROVE  TInv'
<1>1. ASSUME NEW s \in Services, NEW new \in Specs \cup {None}, HandleService(s, new)
      PROVE  TInv'
  <2>1. /\ seenService' = [seenService EXCEPT ![s] = new] /\ queued' \in BOOLEAN /\ asking' \subseteq Informers
        /\ UNCHANGED <<seenSlice, applied, pending, svcPortMap, endpointsMap, synced, owed, pc, rules, flows, overlooked,
                       faults, lost>>
    BY ZenonT(60), <1>1 DEF HandleService, OnServiceUpdate, Changed, Informers, maps, TInv, TypeOK
  <2>2. DOMAIN items' \subseteq Services
    BY Zenon, <1>1 DEF HandleService, OnServiceUpdate, TrackService, With, Without, TInv, TypeOK
  <2>3. events' \in 0 .. MaxEvents
    BY SMTT(60), <1>1, TrackingConstants DEF HandleService, TInv, TypeOK
  <2>. QED  BY Zenon, <2>1, <2>2, <2>3 DEF TInv, TypeOK
<1>2. ASSUME NEW l \in Slices, NEW new \in Contents \cup {None}, HandleEndpointSlice(l, new)
      PROVE  TInv'
  <2>1. /\ seenSlice' = [seenSlice EXCEPT ![l] = new] /\ queued' \in BOOLEAN /\ asking' \subseteq Informers
        /\ UNCHANGED <<seenService, items, applied, svcPortMap, endpointsMap, synced, owed, pc, rules, flows, overlooked,
                       faults, lost>>
    BY ZenonT(60), <1>2 DEF HandleEndpointSlice, OnEndpointSliceUpdate, EndpointSliceUpdate, Changed, Informers, maps,
                            TInv, TypeOK
  <2>2. DOMAIN pending' \subseteq Slices /\ \A k \in DOMAIN pending' : pending'[k] \in Contents \cup {None}
    BY SMTT(60), <1>2 DEF HandleEndpointSlice, OnEndpointSliceUpdate, EndpointSliceUpdate, updatePending, With, TInv, TypeOK
  <2>3. events' \in 0 .. MaxEvents
    BY <1>2, TrackingConstants DEF HandleEndpointSlice, TInv, TypeOK
  <2>. QED  BY Zenon, <2>1, <2>2, <2>3 DEF TInv, TypeOK
<1>. QED  BY Zenon, <1>1, <1>2

\* The steps of a sync up to the rules.
LEMMA UpdatesTyped ==
    ASSUME TInv, Tracked, EndpointsMapCurrent', StartSync \/ UpdateServiceMap \/ UpdateEndpointsMap
    PROVE  TInv'
<1>1. CASE StartSync
  BY ZenonT(60), <1>1 DEF StartSync, Enter, trackers, maps, asks, TInv, TypeOK
<1>2. CASE UpdateServiceMap
  <2>. DEFINE changes == {items[s] : s \in DOMAIN items}
              union == UnionOf({c.current : c \in changes})
              gone == UNION {filter(c) : c \in changes}
  <2>1. /\ svcPortMap' = Without(Merge(svcPortMap, union), gone) /\ items' = <<>> /\ pc' = "endpoints"
        /\ UNCHANGED <<events, seenService, seenSlice, applied, pending, endpointsMap, synced, owed, asking, queued, rules,
                       flows, overlooked, faults, lost>>
    BY Zenon, <1>2 DEF UpdateServiceMap, asks
  <2>2. \A t \in DOMAIN items : DOMAIN items[t].current \subseteq PortNames
    <3>. TAKE t \in DOMAIN items
    <3>1. t \in Services /\ items[t].current = serviceToServiceMap(t, seenService[t])
      BY Zenon DEF Tracked, ServiceTracked, Reported
    <3>2. seenService[t] = None \/ seenService[t].ports \subseteq Ports
      BY Zenon, <3>1, TrackingConstants DEF TInv, TypeOK
    <3>. QED  BY <3>1, <3>2 DEF serviceToServiceMap, PortNames
  <2>3. DOMAIN union \subseteq PortNames
    BY Zenon, <2>2 DEF UnionOf
  <2>. HIDE DEF union, gone
  <2>4. DOMAIN svcPortMap' \subseteq PortNames
    BY Zenon, <2>1, <2>3 DEF Without, Merge, TInv, TypeOK
  <2>. QED  BY <2>1, <2>4 DEF TInv, TypeOK
<1>3. CASE UpdateEndpointsMap
  <2>1. /\ applied' = Merge(applied, pending) /\ pending' = <<>> /\ pc' = "write"
        /\ UNCHANGED <<events, seenService, seenSlice, items, svcPortMap, synced, owed, asking, queued, rules, flows,
                       faults, lost>>
        /\ \E changed : overlooked' = overlooked \cup Unseen(changed)
    BY ZenonT(60), <1>3 DEF UpdateEndpointsMap, checkoutChanges, asks
  <2>2. applied' \in [Slices -> Contents \cup {None}]
    BY Zenon, <2>1 DEF Merge, TInv, TypeOK
  <2>3. DOMAIN endpointsMap' \subseteq PortNames
    BY Zenon DEF EndpointsMapCurrent
  <2>4. overlooked' \subseteq UDPNames \X (Endpoints \cup {BlackHole})
    BY Zenon, <2>1 DEF Unseen, TInv, TypeOK
  <2>. QED  BY <2>1, <2>2, <2>3, <2>4 DEF TInv, TypeOK
<1>. QED  BY Zenon, <1>1, <1>2, <1>3

\* A port's traffic goes to endpoints that are listed for it.
LEMMA CategorizedListed ==
    ASSUME EndpointsMapCurrent, NEW sp
    PROVE  CategorizeEndpoints(endpointsMap, sp) \subseteq ListedFor(sp, applied)
<1>1. Serving(endpointsMap, sp) \subseteq ListedFor(sp, applied)
  BY Zenon DEF Serving, EndpointsMapCurrent
<1>. QED  BY Zenon, <1>1 DEF CategorizeEndpoints

\* The steps that write the rules and clean up, and the packets.
LEMMA WritesTyped ==
    ASSUME TInv, EndpointsMapCurrent,
           \/ WriteRules \/ WriteRulesFails \/ CleanStaleEntries \/ ConntrackFails
           \/ \E sp \in UDPNames : Packet(sp)
    PROVE  TInv'
<1>1. CASE WriteRules
  <2>1. \A sp \in DOMAIN rules' : rules'[sp] \subseteq Endpoints
    BY Zenon, <1>1, CategorizedListed DEF WriteRules, ListedFor
  <2>. QED  BY Zenon, <1>1, <2>1 DEF WriteRules, trackers, maps, asks, TInv, TypeOK
<1>2. CASE WriteRulesFails \/ ConntrackFails
  <2>1. faults' \in 0 .. MaxFaults
    BY <1>2, TrackingConstants DEF WriteRulesFails, ConntrackFails, TInv, TypeOK
  <2>2. lost' \in BOOLEAN /\ queued' \in BOOLEAN
    BY ZenonT(60), <1>2 DEF WriteRulesFails, ConntrackFails, TInv, TypeOK
  <2>3. overlooked' \subseteq overlooked
    BY Zenon, <1>2 DEF WriteRulesFails, ConntrackFails, StillThere
  <2>. QED  BY Zenon, <1>2, <2>1, <2>2, <2>3 DEF WriteRulesFails, ConntrackFails, trackers, maps, asks, TInv, TypeOK
<1>3. CASE CleanStaleEntries
  <2>1. flows' \in [UDPNames -> Endpoints \cup {BlackHole, None}]
    BY Zenon, <1>3 DEF CleanStaleEntries, TInv, TypeOK
  <2>2. overlooked' \subseteq overlooked
    BY Zenon, <1>3 DEF CleanStaleEntries, StillThere
  <2>. QED  BY Zenon, <1>3, <2>1, <2>2 DEF CleanStaleEntries, trackers, maps, asks, TInv, TypeOK
<1>4. ASSUME NEW sp \in UDPNames, Packet(sp) PROVE TInv'
  <2>1. PICK to \in IF rules[sp] = {} THEN {BlackHole} ELSE rules[sp] : flows' = [flows EXCEPT ![sp] = to]
    BY ZenonT(60), <1>4 DEF Packet
  <2>2. to \in Endpoints \cup {BlackHole, None}
    BY Zenon, <1>4 DEF Packet, TInv
  <2>3. flows' \in [UDPNames -> Endpoints \cup {BlackHole, None}]
    BY Zenon, <2>1, <2>2 DEF TInv, TypeOK
  <2>. QED  BY Zenon, <1>4, <2>3 DEF Packet, trackers, maps, asks, TInv, TypeOK
<1>. QED  BY Zenon, <1>1, <1>2, <1>3, <1>4

\* The requests for a sync.
LEMMA AskingTyped == ASSUME TInv, Asking PROVE TInv'
<1>1. /\ synced' \subseteq Informers /\ owed' \subseteq Informers /\ asking' \subseteq Informers
      /\ queued' \in BOOLEAN
  <2>1. ASSUME NEW informer \in Informers, AskForSync(informer)
        PROVE  synced' = synced /\ owed' = owed /\ asking' \subseteq asking /\ queued' \in BOOLEAN
    BY ZenonT(60), <2>1 DEF AskForSync, TInv, TypeOK
  <2>2. ASSUME NEW informer \in Informers, OnSynced(informer)
        PROVE  synced' \subseteq Informers /\ owed' \subseteq Informers /\ asking' = asking /\ queued' = queued
    BY ZenonT(60), <2>2 DEF OnSynced, TInv, TypeOK
  <2>3. ASSUME NEW informer \in Informers, FirstSync(informer)
        PROVE  synced' = synced /\ owed' \subseteq owed /\ asking' = asking /\ queued' = queued
    BY ZenonT(60), <2>3 DEF FirstSync
  <2>. QED  BY ZenonT(60), <2>1, <2>2, <2>3 DEF Asking, TInv, TypeOK
<1>. QED  BY ZenonT(60), <1>1, AskingElsewhere DEF TInv, TypeOK

\* Every step keeps TInv.
LEMMA TypeInvariant == Spec => []TInv
<1>1. Init => TInv
  <2>. SUFFICES ASSUME Init PROVE TInv
    BY Zenon
  <2>1. events \in 0 .. MaxEvents /\ faults \in 0 .. MaxFaults
    BY TrackingConstants DEF Init
  <2>2. flows \in [UDPNames -> Endpoints \cup {BlackHole, None}]
    BY Zenon DEF Init
  <2>3. \A l \in DOMAIN pending : FALSE
    BY DEF Init
  <2>4. \A sp \in DOMAIN rules : FALSE
    BY DEF Init
  <2>5. /\ DOMAIN items \subseteq Services
        /\ DOMAIN svcPortMap \subseteq PortNames /\ DOMAIN endpointsMap \subseteq PortNames
    BY DEF Init
  <2>6. /\ seenService \in [Services -> Specs \cup {None}]
        /\ seenSlice \in [Slices -> Contents \cup {None}]
        /\ applied \in [Slices -> Contents \cup {None}]
    BY Zenon DEF Init
  <2>7. /\ queued \in BOOLEAN /\ lost \in BOOLEAN /\ pc = "idle"
        /\ synced = {} /\ owed = {} /\ asking = {} /\ overlooked = {}
    BY ZenonT(60) DEF Init
  <2>. QED  BY Zenon, <2>1, <2>2, <2>3, <2>4, <2>5, <2>6, <2>7 DEF TInv, TypeOK
<1>2. Tracked /\ EndpointsMapCurrent /\ EndpointsMapCurrent' /\ TInv /\ [Next]_vars => TInv'
  <2>. SUFFICES ASSUME Tracked, EndpointsMapCurrent, EndpointsMapCurrent', TInv, [Next]_vars PROVE TInv'
    BY Zenon
  <2>1. CASE UNCHANGED vars
    BY Zenon, <2>1 DEF vars, trackers, maps, asks, TInv, TypeOK
  <2>. QED  BY Zenon, <2>1, EventsTyped, UpdatesTyped, WritesTyped, AskingTyped DEF Next, Asking
<1>. QED  BY <1>1, <1>2, TrackedInvariant, EndpointsMapStaysCurrent, PTL DEF Spec

\* The trackers, the maps and the conntrack entries have the types the code gives them; in
\* particular the port maps hold only ports of known Services, and a remembered flow leads to
\* an endpoint that the rules could name.
THEOREM TrackingTypes == Spec => []TypeOK
<1>1. TInv => TypeOK
  BY Zenon DEF TInv
<1>. QED  BY <1>1, TypeInvariant, PTL

-----------------------------------------------------------------------------
(* Conntrack entries. *)

\* Where a packet may be sent by the rules.
Targets(sp) == IF rules[sp] = {} THEN {BlackHole} ELSE rules[sp]

\* A flow from sp to the target does no harm, or this sync knows that it is stale, or an update
\* may have missed it.
Sound(sp, to) ==
    \/ <<sp, to>> \in overlooked
    \/ /\ to \in Endpoints => to \in ListedFor(sp, applied) \/ <<sp, to>> \in result.deletedEndpoints
       /\ to = BlackHole => Serving(endpointsMap, sp) = {} \/ sp \in result.newlyActive

\* ... or does no harm at all.
Right(sp, to) ==
    /\ to \in Endpoints => to \in ListedFor(sp, applied)
    /\ to = BlackHole => Serving(endpointsMap, sp) = {}

\* The sync will delete every flow of the Service's cluster IP.
Doomed(sp) == ClusterIP[sp[1]] \in result.deletedIPs

\* The flow of the port and the rules that new flows follow, as far as the sync knows.
FlowKnown(sp) ==
    IF sp \in DOMAIN svcPortMap
    THEN /\ Doomed(sp) \/ Sound(sp, flows[sp])
         /\ sp \in DOMAIN rules => \A to \in Targets(sp) : Sound(sp, to)
    ELSE Doomed(sp) \/ (sp \notin DOMAIN rules /\ flows[sp] = None)

\* What a sync has found out so far.
Findings ==
    /\ result = [deletedIPs |-> result.deletedIPs, deletedEndpoints |-> result.deletedEndpoints,
                 newlyActive |-> result.newlyActive]
    /\ pc \in {"idle", "services"} => result = NoResult
    /\ pc = "endpoints" => result.deletedEndpoints = {} /\ result.newlyActive = {}

\* Once written, the rules agree with the slices.
RulesWritten ==
    pc = "clean" => /\ DOMAIN rules = DOMAIN svcPortMap
                    /\ \A sp \in UDPNames \cap DOMAIN rules : \A to \in Targets(sp) : Right(sp, to)

\* The inductive invariant behind NoStaleFlows.
FInv ==
    /\ DOMAIN flows = UDPNames
    /\ Findings /\ RulesWritten
    /\ ~lost => \A sp \in UDPNames : FlowKnown(sp)

\* What the slices of a port say when an update takes place decides which flows it may miss.
LEMMA UnseenFlow ==
    ASSUME NEW changed, NEW sp \in UDPNames, sp[1] \in changed, NEW e \in Endpoints,
           NEW l \in Listing(sp, applied, e), ~ IsServing(applied[l].endpoints[e])
    PROVE  /\ <<sp, e>> \in Unseen(changed)
           /\ \A k \in Listing(sp, applied, e) : IsServing(applied[k].endpoints[e]) => <<sp, BlackHole>> \in Unseen(changed)
<1>1. \A to : <<sp, to>>[1] = sp /\ <<sp, to>>[2] = to
  BY Zenon
<1>2. <<sp, e>> \in UDPNames \X (Endpoints \cup {BlackHole}) /\ <<sp, BlackHole>> \in UDPNames \X (Endpoints \cup {BlackHole})
  BY ZenonT(60)
<1>3. <<sp, e>> \in Unseen(changed)
  BY ZenonT(60), <1>1, <1>2 DEF Unseen
<1>4. ASSUME NEW k \in Listing(sp, applied, e), IsServing(applied[k].endpoints[e])
      PROVE  <<sp, BlackHole>> \in Unseen(changed)
  BY ZenonT(60), <1>1, <1>2, <1>4 DEF Unseen
<1>. QED  BY Zenon, <1>3, <1>4

\* detectStaleConntrackEntries notices every UDP endpoint that is no longer listed and every
\* UDP port that gets its first serving endpoints, except for those that Unseen describes.
LEMMA Detected ==
    ASSUME Tracked, EndpointsMapCurrent, Findings, UpdateEndpointsMap, NEW sp \in UDPNames
    PROVE  /\ \A e \in ListedFor(sp, applied) \ ListedFor(sp, applied') :
                 <<sp, e>> \in result'.deletedEndpoints \/ <<sp, e>> \in overlooked'
           /\ Serving(endpointsMap, sp) = {} /\ Serving(endpointsMap', sp) # {} =>
                 sp \in result'.newlyActive \/ <<sp, BlackHole>> \in overlooked'
<1>. DEFINE changed == {ServiceOf[l] : l \in DOMAIN pending}
            old(order) == getEndpointsMap(changed, applied, order)
            new(order) == getEndpointsMap(changed, checkoutChanges, order)
<1>1. applied' = Merge(applied, pending) /\ DOMAIN pending \subseteq Slices /\ DOMAIN applied = Slices
  BY Zenon DEF UpdateEndpointsMap, checkoutChanges, Tracked
<1>2. PICK before \in Orders, after \in Orders :
         /\ result' = [result EXCEPT !.deletedEndpoints = DeletedUDPEndpoints(old(before), new(after)),
                                     !.newlyActive = NewlyActiveUDPServices(old(before), new(after))]
         /\ endpointsMap' = Merge(Without(endpointsMap, DOMAIN old(before)), new(after))
         /\ overlooked' = overlooked \cup Unseen(changed)
  BY Zenon DEF UpdateEndpointsMap
<1>3. changed \in SUBSET Services
  BY <1>1, TrackingConstants
<1>4. \A l \in Slices : ServiceOf[l] \notin changed => applied'[l] = applied[l]
  BY Zenon, <1>1 DEF Merge
<1>. DEFINE o == old(before)
            n == new(after)
<1>. HIDE DEF changed
<1>5. /\ DOMAIN o = {q \in changed \X Ports : ListedFor(q, applied) # {}}
      /\ \A q \in DOMAIN o : EntryRight(o, q, applied)
  BY ZenonT(60), <1>3, Computed
<1>6. /\ DOMAIN n = {q \in changed \X Ports : ListedFor(q, applied') # {}}
      /\ \A q \in DOMAIN n : EntryRight(n, q, applied')
  <2>1. checkoutChanges = applied'
    BY Zenon DEF UpdateEndpointsMap
  <2>2. /\ DOMAIN n = {q \in changed \X Ports : ListedFor(q, checkoutChanges) # {}}
        /\ \A q \in DOMAIN n : EntryRight(n, q, checkoutChanges)
    BY ZenonT(60), <1>3, Computed
  <2>. HIDE DEF n
  <2>. QED  BY ZenonT(60), <2>1, <2>2
<1>7. result'.deletedEndpoints = DeletedUDPEndpoints(o, n) /\ result'.newlyActive = NewlyActiveUDPServices(o, n)
  BY Zenon, <1>2 DEF Findings
<1>. HIDE DEF o, n
<1>8. sp[1] \in Services /\ sp[2] \in UDPPorts /\ sp[2] \in Ports /\ sp = <<sp[1], sp[2]>>
  BY SMTT(60), TrackingConstants DEF UDPNames
<1>9. /\ DOMAIN endpointsMap' = (DOMAIN endpointsMap \ DOMAIN o) \cup DOMAIN n
      /\ \A q \in DOMAIN endpointsMap' : endpointsMap'[q] = IF q \in DOMAIN n THEN n[q] ELSE endpointsMap[q]
  BY Zenon, <1>2 DEF Merge, Without, o, n
<1>10. CASE sp[1] \notin changed
  <2>1. \A e : Listing(sp, applied', e) = Listing(sp, applied, e)
    BY <1>4, <1>10, SameListing
  <2>2. ListedFor(sp, applied') = ListedFor(sp, applied)
    BY Zenon, <2>1 DEF ListedFor
  <2>3. sp \notin DOMAIN o /\ sp \notin DOMAIN n
    BY Zenon, <1>5, <1>6, <1>10
  <2>4. Serving(endpointsMap', sp) = Serving(endpointsMap, sp)
    BY Zenon, <1>9, <2>3 DEF Serving
  <2>. QED  BY Zenon, <2>2, <2>4
<1>11. CASE sp[1] \in changed
  <2>1. sp \in changed \X Ports
    BY Zenon, <1>8, <1>11
  <2>2. ASSUME NEW e \in ListedFor(sp, applied) \ ListedFor(sp, applied')
        PROVE  <<sp, e>> \in DeletedUDPEndpoints(o, n) \/ <<sp, e>> \in Unseen(changed)
    <3>1. sp \in DOMAIN o /\ EntryRight(o, sp, applied)
      BY Zenon, <1>5, <2>1
    <3>2. e \in DOMAIN o[sp] /\ e \in Endpoints
      BY Zenon, <3>1 DEF EntryRight, ListedFor
    <3>3. ~ (sp \in DOMAIN n /\ e \in DOMAIN n[sp])
      BY Zenon, <1>6 DEF EntryRight
    <3>4. CASE IsServing(o[sp][e])
      <4>1. <<sp, e>> \in (DOMAIN o) \X Endpoints /\ <<sp, e>>[1] = sp /\ <<sp, e>>[2] = e
        BY ZenonT(60), <3>1, <3>2
      <4>. QED  BY ZenonT(60), <1>8, <3>2, <3>3, <3>4, <4>1 DEF DeletedUDPEndpoints
    <3>5. CASE ~ IsServing(o[sp][e])
      <4>1. PICK l \in Listing(sp, applied, e) : o[sp][e] = applied[l].endpoints[e]
        BY Zenon, <3>1, <3>2 DEF EntryRight
      <4>. QED  BY Zenon, <1>11, <3>2, <3>5, <4>1, UnseenFlow
    <3>. QED  BY Zenon, <3>4, <3>5
  <2>3. ASSUME Serving(endpointsMap, sp) = {}, Serving(endpointsMap', sp) # {}
        PROVE  sp \in NewlyActiveUDPServices(o, n) \/ <<sp, BlackHole>> \in Unseen(changed)
    <3>1. sp \in PortNames
      BY Zenon, <1>8 DEF PortNames
    <3>2. sp \in DOMAIN endpointsMap => sp \in DOMAIN o
      BY Zenon, <1>5, <2>1 DEF EndpointsMapCurrent
    <3>3. sp \in DOMAIN n /\ Serving(n, sp) # {}
      BY Zenon, <1>9, <2>3, <3>2 DEF Serving
    <3>4. CASE Serving(o, sp) = {}
      BY Zenon, <1>8, <3>3, <3>4 DEF NewlyActiveUDPServices
    <3>5. CASE Serving(o, sp) # {}
      <4>1. PICK e : sp \in DOMAIN o /\ e \in DOMAIN o[sp] /\ IsServing(o[sp][e])
        BY Zenon, <3>5 DEF Serving
      <4>2. e \in ListedFor(sp, applied) /\ e \in Endpoints
        BY Zenon, <1>5, <4>1 DEF EntryRight, ListedFor
      <4>3. PICK k \in Listing(sp, applied, e) : o[sp][e] = applied[k].endpoints[e]
        BY Zenon, <1>5, <4>1 DEF EntryRight
      <4>4. sp \in DOMAIN endpointsMap /\ e \in DOMAIN endpointsMap[sp]
        BY Zenon, <3>1, <4>2 DEF EndpointsMapCurrent
      <4>5. ~ IsServing(endpointsMap[sp][e])
        BY Zenon, <2>3, <4>4 DEF Serving
      <4>6. PICK l \in Listing(sp, applied, e) : endpointsMap[sp][e] = applied[l].endpoints[e]
        BY Zenon, <4>4 DEF EndpointsMapCurrent
      <4>. QED  BY Zenon, <1>11, <4>1, <4>2, <4>3, <4>5, <4>6, UnseenFlow
    <3>. QED  BY Zenon, <3>4, <3>5
  <2>. QED  BY Zenon, <1>2, <1>7, <2>2, <2>3
<1>. QED  BY Zenon, <1>10, <1>11

\* Steps that touch neither the flows nor what decides where packets go.
LEMMA QuietFlows ==
    ASSUME FInv, UNCHANGED <<svcPortMap, endpointsMap, applied, rules, flows, result, overlooked, lost>>,
           pc' = pc \/ (pc = "idle" /\ pc' = "services")
    PROVE  FInv'
<1>1. Findings' /\ RulesWritten'
  BY Zenon DEF FInv, Findings, RulesWritten, Targets, Right
<1>2. ASSUME NEW sp \in UDPNames, FlowKnown(sp) PROVE FlowKnown(sp)'
  BY Zenon, <1>2 DEF FlowKnown, Doomed, Sound, Targets
<1>. QED  BY Zenon, <1>1, <1>2 DEF FInv

\* ServicePortMap.Update: the cluster IP of every UDP port that goes is noted, and a port that
\* comes has neither a flow nor a rule.
LEMMA ServicesFlows == ASSUME FInv, Tracked, UpdateServiceMap PROVE FInv'
<1>. DEFINE changes == {items[s] : s \in DOMAIN items}
            merged == Merge(svcPortMap, UnionOf({c.current : c \in changes}))
            gone == UNION {filter(c) : c \in changes}
<1>1. /\ pc = "services" /\ pc' = "endpoints" /\ svcPortMap' = Without(merged, gone)
      /\ result' = [NoResult EXCEPT !.deletedIPs = DeletedUDPClusterIPs(gone, merged)]
      /\ UNCHANGED <<applied, endpointsMap, rules, flows, overlooked, lost>>
  BY Zenon DEF UpdateServiceMap
<1>2. result = NoResult
  BY Zenon, <1>1 DEF FInv, Findings
<1>3. DOMAIN svcPortMap' = DOMAIN merged \ gone /\ DOMAIN svcPortMap \subseteq DOMAIN merged
  BY Zenon, <1>1 DEF Without, Merge
<1>. HIDE DEF merged, gone
<1>4. /\ result' = [deletedIPs |-> DeletedUDPClusterIPs(gone, merged), deletedEndpoints |-> {}, newlyActive |-> {}]
      /\ result'.deletedIPs = DeletedUDPClusterIPs(gone, merged)
      /\ result'.deletedEndpoints = {} /\ result'.newlyActive = {}
  BY Zenon, <1>1 DEF NoResult
<1>5. Findings' /\ RulesWritten'
  BY ZenonT(60), <1>1, <1>4 DEF Findings, RulesWritten
<1>6. result.deletedIPs = {} /\ result.deletedEndpoints = {} /\ result.newlyActive = {}
  BY Zenon, <1>2 DEF NoResult
<1>7. ASSUME NEW sp \in UDPNames, FlowKnown(sp) PROVE FlowKnown(sp)'
  <2>1. \A to : Sound(sp, to)' <=> Sound(sp, to)
    BY Zenon, <1>1, <1>4, <1>6 DEF Sound
  <2>2. CASE sp \in DOMAIN svcPortMap /\ sp \in DOMAIN svcPortMap'
    BY Zenon, <1>1, <1>6, <1>7, <2>1, <2>2 DEF FlowKnown, Doomed, Targets
  <2>3. CASE sp \in DOMAIN svcPortMap /\ sp \notin DOMAIN svcPortMap'
    <3>1. sp \in gone \cap DOMAIN merged /\ sp[2] \in UDPPorts
      BY Zenon, <1>3, <2>3 DEF UDPNames
    <3>2. ClusterIP[sp[1]] \in result'.deletedIPs
      BY Zenon, <1>4, <3>1 DEF DeletedUDPClusterIPs
    <3>. QED  BY Zenon, <2>3, <3>2 DEF FlowKnown, Doomed
  <2>4. CASE sp \notin DOMAIN svcPortMap
    <3>1. sp \notin DOMAIN rules /\ flows[sp] = None
      BY Zenon, <1>6, <1>7, <2>4 DEF FlowKnown, Doomed
    <3>2. Sound(sp, None)
      BY Zenon, FlowTargets, TrackingConstants DEF Sound
    <3>. QED  BY Zenon, <1>1, <2>1, <3>1, <3>2 DEF FlowKnown
  <2>. QED  BY ZenonT(60), <2>2, <2>3, <2>4
<1>. QED  BY Zenon, <1>1, <1>5, <1>7 DEF FInv

\* EndpointsMap.Update: what goes stale is noted.
LEMMA EndpointsFlows == ASSUME FInv, Tracked, EndpointsMapCurrent, UpdateEndpointsMap PROVE FInv'
<1>1. /\ pc = "endpoints" /\ pc' = "write" /\ UNCHANGED <<svcPortMap, rules, flows, lost>>
  BY Zenon DEF UpdateEndpointsMap
<1>2. PICK d, a, u : /\ result' = [result EXCEPT !.deletedEndpoints = d, !.newlyActive = a]
                     /\ overlooked' = overlooked \cup u
  BY ZenonT(60) DEF UpdateEndpointsMap
<1>3. /\ result' = [deletedIPs |-> result.deletedIPs, deletedEndpoints |-> d, newlyActive |-> a]
      /\ result'.deletedIPs = result.deletedIPs
  BY ZenonT(60), <1>2 DEF FInv, Findings
<1>4. Findings' /\ RulesWritten'
  BY Zenon, <1>1, <1>3 DEF Findings, RulesWritten
<1>5. ASSUME NEW sp \in UDPNames, FlowKnown(sp) PROVE FlowKnown(sp)'
  <2>1. ASSUME NEW to, Sound(sp, to) PROVE Sound(sp, to)'
    <3>1. result.deletedEndpoints = {} /\ result.newlyActive = {}
      BY Zenon, <1>1 DEF FInv, Findings
    <3>2. /\ \A e \in ListedFor(sp, applied) \ ListedFor(sp, applied') :
                <<sp, e>> \in result'.deletedEndpoints \/ <<sp, e>> \in overlooked'
          /\ Serving(endpointsMap, sp) = {} /\ Serving(endpointsMap', sp) # {} =>
                sp \in result'.newlyActive \/ <<sp, BlackHole>> \in overlooked'
      BY Zenon, Detected DEF FInv
    <3>3. overlooked \subseteq overlooked'
      BY Zenon, <1>2
    <3>. QED  BY ZenonT(60), <2>1, <3>1, <3>2, <3>3 DEF Sound
  <2>. QED  BY Zenon, <1>1, <1>3, <1>5, <2>1 DEF FlowKnown, Doomed, Targets
<1>. QED  BY Zenon, <1>1, <1>4, <1>5 DEF FInv

\* The new rules send packets only where the slices say.
LEMMA WriteFlows == ASSUME FInv, EndpointsMapCurrent, WriteRules PROVE FInv'
<1>1. /\ pc' = "clean" /\ rules' = [sp \in DOMAIN svcPortMap |-> CategorizeEndpoints(endpointsMap, sp)]
      /\ UNCHANGED <<svcPortMap, endpointsMap, applied, result, flows, overlooked, lost>>
  BY Zenon DEF WriteRules, maps, trackers
<1>2. ASSUME NEW sp \in UDPNames \cap DOMAIN rules', NEW to \in Targets(sp)' PROVE Right(sp, to)'
  <2>1. rules'[sp] = CategorizeEndpoints(endpointsMap, sp)
    BY Zenon, <1>1
  <2>2. rules'[sp] \subseteq ListedFor(sp, applied)
    BY Zenon, <2>1, CategorizedListed
  <2>3. rules'[sp] = {} => Serving(endpointsMap, sp) = {}
    BY Zenon, <2>1 DEF CategorizeEndpoints
  <2>4. ListedFor(sp, applied) \subseteq Endpoints
    BY Zenon DEF ListedFor
  <2>. QED  BY Zenon, <1>1, <2>2, <2>3, <2>4, FlowTargets DEF Targets, Right
<1>3. Findings' /\ RulesWritten'
  BY Zenon, <1>1, <1>2 DEF FInv, Findings, RulesWritten
<1>4. ASSUME NEW sp \in UDPNames, FlowKnown(sp) PROVE FlowKnown(sp)'
  <2>1. sp \in DOMAIN rules' <=> sp \in DOMAIN svcPortMap
    BY Zenon, <1>1
  <2>2. ASSUME sp \in DOMAIN rules', NEW to \in Targets(sp)' PROVE Sound(sp, to)'
    BY Zenon, <1>2, <2>2 DEF Right, Sound
  <2>. QED  BY Zenon, <1>1, <1>4, <2>1, <2>2 DEF FlowKnown, Doomed, Sound
<1>. QED  BY Zenon, <1>1, <1>3, <1>4 DEF FInv

\* An overlooked flow that is still there stays on record.
LEMMA StaysOverlooked ==
    ASSUME NEW remembered, NEW sp, <<sp, remembered[sp]>> \in overlooked
    PROVE  <<sp, remembered[sp]>> \in StillThere(remembered)
<1>1. <<sp, remembered[sp]>>[1] = sp /\ <<sp, remembered[sp]>>[2] = remembered[sp]
  BY Zenon
<1>. QED  BY Zenon, <1>1 DEF StillThere

\* A sync that fails with nothing to clean up leaves no stale flow.
LEMMA FailuresFlows == ASSUME FInv, WriteRulesFails \/ ConntrackFails PROVE FInv'
<1>1. /\ pc' = "idle" /\ result' = NoResult /\ lost' = (lost \/ result # NoResult)
      /\ UNCHANGED <<svcPortMap, endpointsMap, applied, rules, flows>>
      /\ overlooked' = overlooked \/ (pc = "clean" /\ overlooked' = StillThere(flows))
  BY Zenon DEF WriteRulesFails, ConntrackFails, maps, trackers
<1>2. Findings' /\ RulesWritten'
  BY Zenon, <1>1 DEF Findings, RulesWritten, NoResult
<1>3. ASSUME ~lost' PROVE \A sp \in UDPNames : FlowKnown(sp)'
  <2>1. ~lost /\ result' = result
    BY ZenonT(60), <1>1, <1>3
  <2>2. CASE overlooked' = overlooked
    BY ZenonT(60), <1>1, <2>1, <2>2 DEF FInv, FlowKnown, Doomed, Sound, Targets
  <2>3. ASSUME pc = "clean", overlooked' = StillThere(flows), NEW sp \in UDPNames, FlowKnown(sp)
        PROVE  FlowKnown(sp)'
    <3>1. Sound(sp, flows[sp]) => Sound(sp, flows[sp])'
      BY ZenonT(60), <1>1, <2>1, <2>3, StaysOverlooked DEF Sound
    <3>2. \A to : Right(sp, to) => Sound(sp, to)'
      BY Zenon, <1>1 DEF Right, Sound
    <3>3. sp \in DOMAIN rules => \A to \in Targets(sp) : Right(sp, to)
      BY Zenon, <2>3 DEF FInv, RulesWritten
    <3>. QED  BY ZenonT(60), <1>1, <2>1, <2>3, <3>1, <3>2, <3>3 DEF FlowKnown, Doomed, Targets
  <2>. QED  BY ZenonT(60), <1>1, <2>1, <2>2, <2>3 DEF FInv
<1>. QED  BY Zenon, <1>1, <1>2, <1>3 DEF FInv

\* The clean-up deletes every flow that the sync knows to be stale.
LEMMA CleanFlows == ASSUME FInv, CleanStaleEntries PROVE FInv'
<1>. DEFINE stale == deleteStaleServiceConntrackEntries \cup deleteStaleEndpointConntrackEntries
<1>1. /\ pc = "clean" /\ pc' = "idle" /\ result' = NoResult
      /\ flows' = [sp \in UDPNames |-> IF sp \in stale THEN None ELSE flows[sp]]
      /\ UNCHANGED <<svcPortMap, endpointsMap, applied, rules, lost>>
      /\ overlooked' = StillThere(flows')
  BY Zenon DEF CleanStaleEntries, maps, trackers, FInv
<1>2. Findings' /\ RulesWritten'
  BY Zenon, <1>1 DEF Findings, RulesWritten, NoResult
<1>3. ASSUME NEW sp \in UDPNames, FlowKnown(sp) PROVE FlowKnown(sp)'
  <2>1. DOMAIN rules = DOMAIN svcPortMap
    BY Zenon, <1>1 DEF FInv, RulesWritten
  <2>2. Doomed(sp) => sp \in stale
    BY Zenon DEF Doomed, deleteStaleServiceConntrackEntries, FInv
  <2>3. ASSUME sp \in DOMAIN svcPortMap, sp \in result.newlyActive PROVE sp \in stale
    BY <2>3 DEF deleteStaleServiceConntrackEntries, ServiceIPs, FInv
  <2>4. ASSUME sp \in DOMAIN svcPortMap, <<sp, flows[sp]>> \in result.deletedEndpoints PROVE sp \in stale
    <3>1. <<sp, flows[sp]>>[1] = sp /\ <<sp, flows[sp]>>[2] = flows[sp] /\ ClusterIP[sp[1]] \in ServiceIPs(sp)
      BY Zenon DEF ServiceIPs
    <3>. QED  BY Zenon, <2>4, <3>1 DEF deleteStaleEndpointConntrackEntries, FInv
  <2>5. ASSUME sp \in DOMAIN svcPortMap PROVE Right(sp, flows'[sp]) \/ <<sp, flows'[sp]>> \in overlooked'
    <3>1. CASE sp \in stale
      <4>1. flows'[sp] = None
        BY Zenon, <1>1, <3>1
      <4>. QED  BY Zenon, <4>1, FlowTargets, TrackingConstants DEF Right
    <3>2. CASE sp \notin stale
      <4>1. flows'[sp] = flows[sp]
        BY Zenon, <1>1, <3>2
      <4>2. Sound(sp, flows[sp])
        BY Zenon, <1>3, <2>2, <2>5, <3>2 DEF FlowKnown
      <4>3. <<sp, flows[sp]>> \in overlooked => <<sp, flows'[sp]>> \in overlooked'
        BY Zenon, <1>1, <4>1, StaysOverlooked
      <4>. HIDE DEF stale
      <4>. QED  BY Zenon, <2>3, <2>4, <2>5, <3>2, <4>1, <4>2, <4>3 DEF Sound, Right
    <3>. QED  BY Zenon, <3>1, <3>2
  <2>6. \A to : Right(sp, to) => Sound(sp, to)'
    BY Zenon, <1>1 DEF Right, Sound
  <2>7. ASSUME sp \in DOMAIN svcPortMap PROVE \A to \in Targets(sp) : Right(sp, to)
    BY Zenon, <1>1, <2>1, <2>7 DEF FInv, RulesWritten
  <2>8. CASE sp \in DOMAIN svcPortMap
    <3>1. Targets(sp)' = Targets(sp)
      BY Zenon, <1>1 DEF Targets
    <3>2. Sound(sp, flows[sp])'
      BY Zenon, <2>5, <2>6, <2>8 DEF Sound
    <3>. QED  BY Zenon, <1>1, <2>6, <2>7, <2>8, <3>1, <3>2 DEF FlowKnown
  <2>9. CASE sp \notin DOMAIN svcPortMap
    <3>1. flows'[sp] = None
      BY Zenon, <1>1, <1>3, <2>2, <2>9 DEF FlowKnown
    <3>. QED  BY Zenon, <1>1, <2>1, <2>9, <3>1 DEF FlowKnown
  <2>. QED  BY Zenon, <2>8, <2>9
<1>4. DOMAIN flows' = UDPNames
  BY Zenon, <1>1
<1>. QED  BY Zenon, <1>1, <1>2, <1>3, <1>4 DEF FInv

\* A packet opens a flow to where the rules send it.
LEMMA PacketFlows == ASSUME FInv, NEW q \in UDPNames, Packet(q) PROVE FInv'
<1>1. /\ q \in DOMAIN rules /\ UNCHANGED <<svcPortMap, endpointsMap, applied, rules, result, overlooked, pc, lost>>
      /\ \E to \in Targets(q) : flows' = [flows EXCEPT ![q] = to]
  BY ZenonT(60) DEF Packet, maps, trackers, Targets
<1>2. PICK to \in Targets(q) : flows' = [flows EXCEPT ![q] = to]
  BY ZenonT(60), <1>1
<1>3. Findings' /\ RulesWritten'
  BY SMTT(60), <1>1 DEF FInv, Findings, RulesWritten, Targets, Right
<1>4. ASSUME NEW sp \in UDPNames, FlowKnown(sp) PROVE FlowKnown(sp)'
  <2>1. CASE sp = q
    <3>1. flows'[sp] = to
      BY Zenon, <1>2, <2>1 DEF FInv
    <3>2. (\A t : Sound(sp, t)' <=> Sound(sp, t)) /\ (Doomed(sp)' <=> Doomed(sp)) /\ Targets(sp)' = Targets(sp)
      BY Zenon, <1>1 DEF Sound, Doomed, Targets
    <3>. QED  BY ZenonT(60), <1>1, <1>2, <1>4, <2>1, <3>1, <3>2 DEF FlowKnown
  <2>2. CASE sp # q
    <3>1. flows'[sp] = flows[sp]
      BY ZenonT(60), <1>2, <2>2 DEF FInv
    <3>. QED  BY <1>1, <1>4, <3>1 DEF FlowKnown, Doomed, Sound, Targets
  <2>. QED  BY Zenon, <2>1, <2>2
<1>. QED  BY Zenon, <1>1, <1>2, <1>3, <1>4 DEF FInv

\* Between syncs, unless a failure made it lose some, a conntrack entry that keeps a client of a
\* UDP Service port away from its endpoints is one that detectStaleConntrackEntries overlooked:
\* it compares with conditions computed afresh from the applied slices, so it misses an endpoint
\* that stopped serving before it was removed and one on whose condition two slices disagree.
THEOREM FlowsStayFresh == Spec => []NoStaleFlows
<1>1. Init => FInv
  <2>. SUFFICES ASSUME Init PROVE FInv
    BY Zenon
  <2>1. DOMAIN flows = UDPNames /\ \A sp \in UDPNames : flows[sp] = None
    BY Zenon DEF Init, UDPNames
  <2>2. Findings /\ RulesWritten
    BY Zenon DEF Init, Findings, RulesWritten, NoResult
  <2>3. \A sp \in UDPNames : FlowKnown(sp)
    BY SMTT(60), <2>1 DEF Init, FlowKnown
  <2>. QED  BY Zenon, <2>1, <2>2, <2>3 DEF FInv
<1>2. Tracked /\ TInv /\ EndpointsMapCurrent /\ FInv /\ [Next]_vars => FInv'
  <2>. SUFFICES ASSUME Tracked, TInv, EndpointsMapCurrent, FInv, [Next]_vars PROVE FInv'
    BY Zenon
  <2>1. CASE \/ \E s \in Services, x \in Specs \cup {None} : HandleService(s, x)
             \/ \E l \in Slices, x \in Contents \cup {None} : HandleEndpointSlice(l, x)
    BY Zenon, <2>1, QuietFlows DEF HandleService, HandleEndpointSlice, maps
  <2>2. CASE StartSync
    BY Zenon, <2>2, QuietFlows DEF StartSync, Enter, trackers, maps
  <2>3. CASE UNCHANGED vars
    BY Zenon, <2>3, QuietFlows DEF vars, trackers, maps
  <2>4. CASE \E sp \in UDPNames : Packet(sp)
    BY Zenon, <2>4, PacketFlows
  <2>5. CASE Asking
    BY Zenon, <2>5, AskingElsewhere, QuietFlows
  <2>. QED  BY Zenon, <2>1, <2>2, <2>3, <2>4, <2>5, ServicesFlows, EndpointsFlows, WriteFlows, FailuresFlows, CleanFlows
            DEF Next, Asking
<1>3. EndpointsMapCurrent /\ FInv => NoStaleFlows
  <2>. SUFFICES ASSUME EndpointsMapCurrent, FInv, pc = "idle", ~lost,
                       NEW sp \in DOMAIN flows \cap DOMAIN svcPortMap, <<sp, flows[sp]>> \notin overlooked
                PROVE  /\ flows[sp] \in Endpoints => sp \in DOMAIN endpointsMap /\ flows[sp] \in DOMAIN endpointsMap[sp]
                       /\ flows[sp] = BlackHole => Serving(endpointsMap, sp) = {}
    BY Zenon DEF NoStaleFlows
  <2>1. sp \in UDPNames /\ sp \in PortNames
    BY Zenon, TrackingConstants DEF FInv, UDPNames, PortNames
  <2>2. result.deletedIPs = {} /\ result.deletedEndpoints = {} /\ result.newlyActive = {}
    BY DEF FInv, Findings, NoResult
  <2>3. Right(sp, flows[sp])
    BY Zenon, <2>1, <2>2 DEF FInv, FlowKnown, Doomed, Sound, Right
  <2>. QED  BY Zenon, <2>1, <2>3 DEF Right, EndpointsMapCurrent
<1>. QED  BY <1>1, <1>2, <1>3, TrackedInvariant, TypeInvariant, EndpointsMapStaysCurrent, PTL DEF Spec
=============================================================================
