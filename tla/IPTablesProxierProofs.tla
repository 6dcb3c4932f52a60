------------------------ MODULE IPTablesProxierProofs ------------------------
(***************************************************************************)
(* Proofs about the iptables proxier: after an undisturbed sync, full or   *)
(* partial, every packet goes where the Services ask, and iptables-restore *)
(* refuses no rules of a table that nobody has flushed.                    *)
(***************************************************************************)
EXTENDS IPTablesProxier, TLAPS

-----------------------------------------------------------------------------
(* The inductive invariant. *)

portals == <<"portals">>
Names(s) == {c.name : c \in ServiceChains(s)}

\* A table has a Service's chains, with the rules that a sync would write now.
Holds(table, s) == \A c \in ServiceChains(s) : c.name \in DOMAIN table /\ table[c.name] = c.rules

Typed ==
    /\ watch = [s \in Services |-> watch[s]]
    /\ \A s \in Services : watch[s].spec \in Specs[s] \cup {None} /\ svcPortMap[s] \in Specs[s] \cup {None}

\* No two Services have a frontend in common.
Disjoint(i, j) == i # None /\ j # None => Frontends(i) \cap Frontends(j) = {}
Apart == \A s, t \in Services : s # t => Disjoint(watch[s].spec, watch[t].spec) /\ Disjoint(svcPortMap[s], svcPortMap[t])

\* When a sync is full or partial, and what stands in for a sync that the tables' state needs.
Control ==
    /\ pc \in {"idle", "restore"}
    /\ ~running => pc = "idle" /\ needFullSync /\ stale
    /\ pc = "restore" => (partial <=> ~needFullSync)
    /\ pc = "idle" /\ ~needFullSync => updated = {}
    /\ canary => linked \/ (pc = "idle" /\ needFullSync)

\* What a partial sync relies on: the chains of the Services that it leaves out.
Kept == linked /\ ~needFullSync => \A s \in Active \ updated : Holds(nat, s)

\* What an undisturbed sync leaves.
Left ==
    pc = "idle" /\ ~stale /\ canary =>
        ~needFullSync /\ portals \in DOMAIN nat /\ nat[portals] = Portals(TRUE) /\ filter = Filters

IInv == Typed /\ Apart /\ Control /\ Accepted(nat) /\ Kept /\ Left /\ NeverRejected

-----------------------------------------------------------------------------
(* A Service's chains. *)

\* What syncProxyRules writes for a Service depends on that Service, its endpoints and the
\* node's labels only.
LEMMA SameChains ==
    ASSUME NEW s, svcPortMap'[s] = svcPortMap[s], endpointsMap'[s] = endpointsMap[s], nodeLabels' = nodeLabels
    PROVE  /\ ServiceChains(s)' = ServiceChains(s) /\ ServicePortals(s)' = ServicePortals(s)
           /\ ServiceFilters(s)' = ServiceFilters(s)
<1>1. /\ HasEndpoints(s)' = HasEndpoints(s) /\ ClusterEndpoints(s)' = ClusterEndpoints(s)
      /\ LocalEndpoints(s)' = LocalEndpoints(s)
  BY Zenon DEF HasEndpoints, ClusterEndpoints, LocalEndpoints
<1>2. /\ HasInternal(s)' = HasInternal(s) /\ HasExternal(s)' = HasExternal(s)
      /\ UsesFWChain(s)' = UsesFWChain(s)
  BY <1>1, Zenon DEF HasInternal, HasExternal, UsesFWChain
<1>3. /\ ExternalRules(s)' = ExternalRules(s) /\ FirewallRules(s)' = FirewallRules(s)
      /\ \A local, es : PolicyRules(s, local, es)' = PolicyRules(s, local, es)
  BY <1>2, Zenon DEF ExternalRules, FirewallRules, PolicyRules
<1>4. ServiceChains(s)' = ServiceChains(s)
  BY <1>1, <1>2, <1>3, Zenon DEF ServiceChains, PolicyRules
<1>5. Verdict(s)' = Verdict(s) /\ ExternalDst(s)' = ExternalDst(s)
  BY <1>1, Zenon DEF Verdict, ExternalDst
<1>6. \A ips : Dst(ips, s)' = Dst(ips, s)
  BY Zenon DEF Dst
<1>7. ServicePortals(s)' = ServicePortals(s)
  BY <1>1, <1>2, <1>5, <1>6, Zenon DEF ServicePortals
<1>8. ServiceFilters(s)' = ServiceFilters(s)
  BY <1>2, <1>5, <1>6, Zenon DEF ServiceFilters
<1>9. QED BY <1>4, <1>7, <1>8, Zenon

\* The chains that syncProxyRules writes for a Service.
LEMMA ChainsWritten ==
    ASSUME NEW s, NEW c \in ServiceChains(s)
    PROVE  \/ /\ HasEndpoints(s) /\ ExternallyAccessible(svcPortMap[s])
              /\ c.name = EXT(s) /\ c.rules = ExternalRules(s)
           \/ UsesFWChain(s) /\ c.name = FW(s) /\ c.rules = FirewallRules(s)
           \/ /\ ClusterEndpoints(s) # {}
              /\ c.name = SVC(s) /\ c.rules = PolicyRules(s, FALSE, ClusterEndpoints(s))
           \/ /\ LocalEndpoints(s) # {}
              /\ c.name = SVL(s) /\ c.rules = PolicyRules(s, TRUE, LocalEndpoints(s))
           \/ \E e \in ClusterEndpoints(s) \cup LocalEndpoints(s) :
                 c.name = SEP(s, e) /\ c.rules = [to |-> e, jump |-> {}]
<1>1. ASSUME NEW cond, NEW n, NEW r, c \in ChainIf(cond, n, r) PROVE cond /\ c.name = n /\ c.rules = r
  BY <1>1 DEF ChainIf
<1>2. CASE c \in ChainIf(HasEndpoints(s) /\ ExternallyAccessible(svcPortMap[s]), EXT(s), ExternalRules(s))
  BY <1>1, <1>2, Zenon
<1>3. CASE c \in ChainIf(UsesFWChain(s), FW(s), FirewallRules(s))
  BY <1>1, <1>3, Zenon
<1>4. CASE c \in ChainIf(ClusterEndpoints(s) # {}, SVC(s), PolicyRules(s, FALSE, ClusterEndpoints(s)))
  BY <1>1, <1>4, Zenon
<1>5. CASE c \in ChainIf(LocalEndpoints(s) # {}, SVL(s), PolicyRules(s, TRUE, LocalEndpoints(s)))
  BY <1>1, <1>5, Zenon
<1>6. CASE \E e \in ClusterEndpoints(s) \cup LocalEndpoints(s) :
                 c = [name |-> SEP(s, e), rules |-> [to |-> e, jump |-> {}]]
  <2>1. PICK e \in ClusterEndpoints(s) \cup LocalEndpoints(s) :
                 c = [name |-> SEP(s, e), rules |-> [to |-> e, jump |-> {}]]
    BY <1>6, Zenon
  <2>2. c.name = SEP(s, e) /\ c.rules = [to |-> e, jump |-> {}]
    BY <2>1
  <2>3. QED BY <2>2, Zenon
<1>7. QED BY <1>2, <1>3, <1>4, <1>5, <1>6, Zenon DEF ServiceChains

\* The rules of a Service's chain, by the chain's name.
RulesOf(s, name) ==
    IF name[1] = "EXT" THEN ExternalRules(s)
    ELSE IF name[1] = "FW" THEN FirewallRules(s)
    ELSE IF name[1] = "SVC" THEN PolicyRules(s, FALSE, ClusterEndpoints(s))
    ELSE IF name[1] = "SVL" THEN PolicyRules(s, TRUE, LocalEndpoints(s))
    ELSE [to |-> name[3], jump |-> {}]

\* A chain's name says whose it is and which: of one Service no two chains share a name, and
\* none is called like the chain of the portals.
LEMMA ChainNames ==
    ASSUME NEW s, NEW t, NEW c \in ServiceChains(s), NEW d \in ServiceChains(t)
    PROVE  c.name # portals /\ (c.name = d.name => s = t /\ c.rules = d.rules)
<1>1. ASSUME NEW x, NEW u, NEW k, NEW n, x.name = n, n = <<k, u>> PROVE x.name[1] = k /\ x.name[2] = u
  BY <1>1
<1>2. ASSUME NEW x, NEW u, NEW e, x.name = SEP(u, e), x.rules = [to |-> e, jump |-> {}]
      PROVE  x.name[1] = "SEP" /\ x.name[2] = u /\ x.rules = [to |-> x.name[3], jump |-> {}]
  <2>1. x.name[1] = "SEP" /\ x.name[2] = u /\ x.name[3] = e
    BY <1>2 DEF SEP
  <2>2. QED BY <1>2, <2>1, Zenon
<1>3. ASSUME NEW u, NEW x \in ServiceChains(u)
      PROVE  x.name[1] # "portals" /\ x.name[2] = u /\ x.rules = RulesOf(u, x.name)
  <2>1. ASSUME x.name = EXT(u), x.rules = ExternalRules(u)
        PROVE  x.name[1] = "EXT" /\ x.name[2] = u /\ x.rules = RulesOf(u, x.name)
    BY <1>1, <2>1, Zenon DEF EXT, RulesOf
  <2>2. ASSUME x.name = FW(u), x.rules = FirewallRules(u)
        PROVE  x.name[1] = "FW" /\ x.name[2] = u /\ x.rules = RulesOf(u, x.name)
    <3>1. x.name[1] = "FW" /\ x.name[2] = u
      BY <1>1, <2>2, Zenon DEF FW
    <3>2. QED BY <2>2, <3>1, Zenon DEF RulesOf
  <2>3. ASSUME x.name = SVC(u), x.rules = PolicyRules(u, FALSE, ClusterEndpoints(u))
        PROVE  x.name[1] = "SVC" /\ x.name[2] = u /\ x.rules = RulesOf(u, x.name)
    <3>1. x.name[1] = "SVC" /\ x.name[2] = u
      BY <1>1, <2>3, Zenon DEF SVC
    <3>2. QED BY <2>3, <3>1, Zenon DEF RulesOf
  <2>4. ASSUME x.name = SVL(u), x.rules = PolicyRules(u, TRUE, LocalEndpoints(u))
        PROVE  x.name[1] = "SVL" /\ x.name[2] = u /\ x.rules = RulesOf(u, x.name)
    <3>1. x.name[1] = "SVL" /\ x.name[2] = u
      BY <1>1, <2>4, Zenon DEF SVL
    <3>2. QED BY <2>4, <3>1, Zenon DEF RulesOf
  <2>5. ASSUME NEW e, x.name = SEP(u, e), x.rules = [to |-> e, jump |-> {}]
        PROVE  x.name[1] = "SEP" /\ x.name[2] = u /\ x.rules = RulesOf(u, x.name)
    BY <1>2, <2>5, Zenon DEF RulesOf
  <2>6. QED BY <1>3, <2>1, <2>2, <2>3, <2>4, <2>5, ChainsWritten, Zenon
<1>4. c.name # portals
  <2>1. c.name[1] # "portals"
    BY <1>3, Zenon
  <2>2. portals[1] = "portals"
    BY DEF portals
  <2>3. QED BY <2>1, <2>2, Zenon
<1>5. ASSUME c.name = d.name PROVE s = t /\ c.rules = d.rules
  <2>1. c.name[2] = s /\ d.name[2] = t /\ c.rules = RulesOf(s, c.name) /\ d.rules = RulesOf(t, d.name)
    BY <1>3, Zenon
  <2>2. QED BY <1>5, <2>1, Zenon
<1>6. QED BY <1>4, <1>5, Zenon

\* And each of those chains is written.
LEMMA ChainsNeeded ==
    ASSUME NEW s
    PROVE  /\ HasEndpoints(s) /\ ExternallyAccessible(svcPortMap[s]) =>
                  [name |-> EXT(s), rules |-> ExternalRules(s)] \in ServiceChains(s)
           /\ UsesFWChain(s) => [name |-> FW(s), rules |-> FirewallRules(s)] \in ServiceChains(s)
           /\ ClusterEndpoints(s) # {} =>
                  [name |-> SVC(s), rules |-> PolicyRules(s, FALSE, ClusterEndpoints(s))] \in ServiceChains(s)
           /\ LocalEndpoints(s) # {} =>
                  [name |-> SVL(s), rules |-> PolicyRules(s, TRUE, LocalEndpoints(s))] \in ServiceChains(s)
           /\ \A e \in ClusterEndpoints(s) \cup LocalEndpoints(s) :
                  [name |-> SEP(s, e), rules |-> [to |-> e, jump |-> {}]] \in ServiceChains(s)
  BY Zenon DEF ServiceChains, ChainIf

\* A Service's chains jump to chains of the same Service only, and so do its portals: a sync
\* that writes a Service writes all it needs.
LEMMA OwnJumps ==
    ASSUME NEW s
    PROVE  /\ \A c \in ServiceChains(s) : c.rules.jump \subseteq Names(s)
           /\ \A r \in ServicePortals(s) : r[2] \in Names(s)
<1> DEFINE i == svcPortMap[s]
<1>0. \A c \in ServiceChains(s) : c.name \in Names(s)
  BY Zenon DEF Names
<1>1. ASSUME NEW n, NEW r, [name |-> n, rules |-> r] \in ServiceChains(s) PROVE n \in Names(s)
  BY <1>0, <1>1
<1>2. /\ ClusterEndpoints(s) # {} => SVC(s) \in Names(s)
      /\ LocalEndpoints(s) # {} => SVL(s) \in Names(s)
  BY <1>1, ChainsNeeded, Zenon
<1>3. HasEndpoints(s) /\ ExternallyAccessible(i) => EXT(s) \in Names(s)
  BY <1>1, ChainsNeeded, Zenon
<1>4. UsesFWChain(s) => FW(s) \in Names(s)
  BY <1>1, ChainsNeeded, Zenon
<1>5. HasEndpoints(s) /\ UsesClusterEndpoints(i) => ClusterEndpoints(s) # {}
  BY Zenon DEF HasEndpoints, ClusterEndpoints
<1>6. HasEndpoints(s) /\ ExternallyAccessible(i) => SVC(s) \in Names(s)
  BY <1>2, <1>5, Zenon DEF UsesClusterEndpoints
<1>7. HasInternal(s) => PolicyChain(s, i.internalLocal) \in Names(s)
  BY <1>2, <1>5, Zenon DEF HasInternal, PolicyChain, UsesClusterEndpoints
<1>8. HasExternal(s) /\ ExternallyAccessible(i) => PolicyChain(s, i.externalLocal) \in Names(s)
  BY <1>2, <1>6, Zenon DEF HasExternal, PolicyChain
<1>9. HasEndpoints(s) /\ ExternallyAccessible(i) => ExternalRules(s).jump \subseteq Names(s)
  BY <1>6, <1>8 DEF ExternalRules
<1>10. UsesFWChain(s) => ExternallyAccessible(i) /\ HasEndpoints(s)
  BY Zenon DEF UsesFWChain, ExternallyAccessible
<1>11. UsesFWChain(s) => FirewallRules(s).jump \subseteq Names(s)
  BY <1>3, <1>10 DEF FirewallRules
<1>12. \A e \in ClusterEndpoints(s) \cup LocalEndpoints(s) : SEP(s, e) \in Names(s)
  BY <1>1, ChainsNeeded, Zenon
<1>13. /\ PolicyRules(s, FALSE, ClusterEndpoints(s)).jump \subseteq Names(s)
       /\ PolicyRules(s, TRUE, LocalEndpoints(s)).jump \subseteq Names(s)
  BY <1>12 DEF PolicyRules
<1>14. ASSUME NEW c \in ServiceChains(s) PROVE c.rules.jump \subseteq Names(s)
  <2>1. \A e : [to |-> e, jump |-> {}].jump \subseteq Names(s)
    OBVIOUS
  <2>2. QED BY <1>9, <1>11, <1>13, <1>14, <2>1, ChainsWritten, Zenon
<1>15. \A d \in ExternalDst(s) : ExternallyAccessible(i)
  BY DEF ExternalDst, ExternalFrontends, ExternallyAccessible
<1>16. ASSUME NEW r \in ServicePortals(s) PROVE r[2] \in Names(s)
  <2>1. \/ HasInternal(s) /\ r[2] = PolicyChain(s, i.internalLocal)
        \/ HasEndpoints(s) /\ ExternallyAccessible(i) /\ (r[2] = EXT(s) \/ (UsesFWChain(s) /\ r[2] = FW(s)))
    BY <1>15, <1>16 DEF ServicePortals
  <2>2. QED BY <2>1, <1>3, <1>4, <1>7, Zenon
<1>17. QED BY <1>14, <1>16, Zenon

-----------------------------------------------------------------------------
(* What iptables-restore makes of the nat table. *)

\* The chains that syncProxyRules does not count as unused: the portals and the Services' own.
LEMMA NamesUsed ==
    ASSUME NEW n
    PROVE  n \in UnusedChains <=> n \in DOMAIN nat /\ n # portals /\ \A s \in Active : n \notin Names(s)
<1>1. UnusedChains = DOMAIN nat \ ({portals} \cup UNION {Names(s) : s \in Active})
  BY Zenon DEF UnusedChains, Names, portals
<1>2. QED BY <1>1, Zenon

\* The portals and the chains of the written Services are as written, the other chains that
\* are not deleted as they were; no chain of a Service is deleted (syncProxyRules).
LEMMA RestoredTable ==
    ASSUME NEW deleted \in {{}, UnusedChains}, NEW listed, NEW table, table = Restored(deleted, listed)
    PROVE  /\ portals \in DOMAIN table /\ table[portals] = Portals(listed)
           /\ \A s \in Written : Holds(table, s)
           /\ \A s \in Active : Holds(nat, s) => Holds(table, s)
           /\ DOMAIN nat \ deleted \subseteq DOMAIN table
           /\ \A n \in DOMAIN table : \/ n = portals
                                      \/ \E s \in Written : n \in Names(s)
                                      \/ n \in DOMAIN nat \ deleted /\ table[n] = nat[n]
<1> DEFINE top == [name |-> portals, rules |-> Portals(listed)]
           written == (UNION {ServiceChains(s) : s \in Written}) \cup ChainIf(TRUE, portals, Portals(listed))
           names == {c.name : c \in written}
<1>1. table = [n \in (DOMAIN nat \cup names) \ deleted |->
                  IF n \in names THEN (CHOOSE c \in written : c.name = n).rules ELSE nat[n]]
  BY Zenon DEF Restored, portals
<1>2. top.name = portals /\ top.rules = Portals(listed) /\ ChainIf(TRUE, portals, Portals(listed)) = {top}
  BY Zenon DEF ChainIf
<1>3. ASSUME NEW x \in written, NEW y \in written, x.name = y.name PROVE x.rules = y.rules
  <2>1. CASE x = top /\ y = top
    BY <2>1, Zenon
  <2>2. CASE x = top /\ \E s \in Written : y \in ServiceChains(s)
    BY <1>2, <1>3, <2>2, ChainNames, Zenon
  <2>3. CASE y = top /\ \E s \in Written : x \in ServiceChains(s)
    BY <1>2, <1>3, <2>3, ChainNames, Zenon
  <2>4. CASE (\E s \in Written : x \in ServiceChains(s)) /\ (\E s \in Written : y \in ServiceChains(s))
    <3>1. PICK u \in Written : x \in ServiceChains(u)
      BY <2>4, Zenon
    <3>2. PICK v \in Written : y \in ServiceChains(v)
      BY <2>4, Zenon
    <3>3. QED BY <1>3, <3>1, <3>2, ChainNames
  <2>5. QED BY <1>2, <1>3, <2>1, <2>2, <2>3, <2>4, Zenon
<1>4. portals \notin deleted /\ \A s \in Active : \A c \in ServiceChains(s) : c.name \notin deleted
  <2>1. portals \notin UnusedChains
    BY Zenon DEF UnusedChains, portals
  <2>2. ASSUME NEW s \in Active, NEW c \in ServiceChains(s) PROVE c.name \notin UnusedChains
    <3>1. c.name \in Names(s)
      BY <2>2, Zenon DEF Names
    <3>2. QED BY <2>2, <3>1, NamesUsed, Zenon
  <2>3. QED BY <2>1, <2>2, Zenon
<1>5. ASSUME NEW c \in written, c.name \notin deleted
      PROVE  c.name \in DOMAIN table /\ table[c.name] = c.rules
  <2>1. c.name \in names
    BY <1>5, Zenon
  <2>2. c.name \in DOMAIN table /\ table[c.name] = (CHOOSE x \in written : x.name = c.name).rules
    BY <1>1, <1>5, <2>1, Zenon
  <2>3. /\ (CHOOSE x \in written : x.name = c.name) \in written
        /\ (CHOOSE x \in written : x.name = c.name).name = c.name
    BY <1>5, Zenon
  <2>4. QED BY <1>3, <1>5, <2>2, <2>3, Zenon
<1>6. Written \subseteq Active
  BY Zenon DEF Written
<1>7. portals \in DOMAIN table /\ table[portals] = Portals(listed)
  BY <1>2, <1>4, <1>5, Zenon
<1>8. ASSUME NEW s \in Written PROVE Holds(table, s)
  BY <1>4, <1>5, <1>6, <1>8, Zenon DEF Holds
<1>9. ASSUME NEW s \in Active, Holds(nat, s) PROVE Holds(table, s)
  <2>1. CASE s \in Written
    BY <1>8, <2>1, Zenon
  <2>2. CASE s \notin Written
    <3>1. SUFFICES ASSUME NEW c \in ServiceChains(s) PROVE c.name \in DOMAIN table /\ table[c.name] = c.rules
      BY Zenon DEF Holds
    <3>2. c.name \in DOMAIN nat /\ nat[c.name] = c.rules /\ c.name \notin deleted
      BY <1>4, <1>9, <3>1, Zenon DEF Holds
    <3>3. c.name \notin names
      <4>1. ASSUME NEW d \in written PROVE d.name # c.name
        <5>1. CASE d = top
          BY <1>2, <3>1, <5>1, ChainNames, Zenon
        <5>2. CASE \E u \in Written : d \in ServiceChains(u)
          <6>1. PICK u \in Written : d \in ServiceChains(u)
            BY <5>2, Zenon
          <6>2. QED BY <2>2, <3>1, <6>1, ChainNames
        <5>3. QED BY <1>2, <4>1, <5>1, <5>2, Zenon
      <4>2. QED BY <4>1, Zenon
    <3>4. QED BY <1>1, <3>2, <3>3, Zenon
  <2>3. QED BY <2>1, <2>2, Zenon
<1>10. DOMAIN nat \ deleted \subseteq DOMAIN table
  BY <1>1, Zenon
<1>11. ASSUME NEW n \in DOMAIN table
       PROVE  \/ n = portals
              \/ \E s \in Written : n \in Names(s)
              \/ n \in DOMAIN nat \ deleted /\ table[n] = nat[n]
  <2>1. CASE n \in names
    <3>1. PICK c \in written : n = c.name
      BY <2>1, Zenon
    <3>2. QED BY <1>2, <3>1, Zenon DEF Names
  <2>2. CASE n \notin names
    BY <1>1, <1>11, <2>2, Zenon
  <2>3. QED BY <2>1, <2>2, Zenon
<1>12. QED BY <1>7, <1>8, <1>9, <1>10, <1>11, Zenon

\* If the chains of the Services that a sync leaves out are in the table, iptables-restore
\* accepts its rules, and every Service's chains are in the table then (syncProxyRules).
LEMMA RestoreAccepted ==
    ASSUME NEW deleted \in {{}, UnusedChains}, NEW listed, NEW table, table = Restored(deleted, listed),
           Accepted(nat), \A s \in Active \ Written : Holds(nat, s)
    PROVE  Accepted(table) /\ \A s \in Active : Holds(table, s)
<1>1. ASSUME NEW s \in Active PROVE Holds(table, s)
  BY <1>1, RestoredTable, Zenon
<1>2. ASSUME NEW s \in Active PROVE Names(s) \subseteq DOMAIN table
  BY <1>1, <1>2, Zenon DEF Names, Holds
<1>3. ASSUME NEW s \in Active, NEW n \in Names(s) PROVE table[n].jump \subseteq DOMAIN table
  <2>1. PICK c \in ServiceChains(s) : c.name = n
    BY <1>3, Zenon DEF Names
  <2>2. table[n] = c.rules
    BY <1>1, <2>1, Zenon DEF Holds
  <2>3. c.rules.jump \subseteq Names(s)
    BY <2>1, OwnJumps, Zenon
  <2>4. QED BY <1>2, <2>2, <2>3, Zenon
<1>4. Portals(listed).jump \subseteq DOMAIN table
  <2>1. SUFFICES ASSUME NEW n \in Portals(listed).jump PROVE n \in DOMAIN table
    BY Zenon
  <2>2. PICK s \in Active : n \in {r[2] : r \in ServicePortals(s)}
    BY <2>1, Zenon DEF Portals
  <2>3. n \in Names(s)
    BY <2>2, OwnJumps, Zenon
  <2>4. QED BY <1>2, <2>3, Zenon
<1>5. ASSUME NEW n \in DOMAIN table PROVE table[n].jump \subseteq DOMAIN table
  <2>1. CASE n = portals
    BY <1>4, <2>1, RestoredTable, Zenon
  <2>2. CASE \E s \in Active : n \in Names(s)
    BY <1>3, <2>2, Zenon
  <2>3. CASE n \in DOMAIN nat \ deleted /\ table[n] = nat[n]
    <3>1. CASE deleted = {}
      <4>1. nat[n].jump \subseteq DOMAIN nat
        BY <2>3, Zenon DEF Accepted
      <4>2. DOMAIN nat \subseteq DOMAIN table
        BY <3>1, RestoredTable, Zenon
      <4>3. QED BY <2>3, <4>1, <4>2, Zenon
    <3>2. CASE deleted = UnusedChains
      <4>1. n = portals \/ \E s \in Active : n \in Names(s)
        BY <2>3, <3>2, NamesUsed, Zenon
      <4>2. QED BY <2>1, <2>2, <4>1, Zenon
    <3>3. QED BY <3>1, <3>2, Zenon
  <2>4. Written \subseteq Active
    BY Zenon DEF Written
  <2>5. QED BY <1>5, <2>1, <2>2, <2>3, <2>4, RestoredTable, Zenon
<1>6. QED BY <1>1, <1>5, Zenon DEF Accepted

-----------------------------------------------------------------------------
(* Where packets go. *)

PolicyOf(c) == {nat[sep].to : sep \in nat[c].jump}
ExternalOf(c, src) ==
    UNION {PolicyOf(n) : n \in IF src \in Inside /\ nat[c].shortCircuit # {} THEN nat[c].shortCircuit ELSE nat[c].policy}

\* What a Service's external traffic should reach.
ExternalTargets(s, src) ==
    IF svcPortMap[s].externalLocal /\ src \notin Inside THEN LocalEndpoints(s) ELSE ClusterEndpoints(s)

\* A Service's chains in the table have the rules that a sync would write.
LEMMA HeldRules ==
    ASSUME NEW s, Holds(nat, s)
    PROVE  /\ HasEndpoints(s) /\ ExternallyAccessible(svcPortMap[s]) => nat[EXT(s)] = ExternalRules(s)
           /\ UsesFWChain(s) => nat[FW(s)] = FirewallRules(s)
           /\ ClusterEndpoints(s) # {} => nat[SVC(s)] = PolicyRules(s, FALSE, ClusterEndpoints(s))
           /\ LocalEndpoints(s) # {} => nat[SVL(s)] = PolicyRules(s, TRUE, LocalEndpoints(s))
           /\ \A e \in ClusterEndpoints(s) \cup LocalEndpoints(s) : nat[SEP(s, e)].to = e
<1>1. ASSUME NEW n, NEW r, [name |-> n, rules |-> r] \in ServiceChains(s) PROVE nat[n] = r
  BY <1>1 DEF Holds
<1>2. ASSUME NEW e \in ClusterEndpoints(s) \cup LocalEndpoints(s) PROVE nat[SEP(s, e)].to = e
  <2>1. nat[SEP(s, e)] = [to |-> e, jump |-> {}]
    BY <1>1, <1>2, ChainsNeeded, Zenon
  <2>2. QED BY <2>1
<1>3. QED BY <1>1, <1>2, ChainsNeeded, Zenon

\* Through the Service's chains in the table, packets reach the endpoints of the policy.
LEMMA TargetsOf ==
    ASSUME NEW s, NEW src, Holds(nat, s)
    PROVE  /\ ClusterEndpoints(s) # {} => Targets(SVC(s), src) = ClusterEndpoints(s)
           /\ LocalEndpoints(s) # {} => Targets(SVL(s), src) = LocalEndpoints(s)
           /\ HasEndpoints(s) /\ ExternallyAccessible(svcPortMap[s]) => Targets(EXT(s), src) = ExternalTargets(s, src)
           /\ UsesFWChain(s) =>
                  Targets(FW(s), src) = IF src \in FirewallRules(s).from THEN ExternalTargets(s, src) ELSE {}
<1> DEFINE i == svcPortMap[s]
<1>1. ASSUME NEW c
      PROVE  /\ c[1] = "EXT" => Targets(c, src) = ExternalOf(c, src)
             /\ c[1] = "FW" => Targets(c, src) = IF src \in nat[c].from
                                                 THEN UNION {ExternalOf(d, src) : d \in nat[c].jump} ELSE {}
             /\ c[1] \notin {"EXT", "FW"} => Targets(c, src) = PolicyOf(c)
  BY DEF Targets, ExternalOf, PolicyOf
<1>2. ASSUME NEW es, es \subseteq ClusterEndpoints(s) \cup LocalEndpoints(s), NEW c, NEW local,
             nat[c] = PolicyRules(s, local, es)
      PROVE  PolicyOf(c) = es
  <2>1. nat[c].jump = {SEP(s, e) : e \in es}
    BY <1>2 DEF PolicyRules
  <2>2. \A e \in es : nat[SEP(s, e)].to = e
    BY <1>2, HeldRules, Zenon
  <2>3. QED BY <2>1, <2>2 DEF PolicyOf
<1>3. ClusterEndpoints(s) # {} => PolicyOf(SVC(s)) = ClusterEndpoints(s)
  BY <1>2, HeldRules, Zenon
<1>4. LocalEndpoints(s) # {} => PolicyOf(SVL(s)) = LocalEndpoints(s)
  BY <1>2, HeldRules, Zenon
<1>5. EXT(s)[1] = "EXT" /\ FW(s)[1] = "FW" /\ SVC(s)[1] = "SVC" /\ SVL(s)[1] = "SVL"
  BY DEF EXT, FW, SVC, SVL
<1>6. ASSUME HasEndpoints(s), ExternallyAccessible(i)
      PROVE  ExternalOf(EXT(s), src) = ExternalTargets(s, src)
  <2>1. /\ nat[EXT(s)].shortCircuit = IF i.externalLocal THEN {SVC(s)} ELSE {}
        /\ nat[EXT(s)].policy = IF HasExternal(s) THEN {PolicyChain(s, i.externalLocal)} ELSE {}
    <3>1. nat[EXT(s)] = ExternalRules(s)
      BY <1>6, HeldRules, Zenon
    <3>2. QED BY <3>1 DEF ExternalRules
  <2>2. ClusterEndpoints(s) # {}
    BY <1>6, Zenon DEF HasEndpoints, ClusterEndpoints, UsesClusterEndpoints
  <2>3. CASE i.externalLocal /\ src \in Inside
    <3>1. ExternalOf(EXT(s), src) = PolicyOf(SVC(s))
      BY <2>1, <2>3, Zenon DEF ExternalOf
    <3>2. QED BY <1>3, <2>2, <2>3, <3>1, Zenon DEF ExternalTargets
  <2>4. CASE i.externalLocal /\ src \notin Inside /\ LocalEndpoints(s) # {}
    <3>1. ExternalOf(EXT(s), src) = PolicyOf(SVL(s))
      BY <1>6, <2>1, <2>4, Zenon DEF ExternalOf, HasExternal, PolicyChain
    <3>2. QED BY <1>4, <2>4, <3>1, Zenon DEF ExternalTargets
  <2>5. CASE i.externalLocal /\ src \notin Inside /\ LocalEndpoints(s) = {}
    BY <2>1, <2>5, Zenon DEF ExternalOf, HasExternal, ExternalTargets
  <2>6. CASE ~i.externalLocal
    <3>1. ExternalOf(EXT(s), src) = PolicyOf(SVC(s))
      BY <1>6, <2>1, <2>6, Zenon DEF ExternalOf, HasExternal, PolicyChain
    <3>2. QED BY <1>3, <2>2, <2>6, <3>1, Zenon DEF ExternalTargets
  <2>7. QED BY <2>3, <2>4, <2>5, <2>6, Zenon
<1>7. ASSUME UsesFWChain(s)
      PROVE  Targets(FW(s), src) = IF src \in FirewallRules(s).from THEN ExternalTargets(s, src) ELSE {}
  <2>1. HasEndpoints(s) /\ ExternallyAccessible(i)
    BY <1>7, Zenon DEF UsesFWChain, ExternallyAccessible
  <2>2. nat[FW(s)] = FirewallRules(s)
    BY <1>7, HeldRules, Zenon
  <2>3. FirewallRules(s).jump = {EXT(s)}
    BY DEF FirewallRules
  <2>4. UNION {ExternalOf(d, src) : d \in nat[FW(s)].jump} = ExternalTargets(s, src)
    BY <1>6, <2>1, <2>2, <2>3, Zenon
  <2>5. QED BY <1>1, <1>5, <2>2, <2>4, Zenon
<1>8. QED BY <1>1, <1>3, <1>4, <1>5, <1>6, <1>7, Zenon

FiltersOf(s) == ServiceFilters(s).services \cup ServiceFilters(s).external \cup ServiceFilters(s).firewall

\* A Service's portals and filter rules are for its own frontends.
LEMMA OwnFrontends ==
    ASSUME NEW s
    PROVE  (\A r \in ServicePortals(s) : r[1] \in ServedDst(s)) /\ (\A r \in FiltersOf(s) : r[1] \in ServedDst(s))
<1> DEFINE i == svcPortMap[s]
<1>1. /\ \A d \in Dst({i.clusterIP}, s) : d \in ServedDst(s)
      /\ \A d \in ExternalDst(s) : d \in ServedDst(s)
      /\ \A d \in Dst(i.ingress, s) : d \in ServedDst(s)
  <2>1. Dst(i.ingress, s) \subseteq ExternalDst(s)
    BY DEF Dst, ExternalDst, ExternalFrontends
  <2>2. ServedDst(s) = Dst({i.clusterIP}, s) \cup ExternalDst(s)
    BY Zenon DEF ServedDst, Frontends, Dst, ExternalDst
  <2>3. QED BY <2>1, <2>2, Zenon
<1>2. ASSUME NEW r \in ServicePortals(s) PROVE r[1] \in ServedDst(s)
  <2>1. \/ \E d \in Dst({i.clusterIP}, s) : r[1] = d
        \/ \E d \in ExternalDst(s) : r[1] = d
    BY <1>2 DEF ServicePortals
  <2>2. QED BY <1>1, <2>1, Zenon
<1>3. ASSUME NEW r \in FiltersOf(s) PROVE r[1] \in ServedDst(s)
  <2>1. \E D \in {Dst({i.clusterIP}, s), ExternalDst(s), Dst(i.ingress, s)} : \E v : r \in D \X {v}
    BY <1>3, Zenon DEF FiltersOf, ServiceFilters
  <2>2. PICK D \in {Dst({i.clusterIP}, s), ExternalDst(s), Dst(i.ingress, s)} : \E v : r \in D \X {v}
    BY <2>1, Zenon
  <2>3. r[1] \in D
    BY <2>2
  <2>4. QED BY <1>1, <2>2, <2>3, Zenon
<1>4. QED BY <1>2, <1>3, Zenon

\* A packet for a Service's frontend meets that Service's portals and filter rules only, as no
\* two Services have a frontend in common.
LEMMA RouteOf ==
    ASSUME Apart, portals \in DOMAIN nat, nat[portals] = Portals(TRUE), filter = Filters,
           NEW s \in Active, NEW src, NEW dst \in ServedDst(s)
    PROVE  LET targets == UNION {Targets(r[2], src) : r \in {x \in ServicePortals(s) : x[1] = dst}}
           IN  Route(src, dst) = IF targets # {} THEN targets ELSE {r[2] : r \in {x \in FiltersOf(s) : x[1] = dst}}
<1>1. ASSUME NEW t \in Active, dst \in ServedDst(t) PROVE t = s
  <2>1. /\ s \in Services /\ svcPortMap[s] # None /\ dst \in Frontends(svcPortMap[s])
        /\ t \in Services /\ svcPortMap[t] # None /\ dst \in Frontends(svcPortMap[t])
    BY <1>1, Zenon DEF Active, ServedDst
  <2>2. QED BY <2>1, Zenon DEF Apart, Disjoint
<1>2. {r \in nat[portals].rules : r[1] = dst} = {x \in ServicePortals(s) : x[1] = dst}
  <2>1. nat[portals].rules = UNION {ServicePortals(t) : t \in Active}
    BY SMT DEF Portals
  <2>2. ASSUME NEW r \in UNION {ServicePortals(t) : t \in Active}, r[1] = dst PROVE r \in ServicePortals(s)
    <3>1. PICK t \in Active : r \in ServicePortals(t)
      BY <2>2, Zenon
    <3>2. dst \in ServedDst(t)
      BY <2>2, <3>1, OwnFrontends, Zenon
    <3>3. QED BY <1>1, <3>1, <3>2, Zenon
  <2>3. QED BY <2>1, <2>2, Zenon
<1>3. {x \in filter.services \cup filter.external \cup filter.firewall : x[1] = dst} = {x \in FiltersOf(s) : x[1] = dst}
  <2>1. /\ filter.services = UNION {ServiceFilters(t).services : t \in Active}
        /\ filter.external = UNION {ServiceFilters(t).external : t \in Active}
        /\ filter.firewall = UNION {ServiceFilters(t).firewall : t \in Active}
    BY Zenon DEF Filters, FilterChains
  <2>2. filter.services \cup filter.external \cup filter.firewall = UNION {FiltersOf(t) : t \in Active}
    BY <2>1, SMT DEF FiltersOf
  <2>3. ASSUME NEW r \in UNION {FiltersOf(t) : t \in Active}, r[1] = dst PROVE r \in FiltersOf(s)
    <3>1. PICK t \in Active : r \in FiltersOf(t)
      BY <2>3, Zenon
    <3>2. dst \in ServedDst(t)
      BY <2>3, <3>1, OwnFrontends, Zenon
    <3>3. QED BY <1>1, <3>1, <3>2, Zenon
  <2>4. QED BY <2>2, <2>3, Zenon
<1>4. QED BY <1>2, <1>3, Zenon DEF Route, portals

\* A frontend is the cluster IP's or an external one, not both; a load balancer address is
\* known by its IP.
LEMMA FrontendKinds ==
    ASSUME NEW s \in Services, svcPortMap[s] \in Specs[s], NEW dst \in ServedDst(s)
    PROVE  LET i == svcPortMap[s]
           IN  \/ dst = <<i.clusterIP, i.port>> /\ dst \notin ExternalDst(s) /\ dst[1] \notin i.ingress
               \/ /\ dst # <<i.clusterIP, i.port>> /\ dst \in ExternalDst(s)
                  /\ dst[1] \in i.ingress => dst \in Dst(i.ingress, s)
<1> DEFINE i == svcPortMap[s]
<1>1. i.clusterIP \notin i.externalIPs \cup i.ingress \cup {NodeAddress} /\ NodeAddress \notin i.ingress
  BY IPTablesConstants, Zenon
<1>2. CASE dst \in {i.clusterIP} \X {i.port}
  <2>1. dst = <<i.clusterIP, i.port>> /\ dst[1] = i.clusterIP
    BY <1>2
  <2>2. dst \notin ExternalDst(s)
    BY <1>1, <2>1 DEF ExternalDst, ExternalFrontends
  <2>3. QED BY <1>1, <2>1, <2>2, Zenon
<1>3. CASE dst \in (i.externalIPs \cup i.ingress) \X {i.port}
  <2>1. dst[1] \in i.externalIPs \cup i.ingress /\ dst = <<dst[1], i.port>>
    BY <1>3
  <2>2. dst # <<i.clusterIP, i.port>>
    BY <1>1, <2>1
  <2>3. dst[1] \in i.ingress => dst \in Dst(i.ingress, s)
    BY <2>1 DEF Dst
  <2>4. QED BY <1>3, <2>2, <2>3, Zenon DEF ExternalDst, ExternalFrontends
<1>4. CASE dst \in {NodeAddress} \X ({i.nodePort} \ {0})
  <2>1. dst[1] = NodeAddress
    BY <1>4
  <2>2. dst # <<i.clusterIP, i.port>>
    BY <1>1, <2>1
  <2>3. QED BY <1>1, <1>4, <2>1, <2>2, Zenon DEF ExternalDst, ExternalFrontends
<1>5. QED BY <1>2, <1>3, <1>4, Zenon DEF ServedDst, Frontends, ExternalFrontends

\* What a packet for the cluster IP meets.
LEMMA InternalRules ==
    ASSUME NEW s, NEW dst, dst = <<svcPortMap[s].clusterIP, svcPortMap[s].port>>, dst \notin ExternalDst(s)
    PROVE  /\ {x \in ServicePortals(s) : x[1] = dst} =
                  IF HasInternal(s) THEN {<<dst, PolicyChain(s, svcPortMap[s].internalLocal)>>} ELSE {}
           /\ {r[2] : r \in {x \in FiltersOf(s) : x[1] = dst}} = IF HasInternal(s) THEN {} ELSE {Verdict(s)}
<1> DEFINE i == svcPortMap[s]
<1>1. Dst({i.clusterIP}, s) = {dst}
  BY DEF Dst
<1>2. {x \in ServicePortals(s) : x[1] = dst} = IF HasInternal(s) THEN {<<dst, PolicyChain(s, i.internalLocal)>>} ELSE {}
  BY <1>1 DEF ServicePortals
<1>3. Dst(i.ingress, s) \subseteq ExternalDst(s)
  BY DEF Dst, ExternalDst, ExternalFrontends
<1>4. \A D, v : dst \notin D => \A x \in D \X {v} : x[1] # dst
  OBVIOUS
<1>5. ASSUME NEW x \in FiltersOf(s), x[1] = dst PROVE ~HasInternal(s) /\ x \in {dst} \X {Verdict(s)}
  BY <1>1, <1>3, <1>4, <1>5, Zenon DEF FiltersOf, ServiceFilters
<1>6. ~HasInternal(s) => <<dst, Verdict(s)>> \in FiltersOf(s)
  BY <1>1, Zenon DEF FiltersOf, ServiceFilters
<1>7. {r[2] : r \in {x \in FiltersOf(s) : x[1] = dst}} = IF HasInternal(s) THEN {} ELSE {Verdict(s)}
  <2>1. <<dst, Verdict(s)>>[1] = dst /\ <<dst, Verdict(s)>>[2] = Verdict(s) /\ \A x \in {dst} \X {Verdict(s)} : x[2] = Verdict(s)
    OBVIOUS
  <2>2. QED BY <1>5, <1>6, <2>1, Zenon
<1>8. QED BY <1>2, <1>7, Zenon

\* What a packet for an external frontend meets.
LEMMA ExternalFrontendRules ==
    ASSUME NEW s, NEW dst \in ExternalDst(s), dst # <<svcPortMap[s].clusterIP, svcPortMap[s].port>>
    PROVE  /\ {x \in ServicePortals(s) : x[1] = dst} =
                  IF HasEndpoints(s)
                  THEN {<<dst, IF dst[1] \in LoadBalancerOnly(svcPortMap[s]) /\ UsesFWChain(s) THEN FW(s) ELSE EXT(s)>>} ELSE {}
           /\ {r[2] : r \in {x \in FiltersOf(s) : x[1] = dst}} =
                  (IF HasExternal(s) THEN {} ELSE {Verdict(s)})
                      \cup (IF UsesFWChain(s) /\ dst \in Dst(svcPortMap[s].ingress, s) THEN {"DROP"} ELSE {})
<1> DEFINE i == svcPortMap[s]
<1>1. Dst({i.clusterIP}, s) = {<<i.clusterIP, i.port>>}
  BY DEF Dst
<1>2. {x \in ServicePortals(s) : x[1] = dst} =
          IF HasEndpoints(s) THEN {<<dst, IF dst[1] \in LoadBalancerOnly(i) /\ UsesFWChain(s) THEN FW(s) ELSE EXT(s)>>} ELSE {}
  BY <1>1 DEF ServicePortals
<1>3. \A D, v : \A x \in D \X {v} : x[1] \in D /\ x[2] = v
  OBVIOUS
<1>4. \A v : <<dst, v>>[1] = dst /\ <<dst, v>>[2] = v
  OBVIOUS
<1>5. \A D, v : dst \in D => <<dst, v>> \in D \X {v}
  OBVIOUS
<1>6. ASSUME NEW x \in FiltersOf(s), x[1] = dst
      PROVE  \/ ~HasExternal(s) /\ x[2] = Verdict(s)
             \/ UsesFWChain(s) /\ dst \in Dst(i.ingress, s) /\ x[2] = "DROP"
  BY <1>1, <1>3, <1>6, Zenon DEF FiltersOf, ServiceFilters
<1>7. /\ ~HasExternal(s) => <<dst, Verdict(s)>> \in FiltersOf(s)
      /\ UsesFWChain(s) /\ dst \in Dst(i.ingress, s) => <<dst, "DROP">> \in FiltersOf(s)
  BY <1>5, Zenon DEF FiltersOf, ServiceFilters
<1>8. {r[2] : r \in {x \in FiltersOf(s) : x[1] = dst}} =
          (IF HasExternal(s) THEN {} ELSE {Verdict(s)})
              \cup (IF UsesFWChain(s) /\ dst \in Dst(i.ingress, s) THEN {"DROP"} ELSE {})
  BY <1>4, <1>6, <1>7, Zenon
<1>9. QED BY <1>2, <1>8, Zenon

\* A packet for a Service's frontend goes where the Service asks, if the Service's chains, the
\* portals and the filter table are as a sync writes them.
LEMMA RouteAsExpected ==
    ASSUME Typed, Apart, portals \in DOMAIN nat, nat[portals] = Portals(TRUE), filter = Filters,
           NEW s \in Active, Holds(nat, s), NEW src, NEW dst \in ServedDst(s)
    PROVE  Route(src, dst) = Expected(src, s, dst)
<1> DEFINE i == svcPortMap[s]
           all == endpointsMap[s]
           chosen == IF i.internalLocal THEN LocalEndpoints(s) ELSE ClusterEndpoints(s)
           barred == dst[1] \in LoadBalancerOnly(i) /\ UsesFWChain(s) /\ src \notin FirewallRules(s).from
           rules == {x \in ServicePortals(s) : x[1] = dst}
           targets == UNION {Targets(r[2], src) : r \in rules}
           verdicts == {r[2] : r \in {x \in FiltersOf(s) : x[1] = dst}}
<1>1. s \in Services /\ i # None /\ i \in Specs[s]
  BY Zenon DEF Active, Typed
<1>2. Route(src, dst) = IF targets # {} THEN targets ELSE verdicts
  BY RouteOf, Zenon
<1>3. ASSUME NEW n, rules = {<<dst, n>>} PROVE targets = Targets(n, src)
  <2>1. <<dst, n>>[2] = n
    OBVIOUS
  <2>2. QED BY <1>3, <2>1, Zenon
<1>4. CASE dst = <<i.clusterIP, i.port>> /\ dst \notin ExternalDst(s) /\ dst[1] \notin i.ingress
  <2>1. /\ rules = IF HasInternal(s) THEN {<<dst, PolicyChain(s, i.internalLocal)>>} ELSE {}
        /\ verdicts = IF HasInternal(s) THEN {} ELSE {Verdict(s)}
    BY <1>4, InternalRules
  <2>2. CASE all = {}
    <3>1. ~HasInternal(s) /\ Verdict(s) = "REJECT"
      BY <2>2, Zenon DEF HasInternal, HasEndpoints, Verdict
    <3>2. targets = {} /\ verdicts = {"REJECT"}
      BY <2>1, <3>1, Zenon
    <3>3. Expected(src, s, dst) = {"REJECT"}
      BY <2>2, Zenon DEF Expected
    <3>4. QED BY <1>2, <3>2, <3>3, Zenon
  <2>3. CASE all # {}
    <3>1. /\ HasEndpoints(s) /\ Verdict(s) = "DROP"
          /\ HasInternal(s) <=> chosen # {}
      BY <2>3, Zenon DEF HasInternal, HasEndpoints, Verdict, ClusterEndpoints, UsesClusterEndpoints
    <3>2. Expected(src, s, dst) = IF chosen = {} THEN {"DROP"} ELSE chosen
      BY <1>4, <2>3, Zenon
         DEF Expected, LoadBalancerOnly, ClusterEndpoints, LocalEndpoints, UsesClusterEndpoints, UsesLocalEndpoints
    <3>3. chosen # {} => Targets(PolicyChain(s, i.internalLocal), src) = chosen
      BY TargetsOf, Zenon DEF PolicyChain
    <3>4. targets = chosen
      <4>1. CASE chosen = {}
        BY <2>1, <3>1, <4>1, Zenon
      <4>2. CASE chosen # {}
        <5>1. rules = {<<dst, PolicyChain(s, i.internalLocal)>>}
          BY <2>1, <3>1, <4>2, Zenon
        <5>2. QED BY <1>3, <3>3, <4>2, <5>1, Zenon
      <4>3. QED BY <4>1, <4>2, Zenon
    <3>5. QED BY <1>2, <2>1, <3>1, <3>2, <3>4, Zenon
  <2>4. QED BY <2>2, <2>3, Zenon
<1>5. CASE /\ dst # <<i.clusterIP, i.port>> /\ dst \in ExternalDst(s)
           /\ dst[1] \in i.ingress => dst \in Dst(i.ingress, s)
  <2>1. /\ rules = IF HasEndpoints(s)
                   THEN {<<dst, IF dst[1] \in LoadBalancerOnly(i) /\ UsesFWChain(s) THEN FW(s) ELSE EXT(s)>>} ELSE {}
        /\ verdicts = (IF HasExternal(s) THEN {} ELSE {Verdict(s)})
                          \cup (IF UsesFWChain(s) /\ dst \in Dst(i.ingress, s) THEN {"DROP"} ELSE {})
    BY <1>5, ExternalFrontendRules, Zenon
  <2>2. CASE all = {}
    <3>1. ~HasEndpoints(s) /\ ~HasExternal(s) /\ ~UsesFWChain(s) /\ Verdict(s) = "REJECT"
      BY <2>2, Zenon DEF HasExternal, HasEndpoints, Verdict, UsesFWChain
    <3>2. targets = {} /\ verdicts = {"REJECT"}
      BY <2>1, <3>1, Zenon
    <3>3. Expected(src, s, dst) = {"REJECT"}
      BY <2>2, Zenon DEF Expected
    <3>4. QED BY <1>2, <3>2, <3>3, Zenon
  <2>3. CASE all # {}
    <3>1. ExternallyAccessible(i)
      BY <1>5 DEF ExternalDst, ExternalFrontends, ExternallyAccessible
    <3>2. HasEndpoints(s) /\ Verdict(s) = "DROP"
      BY <2>3, Zenon DEF HasEndpoints, Verdict
    <3>3. targets = IF barred THEN {} ELSE ExternalTargets(s, src)
      <4>1. CASE dst[1] \in LoadBalancerOnly(i) /\ UsesFWChain(s)
        <5>0. rules = {<<dst, FW(s)>>}
          BY <2>1, <3>2, <4>1, Zenon
        <5>1. targets = Targets(FW(s), src)
          BY <1>3, <5>0, Zenon
        <5>2. QED BY <4>1, <5>1, TargetsOf, Zenon
      <4>2. CASE ~(dst[1] \in LoadBalancerOnly(i) /\ UsesFWChain(s))
        <5>0. rules = {<<dst, EXT(s)>>}
          BY <2>1, <3>2, <4>2, Zenon
        <5>1. targets = Targets(EXT(s), src)
          BY <1>3, <5>0, Zenon
        <5>2. QED BY <3>1, <3>2, <4>2, <5>1, TargetsOf, Zenon
      <4>3. QED BY <4>1, <4>2, Zenon
    <3>4. Expected(src, s, dst) = IF barred \/ ExternalTargets(s, src) = {} THEN {"DROP"} ELSE ExternalTargets(s, src)
      <4>1. src \in FirewallRules(s).from <=>
                \/ src \in UNION i.sourceRanges
                \/ NodeIP \in UNION i.sourceRanges /\ src \in i.ingress
        BY DEF FirewallRules
      <4>2. barred <=> /\ dst[1] \in LoadBalancerOnly(i) /\ i.sourceRanges # {}
                       /\ src \notin UNION i.sourceRanges
                       /\ ~(src \in i.ingress /\ NodeIP \in UNION i.sourceRanges)
        BY <3>2, <4>1, Zenon DEF UsesFWChain, LoadBalancerOnly
      <4>3. ExternalTargets(s, src) =
                LET hinted == {e \in all : Hint[e] = nodeLabels}
                IN  IF i.externalLocal /\ src \notin Inside THEN all \cap Local
                    ELSE IF hinted # {} THEN hinted ELSE all
        BY <3>1, Zenon DEF ExternalTargets, ClusterEndpoints, LocalEndpoints, UsesClusterEndpoints, UsesLocalEndpoints
      <4>4. QED BY <1>5, <2>3, <4>2, <4>3, Zenon DEF Expected
    <3>5. CASE barred
      <4>1. UsesFWChain(s) /\ dst \in Dst(i.ingress, s)
        BY <1>5, <3>5, Zenon DEF LoadBalancerOnly
      <4>2. verdicts = {"DROP"}
        BY <2>1, <3>2, <4>1, Zenon
      <4>3. QED BY <1>2, <3>3, <3>4, <3>5, <4>2, Zenon
    <3>6. CASE ~barred /\ ExternalTargets(s, src) # {}
      BY <1>2, <3>3, <3>4, <3>6, Zenon
    <3>7. CASE ~barred /\ ExternalTargets(s, src) = {}
      <4>1. ~HasExternal(s)
        <5>1. ClusterEndpoints(s) # {}
          BY <3>1, <3>2, Zenon DEF HasEndpoints, ClusterEndpoints, UsesClusterEndpoints
        <5>2. QED BY <3>7, <5>1, Zenon DEF ExternalTargets, HasExternal
      <4>2. verdicts = {"DROP"}
        BY <2>1, <3>2, <4>1, Zenon
      <4>3. QED BY <1>2, <3>3, <3>4, <3>7, <4>2, Zenon
    <3>8. QED BY <3>5, <3>6, <3>7, Zenon
  <2>4. QED BY <2>2, <2>3, Zenon
<1>6. QED BY <1>1, <1>4, <1>5, FrontendKinds, Zenon

\* The tables that an undisturbed sync leaves route as the Services ask.
LEMMA TablesRoute ==
    ASSUME Typed, Apart, linked, portals \in DOMAIN nat, nat[portals] = Portals(TRUE), filter = Filters,
           \A s \in Active : Holds(nat, s)
    PROVE  Routed
<1>1. \A s \in Active : \A src \in Inside \cup Others : \A dst \in ServedDst(s) : Route(src, dst) = Expected(src, s, dst)
  BY RouteAsExpected, Zenon
<1>2. ASSUME NEW s \in Active, HasInternal(s), NEW chain, chain = PolicyChain(s, svcPortMap[s].internalLocal)
      PROVE  /\ nat[chain].masqueradeOutside
             /\ svcPortMap[s].affinity # 0 => nat[chain].affinity = {nat[c].to : c \in nat[chain].jump}
  <2> DEFINE i == svcPortMap[s]
             es == IF i.internalLocal THEN LocalEndpoints(s) ELSE ClusterEndpoints(s)
  <2>1. i.internalLocal \in BOOLEAN
    <3>1. s \in Services /\ i \in Specs[s]
      BY Zenon DEF Active, Typed
    <3>2. QED BY <3>1, IPTablesConstants, Zenon
  <2>2. es # {}
    BY <1>2, Zenon DEF HasInternal, HasEndpoints, ClusterEndpoints, UsesClusterEndpoints
  <2>3. nat[chain] = PolicyRules(s, i.internalLocal, es)
    <3>1. CASE i.internalLocal = TRUE
      BY <1>2, <2>2, <3>1, HeldRules, Zenon DEF PolicyChain
    <3>2. CASE i.internalLocal = FALSE
      BY <1>2, <2>2, <3>2, HeldRules, Zenon DEF PolicyChain
    <3>3. QED BY <2>1, <3>1, <3>2, Zenon
  <2>4. /\ nat[chain].masqueradeOutside = (HasInternal(s) /\ i.internalLocal = i.internalLocal)
        /\ nat[chain].affinity = IF i.affinity # 0 THEN es ELSE {}
        /\ nat[chain].jump = {SEP(s, e) : e \in es}
    <3>1. ASSUME NEW local, NEW S
          PROVE  /\ PolicyRules(s, local, S).masqueradeOutside = (HasInternal(s) /\ local = i.internalLocal)
                 /\ PolicyRules(s, local, S).affinity = IF i.affinity # 0 THEN S ELSE {}
                 /\ PolicyRules(s, local, S).jump = {SEP(s, e) : e \in S}
      BY Zenon DEF PolicyRules
    <3>2. QED BY <2>3, <3>1
  <2>5. \A e \in es : nat[SEP(s, e)].to = e
    BY HeldRules, Zenon
  <2>6. {nat[c].to : c \in nat[chain].jump} = es
    BY <2>4, <2>5
  <2>7. QED BY <1>2, <2>4, <2>6, Zenon
<1>3. ASSUME NEW r, r \in nat[portals].rules \/ r \in filter.services \cup filter.external \cup filter.firewall
      PROVE  r[1] \in UNION {ServedDst(s) : s \in Active}
  <2>1. nat[portals].rules = UNION {ServicePortals(t) : t \in Active}
    BY SMT DEF Portals
  <2>2. /\ filter.services = UNION {ServiceFilters(t).services : t \in Active}
        /\ filter.external = UNION {ServiceFilters(t).external : t \in Active}
        /\ filter.firewall = UNION {ServiceFilters(t).firewall : t \in Active}
    BY SMT DEF Filters, FilterChains
  <2>3. PICK t \in Active : r \in ServicePortals(t) \/ r \in FiltersOf(t)
    <3>1. CASE r \in nat[portals].rules
      BY <2>1, <3>1, Zenon
    <3>2. CASE r \in filter.services \cup filter.external \cup filter.firewall
      BY <2>2, <3>2, Zenon DEF FiltersOf
    <3>3. QED BY <1>3, <3>1, <3>2, Zenon
  <2>4. r[1] \in ServedDst(t)
    BY <2>3, OwnFrontends, Zenon
  <2>5. QED BY <2>3, <2>4, Zenon
<1>4. filter.healthChecks = {svcPortMap[s].healthCheckNodePort : s \in Active} \ {0}
  <2>1. filter.healthChecks = UNION {ServiceFilters(t).healthChecks : t \in Active}
    BY SMT DEF Filters, FilterChains
  <2>2. \A t : ServiceFilters(t).healthChecks = {svcPortMap[t].healthCheckNodePort} \ {0}
    BY Zenon DEF ServiceFilters
  <2>3. QED BY <2>1, <2>2
<1>5. {r[1] : r \in nat[portals].rules} \cup {r[1] : r \in filter.services \cup filter.external \cup filter.firewall}
          \subseteq UNION {ServedDst(s) : s \in Active}
  <2>1. SUFFICES ASSUME NEW d, \/ \E r \in nat[portals].rules : d = r[1]
                              \/ \E r \in filter.services \cup filter.external \cup filter.firewall : d = r[1]
                 PROVE  d \in UNION {ServedDst(s) : s \in Active}
    BY Zenon
  <2>2. QED BY <1>3, <2>1, Zenon
<1>6. \A s \in Active : LET chain == PolicyChain(s, svcPortMap[s].internalLocal)
                        IN  HasInternal(s) => /\ nat[chain].masqueradeOutside
                                              /\ svcPortMap[s].affinity # 0 =>
                                                    nat[chain].affinity = {nat[c].to : c \in nat[chain].jump}
  BY <1>2, Zenon
<1>7. QED BY <1>1, <1>4, <1>5, <1>6, Zenon DEF Routed, portals

-----------------------------------------------------------------------------
(* The steps preserve the inductive invariant. *)

\* The initial state: the first sync, which is full, is still to come.
THEOREM Initially == Init => IInv
<1> SUFFICES ASSUME Init PROVE IInv
  OBVIOUS
<1>1. Typed /\ Apart
  <2>1. \A s \in Services : watch[s].spec = None /\ svcPortMap[s] = None
    BY DEF Init
  <2>2. watch = [s \in Services |-> watch[s]]
    BY DEF Init
  <2>3. QED BY <2>1, <2>2, Zenon DEF Typed, Apart, Disjoint
<1>2. Control /\ Kept /\ Left /\ NeverRejected
  BY Zenon DEF Init, Control, Kept, Left, NeverRejected
<1>3. Accepted(nat)
  BY DEF Init, Accepted
<1>4. QED BY <1>1, <1>2, <1>3, Zenon DEF IInv

\* What a sync would write stays the same while the maps and the node's labels do.
LEMMA SameTables ==
    ASSUME UNCHANGED <<svcPortMap, endpointsMap, nodeLabels>>
    PROVE  /\ Active' = Active /\ Portals(TRUE)' = Portals(TRUE) /\ Filters' = Filters
           /\ \A s : ServiceChains(s)' = ServiceChains(s)
<1>1. \A s : /\ ServiceChains(s)' = ServiceChains(s) /\ ServicePortals(s)' = ServicePortals(s)
             /\ ServiceFilters(s)' = ServiceFilters(s)
  BY SameChains, Zenon
<1>2. Active' = Active
  BY Zenon DEF Active
<1>3. Portals(TRUE)' = Portals(TRUE) /\ Filters' = Filters
  <2>1. NodePorts' = NodePorts
    BY <1>2, Zenon DEF NodePorts
  <2>2. QED BY <1>1, <1>2, <2>1, Zenon DEF Portals, Filters
<1>4. QED BY <1>1, <1>2, <1>3, Zenon

\* A step that touches neither what a sync would write nor the nat table.
LEMMA TablesKept ==
    ASSUME IInv, UNCHANGED <<svcPortMap, endpointsMap, nodeLabels, nat>>
    PROVE  /\ Active' = Active /\ Portals(TRUE)' = Portals(TRUE) /\ Filters' = Filters
           /\ Accepted(nat)' /\ \A s : Holds(nat, s) => Holds(nat, s)'
<1>1. Accepted(nat)'
  BY Zenon DEF IInv, Accepted
<1>2. \A s : Holds(nat, s) => Holds(nat, s)'
  BY SameTables, Zenon DEF Holds
<1>3. QED BY <1>1, <1>2, SameTables, Zenon

\* A step that leaves the informers' and the syncs' Services alone.
LEMMA ServicesKept ==
    ASSUME IInv, UNCHANGED <<watch, svcPortMap>> PROVE Typed' /\ Apart'
  BY Zenon DEF IInv, Typed, Apart, Disjoint

\* A step that changes neither the tables nor the sync in progress, such as an event that the
\* trackers note.
LEMMA QuietStep ==
    ASSUME IInv, Typed', Apart',
           UNCHANGED <<nodeLabels, running, needFullSync, maps, work, kernel, stale, rejected>>
    PROVE  IInv'
<1>1. UNCHANGED <<svcPortMap, endpointsMap, nodeLabels, nat>>
  BY Zenon DEF maps, kernel
<1>2. Control' /\ NeverRejected'
  BY Zenon DEF IInv, Control, NeverRejected, work, kernel
<1>3. Kept'
  BY <1>1, TablesKept, Zenon DEF IInv, Kept, work, kernel
<1>4. Left'
  BY <1>1, TablesKept, Zenon DEF IInv, Left, work, kernel
<1>5. QED BY <1>1, <1>2, <1>3, <1>4, TablesKept, Zenon DEF IInv

\* Service and endpoint events keep the invariant: the API server gives no frontend twice.
LEMMA EventInv ==
    ASSUME IInv, NEW s \in Services, NEW spec \in Specs[s] \cup {None}, NEW es, OnServiceUpdate(s, spec, es)
    PROVE  IInv'
<1>1. /\ watch' = [watch EXCEPT ![s] = [spec |-> spec, endpoints |-> es]]
      /\ spec # None => Free(s, spec)
      /\ UNCHANGED <<nodeLabels, running, needFullSync, maps, work, kernel, stale, rejected>>
  BY Zenon DEF OnServiceUpdate
<1>2. svcPortMap' = svcPortMap
  BY <1>1, Zenon DEF maps
<1>3. watch = [t \in Services |-> watch[t]]
  BY Zenon DEF IInv, Typed
<1>4. /\ watch' = [t \in Services |-> watch'[t]]
      /\ watch'[s].spec = spec /\ \A t \in Services \ {s} : watch'[t] = watch[t]
  BY <1>1, <1>3
<1>5. Typed'
  BY <1>2, <1>4, Zenon DEF IInv, Typed
<1>6. Apart'
  <2>1. ASSUME NEW t \in Services \ {s} PROVE Disjoint(watch[t].spec, spec) /\ Disjoint(spec, watch[t].spec)
    BY <1>1, <2>1, Zenon DEF Free, Disjoint
  <2>2. ASSUME NEW t \in Services, NEW u \in Services, t # u PROVE Disjoint(watch'[t].spec, watch'[u].spec)
    BY <1>4, <2>1, <2>2, Zenon DEF IInv, Apart
  <2>3. QED BY <1>2, <2>2, Zenon DEF IInv, Apart, Disjoint
<1>7. QED BY <1>1, <1>5, <1>6, QuietStep, Zenon

\* A step after which only a full sync will do keeps the invariant: the node's labels have
\* changed, the monitor misses its canary, a sync has failed.
LEMMA FullSyncNeeded ==
    ASSUME IInv, Typed', Apart', Control', NeverRejected', UNCHANGED nat, needFullSync', stale'
    PROVE  IInv'
<1>1. Accepted(nat)'
  BY Zenon DEF IInv, Accepted
<1>2. QED BY <1>1, Zenon DEF IInv, Kept, Left

\* A change of the node's labels keeps the invariant, as it asks for a full sync.
LEMMA NodeUpdateInv == ASSUME IInv, NEW labels, OnNodeUpdate(labels) PROVE IInv'
<1>1. /\ pc = "idle" /\ running /\ needFullSync' = TRUE /\ stale' = TRUE
      /\ UNCHANGED <<watch, running, maps, work, kernel, rejected>>
  BY Zenon DEF OnNodeUpdate
<1>2. Control' /\ NeverRejected'
  BY <1>1, Zenon DEF IInv, Control, NeverRejected, work, kernel
<1>3. UNCHANGED <<watch, svcPortMap, nat>>
  BY <1>1, Zenon DEF maps, kernel
<1>4. QED BY <1>1, <1>2, <1>3, ServicesKept, FullSyncNeeded, Zenon

\* A sync that takes over the informers' state leaves out, if it is partial, only Services
\* whose chains are the same as before.
LEMMA StartSyncInv == ASSUME IInv, StartSync PROVE IInv'
<1>1. /\ pc = "idle" /\ running /\ partial' = ~needFullSync
      /\ updated' = {s \in Services : watch[s] # [spec |-> svcPortMap[s], endpoints |-> endpointsMap[s]]}
      /\ svcPortMap' = [s \in Services |-> watch[s].spec]
      /\ endpointsMap' = [s \in Services |-> watch[s].endpoints]
      /\ UNCHANGED <<watch, nodeLabels, running, nat, filter, canary, rejected>>
  BY Zenon DEF StartSync, known
<1>2. \A s \in Services : svcPortMap'[s] = watch[s].spec /\ endpointsMap'[s] = watch[s].endpoints
  BY <1>1, Zenon
<1>3. Typed' /\ Apart'
  BY <1>1, <1>2, Zenon DEF IInv, Typed, Apart, Disjoint
<1>4. CASE needFullSync /\ SyncFails /\ UNCHANGED linked
  <2>1. pc' = "idle" /\ needFullSync' = TRUE /\ stale' = TRUE
    BY <1>4, Zenon DEF SyncFails, Fail
  <2>2. Control' /\ NeverRejected'
    BY <1>1, <1>4, <2>1, Zenon DEF IInv, Control, NeverRejected
  <2>3. QED BY <1>1, <1>3, <2>1, <2>2, FullSyncNeeded, Zenon
<1>5. CASE pc' = "restore" /\ linked' = (linked \/ needFullSync) /\ UNCHANGED needFullSync
  <2>1. Control' /\ NeverRejected' /\ Left'
    BY <1>1, <1>5, Zenon DEF IInv, Control, NeverRejected, Left
  <2>2. Accepted(nat)'
    BY <1>1, Zenon DEF IInv, Accepted
  <2>3. Kept'
    <3>1. SUFFICES ASSUME linked', ~needFullSync', NEW s \in Active' \ updated' PROVE Holds(nat, s)'
      BY Zenon DEF Kept
    <3>2. linked /\ ~needFullSync /\ updated = {}
      BY <1>1, <1>5, <3>1, Zenon DEF IInv, Control
    <3>3. s \in Services /\ svcPortMap'[s] # None
      BY <3>1, Zenon DEF Active
    <3>4. watch[s] = [spec |-> svcPortMap[s], endpoints |-> endpointsMap[s]]
      BY <1>1, <3>1, <3>3, Zenon
    <3>5. svcPortMap'[s] = svcPortMap[s] /\ endpointsMap'[s] = endpointsMap[s]
      BY <1>2, <3>3, <3>4
    <3>6. s \in Active
      BY <3>3, <3>5, Zenon DEF Active
    <3>7. Holds(nat, s)
      BY <3>2, <3>6, Zenon DEF IInv, Kept
    <3>8. ServiceChains(s)' = ServiceChains(s)
      BY <1>1, <3>5, SameChains, Zenon
    <3>9. QED BY <1>1, <3>7, <3>8, Zenon DEF Holds
  <2>4. QED BY <1>3, <2>1, <2>2, <2>3, Zenon DEF IInv
<1>6. QED BY <1>4, <1>5, Zenon DEF StartSync

\* iptables-restore accepts a sync's rules unless the tables have been flushed, and then all
\* Services' chains, the portals and the filter table are as written.
LEMMA RestoreInv == ASSUME IInv, Restore PROVE IInv'
<1>1. /\ pc = "restore" /\ updated' = {}
      /\ UNCHANGED <<watch, nodeLabels, running, svcPortMap, endpointsMap, linked, canary>>
  BY Zenon DEF Restore, known, maps
<1>2. PICK deleted \in {{}, UnusedChains}, listed \in BOOLEAN : \E table \in {Restored(deleted, listed)} :
        /\ ~listed => stale' = TRUE
        /\ filter' = Filters
        /\ IF Accepted(table)
           THEN nat' = table /\ pc' = "idle" /\ needFullSync' = FALSE /\ UNCHANGED rejected
           ELSE /\ pc' = "idle" /\ needFullSync' = TRUE /\ stale' = TRUE
                /\ rejected' = (rejected \/ linked) /\ UNCHANGED nat
  BY Zenon DEF Restore, Fail
<1>3. PICK table \in {Restored(deleted, listed)} :
        /\ ~listed => stale' = TRUE
        /\ filter' = Filters
        /\ IF Accepted(table)
           THEN nat' = table /\ pc' = "idle" /\ needFullSync' = FALSE /\ UNCHANGED rejected
           ELSE /\ pc' = "idle" /\ needFullSync' = TRUE /\ stale' = TRUE
                /\ rejected' = (rejected \/ linked) /\ UNCHANGED nat
  BY <1>2, Zenon
<1>3a. table = Restored(deleted, listed)
  BY <1>3, Zenon
<1>4. running /\ (canary => linked)
  BY <1>1, Zenon DEF IInv, Control
<1>5. ASSUME linked PROVE Accepted(table) /\ \A s \in Active : Holds(table, s)
  <2>1. \A s \in Active \ Written : Holds(nat, s)
    <3>1. CASE partial
      <4>1. ~needFullSync
        BY <1>1, <3>1, Zenon DEF IInv, Control
      <4>2. \A s \in Active \ updated : Holds(nat, s)
        BY <1>5, <4>1, Zenon DEF IInv, Kept
      <4>3. QED BY <3>1, <4>2, Zenon DEF Written
    <3>2. CASE ~partial
      BY <3>2, Zenon DEF Written
    <3>3. QED BY <3>1, <3>2, Zenon
  <2>2. Accepted(nat)
    BY Zenon DEF IInv
  <2>3. QED BY <1>3a, <1>2, <2>1, <2>2, RestoreAccepted, Zenon
<1>6. Typed' /\ Apart'
  BY <1>1, ServicesKept, Zenon
<1>7. Control'
  BY <1>1, <1>3, <1>4, Zenon DEF Control
<1>8. NeverRejected'
  BY <1>3, <1>5, Zenon DEF IInv, NeverRejected
<1>9. CASE ~Accepted(table)
  BY <1>3, <1>6, <1>7, <1>8, <1>9, FullSyncNeeded, Zenon
<1>10. CASE Accepted(table)
  <2>1. nat' = table /\ filter' = Filters /\ pc' = "idle" /\ needFullSync' = FALSE
    BY <1>3, <1>10, Zenon
  <2>2. Accepted(nat)'
    BY <1>10, <2>1, Zenon DEF Accepted
  <2>3. Active' = Active /\ Portals(TRUE)' = Portals(TRUE) /\ Filters' = Filters /\ \A s : ServiceChains(s)' = ServiceChains(s)
    BY <1>1, SameTables, Zenon
  <2>4. Kept'
    BY <1>1, <1>5, <2>1, <2>3, Zenon DEF Kept, Holds
  <2>5. Left'
    <3>1. portals \in DOMAIN table /\ table[portals] = Portals(listed)
      BY <1>2, <1>3a, RestoredTable, Zenon
    <3>2. ~stale' => listed = TRUE
      BY <1>3, Zenon
    <3>3. QED BY <2>1, <2>3, <3>1, <3>2, Zenon DEF Left
  <2>6. QED BY <1>6, <1>7, <1>8, <2>2, <2>4, <2>5, Zenon DEF IInv
<1>11. QED BY <1>9, <1>10, Zenon

\* A restore that fails keeps the invariant, as it asks for a full sync.
LEMMA RestoreFailsInv == ASSUME IInv, RestoreFails PROVE IInv'
<1>1. /\ pc = "restore" /\ pc' = "idle" /\ needFullSync' = TRUE /\ stale' = TRUE
      /\ UNCHANGED <<watch, running, svcPortMap, nat, linked, canary, rejected>>
  BY Zenon DEF RestoreFails, SyncFails, Fail, known, maps
<1>2. Control' /\ NeverRejected'
  BY <1>1, Zenon DEF IInv, Control, NeverRejected
<1>3. QED BY <1>1, <1>2, ServicesKept, FullSyncNeeded, Zenon

\* A step that empties the nat table, or leaves it, and unlinks it keeps the invariant.
LEMMA UnlinkedInv ==
    ASSUME IInv, UNCHANGED <<watch, svcPortMap, rejected>>, nat' \in {nat, <<>>}, ~linked', stale', Control'
    PROVE  IInv'
<1>1. Accepted(nat)'
  <2>1. CASE nat' = nat
    BY <2>1, Zenon DEF IInv, Accepted
  <2>2. CASE nat' = <<>>
    BY <2>2 DEF Accepted
  <2>3. QED BY <2>1, <2>2, Zenon
<1>2. NeverRejected' /\ Kept' /\ Left'
  BY Zenon DEF IInv, NeverRejected, Kept, Left
<1>3. QED BY <1>1, <1>2, ServicesKept, Zenon DEF IInv

\* A flush, at any moment, keeps the invariant: the canary goes with the chains.
LEMMA FlushInv == ASSUME IInv, Flush PROVE IInv'
<1>1. /\ nat' = <<>> /\ linked' = FALSE /\ canary' = FALSE /\ stale' = TRUE
      /\ UNCHANGED <<watch, running, needFullSync, svcPortMap, pc, partial, updated, rejected>>
  BY Zenon DEF Flush, Fail, known, maps, work
<1>2. Control'
  BY <1>1, Zenon DEF IInv, Control
<1>3. QED BY <1>1, <1>2, UnlinkedInv, Zenon

\* The monitor keeps the invariant, as it asks for a full sync.
LEMMA MonitorInv == ASSUME IInv, Monitor PROVE IInv'
<1>1. /\ running /\ pc = "idle" /\ needFullSync' = TRUE /\ stale' = TRUE
      /\ UNCHANGED <<watch, running, svcPortMap, pc, nat, linked, rejected>>
  BY Zenon DEF Monitor, known, maps, work
<1>2. Control' /\ NeverRejected'
  BY <1>1, Zenon DEF IInv, Control, NeverRejected
<1>3. QED BY <1>1, <1>2, ServicesKept, FullSyncNeeded, Zenon

\* A crash keeps the invariant: a new process begins with a full sync.
LEMMA CrashInv == ASSUME IInv, Crash PROVE IInv'
<1>1. /\ running' = FALSE /\ needFullSync' = TRUE /\ stale' = TRUE /\ pc' = "idle"
      /\ svcPortMap' = [s \in Services |-> None]
      /\ UNCHANGED <<watch, nat, linked, canary, rejected>>
  BY Zenon DEF Crash, Fail, known, kernel
<1>2. \A s \in Services : svcPortMap'[s] = None
  BY <1>1, Zenon
<1>3. Typed' /\ Apart'
  BY <1>1, <1>2, Zenon DEF IInv, Typed, Apart, Disjoint
<1>4. Control' /\ NeverRejected'
  BY <1>1, Zenon DEF IInv, Control, NeverRejected
<1>5. QED BY <1>1, <1>3, <1>4, FullSyncNeeded, Zenon

\* A start keeps the invariant: its first sync is full, whatever the canary says.
LEMMA StartInv == ASSUME IInv, Start PROVE IInv'
<1>1. /\ ~running /\ UNCHANGED <<watch, needFullSync, svcPortMap, pc, partial, updated, nat, linked, stale, rejected>>
  BY Zenon DEF Start, known, maps, work
<1>2. pc = "idle" /\ needFullSync /\ stale
  BY <1>1, Zenon DEF IInv, Control
<1>3. Control' /\ NeverRejected'
  BY <1>1, <1>2, Zenon DEF IInv, Control, NeverRejected
<1>4. QED BY <1>1, <1>2, <1>3, ServicesKept, FullSyncNeeded, Zenon

\* A clean-up of what another process has left, whole or in part, keeps the invariant.
LEMMA CleanupInv == ASSUME IInv, CleanupLeftovers PROVE IInv'
<1>1. /\ ~running /\ stale' \in {stale, TRUE} /\ nat' \in {nat, <<>>}
      /\ linked' = FALSE \/ UNCHANGED <<nat, linked>>
      /\ UNCHANGED <<watch, running, needFullSync, svcPortMap, pc, partial, updated, canary, rejected>>
  BY Zenon DEF CleanupLeftovers, Fail, known, maps, work
<1>2. pc = "idle" /\ needFullSync /\ stale
  BY <1>1, Zenon DEF IInv, Control
<1>3. stale' /\ Control' /\ NeverRejected'
  BY <1>1, <1>2, Zenon DEF IInv, Control, NeverRejected
<1>4. CASE linked' = FALSE
  BY <1>1, <1>3, <1>4, UnlinkedInv, Zenon
<1>5. CASE UNCHANGED <<nat, linked>>
  BY <1>1, <1>2, <1>3, <1>5, ServicesKept, FullSyncNeeded, Zenon
<1>6. QED BY <1>1, <1>4, <1>5, Zenon

\* Every step of the proxier, of other programs and of the clean-up keeps the invariant.
THEOREM Inductive == IInv /\ [Next]_vars => IInv'
<1> SUFFICES ASSUME IInv, [Next]_vars PROVE IInv'
  OBVIOUS
<1>1. ASSUME NEW what, OnSynced(what) PROVE IInv'
  <2>1. UNCHANGED <<watch, svcPortMap, nodeLabels, running, needFullSync, maps, work, kernel, stale, rejected>>
    BY <1>1, Zenon DEF OnSynced, known, maps
  <2>2. QED BY <2>1, ServicesKept, QuietStep, Zenon
<1>2. CASE HourPasses \/ SkipSync \/ UNCHANGED vars
  <2>1. UNCHANGED <<watch, svcPortMap, nodeLabels, running, needFullSync, maps, work, kernel, stale, rejected>>
    BY <1>2, Zenon DEF HourPasses, SkipSync, vars, known, maps
  <2>2. QED BY <2>1, ServicesKept, QuietStep, Zenon
<1>3. QED
  BY <1>1, <1>2, EventInv, NodeUpdateInv, StartSyncInv, RestoreInv, RestoreFailsInv, FlushInv, MonitorInv, CrashInv,
     StartInv, CleanupInv, Zenon DEF Next

\* The inductive invariant holds in every state of the iptables proxier.
THEOREM Invariance == Spec => []IInv
  BY Initially, Inductive, PTL DEF Spec

\* iptables-restore never refuses a sync's rules unless the tables have been flushed, however
\* full and partial syncs, failures, crashes, flushes and clean-ups follow each other.
THEOREM RestoreNeverRejected == Spec => []NeverRejected
<1>1. IInv => NeverRejected
  BY Zenon DEF IInv
<1>2. QED BY <1>1, Invariance, PTL

\* After every sync that nothing has interfered with, full or partial, packets of every source
\* go where the Services of that sync ask (syncProxyRules).
THEOREM RoutingCurrent == Spec => []RoutesCurrent
<1>1. IInv => RoutesCurrent
  <2>1. SUFFICES ASSUME IInv, pc = "idle", ~stale, canary PROVE Routed
    BY Zenon DEF RoutesCurrent
  <2>2. ~needFullSync /\ portals \in DOMAIN nat /\ nat[portals] = Portals(TRUE) /\ filter = Filters
    BY <2>1, Zenon DEF IInv, Left
  <2>3. linked /\ updated = {}
    BY <2>1, <2>2, Zenon DEF IInv, Control
  <2>4. \A s \in Active : Holds(nat, s)
    BY <2>1, <2>2, <2>3, Zenon DEF IInv, Kept
  <2>5. QED BY <2>1, <2>2, <2>3, <2>4, TablesRoute, Zenon DEF IInv
<1>2. QED BY <1>1, Invariance, PTL
=============================================================================
