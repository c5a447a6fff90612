----------------------------- MODULE Relay_proofs -----------------------------
(***************************************************************************)
(* Theorems about Relay, for any number of lookups, every configuration,   *)
(* routing table and life of the Kubernetes service: type correctness, the *)
(* inductive invariant RelayInv and the properties that follow from it.    *)
(***************************************************************************)
EXTENDS Relay, TLAPS

\* What a service offers is an address or nothing.
LEMMA ExternalType ==
    ASSUME NEW s \in Services \cup {Unavailable}
    PROVE  ExternalIP(s) \in IPs \cup {NoIP}
<1> USE InstanceAssumption, AddressAssumption DEF ExternalIP, Service, Unavailable
<1>1. CASE s \in Services
  <2>1. s.lb \in IPs \cup {NoIP} /\ s.ingress \in Seq(IPs \cup {Garbage})
    BY <1>1
  <2>2. CASE Len(s.ingress) = 1
    <3>1. s.ingress[1] \in IPs \cup {Garbage}
      BY <2>1, <2>2
    <3> QED
      BY <2>1, <3>1
  <2> QED
    BY <2>1, <2>2
<1>2. CASE s = Unavailable
  BY <1>2
<1> QED
  BY <1>1, <1>2

\* A route has a gateway and a source address, or none.
LEMMA RouteType ==
    ASSUME table \in Tables, NEW d, NEW o \in RouteTo(d)
    PROVE  o \in [ok : BOOLEAN, gw : IPs \cup {NoIP}, src : IPs \cup {NoIP}]
<1>1. table \subseteq Routes
  BY InstanceAssumption
<1>2. \A r \in table : r.gw \in IPs \cup {NoIP} /\ r.src \in IPs \cup {NoIP} /\ r.addr \in IPs \cup {NoIP}
  BY <1>1 DEF Routes
<1>3. CASE o = NoRoute
  BY <1>3 DEF NoRoute
<1>4. ASSUME NEW r \in table,
             o = [ok |-> TRUE, gw |-> r.gw, src |-> IF r.src # NoIP THEN r.src ELSE r.addr]
      PROVE  o \in [ok : BOOLEAN, gw : IPs \cup {NoIP}, src : IPs \cup {NoIP}]
  <2>1. r.gw \in IPs \cup {NoIP} /\ (IF r.src # NoIP THEN r.src ELSE r.addr) \in IPs \cup {NoIP}
    BY <1>2
  <2> QED
    BY <1>4, <2>1
<1> QED
  BY <1>3, <1>4 DEF RouteTo, RoutesIn

\* Type correctness: only addresses, never garbage, reach resolver and client.
THEOREM TypeCorrect == Spec => []TypeOK
<1> USE InstanceAssumption
<1>1. Init => TypeOK
  <2> SUFFICES ASSUME Init PROVE TypeOK
    OBVIOUS
  <2>1. ExternalIP(svc) \in IPs \cup {NoIP}
    BY ExternalType DEF Init
  <2> QED
    BY <2>1 DEF Init, TypeOK
<1>2. TypeOK /\ [Next]_vars => TypeOK'
  <2> SUFFICES ASSUME TypeOK, [Next]_vars PROVE TypeOK'
    OBVIOUS
  <2> USE DEF TypeOK, world, fields, lookups
  <2>0. ExternalIP(svc) \in IPs \cup {NoIP}
    BY ExternalType
  <2>1. CASE GetIPResolver
    <3>1. conf.local \in IPs \cup {NoIP} /\ conf.server \in IPs \cup {NoIP} /\ conf.relay \in IPs \cup {NoIP}
      BY DEF Config
    <3>2. conf' \in Config
      BY <2>0, <2>1 DEF GetIPResolver, StaticResolver, Config
    <3> QED
      BY <2>0, <2>1, <3>1, <3>2 DEF GetIPResolver, StaticResolver
  <2>2. CASE GetServerIP
    BY <2>2, RouteType DEF GetServerIP
  <2>3. CASE GetLocalIP
    BY <2>3, RouteType DEF GetLocalIP
  <2>4. CASE GetRelayIP
    BY <2>0, <2>4 DEF GetRelayIP, StaticRelay
  <2>5. CASE NoRoutingTable
    BY <2>5 DEF NoRoutingTable
  <2>6. ASSUME NEW q \in Lookups, LookupStatic(q) PROVE TypeOK'
    BY <2>6 DEF LookupStatic, Begins, StaticRelay
  <2>7. ASSUME NEW q \in Lookups, Ask(q) PROVE TypeOK'
    BY <2>7 DEF Ask, Begins
  <2>8. ASSUME NEW q \in Lookups, Compare(q) PROVE TypeOK'
    <3>1. ExternalIP(asked[q]) \in IPs \cup {NoIP}
      BY ExternalType
    <3> QED
      BY <2>8, <3>1 DEF Compare
  <2>9. ASSUME NEW q \in Lookups, Store(q) PROVE TypeOK'
    BY <2>9 DEF Store
  <2>10. CASE ServiceChanges
    <3>1. svc' \in Services
      BY <2>10 DEF ServiceChanges
    <3>2. ExternalIP(svc') \in IPs \cup {NoIP}
      BY <3>1, ExternalType
    <3> QED
      BY <2>10, <3>1, <3>2 DEF ServiceChanges
  <2>11. CASE TableChanges
    BY <2>11 DEF TableChanges
  <2>12. CASE UNCHANGED vars
    BY <2>12 DEF vars
  <2> QED
    BY <2>1, <2>2, <2>3, <2>4, <2>5, <2>6, <2>7, <2>8, <2>9, <2>10, <2>11, <2>12 DEF Next
<1> QED
  BY <1>1, <1>2, PTL DEF Spec

\* A route out of the table is one out of a table there has been.
LEMMA RouteSeen ==
    ASSUME table \in tables, NEW d, NEW o \in RouteTo(d), o.ok
    PROVE  /\ d = Internet => DefaultServer(o.gw)
           /\ SourceTo(d, o.src)
BY DEF RouteTo, DefaultServer, SourceTo

\* What is a default address stays one: the history of tables only grows.
LEMMA DefaultsStay ==
    ASSUME tables \subseteq tables', UNCHANGED <<conf, resolver>>, client'.remote = client.remote, NEW ip
    PROVE  /\ Given' = Given
           /\ DefaultServer(ip) => DefaultServer(ip)'
           /\ SourceTo(Internet, ip) => SourceTo(Internet, ip)'
           /\ DefaultLocal(ip) => DefaultLocal(ip)'
<1>1. Given' = Given
  BY DEF Given
<1>2. DefaultServer(ip) => DefaultServer(ip)'
  BY DEF DefaultServer
<1>3. ASSUME NEW d PROVE SourceTo(d, ip) => (\E t \in tables' : \E o \in RoutesIn(t, d) : o.ok /\ o.src = ip)
  BY DEF SourceTo
<1>4. SourceTo(Internet, ip) => SourceTo(Internet, ip)'
  BY <1>3 DEF SourceTo
<1>5. SourceTo(client.remote, ip) => SourceTo(client.remote, ip)'
  BY <1>3 DEF SourceTo
<1> QED
  BY <1>1, <1>2, <1>4, <1>5 DEF DefaultLocal

\* The start and the lookups leave the resolver with the addresses it got.
LEMMA StartStep ==
    ASSUME TypeOK, StartInv, LookupInv, [Next]_vars
    PROVE  StartInv'
<1> USE DEF StartInv, world, fields, lookups
<1>1. CASE GetIPResolver
  <2>1. conf' = conf \/ conf' = [conf EXCEPT !.relay = ExternalIP(svc)]
    BY <1>1 DEF GetIPResolver, StaticResolver
  <2>2. conf'.local = conf.local /\ conf'.server = conf.server
    BY <2>1 DEF TypeOK, Config
  <2> QED
    BY <1>1, <2>2 DEF GetIPResolver, StaticResolver, Found, Given
<1>2. CASE GetServerIP
  <2>1. phase = "server" /\ UNCHANGED <<table, tables, svc, published, conf, resolver, relay, last, stage, Given>>
    BY <1>2 DEF GetServerIP, Given
  <2>2. CASE remote # NoIP /\ client' = [client EXCEPT !.remote = remote] /\ phase' = "local" /\ UNCHANGED <<local, remote>>
    <3>1. client'.remote = remote' /\ Given # NoIP
      BY <2>1, <2>2 DEF TypeOK
    <3> QED
      BY <2>1, <2>2, <3>1
  <2>3. ASSUME remote = NoIP, NEW o \in RouteTo(Internet),
               local' = (IF local = NoIP THEN o.src ELSE local), remote' = o.gw,
               client' = (IF o.ok THEN [client EXCEPT !.remote = o.gw] ELSE client),
               phase' = (IF o.ok THEN "local" ELSE "failed")
        PROVE  StartInv'
    <3>1. Given = NoIP
      BY <2>1, <2>3
    <3>2. CASE o.ok
      <4>1. DefaultServer(o.gw) /\ SourceTo(Internet, o.src)
        BY <2>3, <3>2, RouteSeen
      <4>2. DefaultServer(o.gw)' /\ SourceTo(Internet, o.src)'
        BY <2>1, <4>1 DEF DefaultServer, SourceTo
      <4>3. client'.remote = o.gw /\ phase' = "local"
        BY <2>3, <3>2 DEF TypeOK
      <4> QED
        BY <2>1, <2>3, <3>1, <4>2, <4>3
    <3>3. CASE ~o.ok
      BY <2>1, <2>3, <3>3
    <3> QED
      BY <3>2, <3>3
  <2> QED
    BY <1>2, <2>2, <2>3 DEF GetServerIP
<1>3. CASE GetLocalIP
  <2>1. phase = "local" /\ UNCHANGED <<table, tables, svc, published, conf, resolver, relay, last, stage, Given>>
    BY <1>3 DEF GetLocalIP, Given
  <2>2. client'.remote = client.remote
    BY <1>3 DEF GetLocalIP, TypeOK
  <2>3. /\ DefaultServer(client.remote) => DefaultServer(client.remote)'
        /\ \A d, ip : SourceTo(d, ip) => SourceTo(d, ip)'
    BY <2>1, <2>2 DEF DefaultServer, SourceTo
  <2>4. CASE local # NoIP /\ client' = [client EXCEPT !.local = local] /\ phase' = "relay" /\ UNCHANGED <<local, remote>>
    <3>1. client'.local = local
      BY <2>4 DEF TypeOK
    <3> QED
      BY <2>1, <2>2, <2>3, <2>4, <3>1 DEF DefaultLocal
  <2>5. ASSUME local = NoIP \/ To4(remote) # To4(client.remote), NEW o \in RouteTo(client.remote),
               local' = (IF o.ok THEN o.src ELSE local),
               remote' = (IF o.ok /\ remote = NoIP THEN o.gw ELSE remote),
               client' = (IF o.ok THEN [client EXCEPT !.local = o.src] ELSE client),
               phase' = (IF o.ok THEN "relay" ELSE "failed")
        PROVE  StartInv'
    <3>1. local = NoIP
      BY <2>1, <2>5
    <3>2. CASE o.ok
      <4>1. SourceTo(client.remote, o.src)'
        BY <2>2, <2>3, <2>5, <3>2, RouteSeen
      <4>2. client'.local = o.src
        BY <2>5, <3>2 DEF TypeOK
      <4> QED
        BY <2>1, <2>2, <2>3, <2>5, <3>1, <3>2, <4>1, <4>2 DEF DefaultLocal
    <3>3. CASE ~o.ok
      BY <2>1, <2>5, <3>3
    <3> QED
      BY <3>2, <3>3
  <2> QED
    BY <1>3, <2>4, <2>5 DEF GetLocalIP
<1>4. CASE GetRelayIP
  BY <1>4 DEF GetRelayIP, StaticRelay, TypeOK
<1>5. CASE NoRoutingTable
  BY <1>5 DEF NoRoutingTable
<1>6. ASSUME NEW q \in Lookups, LookupStatic(q) PROVE StartInv'
  BY <1>6 DEF LookupStatic, Begins, StaticRelay
<1>7. ASSUME NEW q \in Lookups, Ask(q) PROVE StartInv'
  BY <1>7 DEF Ask, Begins
<1>8. ASSUME NEW q \in Lookups, Compare(q) PROVE StartInv'
  <2>1. UNCHANGED <<tables, conf, resolver, client>>
    BY <1>8 DEF Compare
  <2> QED
    BY <1>8, <2>1, DefaultsStay DEF Compare
<1>9. ASSUME NEW q \in Lookups, Store(q) PROVE StartInv'
  <2>1. phase = "ready" /\ last' \in published
    BY <1>9 DEF Store, LookupInv
  <2> QED
    BY <1>9, <2>1 DEF Store
<1>10. CASE ServiceChanges
  <2>1. UNCHANGED <<tables, conf, resolver, client>>
    BY <1>10 DEF ServiceChanges
  <2>2. Found(svc)' => ExternalIP(svc)' \in published'
    BY <1>10 DEF ServiceChanges, Found
  <2> QED
    BY <1>10, <2>1, <2>2, DefaultsStay DEF ServiceChanges
<1>11. CASE TableChanges
  <2>1. UNCHANGED <<conf, resolver, client>> /\ tables \subseteq tables' /\ table' \in tables'
    BY <1>11 DEF TableChanges
  <2> QED
    BY <1>11, <2>1, DefaultsStay DEF TableChanges, Found
<1>12. CASE UNCHANGED vars
  <2>1. UNCHANGED <<tables, conf, resolver, client>>
    BY <1>12 DEF vars
  <2> QED
    BY <1>12, <2>1, DefaultsStay DEF vars, Found
<1> QED
  BY <1>1, <1>2, <1>3, <1>4, <1>5, <1>6, <1>7, <1>8, <1>9, <1>10, <1>11, <1>12 DEF Next

\* Every lookup goes on with what the service had when it asked.
LEMMA LookupStep ==
    ASSUME TypeOK, StartInv, LookupInv, [Next]_vars
    PROVE  LookupInv'
<1> USE DEF LookupInv, world, fields, lookups
<1>1. CASE GetIPResolver \/ GetServerIP \/ GetLocalIP \/ GetRelayIP \/ NoRoutingTable
  <2>1. phase # "ready"
    BY <1>1 DEF GetIPResolver, GetServerIP, GetLocalIP, GetRelayIP, NoRoutingTable
  <2>2. UNCHANGED <<stage, asked, addr, before>>
    BY <1>1 DEF GetIPResolver, GetServerIP, GetLocalIP, GetRelayIP, NoRoutingTable
  <2> QED
    BY <2>1, <2>2
<1>2. ASSUME NEW q \in Lookups, LookupStatic(q) PROVE LookupInv'
  <2>1. asked' = asked /\ UNCHANGED <<phase, resolver, published>>
    BY <1>2 DEF LookupStatic
  <2> QED
    BY <1>2, <2>1 DEF LookupStatic, Begins, TypeOK
<1>3. ASSUME NEW q \in Lookups, Ask(q) PROVE LookupInv'
  <2>1. asked'[q] = svc \/ ~Found(asked'[q])
    BY <1>3 DEF Ask, Found, ExternalIP, Unavailable, TypeOK
  <2> QED
    BY <1>3, <2>1 DEF Ask, Begins, TypeOK, StartInv
<1>4. ASSUME NEW q \in Lookups, Compare(q) PROVE LookupInv'
  BY <1>4 DEF Compare, TypeOK
<1>5. ASSUME NEW q \in Lookups, Store(q) PROVE LookupInv'
  BY <1>5 DEF Store, TypeOK
<1>6. CASE ServiceChanges
  BY <1>6 DEF ServiceChanges
<1>7. CASE TableChanges
  BY <1>7 DEF TableChanges
<1>8. CASE UNCHANGED vars
  BY <1>8 DEF vars
<1> QED
  BY <1>1, <1>2, <1>3, <1>4, <1>5, <1>6, <1>7, <1>8 DEF Next

\* A lookup that has succeeded stays so, and keeps what makes an address as
\* new as its own.
LEMMA Lasting ==
    ASSUME TypeOK, StartInv, LookupInv, [Next]_vars
    PROVE  \A p \in Lookups : Succeeded(p) =>
              /\ Succeeded(p)'
              /\ addr'[p] = addr[p] /\ asked'[p] = asked[p]
              /\ \A r \in Lookups : <<r, p>> \in before' <=> <<r, p>> \in before
<1> SUFFICES ASSUME NEW p \in Lookups, Succeeded(p)
             PROVE  /\ resolver' = resolver /\ stage'[p] = stage[p]
                    /\ addr'[p] = addr[p] /\ asked'[p] = asked[p]
                    /\ \A r \in Lookups : <<r, p>> \in before' <=> <<r, p>> \in before
  BY DEF Succeeded, Found
<1> USE DEF world, fields, lookups
<1>1. phase = "ready" /\ stage[p] = "done"
  BY DEF Succeeded, LookupInv
<1>2. CASE GetIPResolver \/ GetServerIP \/ GetLocalIP \/ GetRelayIP \/ NoRoutingTable
  BY <1>1, <1>2 DEF GetIPResolver, GetServerIP, GetLocalIP, GetRelayIP, NoRoutingTable
<1>3. ASSUME NEW q \in Lookups, LookupStatic(q) \/ Ask(q)
      PROVE  q # p /\ UNCHANGED resolver
  BY <1>1, <1>3 DEF LookupStatic, Ask, Begins
<1>4. ASSUME NEW q \in Lookups, Compare(q) \/ Store(q)
      PROVE  q # p /\ UNCHANGED <<resolver, before>>
  BY <1>1, <1>4 DEF Compare, Store
<1>5. CASE ServiceChanges \/ TableChanges \/ UNCHANGED vars
  BY <1>5 DEF ServiceChanges, TableChanges, vars
<1>6. ASSUME NEW q \in Lookups, LookupStatic(q) \/ Ask(q)
      PROVE  /\ stage'[p] = stage[p] /\ addr'[p] = addr[p] /\ asked'[p] = asked[p]
             /\ \A r \in Lookups : <<r, p>> \in before' <=> <<r, p>> \in before
  BY <1>3, <1>6 DEF LookupStatic, Ask, Begins, TypeOK
<1>7. ASSUME NEW q \in Lookups, Compare(q) \/ Store(q)
      PROVE  stage'[p] = stage[p] /\ addr'[p] = addr[p] /\ asked'[p] = asked[p]
  BY <1>4, <1>7 DEF Compare, Store, TypeOK
<1> QED
  BY <1>2, <1>3, <1>4, <1>5, <1>6, <1>7 DEF Next

\* What is as new as a finished lookup stays so.
LEMMA StaysNew ==
    ASSUME TypeOK, StartInv, LookupInv, [Next]_vars,
           NEW x, NEW p \in Lookups, Succeeded(p), AsNewAs(x, p)
    PROVE  x = addr'[p] \/ (x \in V6 /\ asked'[p].lb \notin V4) \/
           \E r \in Lookups : Succeeded(r)' /\ addr'[r] = x /\ <<r, p>> \notin before'
<1>1. CASE x = addr[p] \/ (x \in V6 /\ asked[p].lb \notin V4)
  BY <1>1, Lasting
<1>2. ASSUME NEW r \in Lookups, Succeeded(r), addr[r] = x, <<r, p>> \notin before
      PROVE  Succeeded(r)' /\ addr'[r] = x /\ <<r, p>> \notin before'
  BY <1>2, Lasting
<1> QED
  BY <1>1, <1>2 DEF AsNewAs

\* The address found last is never older than a finished lookup: a lookup
\* that does not store has found that address (or an IPv6 one is kept), and one
\* that stores late was not over when any finished one began.
LEMMA CacheStep ==
    ASSUME TypeOK, StartInv, LookupInv, CacheInv, [Next]_vars
    PROVE  CacheInv'
<1> USE DEF world, fields, lookups
<1> DEFINE New(x, p) ==
        x = addr'[p] \/ (x \in V6 /\ asked'[p].lb \notin V4) \/
        \E r \in Lookups : Succeeded(r)' /\ addr'[r] = x /\ <<r, p>> \notin before'
<1> SUFFICES ASSUME NEW p \in Lookups, Succeeded(p)' PROVE New(last', p)
  BY DEF CacheInv, AsNewAs
<1>1. Succeeded(p) => New(last, p)
  BY StaysNew DEF CacheInv
<1> HIDE DEF New
<1>2. CASE GetIPResolver \/ GetServerIP \/ GetLocalIP \/ GetRelayIP \/ NoRoutingTable
  <2>1. phase # "ready" /\ stage' = stage
    BY <1>2 DEF GetIPResolver, GetServerIP, GetLocalIP, GetRelayIP, NoRoutingTable
  <2> QED
    BY <2>1 DEF Succeeded, LookupInv
<1>3. ASSUME NEW q \in Lookups, LookupStatic(q) PROVE New(last', p)
  BY <1>3 DEF LookupStatic, Succeeded
<1>4. ASSUME NEW q \in Lookups, Ask(q) PROVE New(last', p)
  <2>1. p # q
    BY <1>4 DEF Ask, Succeeded, TypeOK
  <2>2. Succeeded(p)
    BY <1>4, <2>1 DEF Ask, Succeeded, Found, TypeOK
  <2> QED
    BY <1>1, <1>4, <2>2 DEF Ask
<1>5. ASSUME NEW q \in Lookups, Compare(q) PROVE New(last', p)
  <2>1. last' = last /\ asked' = asked /\ resolver' = resolver
    BY <1>5 DEF Compare
  <2>2. CASE p # q
    <3>1. Succeeded(p)
      BY <1>5, <2>1, <2>2 DEF Compare, Succeeded, Found, TypeOK
    <3> QED
      BY <1>1, <2>1, <3>1
  <2>3. CASE p = q
    <3>1. Found(asked[q])
      BY <2>1, <2>3 DEF Succeeded, Found
    <3>2. addr'[q] = ExternalIP(asked[q]) /\ Remembered(asked[q])
      BY <1>5, <2>3, <3>1 DEF Compare, Succeeded, TypeOK
    <3>3. last \in V4 => last = asked[q].lb
      BY <3>2, AddressAssumption DEF Remembered, To4, IPs
    <3>4. last \in V4 => last = addr'[q]
      BY <3>2, <3>3, AddressAssumption DEF ExternalIP, IPs
    <3>5. last \in V4 \/ last \in V6
      BY <3>2 DEF Remembered, TypeOK, IPs
    <3>6. last \in V6 => asked[q].lb \notin V4
      BY <3>2, AddressAssumption DEF Remembered, To4, IPs
    <3> QED
      BY <2>1, <2>3, <3>4, <3>5, <3>6 DEF New
  <2> QED
    BY <2>2, <2>3
<1>6. ASSUME NEW q \in Lookups, Store(q) PROVE New(last', p)
  <2>1. last' = addr'[q] /\ addr' = addr /\ UNCHANGED <<resolver, asked, before>>
    BY <1>6 DEF Store
  <2>2. resolver = "kube" /\ Found(asked[q]) /\ <<q, p>> \notin before
    BY <1>6 DEF Store, LookupInv
  <2>3. Succeeded(q)'
    BY <1>6, <2>1, <2>2 DEF Store, Succeeded, Found, TypeOK
  <2> QED
    BY <2>1, <2>2, <2>3 DEF New
<1>7. CASE ServiceChanges \/ TableChanges \/ UNCHANGED vars
  <2>1. UNCHANGED <<resolver, stage, asked, last>>
    BY <1>7 DEF ServiceChanges, TableChanges, vars
  <2>2. Succeeded(p)
    BY <2>1 DEF Succeeded, Found
  <2> QED
    BY <1>1, <2>1, <2>2
<1> QED
  BY <1>2, <1>3, <1>4, <1>5, <1>6, <1>7 DEF Next

\* The addresses the client starts with are fixed when it is ready.
LEMMA AddressStep ==
    ASSUME TypeOK, StartInv, AddressesAsConfigured, [Next]_vars
    PROVE  AddressesAsConfigured'
<1> USE DEF AddressesAsConfigured, world, fields, lookups
<1>1. CASE GetIPResolver \/ GetServerIP \/ GetLocalIP \/ NoRoutingTable
  <2>1. phase' # "ready"
    BY <1>1 DEF GetIPResolver, StaticResolver, GetServerIP, GetLocalIP, NoRoutingTable
  <2> QED
    BY <2>1
<1>2. CASE GetRelayIP
  <2>1. phase = "relay" /\ UNCHANGED <<tables, conf, resolver, local>>
    BY <1>2 DEF GetRelayIP
  <2>2. client'.local = client.local /\ client'.remote = client.remote
    BY <1>2 DEF GetRelayIP, TypeOK
  <2>3. resolver # "kube" => client'.relay = IF conf.relay # NoIP THEN conf.relay ELSE local
    BY <1>2 DEF GetRelayIP, StaticRelay, StartInv, TypeOK
  <2>4. IF conf.local # NoIP THEN client.local = conf.local ELSE DefaultLocal(client.local)'
    BY <2>1, <2>2, DefaultsStay DEF StartInv
  <2>5. resolver # "fallback" =>
          IF conf.server # NoIP THEN client.remote = conf.server ELSE DefaultServer(client.remote)'
    BY <2>1, <2>2, DefaultsStay DEF StartInv, Given
  <2> QED
    BY <2>1, <2>2, <2>3, <2>4, <2>5 DEF StartInv
<1>3. ASSUME tables \subseteq tables', UNCHANGED <<phase, conf, resolver, client>>
      PROVE  AddressesAsConfigured'
  BY <1>3, DefaultsStay
<1>4. ASSUME NEW q \in Lookups, LookupStatic(q) \/ Ask(q) \/ Compare(q) \/ Store(q)
      PROVE  UNCHANGED <<tables, phase, conf, resolver, client>>
  BY <1>4 DEF LookupStatic, Ask, Compare, Store
<1>5. CASE ServiceChanges \/ TableChanges \/ UNCHANGED vars
  BY <1>3, <1>5 DEF ServiceChanges, TableChanges, vars
<1> QED
  BY <1>1, <1>2, <1>3, <1>4, <1>5 DEF Next

\* Compare takes a published address in both of its branches.
LEMMA PublishedStep ==
    ASSUME TypeOK, StartInv, LookupInv, RelayPublished, [Next]_vars
    PROVE  RelayPublished'
<1> USE DEF RelayPublished, world, fields, lookups
<1>1. CASE GetIPResolver \/ GetServerIP \/ GetLocalIP \/ GetRelayIP \/ NoRoutingTable
  <2>1. phase # "ready" /\ stage' = stage
    BY <1>1 DEF GetIPResolver, GetServerIP, GetLocalIP, GetRelayIP, NoRoutingTable
  <2> QED
    BY <2>1 DEF LookupInv
<1>2. ASSUME NEW q \in Lookups, LookupStatic(q) PROVE RelayPublished'
  <2>1. StaticRelay = client.relay
    BY <1>2 DEF LookupStatic, Begins, StaticRelay, StartInv
  <2> QED
    BY <1>2, <2>1 DEF LookupStatic, TypeOK
<1>3. ASSUME NEW q \in Lookups, Ask(q) PROVE RelayPublished'
  BY <1>3 DEF Ask, TypeOK
<1>4. ASSUME NEW q \in Lookups, Compare(q) PROVE RelayPublished'
  <2>1. resolver = "kube" /\ addr'[q] \in published
    BY <1>4 DEF Compare, LookupInv, StartInv, TypeOK
  <2> QED
    BY <1>4, <2>1 DEF Compare, TypeOK
<1>5. ASSUME NEW q \in Lookups, Store(q) PROVE RelayPublished'
  BY <1>5 DEF Store, LookupInv, TypeOK
<1>6. CASE ServiceChanges
  BY <1>6 DEF ServiceChanges
<1>7. CASE TableChanges \/ UNCHANGED vars
  BY <1>7 DEF TableChanges, vars
<1> QED
  BY <1>1, <1>2, <1>3, <1>4, <1>5, <1>6, <1>7 DEF Next

\* A failed lookup takes the address found last, which is new enough.
LEMMA FallbackStep ==
    ASSUME TypeOK, StartInv, LookupInv, CacheInv, FallbackNotOutdated, [Next]_vars
    PROVE  FallbackNotOutdated'
<1> USE DEF world, fields, lookups
<1> SUFFICES ASSUME NEW p \in Lookups, NEW f \in Lookups, Succeeded(p)', <<p, f>> \in before',
                    stage'[f] = "done", ~Found(asked[f])'
             PROVE  AsNewAs(addr[f], p)'
  BY DEF FallbackNotOutdated
<1> DEFINE New(x) ==
        x = addr'[p] \/ (x \in V6 /\ asked'[p].lb \notin V4) \/
        \E r \in Lookups : Succeeded(r)' /\ addr'[r] = x /\ <<r, p>> \notin before'
<1> SUFFICES New(addr'[f])
  BY DEF AsNewAs
<1> HIDE DEF New
<1>1. ASSUME Succeeded(p), <<p, f>> \in before, stage[f] = "done", ~Found(asked[f])
      PROVE  New(addr[f])
  <2>1. AsNewAs(addr[f], p)
    BY <1>1 DEF FallbackNotOutdated
  <2> QED
    BY <1>1, <2>1, StaysNew DEF New
<1>2. Succeeded(p) => New(last)
  BY StaysNew DEF CacheInv, New
<1>3. CASE GetIPResolver \/ GetServerIP \/ GetLocalIP \/ GetRelayIP \/ NoRoutingTable
  <2>1. phase # "ready" /\ stage' = stage
    BY <1>3 DEF GetIPResolver, GetServerIP, GetLocalIP, GetRelayIP, NoRoutingTable
  <2> QED
    BY <2>1 DEF LookupInv
<1>4. ASSUME NEW q \in Lookups, LookupStatic(q) PROVE New(addr'[f])
  BY <1>4 DEF LookupStatic, Succeeded
<1>5. ASSUME NEW q \in Lookups, Ask(q) PROVE New(addr'[f])
  <2>1. p # q /\ f # q
    BY <1>5 DEF Ask, Succeeded, TypeOK
  <2>2. Succeeded(p) /\ <<p, f>> \in before
    BY <1>5, <2>1 DEF Ask, Begins, Succeeded, Found, TypeOK
  <2>3. stage[f] = "done" /\ asked'[f] = asked[f] /\ addr'[f] = addr[f]
    BY <1>5, <2>1 DEF Ask, TypeOK
  <2> QED
    BY <1>1, <2>2, <2>3
<1>6. ASSUME NEW q \in Lookups, Compare(q) PROVE New(addr'[f])
  <2>1. UNCHANGED <<last, asked, resolver, before>> /\ stage[q] = "asked"
    BY <1>6 DEF Compare
  <2>2. p # q /\ Succeeded(p)
    <3>1. stage[p] = "done"
      BY <2>1 DEF LookupInv
    <3> QED
      BY <2>1, <3>1 DEF Succeeded, Found
  <2>3. CASE f = q
    BY <1>2, <1>6, <2>1, <2>2, <2>3 DEF Compare, TypeOK
  <2>4. CASE f # q
    <3>1. stage[f] = "done" /\ addr'[f] = addr[f]
      BY <1>6, <2>4 DEF Compare, TypeOK
    <3> QED
      BY <1>1, <2>1, <2>2, <3>1
  <2> QED
    BY <2>3, <2>4
<1>7. ASSUME NEW q \in Lookups, Store(q) PROVE New(addr'[f])
  <2>1. UNCHANGED <<addr, asked, resolver, before>> /\ stage[q] = "store"
    BY <1>7 DEF Store
  <2>2. f # q
    BY <2>1 DEF LookupInv
  <2>3. stage[p] = "done" /\ stage[f] = "done"
    BY <1>7, <2>1, <2>2 DEF Store, LookupInv, TypeOK
  <2>4. Succeeded(p)
    BY <2>1, <2>3 DEF Succeeded, Found
  <2> QED
    BY <1>1, <2>1, <2>3, <2>4
<1>8. CASE ServiceChanges \/ TableChanges \/ UNCHANGED vars
  <2>1. UNCHANGED <<resolver, lookups>>
    BY <1>8 DEF ServiceChanges, TableChanges, vars
  <2>2. Succeeded(p)
    BY <2>1 DEF Succeeded, Found
  <2> QED
    BY <1>1, <2>1, <2>2
<1> QED
  BY <1>3, <1>4, <1>5, <1>6, <1>7, <1>8 DEF Next

-----------------------------------------------------------------------------
\* The invariant of the resolvers: what start, lookups and cache know of each
\* other in every interleaving.
THEOREM Inductive == Spec => []RelayInv
<1>1. Init => RelayInv
  <2> SUFFICES ASSUME Init PROVE RelayInv
    OBVIOUS
  <2>1. \A q \in Lookups : stage[q] = "idle" /\ ~Found(asked[q])
    BY DEF Init, Found, ExternalIP, Unavailable
  <2>2. StartInv
    BY DEF Init, StartInv, Found
  <2>3. LookupInv
    BY <2>1 DEF Init, LookupInv
  <2>4. CacheInv
    BY <2>1 DEF CacheInv, Succeeded
  <2> QED
    BY <2>2, <2>3, <2>4 DEF RelayInv
<1>2. TypeOK /\ RelayInv /\ [Next]_vars => RelayInv'
  BY StartStep, LookupStep, CacheStep DEF RelayInv
<1> QED
  BY <1>1, <1>2, TypeCorrect, PTL DEF Spec

\* The client starts with the configured addresses or the documented defaults.
THEOREM Addresses == Spec => []AddressesAsConfigured
<1>1. Init => AddressesAsConfigured
  BY DEF Init, AddressesAsConfigured
<1>2. TypeOK /\ RelayInv /\ AddressesAsConfigured /\ [Next]_vars => AddressesAsConfigured'
  BY AddressStep DEF RelayInv
<1> QED
  BY <1>1, <1>2, TypeCorrect, Inductive, PTL DEF Spec

\* Every packet carries a relay address the service has had, or the client's.
THEOREM Published == Spec => []RelayPublished
<1>1. Init => RelayPublished
  BY DEF Init, RelayPublished
<1>2. TypeOK /\ RelayInv /\ RelayPublished /\ [Next]_vars => RelayPublished'
  BY PublishedStep DEF RelayInv
<1> QED
  BY <1>1, <1>2, TypeCorrect, Inductive, PTL DEF Spec

\* A failed lookup goes on with an address no older than those of the lookups
\* that were over when it began.
THEOREM Fallback == Spec => []FallbackNotOutdated
<1>1. Init => FallbackNotOutdated
  BY DEF Init, FallbackNotOutdated
<1>2. TypeOK /\ RelayInv /\ FallbackNotOutdated /\ [Next]_vars => FallbackNotOutdated'
  BY FallbackStep DEF RelayInv
<1> QED
  BY <1>1, <1>2, TypeCorrect, Inductive, PTL DEF Spec
=============================================================================
