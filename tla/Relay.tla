-------------------------------- MODULE Relay --------------------------------
(***************************************************************************)
(* Which addresses the DHCP client uses: getIPResolver of                  *)
(* service/server.go, the init function of dhcp/client.go and the          *)
(* resolvers of dhcp/resolver.go.  The address of the server and the local *)
(* one come from the configuration or the routing table                    *)
(* (routing/routing_linux.go), the relay address from the configuration or *)
(* a Kubernetes service, which every discover, renewal and release asks    *)
(* again.  The goroutines of concurrent requests share the address the     *)
(* resolver has found last, without a lock.                                *)
(*                                                                         *)
(* ExternalIPUnchecked, RememberedAny, GetLocalIPAlways, CompareKeeps and  *)
(* CompareForgets are faulty versions of the definitions they precede.     *)
(***************************************************************************)
EXTENDS Naturals, Sequences, FiniteSets

CONSTANTS
    Lookups,    \* calls of GetRelayIP by discover, Renew and Release
    V4, V6,     \* the IP addresses of the instance, by family
    NoIP,       \* a nil net.IP
    Garbage,    \* an ingress address that is not an IP
    Internet,   \* the destination GetServerIP looks a route up for, 1.1.1.1
    Configs,    \* configurations: local, server and relay address, kube service
    Tables,     \* contents of the kernel's routing table
    Services,   \* states of the Kubernetes service
    MaxChanges  \* bound: how often table and service change

IPs == V4 \cup V6

Routes   == [dst : SUBSET IPs, gw : IPs \cup {NoIP}, src : IPs \cup {NoIP},
             addr : IPs \cup {NoIP}, prio : Nat]
Config   == [local : IPs \cup {NoIP}, server : IPs \cup {NoIP}, relay : IPs \cup {NoIP},
             kube : BOOLEAN]
Service  == [lb : IPs \cup {NoIP}, ingress : Seq(IPs \cup {Garbage})]

ASSUME AddressAssumption ==
    /\ V4 \cap V6 = {} /\ NoIP \notin IPs /\ Garbage \notin IPs \cup {NoIP}
    /\ Internet \in V4
ASSUME InstanceAssumption ==
    /\ Configs \subseteq Config /\ Services \subseteq Service
    /\ \A t \in Tables : t \subseteq Routes
    /\ MaxChanges \in Nat

VARIABLES
    \* the world
    table,      \* the kernel's routing table
    tables,     \* history: every routing table there has been
    svc,        \* the Kubernetes service
    changes,    \* how often they have changed
    published,  \* history: every external address the service has had
    \* the process
    conf,       \* the configuration; getIPResolver replaces the relay address
    phase,      \* resolver, server, local, relay, ready, failed, dead
    resolver,   \* none, static, fallback (static after Kubernetes failed), kube
    local, remote, relay,       \* fields of the resolver
    last,       \* the relay address the Kubernetes resolver found last
    client,     \* the addresses the DHCP client works with
    \* one lookup of the relay address
    stage,      \* idle, asked, store, done
    asked,      \* what GetService has returned
    addr,       \* the address that goes into the packet
    before      \* history: <<p, q>>: p was done when q began

world   == <<table, tables, svc, changes, published>>
fields  == <<local, remote, relay>>
lookups == <<stage, asked, addr, before>>
vars    == <<world, conf, phase, resolver, fields, last, client, lookups>>

\* GetService fails, or the service has no address: the same to GetRelayIP.
Unavailable == [lb |-> NoIP, ingress |-> <<>>]

ExternalIPUnchecked(s) ==
    IF s.lb = NoIP /\ Len(s.ingress) = 1 THEN s.ingress[1] ELSE s.lb

\* The external address of a service: the one requested of the load balancer,
\* else the only ingress address.
ExternalIP(s) ==
    IF s.lb # NoIP THEN s.lb
    ELSE IF Len(s.ingress) = 1 /\ s.ingress[1] # Garbage THEN s.ingress[1]
    ELSE NoIP

Found(s) == ExternalIP(s) # NoIP

\* A comparison by To4().String() sees "<nil>" in every address but an IPv4.
To4(ip) == IF ip \in V4 THEN ip ELSE NoIP

RememberedAny(s) == last # NoIP

\* The resolver keeps the address it has; in the ingress branch, too, the
\* code compares with the (then empty) load balancer address.
Remembered(s) == last # NoIP /\ To4(last) = To4(s.lb)

-----------------------------------------------------------------------------
(* Routing: the route with the lowest metric wins, not the longest prefix; *)
(* sort.Sort leaves routes of one metric in any order.                     *)

NoRoute == [ok |-> FALSE, gw |-> NoIP, src |-> NoIP]

RoutesIn(t, d) ==
    LET match == {r \in t : d \in r.dst}
        best  == {r \in match : \A q \in match : r.prio <= q.prio}
    IN  IF match = {} THEN {NoRoute}
        ELSE {[ok |-> TRUE, gw |-> r.gw, src |-> IF r.src # NoIP THEN r.src ELSE r.addr] : r \in best}

RouteTo(d) == RoutesIn(table, d)

-----------------------------------------------------------------------------
Init ==
    /\ table \in Tables
    /\ tables = {table}
    /\ svc \in Services
    /\ changes   = 0
    /\ published = {ExternalIP(svc)} \ {NoIP}
    /\ conf \in Configs
    /\ phase     = "resolver"
    /\ resolver  = "none"
    /\ local = NoIP /\ remote = NoIP /\ relay = NoIP
    /\ last      = NoIP
    /\ client    = [local |-> NoIP, remote |-> NoIP, relay |-> NoIP]
    /\ stage     = [q \in Lookups |-> "idle"]
    /\ asked     = [q \in Lookups |-> Unavailable]
    /\ addr      = [q \in Lookups |-> NoIP]
    /\ before    = {}

-----------------------------------------------------------------------------
(* The start of the service                                                *)

\* NewStaticIPResolver
StaticResolver(kind, server) ==
    /\ resolver' = kind
    /\ local' = conf.local /\ remote' = server /\ relay' = conf.relay
    /\ phase' = "server"
    /\ UNCHANGED <<conf, last>>

\* getIPResolver.  When Kubernetes has no address to offer the configured
\* relay address stands in, and is passed as the server's address, too.
GetIPResolver ==
    /\ phase = "resolver"
    /\ \/ StaticResolver("static", conf.server)     \* no service, or no client for Kubernetes
       \/ /\ conf.kube
          /\ Found(svc)
          /\ resolver' = "kube"
          /\ local' = conf.local /\ remote' = conf.server /\ relay' = relay
          /\ last'  = ExternalIP(svc)
          /\ conf'  = [conf EXCEPT !.relay = ExternalIP(svc)]
          /\ phase' = "server"
       \/ /\ conf.kube
          /\ conf.relay # NoIP
          /\ StaticResolver("fallback", conf.relay)
       \/ /\ conf.kube
          /\ conf.relay = NoIP
          /\ phase' = "dead"
          /\ UNCHANGED <<conf, resolver, fields, last>>
    /\ UNCHANGED <<world, client, lookups>>

\* GetServerIP: by default the gateway of the default route.
GetServerIP ==
    /\ phase = "server"
    /\ \/ /\ remote # NoIP
          /\ client' = [client EXCEPT !.remote = remote]
          /\ phase'  = "local"
          /\ UNCHANGED <<local, remote>>
       \/ /\ remote = NoIP
          /\ \E o \in RouteTo(Internet) :
                /\ local'  = IF local = NoIP THEN o.src ELSE local
                /\ remote' = o.gw
                /\ client' = IF o.ok THEN [client EXCEPT !.remote = o.gw] ELSE client
                /\ phase'  = IF o.ok THEN "local" ELSE "failed"
    /\ UNCHANGED <<world, conf, resolver, relay, last, lookups>>

GetLocalIPAlways ==
    /\ phase = "local"
    /\ \E o \in RouteTo(client.remote) :
          /\ local'  = IF o.ok THEN o.src ELSE local
          /\ remote' = IF o.ok /\ remote = NoIP THEN o.gw ELSE remote
          /\ client' = IF o.ok THEN [client EXCEPT !.local = o.src] ELSE client
          /\ phase'  = IF o.ok THEN "relay" ELSE "failed"
    /\ UNCHANGED <<world, conf, resolver, relay, last, lookups>>

\* GetLocalIP: the source address of the route to the server.
GetLocalIP ==
    /\ phase = "local"
    /\ \/ /\ local # NoIP
          /\ To4(remote) = To4(client.remote)
          /\ client' = [client EXCEPT !.local = local]
          /\ phase'  = "relay"
          /\ UNCHANGED <<local, remote>>
       \/ /\ local = NoIP \/ To4(remote) # To4(client.remote)
          /\ \E o \in RouteTo(client.remote) :
                /\ local'  = IF o.ok THEN o.src ELSE local
                /\ remote' = IF o.ok /\ remote = NoIP THEN o.gw ELSE remote
                /\ client' = IF o.ok THEN [client EXCEPT !.local = o.src] ELSE client
                /\ phase'  = IF o.ok THEN "relay" ELSE "failed"
    /\ UNCHANGED <<world, conf, resolver, relay, last, lookups>>

\* The static resolver's relay address is the local one by default.
StaticRelay == IF relay = NoIP THEN local ELSE relay

\* GetRelayIP at the start; an error ends the client.
GetRelayIP ==
    /\ phase = "relay"
    /\ \/ /\ resolver # "kube"
          /\ relay'  = StaticRelay
          /\ client' = [client EXCEPT !.relay = StaticRelay]
          /\ phase'  = "ready"
          /\ last'   = last
       \/ /\ resolver = "kube"
          /\ Found(svc)
          /\ last'   = IF Remembered(svc) THEN last ELSE ExternalIP(svc)
          /\ client' = [client EXCEPT !.relay = ExternalIP(svc)]
          /\ phase'  = "ready"
          /\ relay'  = relay
       \/ /\ resolver = "kube"
          /\ phase' = "failed"
          /\ UNCHANGED <<relay, last, client>>
    /\ UNCHANGED <<world, conf, resolver, local, remote, lookups>>

\* routing.New fails and logger.Fatal ends the process.
NoRoutingTable ==
    /\ \/ phase = "server" /\ remote = NoIP
       \/ phase = "local" /\ (local = NoIP \/ To4(remote) # To4(client.remote))
    /\ phase' = "dead"
    /\ UNCHANGED <<world, conf, resolver, fields, last, client, lookups>>

-----------------------------------------------------------------------------
(* GetRelayIP in the goroutines of discover, Renew and Release             *)

Begins(q) ==
    /\ phase = "ready"
    /\ stage[q] = "idle"
    /\ before' = before \cup ({p \in Lookups : stage[p] = "done"} \X {q})

\* StaticIPResolver.GetRelayIP
LookupStatic(q) ==
    /\ Begins(q)
    /\ resolver # "kube"
    /\ relay' = StaticRelay
    /\ addr'  = [addr EXCEPT ![q] = StaticRelay]
    /\ stage' = [stage EXCEPT ![q] = "done"]
    /\ UNCHANGED <<world, conf, phase, resolver, local, remote, last, client, asked>>

\* GetService, which may fail.
Ask(q) ==
    /\ Begins(q)
    /\ resolver = "kube"
    /\ \E s \in {svc, Unavailable} : asked' = [asked EXCEPT ![q] = s]
    /\ stage' = [stage EXCEPT ![q] = "asked"]
    /\ UNCHANGED <<world, conf, phase, resolver, fields, last, client, addr>>

CompareKeeps(q) ==
    /\ stage[q] = "asked"
    /\ addr'  = [addr EXCEPT ![q] = last]
    /\ stage' = [stage EXCEPT ![q] = "done"]
    /\ UNCHANGED <<world, conf, phase, resolver, fields, last, client, asked, before>>

CompareForgets(q) ==
    /\ stage[q] = "asked"
    /\ addr'  = [addr EXCEPT ![q] = ExternalIP(asked[q])]
    /\ stage' = [stage EXCEPT ![q] = IF Found(asked[q]) /\ ~Remembered(asked[q]) THEN "store" ELSE "done"]
    /\ UNCHANGED <<world, conf, phase, resolver, fields, last, client, asked, before>>

\* Without an address the packet gets the one found last; otherwise the new
\* one, which is compared with the last.
Compare(q) ==
    /\ stage[q] = "asked"
    /\ \/ /\ ~Found(asked[q])
          /\ addr'  = [addr EXCEPT ![q] = last]
          /\ stage' = [stage EXCEPT ![q] = "done"]
       \/ /\ Found(asked[q])
          /\ addr'  = [addr EXCEPT ![q] = ExternalIP(asked[q])]
          /\ stage' = [stage EXCEPT ![q] = IF Remembered(asked[q]) THEN "done" ELSE "store"]
    /\ UNCHANGED <<world, conf, phase, resolver, fields, last, client, asked, before>>

\* ... and stored: other lookups may have come in between.
Store(q) ==
    /\ stage[q] = "store"
    /\ last'  = addr[q]
    /\ stage' = [stage EXCEPT ![q] = "done"]
    /\ UNCHANGED <<world, conf, phase, resolver, fields, client, asked, addr, before>>

-----------------------------------------------------------------------------
(* The world                                                               *)

ServiceChanges ==
    /\ changes < MaxChanges
    /\ changes' = changes + 1
    /\ svc' \in Services \ {svc}
    /\ published' = published \cup ({ExternalIP(svc')} \ {NoIP})
    /\ UNCHANGED <<table, tables, conf, phase, resolver, fields, last, client, lookups>>

TableChanges ==
    /\ phase \in {"server", "local"}
    /\ changes < MaxChanges
    /\ changes' = changes + 1
    /\ table' \in Tables \ {table}
    /\ tables' = tables \cup {table'}
    /\ UNCHANGED <<svc, published, conf, phase, resolver, fields, last, client, lookups>>

Next ==
    \/ GetIPResolver \/ GetServerIP \/ GetLocalIP \/ GetRelayIP \/ NoRoutingTable
    \/ \E q \in Lookups : LookupStatic(q) \/ Ask(q) \/ Compare(q) \/ Store(q)
    \/ ServiceChanges \/ TableChanges

Spec == Init /\ [][Next]_vars

-----------------------------------------------------------------------------
(* Properties                                                              *)

\* Types of the resolver's and the client's state.
TypeOK ==
    /\ table \in Tables
    /\ tables \subseteq Tables
    /\ svc \in Services
    /\ changes \in 0..MaxChanges
    /\ published \subseteq IPs
    /\ conf \in Config
    /\ phase \in {"resolver", "server", "local", "relay", "ready", "failed", "dead"}
    /\ resolver \in {"none", "static", "fallback", "kube"}
    /\ {local, remote, relay, last} \subseteq IPs \cup {NoIP}
    /\ client \in [local : IPs \cup {NoIP}, remote : IPs \cup {NoIP}, relay : IPs \cup {NoIP}]
    /\ stage \in [Lookups -> {"idle", "asked", "store", "done"}]
    /\ asked \in [Lookups -> Services \cup {Unavailable}]
    /\ addr \in [Lookups -> IPs \cup {NoIP}]
    /\ before \subseteq Lookups \X Lookups

\* The server the resolver got from the configuration, or none.
Given == IF resolver = "fallback" THEN conf.relay ELSE conf.server

\* A gateway of the default route, and a source address of a route to the
\* server or, when that is the gateway, of the default route, in a routing
\* table there has been since the start.
DefaultServer(ip) ==
    \E t \in tables : \E o \in RoutesIn(t, Internet) : o.ok /\ o.gw = ip
SourceTo(d, ip) ==
    \E t \in tables : \E o \in RoutesIn(t, d) : o.ok /\ o.src = ip
DefaultLocal(ip) ==
    SourceTo(client.remote, ip) \/ (Given = NoIP /\ SourceTo(Internet, ip))

\* The client starts with the configured addresses, which win over the routing
\* table, and else with the documented defaults: the server is the default
\* gateway, the local address leads there (to a configured server: that way),
\* the relay address is the local one.  Of the server after Kubernetes has
\* failed it says nothing, see ServerAsConfigured.
AddressesAsConfigured ==
    phase = "ready" =>
        /\ IF conf.local # NoIP THEN client.local = conf.local ELSE DefaultLocal(client.local)
        /\ resolver # "fallback" =>
              IF conf.server # NoIP THEN client.remote = conf.server ELSE DefaultServer(client.remote)
        /\ resolver # "kube" =>
              client.relay = IF conf.relay # NoIP THEN conf.relay ELSE client.local

\* A packet carries a relay address the service has had, however often the
\* service changes and lookups fail, or the address the client started with.
RelayPublished ==
    \A q \in Lookups : stage[q] = "done" =>
        IF resolver = "kube" THEN addr[q] \in published ELSE addr[q] = client.relay

Succeeded(q) == resolver = "kube" /\ stage[q] = "done" /\ Found(asked[q])

\* x is as new as the address lookup p has found: it is that address, or that
\* of a lookup which was not over when p began.  The comparison by To4() leaves
\* one exception: an IPv6 address, once it is the last one found, stays until a
\* load balancer has an IPv4 address.
AsNewAs(x, p) ==
    \/ x = addr[p]
    \/ x \in V6 /\ asked[p].lb \notin V4
    \/ \E r \in Lookups : Succeeded(r) /\ addr[r] = x /\ <<r, p>> \notin before

\* A lookup that fails uses an address as new as those of all lookups that
\* were over when it began: a stale address comes back only in a race.
FallbackNotOutdated ==
    \A p, f \in Lookups :
        Succeeded(p) /\ <<p, f>> \in before /\ stage[f] = "done" /\ ~Found(asked[f])
          => AsNewAs(addr[f], p)

\* The client talks to the server it is configured for.
ServerAsConfigured ==
    phase = "ready" /\ conf.server # NoIP => client.remote = conf.server

-----------------------------------------------------------------------------
(* The invariant behind them                                               *)

StartInv ==
    /\ phase = "resolver" => resolver = "none"
    /\ resolver = "none" => phase \in {"resolver", "dead"}
    /\ Found(svc) => ExternalIP(svc) \in published
    /\ resolver = "kube" => last \in published
    /\ resolver = "fallback" => conf.relay # NoIP
    /\ table \in tables
    /\ phase \in {"server", "local", "relay"} =>
          /\ conf.local # NoIP => local = conf.local
          /\ Given # NoIP => remote = Given
          /\ resolver # "kube" => relay = conf.relay
    /\ phase = "server" => (conf.local = NoIP => local = NoIP) /\ (Given = NoIP => remote = NoIP)
    /\ phase = "local" =>
          /\ client.remote = remote
          /\ conf.local = NoIP /\ local # NoIP => Given = NoIP /\ SourceTo(Internet, local)
    /\ phase \in {"local", "relay"} =>
          IF Given # NoIP THEN client.remote = Given ELSE DefaultServer(client.remote)
    /\ phase = "relay" =>
          client.local = local /\ (conf.local = NoIP => DefaultLocal(client.local))
    /\ phase = "ready" /\ resolver # "kube" =>
          relay = client.relay /\ (relay = NoIP => local = NoIP)

LookupInv ==
    /\ \A q \in Lookups :
          /\ IF stage[q] = "idle" THEN ~Found(asked[q]) ELSE phase = "ready"
          /\ stage[q] \in {"asked", "store"} => resolver = "kube"
          /\ stage[q] # "idle" /\ Found(asked[q]) => ExternalIP(asked[q]) \in published
          /\ stage[q] = "store" => Found(asked[q])
          /\ stage[q] \in {"store", "done"} /\ Found(asked[q]) => addr[q] = ExternalIP(asked[q])
    /\ \A p, q \in Lookups : <<p, q>> \in before => stage[p] = "done" /\ stage[q] # "idle"

\* What the resolver has found last is as new as every finished lookup.
CacheInv == \A p \in Lookups : Succeeded(p) => AsNewAs(last, p)

\* The inductive invariant of the resolvers.
RelayInv == StartInv /\ LookupInv /\ CacheInv
=============================================================================
