--------------------------------- MODULE Rest ---------------------------------
(***************************************************************************)
(* A call of the REST interface from end to end: the checks and the        *)
(* decoding of client/client.go, content negotiation                       *)
(* (service/middleware.go), the query (service/types.go) and the handlers  *)
(* with their responses (service/server.go), and the lease times a caller  *)
(* gets (dhcp/lease.go).  The DHCP client behind the handlers is Requests, *)
(* which DHCPClient implements.  The connection may break, the caller give *)
(* up and the process die at any time; the handler of a caller that gave   *)
(* up goes on, for its context is not the request's.                       *)
(*                                                                         *)
(* RebindRounded, RefusalUnprocessable, RefusalAnyIP and WriteSniffed are  *)
(* faulty versions of the definitions they precede.                        *)
(***************************************************************************)
EXTENDS Integers, FiniteSets

CONSTANTS
    LeaseReqs, RenewReqs, ReleaseReqs,  \* the calls of the instance
    Modulus,    \* of the arithmetic on lease times, 2^32 in the code
    NoOption,   \* an absent DHCP option
    NoLease,    \* no lease in a reply or a result
    Queries,    \* parameters of the calls of the instance
    Options,    \* lease time options of the ACKs of the instance
    MaxCalls    \* bound: calls in one behaviour

Reqs == LeaseReqs \cup RenewReqs \cup ReleaseReqs

Media == {"json", "xml", "yaml", "html"}

\* go: the call comes through client.Client, which accepts one media type;
\* other HTTP clients may accept any set of them, with "any" for */*.
\* ip: bad is text that is no address, for client.Client the empty net.IP,
\* which it writes as <nil>; odd is a net.IP of another length than 0, 4 and
\* 16, which it writes with a question mark that ends the path of the URL.
Query  == [go : BOOLEAN, host : {"good", "bad", "empty"}, mac : {"good", "bad", "none"},
           ip : {"v4", "v6", "bad", "odd", "none"}, accept : SUBSET (Media \cup {"any"})]
Option == {NoOption} \cup 0..(Modulus - 1)
Ack    == [lease : Option, t1 : Option, t2 : Option]

ASSUME RequestAssumption ==
    LeaseReqs \cap RenewReqs = {} /\ (LeaseReqs \cup RenewReqs) \cap ReleaseReqs = {}
ASSUME DataAssumption ==
    /\ Modulus \in Nat \ {0} /\ NoOption \notin Int
    /\ Queries \subseteq Query /\ Options \subseteq Ack
    /\ \A q \in Queries : q.go => q.accept \in {{m} : m \in Media}

VARIABLES
    state, out, expired, said, packet, dead,    \* the DHCP client, see Requests
    caller,     \* per call: idle, waiting, returned, died (of a panic)
    query,      \* its parameters
    result,     \* what the caller gets: a code and a lease
    server,     \* none, requested, handling, replied
    acked,      \* the ACK the handler got
    reply       \* the HTTP response

DHCP == INSTANCE Requests

dhcp == <<state, out, expired, said, packet, dead>>
rest == <<caller, query, result, server, acked, reply>>
vars == <<dhcp, rest>>

-----------------------------------------------------------------------------
(* Lease times, in seconds after the ACK                                   *)

ExpireTime(a) == IF a.lease # NoOption THEN a.lease ELSE 0

RebindRounded(a) ==
    IF a.t2 # NoOption THEN a.t2
    ELSE IF a.lease # NoOption THEN (a.lease \div 8) * 7
    ELSE 0

\* An unsigned multiplication comes first, and wraps.
RebindTime(a) ==
    IF a.t2 # NoOption THEN a.t2
    ELSE IF a.lease # NoOption THEN ((a.lease * 7) % Modulus) \div 8
    ELSE 0

RenewalTime(a) ==
    IF a.t1 # NoOption THEN a.t1
    ELSE IF a.lease # NoOption THEN a.lease \div 2
    ELSE 0

NewLease(a) == [renew |-> RenewalTime(a), rebind |-> RebindTime(a), expire |-> ExpireTime(a)]

-----------------------------------------------------------------------------
(* The functions of client and server                                      *)

\* ContentMiddleware: JSON wins over XML wins over YAML, which is the default.
\* */* counts only when it stands alone.
Negotiate(accept) ==
    IF "json" \in accept THEN "json"
    ELSE IF "xml" \in accept THEN "xml"
    ELSE IF accept \in {{}, {"any"}} \/ "yaml" \in accept THEN "yaml"
    ELSE "none"

RefusalUnprocessable(r, q) ==
    IF r \in ReleaseReqs /\ q.ip = "odd" THEN 405
    ELSE IF Negotiate(q.accept) = "none" THEN 415
    ELSE IF q.host = "bad" \/ q.mac = "bad" \/ (r \notin LeaseReqs /\ q.ip = "bad") THEN 422
    ELSE 0

RefusalAnyIP(r, q) ==
    IF r \in ReleaseReqs /\ q.ip = "odd" THEN 405
    ELSE IF Negotiate(q.accept) = "none" THEN 415
    ELSE IF q.host = "bad" \/ q.mac = "bad" THEN 400
    ELSE 0

\* The status of a request that does not reach the DHCP client, else 0: the
\* router has no DELETE for a path that ends after the MAC, ContentMiddleware
\* is next, and NewQuery refuses what does not parse.
Refusal(r, q) ==
    IF r \in ReleaseReqs /\ q.ip = "odd" THEN 405
    ELSE IF Negotiate(q.accept) = "none" THEN 415
    ELSE IF q.host = "bad" \/ q.mac = "bad" \/ (r \notin LeaseReqs /\ q.ip = "bad") THEN 400
    ELSE 0

\* Parameters client.Client does not send.  Renew wants an IPv4 address, any
\* net.IP but nil will do for Release.
Rejects(r, q) ==
    \/ q.host = "empty"
    \/ r \notin LeaseReqs /\ (q.mac = "none" \/ q.ip = "none")
    \/ r \in RenewReqs /\ q.ip # "v4"

\* The URL of another client names what the route needs.
Routed(r, q) ==
    /\ q.host # "empty"
    /\ r \notin LeaseReqs => q.mac # "none" /\ q.ip \notin {"odd", "none"}

TextReply(status) == [status |-> status, type |-> "text", lease |-> NoLease]

\* http.Error ends its text with a newline, but the router's 405 has no body.
Refused(status) ==
    IF status = 405 THEN [status |-> 405, type |-> "none", lease |-> NoLease]
    ELSE TextReply(status)

WriteSniffed(q, a) ==
    [status |-> 200, type |-> IF Negotiate(q.accept) = "yaml" THEN "text" ELSE Negotiate(q.accept),
     lease |-> NewLease(a)]

\* write: the lease in the negotiated type.
Write(q, a) == [status |-> 200, type |-> Negotiate(q.accept), lease |-> NewLease(a)]

\* ContentType.Parse
Parse(type) == IF type \in {"json", "yaml", "xml"} THEN type ELSE "html"

\* call looks at the last byte of the body of every response but 200.
Panics(p) == p.status # 200 /\ p.type = "none"

\* call and unmarshal, whose error gets the code -2 from Lease and none (-3)
\* from Renew.
Decode(r, p) ==
    IF p.status # 200 THEN [code |-> p.status, lease |-> NoLease]
    ELSE IF r \in ReleaseReqs THEN [code |-> 200, lease |-> NoLease]
    ELSE IF Parse(p.type) # "html" THEN [code |-> 200, lease |-> p.lease]
    ELSE [code |-> IF r \in RenewReqs THEN -3 ELSE -2, lease |-> NoLease]

-----------------------------------------------------------------------------
NoQuery == [go |-> TRUE, host |-> "empty", mac |-> "none", ip |-> "none", accept |-> {"json"}]
NoAck   == [lease |-> NoOption, t1 |-> NoOption, t2 |-> NoOption]
NoCode  == [code |-> 0, lease |-> NoLease]

Init ==
    /\ DHCP!Init
    /\ caller = [r \in Reqs |-> "idle"]
    /\ query  = [r \in Reqs |-> NoQuery]
    /\ result = [r \in Reqs |-> NoCode]
    /\ server = [r \in Reqs |-> "none"]
    /\ acked  = [r \in Reqs |-> NoAck]
    /\ reply  = [r \in Reqs |-> TextReply(0)]

-----------------------------------------------------------------------------
(* The caller                                                              *)

Return(r, code, lease) ==
    /\ caller' = [caller EXCEPT ![r] = "returned"]
    /\ result' = [result EXCEPT ![r] = [code |-> code, lease |-> lease]]

\* client.Client sends nothing it rejects itself.
Send(r, q) ==
    /\ query' = [query EXCEPT ![r] = q]
    /\ \/ /\ q.go
          /\ Rejects(r, q)
          /\ Return(r, 400, NoLease)
          /\ server' = server
       \/ /\ IF q.go THEN ~Rejects(r, q) ELSE Routed(r, q)
          /\ caller' = [caller EXCEPT ![r] = "waiting"]
          /\ server' = [server EXCEPT ![r] = "requested"]
          /\ result' = result

\* Lease, Renew and Release of client.Client, or a request of another client.
Call(r) ==
    /\ caller[r] = "idle"
    /\ Cardinality({p \in Reqs : caller[p] # "idle"}) < MaxCalls
    /\ \E q \in Queries : Send(r, q)
    /\ UNCHANGED <<dhcp, acked, reply>>

\* The response arrives; another client takes it as it is.
Read(r) ==
    /\ caller[r] = "waiting"
    /\ server[r] = "replied"
    /\ \/ /\ query[r].go /\ Panics(reply[r])
          /\ caller' = [caller EXCEPT ![r] = "died"]
          /\ result' = result
       \/ /\ query[r].go /\ ~Panics(reply[r])
          /\ LET d == Decode(r, reply[r]) IN Return(r, d.code, d.lease)
       \/ ~query[r].go /\ Return(r, reply[r].status, reply[r].lease)
    /\ UNCHANGED <<dhcp, query, server, acked, reply>>

\* No connection, a broken one, or the end of the caller's context.
GiveUp(r) ==
    /\ caller[r] = "waiting"
    /\ Return(r, -1, NoLease)
    /\ UNCHANGED <<dhcp, query, server, acked, reply>>

-----------------------------------------------------------------------------
(* The server                                                              *)

\* The router, ContentMiddleware or NewQuery end the request.
Refuse(r) ==
    /\ server[r] = "requested"
    /\ ~dead
    /\ Refusal(r, query[r]) # 0
    /\ server' = [server EXCEPT ![r] = "replied"]
    /\ reply'  = [reply EXCEPT ![r] = Refused(Refusal(r, query[r]))]
    /\ UNCHANGED <<dhcp, caller, query, result, acked>>

\* The handler calls the DHCP client.
Handle(r) ==
    /\ server[r] = "requested"
    /\ ~dead
    /\ Refusal(r, query[r]) = 0
    /\ DHCP!Arrive(r)
    /\ server' = [server EXCEPT ![r] = "handling"]
    /\ UNCHANGED <<caller, query, result, acked, reply>>

\* response() and the end of release()
Respond(r) ==
    /\ server[r] = "handling"
    /\ ~dead
    /\ DHCP!Respond(r)
    /\ IF out'[r] = 200 /\ r \notin ReleaseReqs
         THEN \E a \in Options :
                 /\ acked' = [acked EXCEPT ![r] = a]
                 /\ reply' = [reply EXCEPT ![r] = Write(query[r], a)]
         ELSE acked' = acked /\ reply' = [reply EXCEPT ![r] = TextReply(out'[r])]
    /\ server' = [server EXCEPT ![r] = "replied"]
    /\ UNCHANGED <<caller, query, result>>

\* What happens in and around the DHCP client in the meantime.
Meanwhile ==
    /\ ~dead
    /\ \/ \E r \in Reqs : DHCP!Expire(r)
       \/ \E r \in Reqs, t \in {"Offer", "Ack", "Nak"} : DHCP!Say(r, t)
       \/ \E r \in ReleaseReqs : state[r] = "busy" /\ DHCP!Transmit(r)
       \/ DHCP!Die
    /\ UNCHANGED rest

Next ==
    \/ \E r \in Reqs : Call(r) \/ Read(r) \/ GiveUp(r) \/ Refuse(r) \/ Handle(r) \/ Respond(r)
    \/ Meanwhile

Spec == Init /\ [][Next]_vars

-----------------------------------------------------------------------------
(* Properties                                                              *)

Seconds == 0..(Modulus - 1)
Leases  == [renew : Seconds, rebind : Seconds, expire : Seconds] \cup {NoLease}

\* Types of calls, replies and results: a time fits the word it is made of, and
\* every call is answered with one of the statuses the API description lists
\* (415 also for a release, for which it does not) or the router's 405.
TypeOK ==
    /\ caller \in [Reqs -> {"idle", "waiting", "returned", "died"}]
    /\ query  \in [Reqs -> Query]
    /\ result \in [Reqs -> [code : {-3, -2, -1, 0, 200, 400, 405, 406, 408, 415}, lease : Leases]]
    /\ server \in [Reqs -> {"none", "requested", "handling", "replied"}]
    /\ acked  \in [Reqs -> Ack]
    /\ reply  \in [Reqs -> [status : {0, 200, 400, 405, 406, 408, 415},
                            type : Media \cup {"text", "none"}, lease : Leases]]
    /\ state \in [Reqs -> {"idle", "busy", "done"}]
    /\ out \in [Reqs -> {0, 200, 400, 406, 408}]
    /\ expired \in [Reqs -> BOOLEAN]
    /\ said \in [Reqs -> SUBSET {"Offer", "Ack", "Nak"}]
    /\ packet \in [ReleaseReqs -> {"none", "sent", "failed"}]
    /\ dead \in BOOLEAN

\* Whatever breaks in between, what a caller is told is true: a lease is one
\* the DHCP server has acknowledged for this call, with its times, a 406 stands
\* for a NAK, the success of a release for a packet sent; and client.Client
\* can read every lease of the service.  It dies of no answer, except when it
\* was asked to release a net.IP of an impossible length.
CallerToldTruth ==
    \A r \in Reqs :
        /\ caller[r] = "returned" =>
              LET c == result[r].code IN
              /\ c \in {-1, 200, 400, 406, 408, 415}
              /\ c = 200 => IF r \in ReleaseReqs THEN packet[r] = "sent"
                            ELSE "Ack" \in said[r] /\ result[r].lease = NewLease(acked[r])
              /\ c = 406 => "Nak" \in said[r]
              /\ c # 200 => result[r].lease = NoLease
        /\ caller[r] = "died" => r \in ReleaseReqs /\ query[r].ip = "odd" /\ state[r] = "idle"

\* The DHCP client is asked only for what NewQuery could parse, in a type the
\* caller can be answered in: a valid hostname, for a renewal or a release a
\* MAC and an IP address.  It is an IPv4 address in a renewal through
\* client.Client; otherwise NewQuery also lets IPv6 addresses through, though
\* the API description says ipv4.  A call refused with 415 or 405 has left no
\* trace there.
OnlySoundCalls ==
    \A r \in Reqs :
        /\ state[r] # "idle" =>
              /\ query[r].host = "good" /\ query[r].mac # "bad"
              /\ query[r].accept \cap {"json", "xml", "yaml"} # {} \/ query[r].accept \subseteq {"any"}
              /\ r \notin LeaseReqs => query[r].mac = "good" /\ query[r].ip \in {"v4", "v6"}
              /\ query[r].go /\ r \in RenewReqs => query[r].ip = "v4"
        /\ server[r] = "replied" /\ reply[r].status \in {405, 415} => state[r] = "idle" /\ said[r] = {}

\* The times of a lease without T1 and T2 come in their order, unless the
\* multiplication for the rebind time wraps: then that may precede the
\* renewal, but nothing follows the end of the lease.
TimesInOrder ==
    \A r \in Reqs : LET a == acked[r]  l == result[r].lease IN
        l # NoLease /\ a.lease # NoOption /\ a.t1 = NoOption /\ a.t2 = NoOption =>
            /\ l.renew <= l.expire /\ l.rebind <= l.expire
            /\ a.lease * 7 < Modulus => l.renew <= l.rebind

-----------------------------------------------------------------------------
(* The invariant behind them                                               *)

ReplyTrue(r) ==
    LET p == reply[r] IN
    /\ p.status \in {200, 400, 405, 406, 408, 415}
    /\ p.status = 200 =>
          IF r \in ReleaseReqs THEN packet[r] = "sent" /\ p.lease = NoLease
          ELSE "Ack" \in said[r] /\ p.lease = NewLease(acked[r]) /\ p.type \in {"json", "yaml", "xml"}
    /\ p.status # 200 => p.lease = NoLease
    /\ p.status = 406 => "Nak" \in said[r]
    /\ p.status \in {405, 415} => state[r] = "idle"
    /\ p.status = 405 => r \in ReleaseReqs /\ query[r].ip = "odd" /\ query[r].go
    /\ p.type = "none" <=> p.status = 405

ServerInv(r) ==
    /\ server[r] \in {"none", "requested"} => state[r] = "idle"
    /\ server[r] = "handling" => state[r] = "busy"
    /\ state[r] = "idle" => said[r] = {}
    /\ state[r] # "idle" => server[r] # "none" /\ Refusal(r, query[r]) = 0
    /\ server[r] # "none" =>
          /\ query[r].host # "empty"
          /\ r \notin LeaseReqs => query[r].mac # "none" /\ query[r].ip # "none"
          /\ r \in RenewReqs => query[r].ip # "odd" /\ (query[r].go => query[r].ip = "v4")
          /\ ~query[r].go /\ r \in ReleaseReqs => query[r].ip # "odd"
    /\ server[r] = "replied" => ReplyTrue(r)

CallerInv(r) ==
    /\ caller[r] = "idle" => server[r] = "none"
    /\ caller[r] # "returned" => result[r].lease = NoLease
    /\ caller[r] = "returned" =>
          \/ result[r].code \in {-1, 400} /\ result[r].lease = NoLease
          \/ /\ server[r] = "replied" /\ reply[r].status # 405
             /\ result[r].code = reply[r].status /\ result[r].lease = reply[r].lease
    /\ caller[r] = "died" => server[r] = "replied" /\ reply[r].status = 405

\* The inductive invariant of the REST calls.
RestInv == \A r \in Reqs : ServerInv(r) /\ CallerInv(r)
=============================================================================
