------------------------------ MODULE Rest_proofs ------------------------------
(***************************************************************************)
(* Theorems about Rest, for any number of calls, all parameters, all ACKs  *)
(* and every modulus of the arithmetic on lease times.                     *)
(***************************************************************************)
EXTENDS Rest, TLAPS

\* What is not refused can be answered, and everything in it parses.
LEMMA NotRefused ==
    ASSUME NEW r, NEW q, Refusal(r, q) = 0
    PROVE  /\ Negotiate(q.accept) \in {"json", "yaml", "xml"}
           /\ q.host # "bad" /\ q.mac # "bad"
           /\ r \notin LeaseReqs => q.ip # "bad"
           /\ r \in ReleaseReqs => q.ip # "odd"
BY DEF Refusal, Negotiate

\* What is refused is refused with one of three statuses, and 405 stands for
\* the release of an address of an impossible length.
LEMMA RefusedWith ==
    ASSUME NEW r, NEW q, Refusal(r, q) # 0
    PROVE  /\ Refusal(r, q) \in {400, 405, 415}
           /\ Refusal(r, q) = 405 => r \in ReleaseReqs /\ q.ip = "odd"
           /\ Refused(Refusal(r, q)).status = Refusal(r, q)
           /\ Refused(Refusal(r, q)).lease = NoLease
           /\ Refused(Refusal(r, q)).type = "none" <=> Refusal(r, q) = 405
<1>1. /\ Refusal(r, q) \in {400, 405, 415}
      /\ Refusal(r, q) = 405 => r \in ReleaseReqs /\ q.ip = "odd"
  BY DEF Refusal
<1> QED
  BY <1>1 DEF Refused, TextReply

\* Every time of a lease fits the word it is made of.
LEMMA TimeTypes ==
    ASSUME NEW a \in Ack
    PROVE  NewLease(a) \in [renew : Seconds, rebind : Seconds, expire : Seconds]
<1> USE DataAssumption
<1>1. /\ a.lease # NoOption => a.lease \in 0..(Modulus - 1)
      /\ a.t1 # NoOption => a.t1 \in 0..(Modulus - 1)
      /\ a.t2 # NoOption => a.t2 \in 0..(Modulus - 1)
  BY DEF Ack, Option
<1>2. \A n \in 0..(Modulus - 1) : n \div 2 \in 0..(Modulus - 1) /\ n \div 8 \in 0..(Modulus - 1)
  OBVIOUS
<1>3. a.lease # NoOption => (a.lease * 7) % Modulus \in 0..(Modulus - 1)
  <2> SUFFICES ASSUME NEW n \in 0..(Modulus - 1) PROVE n % Modulus \in 0..(Modulus - 1) /\ (n * 7) % Modulus \in 0..(Modulus - 1)
    BY <1>1
  <2> QED
    OBVIOUS
<1>4. RenewalTime(a) \in Seconds
  BY <1>1, <1>2 DEF RenewalTime, Seconds
<1>5. RebindTime(a) \in Seconds
  BY <1>1, <1>2, <1>3 DEF RebindTime, Seconds
<1>6. ExpireTime(a) \in Seconds
  BY <1>1 DEF ExpireTime, Seconds
<1> QED
  BY <1>4, <1>5, <1>6 DEF NewLease

\* Without T1 and T2 nothing follows the end of the lease, and the renewal
\* comes first unless the multiplication wraps.
LEMMA TimeOrder ==
    ASSUME NEW a \in Ack, a.lease # NoOption, a.t1 = NoOption, a.t2 = NoOption
    PROVE  /\ NewLease(a).renew <= NewLease(a).expire
           /\ NewLease(a).rebind <= NewLease(a).expire
           /\ a.lease * 7 < Modulus => NewLease(a).renew <= NewLease(a).rebind
<1> USE DataAssumption
<1> DEFINE n == a.lease
<1>1. n \in 0..(Modulus - 1)
  BY DEF Ack, Option
<1> HIDE DEF n
<1>2. (n * 7) % Modulus <= n * 7 /\ (n * 7) % Modulus \in Nat
  BY <1>1
<1>3. n * 7 < Modulus => (n * 7) % Modulus = n * 7
  BY <1>1
<1>4. n \div 2 <= n /\ n \div 2 <= (n * 7) \div 8
  BY <1>1
<1>5. ((n * 7) % Modulus) \div 8 <= n
  BY <1>1, <1>2
<1>6. NewLease(a) = [renew |-> n \div 2, rebind |-> ((n * 7) % Modulus) \div 8, expire |-> n]
  BY DEF n, NewLease, RenewalTime, RebindTime, ExpireTime
<1> QED
  BY <1>3, <1>4, <1>5, <1>6 DEF n

\* What the answer of the DHCP client stands for.
LEMMA Answers ==
    ASSUME NEW r \in Reqs, out \in [Reqs -> {0, 200, 400, 406, 408}], DHCP!Respond(r)
    PROVE  /\ state[r] = "busy"
           /\ state' = [state EXCEPT ![r] = "done"]
           /\ expired' = [expired EXCEPT ![r] = TRUE]
           /\ UNCHANGED <<said, packet, dead>>
           /\ out' = [out EXCEPT ![r] = out'[r]]
           /\ out'[r] \in {200, 400, 406, 408}
           /\ out'[r] = 200 /\ r \in ReleaseReqs => packet[r] = "sent"
           /\ out'[r] = 200 /\ r \notin ReleaseReqs => "Ack" \in said[r]
           /\ out'[r] = 406 => "Nak" \in said[r]
<1>1. PICK c \in DHCP!Statuses(r) : out' = [out EXCEPT ![r] = c]
  BY DEF DHCP!Respond
<1>2. out'[r] = c /\ out' = [out EXCEPT ![r] = out'[r]]
  BY <1>1
<1>3. /\ c \in {200, 400, 406, 408}
      /\ c = 200 /\ r \in ReleaseReqs => packet[r] = "sent"
      /\ c = 200 /\ r \notin ReleaseReqs => "Ack" \in said[r]
      /\ c = 406 => "Nak" \in said[r]
  BY DEF DHCP!Statuses
<1>4. /\ state[r] = "busy"
      /\ state' = [state EXCEPT ![r] = "done"]
      /\ expired' = [expired EXCEPT ![r] = TRUE]
      /\ UNCHANGED <<said, packet, dead>>
  BY DEF DHCP!Respond
<1> QED
  BY <1>2, <1>3, <1>4

LEMMA AnswerTypes ==
    ASSUME NEW r \in Reqs, out \in [Reqs -> {0, 200, 400, 406, 408}], DHCP!Respond(r)
    PROVE  out' \in [Reqs -> {0, 200, 400, 406, 408}] /\ out'[r] \in {200, 400, 406, 408}
<1>1. out' = [out EXCEPT ![r] = out'[r]] /\ out'[r] \in {200, 400, 406, 408}
  BY Answers
<1> QED
  BY <1>1

\* How a call that reads its reply ends.
LEMMA ReadEnds ==
    ASSUME NEW r \in Reqs, Read(r)
    PROVE  \/ caller' = [caller EXCEPT ![r] = "died"] /\ result' = result
           \/ Return(r, Decode(r, reply[r]).code, Decode(r, reply[r]).lease)
           \/ Return(r, reply[r].status, reply[r].lease)
BY Zenon DEF Read

-----------------------------------------------------------------------------
\* Type correctness: only the statuses TypeOK lists, and times that fit their
\* word, reach a caller.
THEOREM TypeCorrect == Spec => []TypeOK
<1> USE DataAssumption, RequestAssumption DEF TypeOK, dhcp, rest
<1>1. Init => TypeOK
  <2> SUFFICES ASSUME Init PROVE TypeOK
    OBVIOUS
  <2>1. DHCP!Init /\ DHCP!Reqs = Reqs
    BY DEF Init, Reqs, DHCP!Reqs
  <2>2. NoQuery \in Query /\ NoAck \in Ack /\ NoCode \in [code : {-3, -2, -1, 0, 200, 400, 405, 406, 408, 415}, lease : Leases]
    BY DEF NoQuery, NoAck, NoCode, Query, Ack, Option, Leases, Media
  <2>3. TextReply(0) \in [status : {0, 200, 400, 405, 406, 408, 415}, type : Media \cup {"text", "none"}, lease : Leases]
    BY DEF TextReply, Leases
  <2>4. /\ caller \in [Reqs -> {"idle", "waiting", "returned", "died"}]
        /\ server \in [Reqs -> {"none", "requested", "handling", "replied"}]
    BY DEF Init
  <2>5. query \in [Reqs -> Query] /\ acked \in [Reqs -> Ack]
    BY <2>2 DEF Init
  <2>6. result \in [Reqs -> [code : {-3, -2, -1, 0, 200, 400, 405, 406, 408, 415}, lease : Leases]]
    BY <2>2 DEF Init
  <2>7. reply \in [Reqs -> [status : {0, 200, 400, 405, 406, 408, 415}, type : Media \cup {"text", "none"}, lease : Leases]]
    BY <2>3 DEF Init
  <2>8. /\ state \in [Reqs -> {"idle", "busy", "done"}] /\ out \in [Reqs -> {0, 200, 400, 406, 408}]
        /\ expired \in [Reqs -> BOOLEAN] /\ packet \in [ReleaseReqs -> {"none", "sent", "failed"}]
    BY <2>1 DEF DHCP!Init
  <2>9. said \in [Reqs -> SUBSET {"Offer", "Ack", "Nak"}] /\ dead \in BOOLEAN
    BY <2>1 DEF DHCP!Init
  <2> QED
    BY <2>4, <2>5, <2>6, <2>7, <2>8, <2>9
<1>2. TypeOK /\ [Next]_vars => TypeOK'
  <2> SUFFICES ASSUME TypeOK, [Next]_vars PROVE TypeOK'
    OBVIOUS
  <2> DEFINE Results == [code : {-3, -2, -1, 0, 200, 400, 405, 406, 408, 415}, lease : Leases]
             Replies == [status : {0, 200, 400, 405, 406, 408, 415},
                         type : Media \cup {"text", "none"}, lease : Leases]
  <2>1. ASSUME NEW r \in Reqs, Call(r) PROVE TypeOK'
    <3>0. PICK q \in Queries : Send(r, q)
      BY <2>1 DEF Call
    <3>1. query' \in [Reqs -> Query]
      BY <3>0 DEF Send
    <3>2. CASE Return(r, 400, NoLease) /\ server' = server
      <4>1. [code |-> 400, lease |-> NoLease] \in Results
        BY DEF Leases
      <4>2. result' \in [Reqs -> Results] /\ caller' \in [Reqs -> {"idle", "waiting", "returned", "died"}]
        BY <3>2, <4>1 DEF Return
      <4> QED
        BY <2>1, <3>1, <3>2, <4>2 DEF Call
    <3>3. CASE /\ caller' = [caller EXCEPT ![r] = "waiting"]
               /\ server' = [server EXCEPT ![r] = "requested"]
               /\ result' = result
      BY <2>1, <3>1, <3>3 DEF Call
    <3> QED
      BY <3>0, <3>2, <3>3 DEF Send
  <2>2. ASSUME NEW r \in Reqs, Read(r) PROVE TypeOK'
    <3> DEFINE Codes == {-3, -2, 0, 200, 400, 405, 406, 408, 415}
    <3>1. reply[r].status \in Codes /\ reply[r].lease \in Leases
      OBVIOUS
    <3>2. Decode(r, reply[r]).code \in Codes /\ Decode(r, reply[r]).lease \in Leases
      BY <3>1 DEF Decode, Leases
    <3>3. ASSUME NEW c \in Codes, NEW l \in Leases, Return(r, c, l) PROVE TypeOK'
      <4>1. result' \in [Reqs -> Results] /\ caller' \in [Reqs -> {"idle", "waiting", "returned", "died"}]
        BY <3>3 DEF Return
      <4> QED
        BY <2>2, <4>1 DEF Read
    <3>4. CASE caller' = [caller EXCEPT ![r] = "died"] /\ result' = result
      BY <2>2, <3>4 DEF Read
    <3>5. \/ caller' = [caller EXCEPT ![r] = "died"] /\ result' = result
          \/ Return(r, Decode(r, reply[r]).code, Decode(r, reply[r]).lease)
          \/ Return(r, reply[r].status, reply[r].lease)
      BY <2>2, ReadEnds
    <3> HIDE DEF Codes
    <3> QED
      BY <3>1, <3>2, <3>3, <3>4, <3>5
  <2>3. ASSUME NEW r \in Reqs, GiveUp(r) PROVE TypeOK'
    BY <2>3 DEF GiveUp, Return, Leases
  <2>4. ASSUME NEW r \in Reqs, Refuse(r) PROVE TypeOK'
    <3>1. Refusal(r, query[r]) \in {400, 405, 415}
      BY <2>4, RefusedWith DEF Refuse
    <3>2. Refused(Refusal(r, query[r])) \in Replies
      BY <3>1 DEF Refused, TextReply, Leases
    <3> QED
      BY <2>4, <3>2 DEF Refuse
  <2>5. ASSUME NEW r \in Reqs, Handle(r) PROVE TypeOK'
    BY <2>5 DEF Handle, DHCP!Arrive
  <2>6. ASSUME NEW r \in Reqs, Respond(r) PROVE TypeOK'
    <3>1. DHCP!Respond(r)
      BY <2>6 DEF Respond
    <3>3. state' \in [Reqs -> {"idle", "busy", "done"}] /\ expired' \in [Reqs -> BOOLEAN]
      <4>1. state' = [state EXCEPT ![r] = "done"]
        BY <3>1, Answers
      <4>2. expired' = [expired EXCEPT ![r] = TRUE]
        BY <3>1, Answers
      <4> QED
        BY <4>1, <4>2
    <3>4. out' \in [Reqs -> {0, 200, 400, 406, 408}] /\ out'[r] \in {200, 400, 406, 408}
      BY <3>1, AnswerTypes
    <3>5. acked' \in [Reqs -> Ack]
      <4>1. acked' = acked \/ \E a \in Options : acked' = [acked EXCEPT ![r] = a]
        BY <2>6, ZenonT(20) DEF Respond
      <4>2. CASE acked' = acked
        BY <4>2
      <4>3. ASSUME NEW a \in Options, acked' = [acked EXCEPT ![r] = a] PROVE acked' \in [Reqs -> Ack]
        BY <4>3
      <4> QED
        BY <4>1, <4>2, <4>3
    <3>6. TextReply(out'[r]) \in Replies
      BY <3>4 DEF TextReply, Leases
    <3>7. \A a \in Options : Write(query[r], a) \in Replies
      BY TimeTypes DEF Write, Negotiate, Leases, Media
    <3>8. reply' \in [Reqs -> Replies]
      BY <2>6, <3>6, <3>7 DEF Respond
    <3>9. server' \in [Reqs -> {"none", "requested", "handling", "replied"}]
      BY <2>6 DEF Respond
    <3> QED
      BY <2>6, <3>3, <3>4, <3>5, <3>8, <3>9 DEF Respond, DHCP!Respond
  <2>7. CASE Meanwhile
    <3>1. CASE \E r \in Reqs : DHCP!Expire(r)
      BY <2>7, <3>1 DEF Meanwhile, DHCP!Expire
    <3>2. CASE \E r \in Reqs, t \in {"Offer", "Ack", "Nak"} : DHCP!Say(r, t)
      BY <2>7, <3>2 DEF Meanwhile, DHCP!Say
    <3>3. CASE \E r \in ReleaseReqs : DHCP!Transmit(r)
      BY <2>7, <3>3 DEF Meanwhile, DHCP!Transmit
    <3>4. CASE DHCP!Die
      BY <2>7, <3>4 DEF Meanwhile, DHCP!Die
    <3> QED
      BY <2>7, <3>1, <3>2, <3>3, <3>4 DEF Meanwhile
  <2>8. CASE UNCHANGED vars
    BY <2>8 DEF vars
  <2> QED
    BY <2>1, <2>2, <2>3, <2>4, <2>5, <2>6, <2>7, <2>8 DEF Next
<1> QED
  BY <1>1, <1>2, PTL DEF Spec

-----------------------------------------------------------------------------
\* The steps of call r leave the state of every other call alone.
LEMMA CallerStep ==
    ASSUME TypeOK, RestInv, NEW r \in Reqs, Call(r) \/ Read(r) \/ GiveUp(r)
    PROVE  RestInv'
<1> USE DEF TypeOK, dhcp
<1>1. ASSUME NEW p \in Reqs, p # r
      PROVE  /\ caller'[p] = caller[p] /\ query'[p] = query[p] /\ result'[p] = result[p]
             /\ server'[p] = server[p]
  BY <1>1 DEF Call, Send, Read, GiveUp, Return
<1>2. UNCHANGED <<dhcp, acked, reply>>
  BY DEF Call, Read, GiveUp
<1>3. \A p \in Reqs : p # r => (ServerInv(p) /\ CallerInv(p))'
  BY <1>1, <1>2 DEF RestInv, ServerInv, CallerInv, ReplyTrue
<1>4. CASE Call(r)
  <2>1. caller[r] = "idle" /\ server[r] = "none" /\ state[r] = "idle"
    BY <1>4 DEF Call, RestInv, CallerInv, ServerInv
  <2>2. PICK q \in Queries : Send(r, q)
    BY <1>4 DEF Call
  <2>3. CASE Return(r, 400, NoLease) /\ server' = server
    <3>1. caller'[r] = "returned" /\ result'[r].code = 400 /\ result'[r].lease = NoLease
      BY <2>3 DEF Return
    <3>2. server'[r] = "none"
      BY <2>1, <2>3
    <3> QED
      BY <1>2, <1>3, <2>1, <3>1, <3>2 DEF RestInv, ServerInv, CallerInv
  <2>4. CASE /\ IF q.go THEN ~Rejects(r, q) ELSE Routed(r, q)
             /\ caller' = [caller EXCEPT ![r] = "waiting"]
             /\ server' = [server EXCEPT ![r] = "requested"]
             /\ result' = result
    <3>1. caller'[r] = "waiting" /\ server'[r] = "requested" /\ query'[r] = q
      BY <2>2, <2>4 DEF Send
    <3>2. /\ q.host # "empty"
          /\ r \notin LeaseReqs => q.mac # "none" /\ q.ip # "none"
          /\ r \in RenewReqs => q.ip # "odd" /\ (q.go => q.ip = "v4")
          /\ ~q.go /\ r \in ReleaseReqs => q.ip # "odd"
      BY <2>4, RequestAssumption DEF Rejects, Routed
    <3>3. result[r].lease = NoLease /\ said[r] = {}
      BY <2>1 DEF RestInv, CallerInv, ServerInv
    <3> QED
      BY <1>2, <1>3, <2>1, <2>4, <3>1, <3>2, <3>3 DEF RestInv, ServerInv, CallerInv
  <2> QED
    BY <2>2, <2>3, <2>4 DEF Send
<1>5. CASE Read(r)
  <2>1. server[r] = "replied" /\ UNCHANGED <<query, server>>
    BY <1>5 DEF Read
  <2>2. ReplyTrue(r)
    BY <2>1 DEF RestInv, ServerInv
  <2>3. CASE query[r].go /\ Panics(reply[r]) /\ caller' = [caller EXCEPT ![r] = "died"] /\ result' = result
    <3>1. reply[r].status = 405
      BY <2>2, <2>3 DEF ReplyTrue, Panics
    <3>2. caller'[r] = "died" /\ result'[r].lease = NoLease
      BY <1>5, <2>3 DEF Read, RestInv, CallerInv
    <3> QED
      BY <1>2, <1>3, <2>1, <3>1, <3>2 DEF RestInv, ServerInv, CallerInv, ReplyTrue
  <2>4. CASE ~(query[r].go /\ Panics(reply[r]))
    <3>1. reply[r].status # 405
      BY <2>2, <2>4 DEF ReplyTrue, Panics
    <3>2. Decode(r, reply[r]) = [code |-> reply[r].status, lease |-> reply[r].lease]
      BY <2>2 DEF Decode, ReplyTrue, Parse
    <3>3. Return(r, reply[r].status, reply[r].lease)
      BY <1>5, <2>4, <3>2 DEF Read
    <3>4. caller'[r] = "returned" /\ result'[r].code = reply[r].status /\ result'[r].lease = reply[r].lease
      BY <3>3 DEF Return
    <3> QED
      BY <1>2, <1>3, <2>1, <3>1, <3>4 DEF RestInv, ServerInv, CallerInv, ReplyTrue
  <2> QED
    BY <1>5, <2>3, <2>4, ZenonT(20) DEF Read
<1>6. CASE GiveUp(r)
  <2>1. UNCHANGED <<query, server>> /\ caller[r] = "waiting"
    BY <1>6 DEF GiveUp
  <2>2. caller'[r] = "returned" /\ result'[r].code = -1 /\ result'[r].lease = NoLease
    BY <1>6 DEF GiveUp, Return
  <2> QED
    BY <1>2, <1>3, <2>1, <2>2 DEF RestInv, ServerInv, CallerInv, ReplyTrue
<1> QED
  BY <1>4, <1>5, <1>6

LEMMA ServerStep ==
    ASSUME TypeOK, RestInv, NEW r \in Reqs, Refuse(r) \/ Handle(r) \/ Respond(r)
    PROVE  RestInv'
<1> USE DEF TypeOK, dhcp
<1>1. UNCHANGED <<caller, query, result, packet, dead>>
  BY Answers DEF Refuse, Handle, Respond, DHCP!Arrive
<1>2. server[r] \in {"requested", "handling"}
  BY DEF Refuse, Handle, Respond
<1>3. CallerInv(r)'
  BY <1>1, <1>2 DEF RestInv, CallerInv
<1>4. CASE Refuse(r)
  <2>1. /\ server' = [server EXCEPT ![r] = "replied"]
        /\ reply' = [reply EXCEPT ![r] = Refused(Refusal(r, query[r]))]
        /\ UNCHANGED <<dhcp, acked>>
    BY <1>4 DEF Refuse
  <2>2. state[r] = "idle" /\ server[r] = "requested" /\ Refusal(r, query[r]) # 0
    BY <1>4 DEF Refuse, RestInv, ServerInv
  <2>3. reply'[r] = Refused(Refusal(r, query[r]))
    BY <2>1
  <2>7. Refusal(r, query[r]) = 405 => r \in ReleaseReqs /\ query[r].ip = "odd" /\ query[r].go
    BY <2>2, RefusedWith DEF RestInv, ServerInv
  <2>4. ReplyTrue(r)'
    <3>1. /\ reply'[r].status \in {400, 405, 415} /\ reply'[r].status = Refusal(r, query[r])
          /\ reply'[r].lease = NoLease
          /\ reply'[r].type = "none" <=> reply'[r].status = 405
      BY <2>2, <2>3, RefusedWith
    <3> QED
      BY <1>1, <2>1, <2>2, <2>7, <3>1 DEF ReplyTrue
  <2>5. ServerInv(r)'
    BY <1>1, <1>2, <2>1, <2>2, <2>4 DEF RestInv, ServerInv
  <2>6. \A p \in Reqs : p # r => (ServerInv(p) /\ CallerInv(p))'
    BY <1>1, <2>1 DEF RestInv, ServerInv, CallerInv, ReplyTrue
  <2> QED
    BY <1>3, <2>5, <2>6 DEF RestInv
<1>5. CASE Handle(r)
  <2>1. /\ server' = [server EXCEPT ![r] = "handling"]
        /\ state' = [state EXCEPT ![r] = "busy"]
        /\ Refusal(r, query[r]) = 0
        /\ UNCHANGED <<out, expired, said, acked, reply>>
    BY <1>5 DEF Handle, DHCP!Arrive
  <2>2. ServerInv(r)'
    BY <1>1, <1>2, <2>1 DEF RestInv, ServerInv
  <2>3. \A p \in Reqs : p # r => (ServerInv(p) /\ CallerInv(p))'
    BY <1>1, <2>1 DEF RestInv, ServerInv, CallerInv, ReplyTrue
  <2> QED
    BY <1>3, <2>2, <2>3 DEF RestInv
<1>6. CASE Respond(r)
  <2>1. DHCP!Respond(r) /\ server' = [server EXCEPT ![r] = "replied"] /\ server[r] = "handling"
    BY <1>6 DEF Respond
  <2>2. /\ state' = [state EXCEPT ![r] = "done"]
        /\ UNCHANGED <<said, packet>>
        /\ out'[r] \in {200, 400, 406, 408}
        /\ out'[r] = 200 /\ r \in ReleaseReqs => packet[r] = "sent"
        /\ out'[r] = 200 /\ r \notin ReleaseReqs => "Ack" \in said[r]
        /\ out'[r] = 406 => "Nak" \in said[r]
    BY <2>1, Answers
  <2>3. state[r] = "busy" /\ Refusal(r, query[r]) = 0
    BY <2>1 DEF RestInv, ServerInv
  <2>4. CASE out'[r] = 200 /\ r \notin ReleaseReqs
    <3>1. PICK a \in Options :
             acked' = [acked EXCEPT ![r] = a] /\ reply' = [reply EXCEPT ![r] = Write(query[r], a)]
      BY <1>6, <2>4 DEF Respond
    <3>2. reply'[r] = Write(query[r], a) /\ acked'[r] = a
      BY <3>1
    <3>3. Negotiate(query[r].accept) \in {"json", "yaml", "xml"}
      BY <2>3, NotRefused
    <3>4. ReplyTrue(r)'
      BY <2>2, <2>4, <3>2, <3>3 DEF ReplyTrue, Write
    <3>5. ServerInv(r)'
      BY <1>1, <2>1, <2>2, <2>3, <3>4 DEF RestInv, ServerInv
    <3>6. \A p \in Reqs : p # r => (ServerInv(p) /\ CallerInv(p))'
      <4>1. ASSUME NEW p \in Reqs, p # r
            PROVE  /\ server'[p] = server[p] /\ state'[p] = state[p] /\ acked'[p] = acked[p]
                   /\ reply'[p] = reply[p]
        BY <2>1, <2>2, <3>1, <4>1
      <4> QED
        BY <1>1, <2>2, <4>1 DEF RestInv, ServerInv, CallerInv, ReplyTrue
    <3> QED
      BY <1>3, <3>5, <3>6 DEF RestInv
  <2>5. CASE ~(out'[r] = 200 /\ r \notin ReleaseReqs)
    <3>1. acked' = acked /\ reply' = [reply EXCEPT ![r] = TextReply(out'[r])]
      BY <1>6, <2>5 DEF Respond
    <3>2. reply'[r].status = out'[r] /\ reply'[r].lease = NoLease /\ reply'[r].type = "text"
      BY <3>1 DEF TextReply
    <3>3. ReplyTrue(r)'
      BY <2>2, <2>5, <3>2 DEF ReplyTrue
    <3>4. ServerInv(r)'
      BY <1>1, <2>1, <2>2, <2>3, <3>3 DEF RestInv, ServerInv
    <3>5. \A p \in Reqs : p # r => (ServerInv(p) /\ CallerInv(p))'
      <4>1. ASSUME NEW p \in Reqs, p # r
            PROVE  server'[p] = server[p] /\ state'[p] = state[p] /\ reply'[p] = reply[p]
        BY <2>1, <2>2, <3>1, <4>1
      <4> QED
        BY <1>1, <2>2, <3>1, <4>1 DEF RestInv, ServerInv, CallerInv, ReplyTrue
    <3> QED
      BY <1>3, <3>4, <3>5 DEF RestInv
  <2> QED
    BY <2>4, <2>5
<1> QED
  BY <1>4, <1>5, <1>6

\* What the DHCP server has said, and a packet that was sent, stay so.
LEMMA MeanwhileStep ==
    ASSUME TypeOK, RestInv, Meanwhile
    PROVE  RestInv'
<1> USE DEF TypeOK
<1>1. UNCHANGED rest /\ state' = state
  BY DEF Meanwhile, DHCP!Expire, DHCP!Say, DHCP!Transmit, DHCP!Die
<1>2. \A r \in Reqs : said[r] \subseteq said'[r] /\ (state[r] = "idle" => said'[r] = said[r])
  BY DEF Meanwhile, DHCP!Expire, DHCP!Say, DHCP!Transmit, DHCP!Die
<1>3. \A r \in ReleaseReqs : packet[r] = "sent" => packet'[r] = "sent"
  BY DEF Meanwhile, DHCP!Expire, DHCP!Say, DHCP!Transmit, DHCP!Die
<1> QED
  BY <1>1, <1>2, <1>3 DEF rest, RestInv, ServerInv, CallerInv, ReplyTrue

-----------------------------------------------------------------------------
\* The invariant of the REST calls: what caller, server and DHCP client know of
\* each other.
THEOREM Inductive == Spec => []RestInv
<1>1. Init => RestInv
  BY DEF Init, DHCP!Init, DHCP!Reqs, Reqs, NoCode, RestInv, ServerInv, CallerInv
<1>2. TypeOK /\ RestInv /\ [Next]_vars => RestInv'
  <2>1. TypeOK /\ RestInv /\ UNCHANGED vars => RestInv'
    BY DEF vars, rest, dhcp, RestInv, ServerInv, CallerInv, ReplyTrue
  <2> QED
    BY <2>1, CallerStep, ServerStep, MeanwhileStep DEF Next
<1> QED
  BY <1>1, <1>2, TypeCorrect, PTL DEF Spec

\* No failure between caller, server and DHCP client makes a caller believe
\* what is not so.
THEOREM ToldTruth == Spec => []CallerToldTruth
<1>1. TypeOK /\ RestInv => CallerToldTruth
  BY DEF TypeOK, RestInv, ServerInv, CallerInv, ReplyTrue, CallerToldTruth
<1> QED
  BY <1>1, TypeCorrect, Inductive, PTL

\* Only calls that parse and that can be answered reach the DHCP client.
THEOREM SoundCalls == Spec => []OnlySoundCalls
<1>1. TypeOK /\ RestInv => OnlySoundCalls
  <2> SUFFICES ASSUME TypeOK, RestInv, NEW r \in Reqs
               PROVE  /\ state[r] # "idle" =>
                           /\ query[r].host = "good" /\ query[r].mac # "bad"
                           /\ query[r].accept \cap {"json", "xml", "yaml"} # {} \/ query[r].accept \subseteq {"any"}
                           /\ r \notin LeaseReqs => query[r].mac = "good" /\ query[r].ip \in {"v4", "v6"}
                           /\ query[r].go /\ r \in RenewReqs => query[r].ip = "v4"
                      /\ server[r] = "replied" /\ reply[r].status \in {405, 415} => state[r] = "idle" /\ said[r] = {}
    BY DEF OnlySoundCalls
  <2>1. query[r] \in Query
    BY DEF TypeOK
  <2>2. Refusal(r, query[r]) = 0 =>
          query[r].accept \cap {"json", "xml", "yaml"} # {} \/ query[r].accept \subseteq {"any"}
    BY <2>1 DEF Refusal, Negotiate
  <2>3. /\ query[r].host \in {"good", "bad", "empty"} /\ query[r].mac \in {"good", "bad", "none"}
        /\ query[r].ip \in {"v4", "v6", "bad", "odd", "none"}
    BY <2>1 DEF Query
  <2>4. state[r] # "idle" => Refusal(r, query[r]) = 0 /\ server[r] # "none"
    BY DEF RestInv, ServerInv
  <2>5. server[r] # "none" =>
          /\ query[r].host # "empty"
          /\ r \notin LeaseReqs => query[r].mac # "none" /\ query[r].ip # "none"
          /\ r \in RenewReqs => query[r].ip # "odd" /\ (query[r].go => query[r].ip = "v4")
    BY DEF RestInv, ServerInv
  <2>6. server[r] = "replied" /\ reply[r].status \in {405, 415} => state[r] = "idle" /\ said[r] = {}
    BY DEF RestInv, ServerInv, ReplyTrue
  <2> QED
    BY <2>2, <2>3, <2>4, <2>5, <2>6, NotRefused DEF Reqs
<1> QED
  BY <1>1, TypeCorrect, Inductive, PTL

\* The order of a lease's times, for every modulus: 2^32 in the code.
THEOREM TimesOrdered == Spec => []TimesInOrder
<1>1. TypeOK /\ RestInv => TimesInOrder
  <2> SUFFICES ASSUME TypeOK, RestInv, NEW r \in Reqs, result[r].lease # NoLease,
                      acked[r].lease # NoOption, acked[r].t1 = NoOption, acked[r].t2 = NoOption
               PROVE  /\ result[r].lease.renew <= result[r].lease.expire
                      /\ result[r].lease.rebind <= result[r].lease.expire
                      /\ acked[r].lease * 7 < Modulus => result[r].lease.renew <= result[r].lease.rebind
    BY DEF TimesInOrder
  <2>1. result[r].lease = NewLease(acked[r])
    BY DEF RestInv, ServerInv, CallerInv, ReplyTrue
  <2>2. acked[r] \in Ack
    BY DEF TypeOK
  <2> QED
    BY <2>1, <2>2, TimeOrder
<1> QED
  BY <1>1, TypeCorrect, Inductive, PTL

-----------------------------------------------------------------------------
\* The handlers use the DHCP client as Requests says it may be used, and leave
\* it alone otherwise: together with DHCPClient's implementation of Requests
\* this is what makes Rest a composition of the two.
THEOREM UsesRequests == Spec => DHCP!Spec
<1>1. Init => DHCP!Init
  BY DEF Init
<1>2. [Next]_vars => [DHCP!Next]_DHCP!vars
  <2> SUFFICES ASSUME [Next]_vars PROVE [DHCP!Next]_DHCP!vars
    OBVIOUS
  <2>0. DHCP!Reqs = Reqs
    BY DEF Reqs, DHCP!Reqs
  <2>1. CASE UNCHANGED vars
    BY <2>1 DEF vars, dhcp, DHCP!vars
  <2>2. ASSUME NEW r \in Reqs, Call(r) \/ Read(r) \/ GiveUp(r) \/ Refuse(r) PROVE UNCHANGED DHCP!vars
    BY <2>2 DEF Call, Read, GiveUp, Refuse, dhcp, DHCP!vars
  <2>3. ASSUME NEW r \in Reqs, Handle(r) PROVE DHCP!Next
    BY <2>0, <2>3 DEF Handle, DHCP!Next
  <2>4. ASSUME NEW r \in Reqs, Respond(r) PROVE DHCP!Next
    BY <2>0, <2>4 DEF Respond, DHCP!Next
  <2>5. CASE Meanwhile
    BY <2>0, <2>5 DEF Meanwhile, DHCP!Next
  <2> QED
    BY <2>1, <2>2, <2>3, <2>4, <2>5 DEF Next
<1> QED
  BY <1>1, <1>2, PTL DEF Spec, DHCP!Spec
=============================================================================
