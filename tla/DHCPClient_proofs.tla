--------------------------- MODULE DHCPClient_proofs ---------------------------
(***************************************************************************)
(* Theorems about DHCPClient.  Type correctness first; then the inductive  *)
(* invariant IInv, one lemma per conjunct that says which step preserves   *)
(* it; then the safety properties, each from IInv.                         *)
(*                                                                         *)
(* The theorems that assume ~ShortTTL speak of a configuration whose store *)
(* entries (ttl 60s) outlive the web timeout of their request.  Without it *)
(* Clean's Done <- true passes for an answer and AckedLease fails.         *)
(***************************************************************************)
EXTENDS DHCPClient, TLAPS

\* Type correctness of the DHCP client, with the two facts it needs: a
\* goroutine in wait(), sleep() or store.Get has a current attempt, and one
\* that removes a lease from the store or repeats a request has that lease.
THEOREM TypeInvariance == Spec => [](TypeOK /\ CurrentInv)
<1> DEFINE Inv == TypeOK /\ CurrentInv
<1>1. Init => Inv
  <2> SUFFICES ASSUME Init PROVE TypeOK /\ CurrentInv
    OBVIOUS
  <2>1. \A r \in Reqs : phase[r] \in {"discover", "renew", "release"}
    BY DEF Init
  <2>2. TypeOK
    <3>1. rcv \in [lease : Attempts \cup {NoLease}, type : AnswerTypes \cup {"none"}]
      BY DEF Init, NoPacket
    <3>2. tries \in [Reqs -> 0..MaxTries] /\ out \in [Reqs -> {0, 200, 400, 406, 408}]
      BY MaxTriesAssumption DEF Init
    <3>3. phase \in [Reqs -> {"discover", "request", "renew", "release"}]
      BY DEF Init
    <3>4. ctx \in [Reqs -> BOOLEAN] /\ timer \in [Attempts -> BOOLEAN] /\ jam \in BOOLEAN
      BY DEF Init
    <3>5. pc \in [Reqs -> {"idle"}] /\ lease \in [Reqs -> {NoLease}] /\ panic = "none"
      BY DEF Init
    <3>6. /\ xid \in [Attempts -> Attempts] /\ done \in [Attempts -> {"open"}]
          /\ typ \in [Attempts -> {"none"}] /\ ex \in [Attempts -> {"none"}]
          /\ ret \in [Attempts -> {"none"}] /\ snd \in [Attempts -> {"none"}]
      BY DEF Init
    <3>7. store \in [Attempts -> {NoLease}] /\ held = {} /\ net = {} /\ cln = {}
      BY DEF Init
    <3> QED
      BY <3>1, <3>2, <3>3, <3>4, <3>5, <3>6, <3>7 DEF TypeOK
  <2>3. CurrentInv
    BY <2>1 DEF Init, CurrentInv
  <2> QED
    BY <2>2, <2>3
<1>2. Inv /\ [Next]_vars => Inv'
  <2> SUFFICES ASSUME TypeOK, CurrentInv, [Next]_vars PROVE TypeOK' /\ CurrentInv'
    OBVIOUS
  <2> USE MaxTriesAssumption, NoLeaseAssumption DEF TypeOK, CurrentInv
  <2>0. ASSUME NEW r \in Reqs, pc[r] \in {"wait", "sleep", "get", "releasing"}
        PROVE  Cur(r) \in Attempts
    BY <2>0 DEF Cur, Attempts
  <2>1. ASSUME NEW r \in Reqs, NewAttempt(r) PROVE TypeOK' /\ CurrentInv'
    <3>1. tries[r] + 1 \in 1..MaxTries
      BY <2>1 DEF NewAttempt, Limit
    <3>2. <<r, tries[r] + 1>> \in Attempts
      BY <3>1 DEF Attempts
    <3>3. phase[r] = "request" => xid[lease[r]] \in Attempts
      BY <2>1 DEF NewAttempt
    <3>4. TypeOK'
      BY <2>1, <3>1, <3>2, <3>3 DEF NewAttempt
    <3>5. CurrentInv'
      BY <2>1, <3>1 DEF NewAttempt
    <3> QED
      BY <3>4, <3>5
  <2>2. ASSUME NEW r \in Reqs, GiveUp(r) PROVE TypeOK' /\ CurrentInv'
    BY <2>2 DEF GiveUp, reqVars, attVars, Owner
  <2>3. ASSUME NEW r \in Reqs, WaitReply(r) PROVE TypeOK' /\ CurrentInv'
    BY <2>0, <2>3 DEF WaitReply, reqVars, attVars, Owner
  <2>4. ASSUME NEW r \in Reqs, WaitTimeout(r) PROVE TypeOK' /\ CurrentInv'
    BY <2>4 DEF WaitTimeout, reqVars, attVars, Owner
  <2>5. ASSUME NEW r \in Reqs, SleepOver(r) PROVE TypeOK' /\ CurrentInv'
    BY <2>5 DEF SleepOver, reqVars, attVars, Owner
  <2>6. ASSUME NEW r \in Reqs, SleepCancelled(r) PROVE TypeOK' /\ CurrentInv'
    BY <2>6 DEF SleepCancelled, reqVars, attVars, Owner
  <2>7. ASSUME NEW r \in Reqs, StoreGet(r) PROVE TypeOK' /\ CurrentInv'
    BY <2>0, <2>7 DEF StoreGet, reqVars, attVars, Owner, Finished
  <2>8. ASSUME NEW r \in Reqs, StoreRemove(r) PROVE TypeOK' /\ CurrentInv'
    BY <2>8 DEF StoreRemove, Deleted, HeldBy, reqVars, attVars
  <2>9. ASSUME NEW r \in Reqs, Respond(r) PROVE TypeOK' /\ CurrentInv'
    BY <2>9 DEF Respond, reqVars, attVars, Owner, Status
  <2>10. ASSUME NEW r \in Reqs, StartRelease(r) PROVE TypeOK' /\ CurrentInv'
    <3>1. 1 \in 0..MaxTries
      OBVIOUS
    <3>2. <<r, 1>> \in Attempts
      BY DEF Attempts
    <3>3. TypeOK'
      BY <2>10, <3>1, <3>2 DEF StartRelease
    <3>4. CurrentInv'
      BY <2>10 DEF StartRelease
    <3> QED
      BY <3>3, <3>4
  <2>11. ASSUME NEW r \in Reqs, ReleaseEnd(r) PROVE TypeOK' /\ CurrentInv'
    BY <2>11 DEF ReleaseEnd, reqVars, attVars
  <2>12. ASSUME NEW r \in Reqs, WebTimeout(r) PROVE TypeOK' /\ CurrentInv'
    BY <2>12 DEF WebTimeout, reqVars, attVars, Owner
  <2>13. ASSUME NEW a \in Attempts, Prepare(a) PROVE TypeOK' /\ CurrentInv'
    BY <2>13 DEF Prepare, reqVars, attVars, Owner, IsDiscover
  <2>14. ASSUME NEW a \in Attempts, StoreSet(a) PROVE TypeOK' /\ CurrentInv'
    BY <2>14 DEF StoreSet, reqVars, attVars, Owner
  <2>15. ASSUME NEW a \in Attempts, ErrorRemove(a) PROVE TypeOK' /\ CurrentInv'
    BY <2>15 DEF ErrorRemove, Deleted, reqVars, attVars, Owner
  <2>16. ASSUME NEW a \in Attempts, SelectDone(a) PROVE TypeOK' /\ CurrentInv'
    BY <2>16 DEF SelectDone, reqVars, attVars, Owner
  <2>17. ASSUME NEW a \in Attempts, SelectCtx(a) PROVE TypeOK' /\ CurrentInv'
    BY <2>17 DEF SelectCtx, reqVars, attVars, Owner, Failed, IsDiscover
  <2>18. ASSUME NEW a \in Attempts, TimerExpires(a) PROVE TypeOK' /\ CurrentInv'
    BY <2>18 DEF TimerExpires, reqVars, attVars, Owner
  <2>19. ASSUME NEW a \in Attempts, SendOk(a) PROVE TypeOK' /\ CurrentInv'
    BY <2>19 DEF SendOk, reqVars, attVars, Owner
  <2>20. ASSUME NEW a \in Attempts, SendFail(a) PROVE TypeOK' /\ CurrentInv'
    BY <2>20 DEF SendFail, reqVars, attVars, Owner, Failed, IsDiscover
  <2>21. ASSUME NEW a \in Attempts, ServerAnswer(a) PROVE TypeOK' /\ CurrentInv'
    BY <2>21 DEF ServerAnswer, reqVars, attVars, Owner, Packets, AnswerTypes, IsDiscover
  <2>22. ASSUME NEW m \in net, Receive(m) PROVE TypeOK' /\ CurrentInv'
    BY <2>22 DEF Receive, reqVars, attVars, Owner, Packets
  <2>23. CASE Process
    BY <2>23 DEF Process, reqVars, attVars, CheckResponseType, NoPacket, AnswerTypes
  <2>24. CASE Clean
    BY <2>24 DEF Clean, reqVars, attVars, Owner
  <2>25. ASSUME NEW S \in SUBSET Attempts, CleanList(S) PROVE TypeOK' /\ CurrentInv'
    BY <2>25 DEF CleanList, reqVars, attVars
  <2>26. ASSUME NEW a \in Attempts, Jam(a) PROVE TypeOK' /\ CurrentInv'
    BY <2>26 DEF Jam, reqVars, attVars
  <2>27. CASE UNCHANGED vars
    BY <2>27 DEF vars, reqVars, attVars, Cur
  <2> QED
    BY <2>1, <2>2, <2>3, <2>4, <2>5, <2>6, <2>7, <2>8, <2>9, <2>10, <2>11, <2>12, <2>13, <2>14, <2>15, <2>16, <2>17, <2>18, <2>19, <2>20, <2>21, <2>22, <2>23, <2>24, <2>25, <2>26, <2>27 DEF Next, Request, Exchange, Environment
<1> QED
  BY <1>1, <1>2, PTL DEF Spec

(* The inductive invariant *)

\* Everything but the cleaner's list and the jammed connection.
clientVars == <<reqVars, attVars, store, held, rcv, net, panic>>

\* The steps that leave all of that alone: outdated() only makes a list, and
\* a send that gets stuck changes nothing but the connection.
LEMMA AsideStep ==
    ASSUME (\E a \in Attempts : Jam(a)) \/ (\E S \in SUBSET Attempts : CleanList(S)) \/ UNCHANGED vars
    PROVE  UNCHANGED clientVars
  BY DEF Jam, CleanList, vars, clientVars

\* An attempt is a request and a number; two attempts with both in common
\* are one Lease object.
LEMMA AttemptParts ==
    ASSUME NEW a \in Attempts
    PROVE  a[1] \in Reqs /\ a[2] \in 1..MaxTries /\ a = <<a[1], a[2]>>
  BY DEF Attempts

\* The current attempt of a goroutine in wait(), sleep() or store.Get is
\* one of the attempts of that request.
LEMMA CurType ==
    ASSUME TypeOK, CurrentInv, NEW r \in Reqs,
           pc[r] \in {"wait", "sleep", "get", "releasing"}
    PROVE  Cur(r) \in Attempts /\ Owner(Cur(r)) = r
  BY MaxTriesAssumption DEF TypeOK, CurrentInv, Cur, Attempts, Owner

\* The Lease object a loop of GetLease or Renew makes is a new one: its
\* exchange has not run, and no transaction, store entry or request knows it.
LEMMA NewAttemptFresh ==
    ASSUME TypeOK, CurrentInv, IInv, NEW r \in Reqs, NewAttempt(r)
    PROVE  LET a == <<r, tries[r] + 1>> IN
           /\ a \in Attempts
           /\ a[1] = r
           /\ a[2] = tries[r] + 1
           /\ ex[a] = "none"
           /\ xid[a] = a
           /\ phase[r] = "request" =>
                /\ lease[r] \in Attempts
                /\ lease[r] # a
                /\ IsDiscover(lease[r])
                /\ done[lease[r]] = "closed"
<1> DEFINE a == <<r, tries[r] + 1>>
<1>1. tries[r] + 1 \in 1..MaxTries
  BY MaxTriesAssumption DEF TypeOK, NewAttempt, Limit
<1>2. a \in Attempts /\ a[1] = r /\ a[2] = tries[r] + 1
  BY <1>1 DEF Attempts
<1>3. ex[a] = "none" /\ xid[a] = a
  <2>1. a[2] > tries[a[1]]
    BY <1>1, <1>2 DEF TypeOK
  <2> QED
    BY <1>2, <2>1 DEF IInv, FreshInv
<1>4. phase[r] = "request" =>
        /\ lease[r] \in Attempts
        /\ IsDiscover(lease[r])
        /\ done[lease[r]] = "closed"
  BY DEF NewAttempt, IInv, PhaseInv, HandInv, TypeOK, CurrentInv
<1>5. lease[r] # a
  BY <1>2, <1>3 DEF IInv, FreshInv, Started
<1> QED
  BY <1>2, <1>3, <1>4, <1>5

\* XidInv is inductive: no step of client.go mixes the transactions of two
\* requests, and only GetLease's request loop repeats an xid.
LEMMA XidStep ==
    ASSUME TypeOK, CurrentInv, IInv, [Next]_vars
    PROVE  XidInv'
<1> USE NoLeaseAssumption, MaxTriesAssumption DEF TypeOK, CurrentInv, XidInv, IInv, Owner, IsDiscover
<1>1. ASSUME UNCHANGED <<xid, done, store, lease>> PROVE XidInv'
  BY <1>1
<1>2. ASSUME NEW r \in Reqs, NewAttempt(r) PROVE XidInv'
  <2> DEFINE n == <<r, tries[r] + 1>>
  <2>1. n \in Attempts /\ n[1] = r /\ n[2] = tries[r] + 1 /\ ex[n] = "none" /\ xid[n] = n
    BY <1>2, NewAttemptFresh
  <2>2. phase[r] = "request" =>
          /\ lease[r] \in Attempts /\ lease[r] # n
          /\ IsDiscover(lease[r]) /\ done[lease[r]] = "closed"
    BY <1>2, NewAttemptFresh
  <2>3. /\ tries' = [tries EXCEPT ![r] = @ + 1]
        /\ xid' = [xid EXCEPT ![n] = IF phase[r] = "request" THEN xid[lease[r]] ELSE n]
        /\ typ' = [typ EXCEPT ![n] = IF phase[r] = "discover" THEN "Discover" ELSE "Request"]
        /\ ex'  = [ex EXCEPT ![n] = "spawn"]
        /\ pc'  = [pc EXCEPT ![r] = "wait"]
        /\ UNCHANGED <<phase, lease, ctx, out, done, timer, ret, snd, store, held, rcv, net, panic>>
    BY <1>2 DEF NewAttempt
  <2> HIDE DEF n
  <2>4. \A x \in Attempts : store[x] # n /\ (x # n => xid[x] # n)
    BY <2>1 DEF FreshInv, Started
  <2> QED
    BY <2>1, <2>2, <2>3, <2>4
<1>3. ASSUME NEW r \in Reqs, GiveUp(r) PROVE XidInv'
  BY <1>3 DEF GiveUp, reqVars, attVars
<1>4. ASSUME NEW r \in Reqs, WaitReply(r) PROVE XidInv'
  BY <1>4, CurType DEF WaitReply
<1>5. ASSUME NEW r \in Reqs, SleepCancelled(r) PROVE XidInv'
  BY <1>5 DEF SleepCancelled, reqVars, attVars
<1>6. ASSUME NEW r \in Reqs, StoreGet(r) PROVE XidInv'
  <2>1. Cur(r) \in Attempts /\ Owner(Cur(r)) = r
    BY <1>6, CurType DEF StoreGet
  <2>2. lease' = lease \/ lease' = [lease EXCEPT ![r] = store[xid[Cur(r)]]]
    BY <1>6 DEF StoreGet
  <2> QED
    BY <1>6, <2>1, <2>2 DEF StoreGet, attVars
<1>7. ASSUME NEW r \in Reqs, StoreRemove(r) PROVE XidInv'
  BY <1>7 DEF StoreRemove, Deleted, reqVars, attVars
<1>8. ASSUME NEW a \in Attempts, StoreSet(a) PROVE XidInv'
  BY <1>8 DEF StoreSet, reqVars, attVars
<1>9. ASSUME NEW a \in Attempts, ErrorRemove(a) PROVE XidInv'
  BY <1>9 DEF ErrorRemove, Deleted, reqVars, attVars
<1>10. CASE Process
  BY <1>10 DEF Process, CheckResponseType, reqVars, attVars
<1>11. CASE Clean
  BY <1>11 DEF Clean, reqVars, attVars
<1>12. ASSUME NEW r \in Reqs,
            WaitTimeout(r) \/ SleepOver(r) \/ Respond(r) \/ StartRelease(r)
            \/ ReleaseEnd(r) \/ WebTimeout(r)
      PROVE XidInv'
  BY <1>1, <1>12 DEF WaitTimeout, SleepOver, Respond, StartRelease, ReleaseEnd, WebTimeout, reqVars, attVars
<1>13. ASSUME NEW a \in Attempts,
            Prepare(a) \/ SelectDone(a) \/ SelectCtx(a) \/ TimerExpires(a)
            \/ SendOk(a) \/ SendFail(a) \/ ServerAnswer(a)
      PROVE XidInv'
  BY <1>1, <1>13 DEF Prepare, SelectDone, SelectCtx, TimerExpires, SendOk, SendFail, ServerAnswer, reqVars, attVars
<1>14. ASSUME NEW m \in net,
            Receive(m)
      PROVE XidInv'
  BY <1>1, <1>14 DEF Receive, reqVars, attVars
<1>15. CASE UNCHANGED clientVars
  BY <1>1, <1>15 DEF clientVars, reqVars, attVars
<1> QED
  BY <1>1, <1>2, <1>3, <1>4, <1>5, <1>6, <1>7, <1>8, <1>9, <1>10, <1>11, <1>12, <1>13, <1>14, <1>15, AsideStep DEF Next, Request, Exchange, Environment

\* FreshInv is inductive: before store.Set nobody but the exchange goroutine
\* reaches its Lease object.
LEMMA FreshStep ==
    ASSUME TypeOK, CurrentInv, IInv, [Next]_vars
    PROVE  FreshInv'
<1> USE NoLeaseAssumption, MaxTriesAssumption DEF TypeOK, CurrentInv, FreshInv, IInv, Owner, Started
<1>1. ASSUME UNCHANGED <<tries, ex, xid, done, ret, typ, snd, rcv, store, lease>> PROVE FreshInv'
  BY <1>1
<1>2. ASSUME NEW r \in Reqs, NewAttempt(r) PROVE FreshInv'
  <2> DEFINE n == <<r, tries[r] + 1>>
  <2>1. n \in Attempts /\ n[1] = r /\ n[2] = tries[r] + 1 /\ ex[n] = "none" /\ xid[n] = n
    BY <1>2, NewAttemptFresh
  <2>2. phase[r] = "request" =>
          /\ lease[r] \in Attempts /\ lease[r] # n
          /\ IsDiscover(lease[r]) /\ done[lease[r]] = "closed"
    BY <1>2, NewAttemptFresh
  <2>3. /\ tries' = [tries EXCEPT ![r] = @ + 1]
        /\ xid' = [xid EXCEPT ![n] = IF phase[r] = "request" THEN xid[lease[r]] ELSE n]
        /\ typ' = [typ EXCEPT ![n] = IF phase[r] = "discover" THEN "Discover" ELSE "Request"]
        /\ ex'  = [ex EXCEPT ![n] = "spawn"]
        /\ pc'  = [pc EXCEPT ![r] = "wait"]
        /\ UNCHANGED <<phase, lease, ctx, out, done, timer, ret, snd, store, held, rcv, net, panic>>
    BY <1>2 DEF NewAttempt
  <2> HIDE DEF n
  <2>4. \A a \in Attempts : a[1] \in Reqs /\ a[2] \in 1..MaxTries
    BY AttemptParts
  <2>5. ASSUME NEW a \in Attempts, a[2] > tries'[a[1]]
        PROVE  ex'[a] = "none" /\ xid'[a] = a
    BY <2>1, <2>3, <2>4, <2>5
  <2>6. ASSUME NEW a \in Attempts, ~Started(a)'
        PROVE  \A x \in Attempts : x # a => xid'[x] # a
    BY <2>1, <2>2, <2>3, <2>6 DEF IsDiscover
  <2>7. ASSUME NEW a \in Attempts, ~Started(a)'
        PROVE  typ'[a] \notin AnswerTypes
    BY <2>1, <2>3, <2>7 DEF AnswerTypes
  <2> QED
    BY <2>1, <2>3, <2>5, <2>6, <2>7
<1>3. ASSUME NEW r \in Reqs, GiveUp(r) PROVE FreshInv'
  BY <1>3 DEF GiveUp, reqVars, attVars
<1>4. ASSUME NEW r \in Reqs, WaitReply(r) PROVE FreshInv'
  BY <1>4, CurType DEF WaitReply
<1>5. ASSUME NEW r \in Reqs, SleepCancelled(r) PROVE FreshInv'
  BY <1>5 DEF SleepCancelled, reqVars, attVars
<1>6. ASSUME NEW r \in Reqs, StoreGet(r) PROVE FreshInv'
  BY <1>6 DEF StoreGet, Finished, reqVars, attVars
<1>7. ASSUME NEW r \in Reqs, StoreRemove(r) PROVE FreshInv'
  BY <1>7 DEF StoreRemove, Deleted, reqVars, attVars
<1>8. ASSUME NEW r \in Reqs, StartRelease(r) PROVE FreshInv'
  <2> DEFINE n == <<r, 1>>
  <2>1. n \in Attempts /\ n[1] = r /\ n[2] = 1 /\ ex[n] = "none" /\ tries[r] = 0
    <3>1. n \in Attempts /\ n[1] = r /\ n[2] = 1
      BY DEF Attempts
    <3>2. tries[r] = 0
      BY <1>8 DEF StartRelease, PhaseInv
    <3> QED
      BY <3>1, <3>2 DEF FreshInv
  <2>2. /\ r \in ReleaseReqs
        /\ tries' = [tries EXCEPT ![r] = 1]
        /\ typ' = [typ EXCEPT ![n] = "Release"]
        /\ snd' = [snd EXCEPT ![n] = "pending"]
        /\ pc' = [pc EXCEPT ![r] = "releasing"]
        /\ UNCHANGED <<phase, lease, ctx, out, xid, done, timer, ex, ret, store, held, rcv, net, panic>>
    BY <1>8 DEF StartRelease
  <2> HIDE DEF n
  <2>3. \A a \in Attempts : a[1] \in Reqs /\ a[2] \in 1..MaxTries
    BY AttemptParts
  <2> QED
    <3>1. ASSUME NEW a \in Attempts, a[2] > tries'[a[1]]
          PROVE  ex'[a] = "none" /\ xid'[a] = a
      BY <2>1, <2>2, <2>3, <3>1
    <3>2. ASSUME NEW a \in Attempts, ~Started(a)'
          PROVE  typ'[a] \notin AnswerTypes /\ (Owner(a) \in ReleaseReqs \/ snd'[a] = "none")
      BY <2>1, <2>2, <3>2 DEF AnswerTypes
    <3> QED
      BY <2>2, <3>1, <3>2
<1>9. ASSUME NEW a \in Attempts, Prepare(a) PROVE FreshInv'
  BY <1>9 DEF Prepare, AnswerTypes, reqVars
<1>10. ASSUME NEW a \in Attempts, StoreSet(a) PROVE FreshInv'
  BY <1>10 DEF StoreSet, reqVars, attVars
<1>11. ASSUME NEW a \in Attempts, ErrorRemove(a) PROVE FreshInv'
  BY <1>11 DEF ErrorRemove, Deleted, reqVars, attVars
<1>12. ASSUME NEW a \in Attempts, SelectDone(a) PROVE FreshInv'
  BY <1>12 DEF SelectDone, reqVars, attVars
<1>13. ASSUME NEW a \in Attempts, SelectCtx(a) PROVE FreshInv'
  BY <1>13 DEF SelectCtx, Failed, reqVars, attVars
<1>14. ASSUME NEW a \in Attempts, SendOk(a) PROVE FreshInv'
  BY <1>14 DEF SendOk, reqVars, attVars
<1>15. ASSUME NEW a \in Attempts, SendFail(a) PROVE FreshInv'
  BY <1>15 DEF SendFail, Failed, reqVars, attVars
<1>16. ASSUME NEW m \in net, Receive(m) PROVE FreshInv'
  BY <1>16 DEF Receive, Packets, reqVars, attVars
<1>17. CASE Process
  <2>1. rcv.lease \in Attempts /\ Started(rcv.lease)
    BY <1>17 DEF Process, PacketInv
  <2>2. rcv'.lease = NoLease
    BY <1>17 DEF Process, NoPacket
  <2>3. typ' = typ \/ typ' = [typ EXCEPT ![rcv.lease] = rcv.type]
    BY <1>17 DEF Process
  <2>4. done' = done \/ done' = [done EXCEPT ![rcv.lease] = "closed"]
    BY <1>17 DEF Process
  <2>5. UNCHANGED <<reqVars, xid, ex, ret, snd, store>>
    BY <1>17 DEF Process
  <2> QED
    BY <2>1, <2>2, <2>3, <2>4, <2>5 DEF reqVars
<1>18. CASE Clean
  BY <1>18 DEF Clean, reqVars, attVars
<1>19. ASSUME NEW r \in Reqs,
            WaitTimeout(r) \/ SleepOver(r) \/ Respond(r) \/ ReleaseEnd(r) \/
            WebTimeout(r)
      PROVE FreshInv'
  BY <1>1, <1>19 DEF WaitTimeout, SleepOver, Respond, ReleaseEnd, WebTimeout, reqVars, attVars
<1>20. ASSUME NEW a \in Attempts,
            TimerExpires(a) \/ ServerAnswer(a)
      PROVE FreshInv'
  BY <1>1, <1>20 DEF TimerExpires, ServerAnswer, reqVars, attVars
<1>21. CASE UNCHANGED clientVars
  BY <1>1, <1>21 DEF clientVars, reqVars, attVars
<1> QED
  BY <1>1, <1>2, <1>3, <1>4, <1>5, <1>6, <1>7, <1>8, <1>9, <1>10, <1>11, <1>12, <1>13, <1>14, <1>15, <1>16, <1>17, <1>18, <1>19, <1>20, <1>21, AsideStep DEF Next, Request, Exchange, Environment

\* A request that is gone stays gone, and a step that does not make it so
\* leaves the others as they are.
LEMMA GoneStep ==
    ASSUME TypeOK, [Next]_vars, NEW r \in Reqs, Gone(r)
    PROVE  Gone(r)'
<1> USE DEF TypeOK, Gone
<1>1. ASSUME NEW q \in Reqs, Request(q) PROVE q # r /\ jam' = jam
  BY <1>1 DEF Request, NewAttempt, GiveUp, WaitReply, WaitTimeout, SleepOver, SleepCancelled,
              StoreGet, StoreRemove, Respond, StartRelease, ReleaseEnd
<1>2. ASSUME NEW q \in Reqs, Request(q) PROVE pc'[r] = pc[r] /\ ctx'[r] = ctx[r]
  <2>1. CASE NewAttempt(q) \/ GiveUp(q) \/ WaitTimeout(q) \/ SleepOver(q) \/ SleepCancelled(q)
    BY <1>1, <2>1 DEF Request, NewAttempt, GiveUp, WaitTimeout, SleepOver, SleepCancelled
  <2>2. CASE WaitReply(q)
    BY <1>1, <2>2 DEF Request, WaitReply
  <2>3. CASE StoreGet(q)
    BY <1>1, <2>3 DEF Request, StoreGet
  <2>4. CASE StoreRemove(q)
    BY <1>1, <2>4 DEF Request, StoreRemove
  <2>5. CASE Respond(q) \/ StartRelease(q) \/ ReleaseEnd(q)
    BY <1>1, <2>5 DEF Request, Respond, StartRelease, ReleaseEnd
  <2> QED
    BY <1>2, <2>1, <2>2, <2>3, <2>4, <2>5 DEF Request
<1>3. ASSUME NEW q \in Reqs, WebTimeout(q) PROVE Gone(r)'
  BY <1>3 DEF WebTimeout
<1>4. ASSUME NEW a \in Attempts, Exchange(a) \/ Environment(a)
      PROVE  pc' = pc /\ ctx' = ctx /\ (jam => jam')
  BY <1>4 DEF Exchange, Environment, Prepare, StoreSet, ErrorRemove, SelectDone, SelectCtx,
              TimerExpires, SendOk, SendFail, Jam, ServerAnswer, reqVars
<1>5. ASSUME (\E m \in net : Receive(m)) \/ Process \/ (\E S \in SUBSET Attempts : CleanList(S)) \/ Clean
      PROVE  pc' = pc /\ ctx' = ctx /\ jam' = jam
  BY <1>5 DEF Receive, Process, CleanList, Clean, reqVars
<1>6. CASE UNCHANGED vars
  BY <1>6 DEF vars, reqVars
<1> QED
  BY <1>1, <1>2, <1>3, <1>4, <1>5, <1>6 DEF Next

\* CleanInv is inductive when an entry's ttl outlasts its request: outdated()
\* lists entries of requests that are gone.
LEMMA CleanStep ==
    ASSUME TypeOK, CurrentInv, IInv, [Next]_vars, ~ShortTTL
    PROVE  CleanInv'
<1> SUFFICES ASSUME NEW x \in cln' PROVE Gone(Owner(x))'
  BY DEF CleanInv, Owner
<1>0. \A a \in Attempts : Owner(a) \in Reqs
  BY AttemptParts DEF Owner
<1>1. CASE x \in cln
  <2>1. Owner(x) \in Reqs /\ Gone(Owner(x))
    BY <1>0, <1>1 DEF IInv, CleanInv, TypeOK
  <2> QED
    BY <2>1, GoneStep
<1>2. CASE x \notin cln
  <2>1. PICK S \in SUBSET Attempts : CleanList(S)
    BY <1>2 DEF Next, Request, Exchange, Environment, NewAttempt, GiveUp, WaitReply, WaitTimeout, SleepOver,
       SleepCancelled, StoreGet, StoreRemove, Respond, StartRelease, ReleaseEnd, WebTimeout, Prepare,
       StoreSet, ErrorRemove, SelectDone, SelectCtx, TimerExpires, SendOk, SendFail, Jam, ServerAnswer,
       Receive, Process, Clean, vars
  <2>2. x \in Attempts /\ store[x] # NoLease /\ Gone(Owner(store[x]))
    BY <2>1 DEF CleanList, Outdated
  <2>3. Owner(store[x]) = Owner(x)
    BY <2>2 DEF IInv, XidInv, TypeOK
  <2> QED
    BY <1>0, <2>2, <2>3, GoneStep
<1> QED
  BY <1>1, <1>2

\* SignalInv is inductive: Clean's Done <- true is for a request that is gone,
\* and an exchange gives back a lease only when something came out of Done.
LEMMA SignalStep ==
    ASSUME TypeOK, CurrentInv, IInv, [Next]_vars
    PROVE  SignalInv'
<1> USE NoLeaseAssumption, MaxTriesAssumption DEF TypeOK
<1>0. \A a \in Attempts : Owner(a) \in Reqs
  BY AttemptParts DEF Owner
<1>1. ASSUME NEW a \in Attempts, done[a] = "sent" PROVE Gone(Owner(a))'
  BY <1>0, <1>1, GoneStep DEF IInv, SignalInv
<1>2. ASSUME NEW a \in Attempts, ret[a] = "lease" PROVE done[a] # "open"
  BY <1>2 DEF IInv, SignalInv
<1>3. ASSUME UNCHANGED <<done, ret>> PROVE SignalInv'
  BY <1>1, <1>2, <1>3 DEF SignalInv
<1>4. ASSUME NEW r \in Reqs, Request(r) \/ WebTimeout(r) PROVE UNCHANGED <<done, ret>>
  BY <1>4 DEF Request, NewAttempt, GiveUp, WaitReply, WaitTimeout, SleepOver, SleepCancelled, StoreGet,
              StoreRemove, Respond, StartRelease, ReleaseEnd, WebTimeout, attVars
<1>5. ASSUME NEW a \in Attempts, Prepare(a) \/ StoreSet(a) \/ TimerExpires(a) \/ SendOk(a) \/ ServerAnswer(a)
      PROVE  UNCHANGED <<done, ret>>
  BY <1>5 DEF Prepare, StoreSet, TimerExpires, SendOk, ServerAnswer, attVars
<1>6. ASSUME NEW a \in Attempts, ErrorRemove(a) \/ SelectCtx(a) \/ SendFail(a) PROVE SignalInv'
  <2>1. done' = done /\ \A b \in Attempts : ret'[b] = "lease" => ret[b] = "lease"
    BY <1>6 DEF ErrorRemove, SelectCtx, SendFail, Failed
  <2> QED
    BY <1>1, <1>2, <2>1 DEF SignalInv
<1>7. ASSUME NEW a \in Attempts, SelectDone(a) PROVE SignalInv'
  <2>1. done' = done /\ done[a] # "open" /\ \A b \in Attempts : ret'[b] = "lease" => b = a \/ ret[b] = "lease"
    BY <1>7 DEF SelectDone
  <2> QED
    BY <1>1, <1>2, <2>1 DEF SignalInv
<1>8. CASE Process
  <2>1. ret' = ret /\ \A b \in Attempts : done'[b] = done[b] \/ done'[b] = "closed"
    BY <1>8 DEF Process
  <2> QED
    BY <1>1, <1>2, <2>1 DEF SignalInv
<1>9. CASE Clean
  <2>1. /\ ret' = ret
        /\ \A b \in Attempts : done'[b] = done[b] \/ (done'[b] = "sent" /\ \E x \in cln : store[x] = b)
    BY <1>9 DEF Clean
  <2>2. \A b \in Attempts : \A x \in cln : store[x] = b => Gone(Owner(b))'
    <3> SUFFICES ASSUME NEW b \in Attempts, NEW x \in cln, store[x] = b PROVE Gone(Owner(b))'
      OBVIOUS
    <3>1. x \in Attempts /\ Owner(b) = Owner(x)
      BY DEF IInv, XidInv
    <3>2. Gone(Owner(x))
      BY DEF IInv, CleanInv
    <3> QED
      BY <1>0, <3>1, <3>2, GoneStep
  <2> QED
    BY <1>1, <1>2, <2>1, <2>2 DEF SignalInv
<1>10. ASSUME NEW m \in net, Receive(m) PROVE UNCHANGED <<done, ret>>
  BY <1>10 DEF Receive, attVars
<1>11. CASE UNCHANGED clientVars
  BY <1>3, <1>11 DEF clientVars, attVars
<1> QED
  BY <1>3, <1>4, <1>5, <1>6, <1>7, <1>8, <1>9, <1>10, <1>11, AsideStep DEF Next, Exchange, Environment

\* DoneInv is inductive: processDHCPReponse closes Done exactly when it gives
\* the lease the type of an answer that was sent for it.
LEMMA DoneStep ==
    ASSUME TypeOK, CurrentInv, IInv, [Next]_vars
    PROVE  DoneInv'
<1> USE NoLeaseAssumption, MaxTriesAssumption DEF TypeOK, CurrentInv, DoneInv, IInv, Owner, Answer, IsDiscover
<1>1. ASSUME UNCHANGED <<typ, done, xid, net>> PROVE DoneInv'
  BY <1>1
<1>2. ASSUME NEW r \in Reqs, NewAttempt(r) PROVE DoneInv'
  <2> DEFINE n == <<r, tries[r] + 1>>
  <2>1. n \in Attempts /\ n[1] = r /\ n[2] = tries[r] + 1 /\ ex[n] = "none" /\ xid[n] = n
    BY <1>2, NewAttemptFresh
  <2>2. phase[r] = "request" =>
          /\ lease[r] \in Attempts /\ lease[r] # n
          /\ IsDiscover(lease[r]) /\ done[lease[r]] = "closed"
    BY <1>2, NewAttemptFresh
  <2>3. /\ tries' = [tries EXCEPT ![r] = @ + 1]
        /\ xid' = [xid EXCEPT ![n] = IF phase[r] = "request" THEN xid[lease[r]] ELSE n]
        /\ typ' = [typ EXCEPT ![n] = IF phase[r] = "discover" THEN "Discover" ELSE "Request"]
        /\ ex'  = [ex EXCEPT ![n] = "spawn"]
        /\ pc'  = [pc EXCEPT ![r] = "wait"]
        /\ UNCHANGED <<phase, lease, ctx, out, done, timer, ret, snd, store, held, rcv, net, panic>>
    BY <1>2 DEF NewAttempt
  <2>4. done[n] = "open"
    BY <2>1 DEF FreshInv, Started
  <2>5. phase[r] = "discover" => r \in LeaseReqs
    BY DEF PhaseInv
  <2> HIDE DEF n
  <2>6. /\ typ'[n] = IF phase[r] = "discover" THEN "Discover" ELSE "Request"
        /\ phase[r] = "discover" => xid'[n] = n
        /\ done'[n] = "open"
    BY <2>1, <2>3, <2>4
  <2>7. ASSUME NEW b \in Attempts, b # n
        PROVE  typ'[b] = typ[b] /\ done'[b] = done[b] /\ xid'[b] = xid[b] /\ net' = net
    BY <2>3, <2>7
  <2> HIDE DEF TypeOK, CurrentInv, IInv
  <2>8. /\ typ'[n] \notin AnswerTypes
        /\ typ'[n] = "Discover" => n[1] \in LeaseReqs /\ xid'[n] = n
    BY <2>1, <2>5, <2>6 DEF AnswerTypes
  <2>9. DoneInv
    BY DEF IInv
  <2>10. ASSUME NEW b \in Attempts, b # n
         PROVE  /\ typ'[b] \in AnswerTypes => done'[b] = "closed" /\ Answer(b, typ[b])'
                /\ done'[b] = "closed" =>
                     IF IsDiscover(b)' THEN typ'[b] \in {"Offer", "Request"} /\ Answer(b, "Offer")'
                                       ELSE typ'[b] \in {"Ack", "Nak"}
                /\ typ'[b] = "Discover" => IsDiscover(b)'
    BY <2>7, <2>9, <2>10
  <2> QED
    BY <2>6, <2>8, <2>10
<1>3. ASSUME NEW r \in Reqs, StartRelease(r) PROVE DoneInv'
  <2> DEFINE n == <<r, 1>>
  <2>1. n \in Attempts /\ n[1] = r /\ n[2] = 1 /\ ex[n] = "none" /\ tries[r] = 0
    <3>1. n \in Attempts /\ n[1] = r /\ n[2] = 1
      BY DEF Attempts
    <3>2. tries[r] = 0
      BY <1>3 DEF StartRelease, PhaseInv
    <3> QED
      BY <3>1, <3>2 DEF FreshInv
  <2>2. /\ r \in ReleaseReqs
        /\ tries' = [tries EXCEPT ![r] = 1]
        /\ typ' = [typ EXCEPT ![n] = "Release"]
        /\ snd' = [snd EXCEPT ![n] = "pending"]
        /\ pc' = [pc EXCEPT ![r] = "releasing"]
        /\ UNCHANGED <<phase, lease, ctx, out, xid, done, timer, ex, ret, store, held, rcv, net, panic>>
    BY <1>3 DEF StartRelease
  <2> HIDE DEF n
  <2> QED
    BY <2>1, <2>2 DEF AnswerTypes, FreshInv, Started
<1>4. ASSUME NEW a \in Attempts, Prepare(a) PROVE DoneInv'
  <2>1. UNCHANGED <<done, xid, net, ret>> /\ ex' = [ex EXCEPT ![a] = "set"]
    BY <1>4 DEF Prepare
  <2>2. typ' = typ \/ (~IsDiscover(a) /\ typ' = [typ EXCEPT ![xid[a]] = "Request"])
    BY <1>4 DEF Prepare
  <2>3. done[a] = "open"
    BY <1>4 DEF Prepare, FreshInv, Started
  <2>4. xid[a] # a => IsDiscover(xid[a])
    BY DEF XidInv
  <2>5. ASSUME NEW b \in Attempts, b # xid[a] PROVE typ'[b] = typ[b]
    BY <2>2, <2>5
  <2>6. CASE typ' = typ
    BY <2>1, <2>6
  <2>7. CASE ~IsDiscover(a) /\ typ' = [typ EXCEPT ![xid[a]] = "Request"]
    <3>1. xid[a] = a => done[xid[a]] = "open"
      BY <2>3
    <3>2. typ'[xid[a]] = "Request" /\ xid[a] \in Attempts
      BY <2>7
    <3>3. ASSUME NEW b \in Attempts, b = xid[a]
          PROVE  /\ typ'[b] \notin AnswerTypes /\ typ'[b] # "Discover"
                 /\ done[b] = "closed" => IsDiscover(b) /\ Answer(b, "Offer")
      BY <2>4, <3>1, <3>2, <3>3 DEF AnswerTypes
    <3>4. ASSUME NEW b \in Attempts
          PROVE  /\ IsDiscover(b)' <=> IsDiscover(b)
                 /\ Answer(b, "Offer")' <=> Answer(b, "Offer")
                 /\ Answer(b, typ[b])' <=> Answer(b, typ'[b])
      BY <2>1
    <3> HIDE DEF IsDiscover, Answer
    <3> QED
      BY <2>1, <2>5, <3>2, <3>3, <3>4
  <2> QED
    BY <2>2, <2>6, <2>7
<1>5. ASSUME NEW a \in Attempts, ServerAnswer(a) PROVE DoneInv'
  <2>1. net \subseteq net' /\ UNCHANGED <<typ, done, xid, ex, ret>>
    BY <1>5 DEF ServerAnswer, attVars
  <2> QED
    BY <2>1
<1>6. CASE Process
  <2>1. /\ rcv.lease \in Attempts
        /\ rcv.type \in AnswerTypes
        /\ Answer(rcv.lease, rcv.type)
        /\ IsDiscover(rcv.lease) => rcv.type = "Offer"
    BY <1>6 DEF Process, PacketInv
  <2>2. UNCHANGED <<xid, net, ex, ret>>
    BY <1>6 DEF Process
  <2>3. CASE ~CheckResponseType(typ[rcv.lease], rcv.type)
    <3>1. UNCHANGED <<typ, done>>
      BY <1>6, <2>3 DEF Process
    <3> QED
      BY <2>2, <3>1
  <2>4. CASE CheckResponseType(typ[rcv.lease], rcv.type)
    <3>1. /\ typ' = [typ EXCEPT ![rcv.lease] = rcv.type]
          /\ done' = [done EXCEPT ![rcv.lease] = "closed"]
      BY <1>6, <2>4 DEF Process
    <3>2. IF rcv.type = "Offer" THEN IsDiscover(rcv.lease) ELSE rcv.type \in {"Ack", "Nak"}
      BY <2>1, <2>4 DEF CheckResponseType, AnswerTypes
    <3>3. rcv.type # "Discover"
      BY <2>1 DEF AnswerTypes
    <3> QED
      BY <2>1, <2>2, <3>1, <3>2, <3>3
  <2> QED
    BY <2>3, <2>4
<1>7. CASE Clean
  BY <1>7 DEF Clean, reqVars, attVars
<1>8. ASSUME NEW r \in Reqs,
            GiveUp(r) \/ WaitReply(r) \/ WaitTimeout(r) \/ SleepOver(r) \/
            SleepCancelled(r) \/ StoreGet(r) \/ StoreRemove(r) \/ Respond(r)
            \/ ReleaseEnd(r) \/ WebTimeout(r)
      PROVE DoneInv'
  BY <1>1, <1>8 DEF GiveUp, WaitReply, WaitTimeout, SleepOver, SleepCancelled, StoreGet, StoreRemove, Respond, ReleaseEnd, WebTimeout, reqVars, attVars
<1>9. ASSUME NEW a \in Attempts,
            StoreSet(a) \/ ErrorRemove(a) \/ SelectDone(a) \/ SelectCtx(a)
            \/ TimerExpires(a) \/ SendOk(a) \/ SendFail(a)
      PROVE DoneInv'
  BY <1>1, <1>9 DEF StoreSet, ErrorRemove, SelectDone, SelectCtx, TimerExpires, SendOk, SendFail, reqVars, attVars
<1>10. ASSUME NEW m \in net,
            Receive(m)
      PROVE DoneInv'
  BY <1>1, <1>10 DEF Receive, reqVars, attVars
<1>11. CASE UNCHANGED clientVars
  BY <1>1, <1>11 DEF clientVars, reqVars, attVars
<1> QED
  BY <1>1, <1>2, <1>3, <1>4, <1>5, <1>6, <1>7, <1>8, <1>9, <1>10, <1>11, AsideStep DEF Next, Request, Exchange, Environment

\* PacketInv is inductive: the xid that GetLease's request shares with its
\* discover never lets an ACK or NAK meet the discover's Lease object.
LEMMA PacketStep ==
    ASSUME TypeOK, CurrentInv, IInv, [Next]_vars
    PROVE  PacketInv'
<1> USE NoLeaseAssumption, MaxTriesAssumption DEF TypeOK, CurrentInv, PacketInv, IInv, Owner, Answer, IsDiscover, Started
<1>1. ASSUME UNCHANGED <<net, ex, xid, store, rcv>> PROVE PacketInv'
  BY <1>1
<1>0. ASSUME UNCHANGED <<net, xid, store, rcv>>,
             \A b \in Attempts : Started(b)' <=> Started(b)
      PROVE  PacketInv'
  <2> HIDE DEF Started
  <2> QED
    BY <1>0
<1>2. ASSUME NEW r \in Reqs, NewAttempt(r) PROVE PacketInv'
  <2> DEFINE n == <<r, tries[r] + 1>>
  <2>1. n \in Attempts /\ n[1] = r /\ n[2] = tries[r] + 1 /\ ex[n] = "none" /\ xid[n] = n
    BY <1>2, NewAttemptFresh
  <2>2. phase[r] = "request" =>
          /\ lease[r] \in Attempts /\ lease[r] # n
          /\ IsDiscover(lease[r]) /\ done[lease[r]] = "closed"
    BY <1>2, NewAttemptFresh
  <2>3. /\ tries' = [tries EXCEPT ![r] = @ + 1]
        /\ xid' = [xid EXCEPT ![n] = IF phase[r] = "request" THEN xid[lease[r]] ELSE n]
        /\ typ' = [typ EXCEPT ![n] = IF phase[r] = "discover" THEN "Discover" ELSE "Request"]
        /\ ex'  = [ex EXCEPT ![n] = "spawn"]
        /\ pc'  = [pc EXCEPT ![r] = "wait"]
        /\ UNCHANGED <<phase, lease, ctx, out, done, timer, ret, snd, store, held, rcv, net, panic>>
    BY <1>2 DEF NewAttempt
  <2> HIDE DEF n
  <2>4. \A x \in Attempts : store[x] # n /\ rcv.lease # n
    BY <2>1 DEF FreshInv
  <2>5. \A b \in Attempts : Started(b) => b # n /\ Started(b)' /\ xid'[b] = xid[b]
    BY <2>1, <2>3
  <2>6. \A b \in Attempts : Started(b)' => b # n /\ Started(b)
    BY <2>1, <2>3
  <2>7. \A b \in Attempts : b # n => (IsDiscover(b)' <=> IsDiscover(b)) /\ xid'[b] = xid[b]
    BY <2>1, <2>3
  <2>8. \A m \in net : m.type # "Offer" =>
          \E b \in Attempts : Started(b)' /\ ~IsDiscover(b)' /\ xid'[b] = m.xid
    BY <2>5, <2>7
  <2>9. ASSUME NEW b \in Attempts, Started(b)', ~IsDiscover(b)', store'[xid'[b]] # NoLease
        PROVE  ~IsDiscover(store[xid[b]])'
    <3>1. Started(b) /\ ~IsDiscover(b) /\ xid'[b] = xid[b] /\ store' = store
      BY <2>3, <2>6, <2>7, <2>9
    <3>2. ~IsDiscover(store[xid[b]]) /\ store[xid[b]] \in Attempts
      BY <2>9, <3>1
    <3> QED
      BY <2>4, <2>7, <3>1, <3>2
  <2>10. rcv # NoPacket => xid'[rcv.lease] = xid[rcv.lease]
                           /\ (IsDiscover(rcv.lease)' <=> IsDiscover(rcv.lease))
    BY <2>3, <2>4, <2>7
  <2>11. rcv' # NoPacket =>
           /\ rcv'.lease \in Attempts
           /\ rcv'.type \in AnswerTypes
           /\ Answer(rcv.lease, rcv.type)'
           /\ IsDiscover(rcv.lease)' => rcv'.type = "Offer"
    BY <2>3, <2>10
  <2>12. \A m \in net' : m.type # "Offer" =>
          \E b \in Attempts : Started(b)' /\ ~IsDiscover(b)' /\ xid'[b] = m.xid
    BY <2>3, <2>8
  <2> HIDE DEF Started, IsDiscover, Answer
  <2> QED
    BY <2>9, <2>11, <2>12
<1>3. ASSUME NEW r \in Reqs, WaitReply(r) PROVE PacketInv'
  <2>1. /\ UNCHANGED <<net, xid, store, rcv>>
        /\ ex' = [ex EXCEPT ![Cur(r)] = "end"]
        /\ ex[Cur(r)] = "reply"
    BY <1>3 DEF WaitReply
  <2>2. \A b \in Attempts : Started(b)' <=> Started(b)
    BY <2>1
  <2> QED
    BY <1>0, <2>1, <2>2
<1>4. ASSUME NEW r \in Reqs, StoreRemove(r) PROVE PacketInv'
  BY <1>4 DEF StoreRemove, Deleted, reqVars, attVars
<1>5. ASSUME NEW a \in Attempts, Prepare(a) PROVE PacketInv'
  BY <1>5 DEF Prepare, reqVars, attVars
<1>6. ASSUME NEW a \in Attempts, StoreSet(a) PROVE PacketInv'
  <2>1. /\ store' = [store EXCEPT ![xid[a]] = a]
        /\ ex' = [ex EXCEPT ![a] = "send"]
        /\ UNCHANGED <<net, xid, rcv>>
    BY <1>6 DEF StoreSet
  <2>2. \A b \in Attempts : Started(b)' <=> (Started(b) \/ b = a)
    BY <2>1
  <2>3. \A b \in Attempts : b # a => xid[b] # a
    BY <1>6 DEF StoreSet, FreshInv
  <2>4. ASSUME NEW b \in Attempts, Started(b)', ~IsDiscover(b), store'[xid[b]] # NoLease
        PROVE  ~IsDiscover(store'[xid[b]])
    <3>1. CASE xid[b] = xid[a]
      BY <2>1, <2>2, <2>3, <2>4, <3>1
    <3>2. CASE xid[b] # xid[a]
      BY <2>1, <2>2, <2>4, <3>2
    <3> QED
      BY <3>1, <3>2
  <2> QED
    BY <2>1, <2>2, <2>4
<1>7. ASSUME NEW a \in Attempts, ErrorRemove(a) PROVE PacketInv'
  BY <1>7 DEF ErrorRemove, Deleted, reqVars, attVars
<1>8. ASSUME NEW a \in Attempts, SelectDone(a) PROVE PacketInv'
  <2>1. UNCHANGED <<net, xid, store, rcv>>
    BY <1>8 DEF SelectDone, reqVars
  <2>2. \A b \in Attempts : Started(b)' <=> Started(b)
    BY <1>8 DEF SelectDone, reqVars
  <2> QED
    BY <1>0, <2>1, <2>2
<1>9. ASSUME NEW a \in Attempts, SelectCtx(a) PROVE PacketInv'
  <2>1. UNCHANGED <<net, xid, store, rcv>>
    BY <1>9 DEF SelectCtx, Failed, reqVars
  <2>2. \A b \in Attempts : Started(b)' <=> Started(b)
    BY <1>9 DEF SelectCtx, Failed, reqVars
  <2> QED
    BY <1>0, <2>1, <2>2
<1>10. ASSUME NEW a \in Attempts, SendOk(a) PROVE PacketInv'
  <2>1. UNCHANGED <<net, xid, store, rcv>>
    BY <1>10 DEF SendOk, reqVars
  <2>2. \A b \in Attempts : Started(b)' <=> Started(b)
    BY <1>10 DEF SendOk, reqVars
  <2> QED
    BY <1>0, <2>1, <2>2
<1>11. ASSUME NEW a \in Attempts, SendFail(a) PROVE PacketInv'
  <2>1. UNCHANGED <<net, xid, store, rcv>>
    BY <1>11 DEF SendFail, Failed, reqVars
  <2>2. \A b \in Attempts : Started(b)' <=> Started(b)
    BY <1>11 DEF SendFail, Failed, reqVars
  <2> QED
    BY <1>0, <2>1, <2>2
<1>12. ASSUME NEW a \in Attempts, ServerAnswer(a) PROVE PacketInv'
  <2>1. /\ UNCHANGED <<ex, xid, store, rcv>>
        /\ Owner(a) \notin ReleaseReqs /\ snd[a] = "ok"
    BY <1>12 DEF ServerAnswer, attVars
  <2>2. PICK t \in AnswerTypes :
          /\ net' = net \cup {[xid |-> xid[a], type |-> t]}
          /\ t # "Offer" => ~IsDiscover(a)
    BY <1>12 DEF ServerAnswer, AnswerTypes
  <2>3. Started(a)
    BY <2>1 DEF FreshInv
  <2>4. ASSUME NEW m \in net', m.type # "Offer"
        PROVE  \E b \in Attempts : Started(b) /\ ~IsDiscover(b) /\ xid[b] = m.xid
    BY <2>2, <2>3, <2>4
  <2> QED
    BY <2>1, <2>2, <2>4
<1>13. ASSUME NEW m \in net, Receive(m) PROVE PacketInv'
  <2>1. /\ UNCHANGED <<net, ex, xid, store>>
        /\ rcv' = [lease |-> store[m.xid], type |-> m.type]
        /\ store[m.xid] # NoLease
    BY <1>13 DEF Receive, attVars
  <2>2. m.xid \in Attempts /\ m.type \in AnswerTypes /\ m = [xid |-> m.xid, type |-> m.type]
    BY DEF Packets
  <2>3. store[m.xid] \in Attempts /\ xid[store[m.xid]] = m.xid
    BY <2>1, <2>2 DEF XidInv
  <2>4. m.type # "Offer" => ~IsDiscover(store[m.xid])
    BY <2>1, <2>2
  <2> QED
    BY <2>1, <2>2, <2>3, <2>4
<1>14. CASE Process
  BY <1>14 DEF Process, CheckResponseType, reqVars, attVars
<1>15. CASE Clean
  BY <1>15 DEF Clean, reqVars, attVars
<1>16. ASSUME NEW r \in Reqs,
            GiveUp(r) \/ WaitTimeout(r) \/ SleepOver(r) \/ SleepCancelled(r)
            \/ StoreGet(r) \/ Respond(r) \/ StartRelease(r) \/ ReleaseEnd(r)
            \/ WebTimeout(r)
      PROVE PacketInv'
  BY <1>1, <1>16 DEF GiveUp, WaitTimeout, SleepOver, SleepCancelled, StoreGet, Respond, StartRelease, ReleaseEnd, WebTimeout, reqVars, attVars
<1>17. ASSUME NEW a \in Attempts,
            TimerExpires(a)
      PROVE PacketInv'
  BY <1>1, <1>17 DEF TimerExpires, reqVars, attVars
<1>18. CASE UNCHANGED clientVars
  BY <1>1, <1>18 DEF clientVars, reqVars, attVars
<1> QED
  BY <1>1, <1>2, <1>3, <1>4, <1>5, <1>6, <1>7, <1>8, <1>9, <1>10, <1>11, <1>12, <1>13, <1>14, <1>15, <1>16, <1>17, <1>18, AsideStep DEF Next, Request, Exchange, Environment

\* PhaseInv is inductive: a goroutine of GetLease moves from the discover
\* loop to the request loop and the handler answers last.
LEMMA PhaseStep ==
    ASSUME TypeOK, CurrentInv, IInv, [Next]_vars
    PROVE  PhaseInv'
<1> USE NoLeaseAssumption, MaxTriesAssumption DEF TypeOK, CurrentInv, PhaseInv, IInv, Owner
<1>1. ASSUME UNCHANGED <<phase, xid, pc, lease, tries, out>> PROVE PhaseInv'
  BY <1>1
<1>2. ASSUME NEW r \in Reqs, NewAttempt(r) PROVE PhaseInv'
  <2> DEFINE n == <<r, tries[r] + 1>>
  <2>1. n \in Attempts /\ n[1] = r /\ n[2] = tries[r] + 1 /\ ex[n] = "none" /\ xid[n] = n
    BY <1>2, NewAttemptFresh
  <2>2. phase[r] = "request" =>
          /\ lease[r] \in Attempts /\ lease[r] # n
          /\ IsDiscover(lease[r]) /\ done[lease[r]] = "closed"
    BY <1>2, NewAttemptFresh
  <2>3. /\ tries' = [tries EXCEPT ![r] = @ + 1]
        /\ xid' = [xid EXCEPT ![n] = IF phase[r] = "request" THEN xid[lease[r]] ELSE n]
        /\ typ' = [typ EXCEPT ![n] = IF phase[r] = "discover" THEN "Discover" ELSE "Request"]
        /\ ex'  = [ex EXCEPT ![n] = "spawn"]
        /\ pc'  = [pc EXCEPT ![r] = "wait"]
        /\ UNCHANGED <<phase, lease, ctx, out, done, timer, ret, snd, store, held, rcv, net, panic>>
    BY <1>2 DEF NewAttempt
  <2> HIDE DEF n
  <2>4. ASSUME NEW q \in Reqs, phase'[q] = "discover", NEW b \in Attempts, Owner(b) = q
        PROVE  xid'[b] = b
    <3>1. phase[q] = "discover"
      BY <2>3, <2>4
    <3>2. CASE b = n
      BY <2>1, <2>3, <2>4, <3>1, <3>2
    <3>3. CASE b # n
      BY <2>3, <2>4, <3>1, <3>3
    <3> QED
      BY <3>2, <3>3
  <2>5. pc[r] \in {"idle", "start"}
    BY <1>2 DEF NewAttempt
  <2> QED
    BY <2>3, <2>4, <2>5
<1>3. ASSUME NEW r \in Reqs, GiveUp(r) PROVE PhaseInv'
  BY <1>3 DEF GiveUp, reqVars, attVars
<1>4. ASSUME NEW r \in Reqs, WaitReply(r) PROVE PhaseInv'
  BY <1>4 DEF WaitReply, reqVars, attVars
<1>5. ASSUME NEW r \in Reqs, WaitTimeout(r) PROVE PhaseInv'
  BY <1>5 DEF WaitTimeout, reqVars, attVars
<1>6. ASSUME NEW r \in Reqs, SleepOver(r) PROVE PhaseInv'
  BY <1>6 DEF SleepOver, reqVars, attVars
<1>7. ASSUME NEW r \in Reqs, SleepCancelled(r) PROVE PhaseInv'
  BY <1>7 DEF SleepCancelled, reqVars, attVars
<1>8. ASSUME NEW r \in Reqs, StoreGet(r) PROVE PhaseInv'
  BY <1>8 DEF StoreGet, Finished, reqVars, attVars
<1>9. ASSUME NEW r \in Reqs, StoreRemove(r) PROVE PhaseInv'
  BY <1>9 DEF StoreRemove, Deleted, reqVars, attVars
<1>10. ASSUME NEW r \in Reqs, Respond(r) PROVE PhaseInv'
  BY <1>10 DEF Respond, Status, reqVars, attVars
<1>11. ASSUME NEW r \in Reqs, StartRelease(r) PROVE PhaseInv'
  BY <1>11 DEF StartRelease, reqVars, attVars
<1>12. ASSUME NEW r \in Reqs, ReleaseEnd(r) PROVE PhaseInv'
  BY <1>12 DEF ReleaseEnd, reqVars, attVars
<1>13. ASSUME NEW r \in Reqs,
            WebTimeout(r)
      PROVE PhaseInv'
  BY <1>1, <1>13 DEF WebTimeout, reqVars, attVars
<1>14. ASSUME NEW a \in Attempts,
            Prepare(a) \/ StoreSet(a) \/ ErrorRemove(a) \/ SelectDone(a) \/
            SelectCtx(a) \/ TimerExpires(a) \/ SendOk(a) \/ SendFail(a) \/
            ServerAnswer(a)
      PROVE PhaseInv'
  BY <1>1, <1>14 DEF Prepare, StoreSet, ErrorRemove, SelectDone, SelectCtx, TimerExpires, SendOk, SendFail, ServerAnswer, reqVars, attVars
<1>15. ASSUME NEW m \in net,
            Receive(m)
      PROVE PhaseInv'
  BY <1>1, <1>15 DEF Receive, reqVars, attVars
<1>16. CASE Process
  BY <1>1, <1>16 DEF Process, reqVars, attVars
<1>17. CASE Clean
  BY <1>1, <1>17 DEF Clean, reqVars, attVars
<1>18. CASE UNCHANGED clientVars
  BY <1>1, <1>18 DEF clientVars, reqVars, attVars
<1> QED
  BY <1>1, <1>2, <1>3, <1>4, <1>5, <1>6, <1>7, <1>8, <1>9, <1>10, <1>11, <1>12, <1>13, <1>14, <1>15, <1>16, <1>17, <1>18, AsideStep DEF Next, Request, Exchange, Environment

\* HandInv is inductive: a goroutine goes on only with a lease whose Done
\* channel processDHCPReponse has closed.
LEMMA HandStep ==
    ASSUME TypeOK, CurrentInv, IInv, [Next]_vars
    PROVE  HandInv'
<1> USE NoLeaseAssumption, MaxTriesAssumption DEF TypeOK, CurrentInv, HandInv, IInv, IsDiscover, Owner, Cur
<1>1. ASSUME UNCHANGED <<phase, xid, pc, lease, done, tries>> PROVE HandInv'
  BY <1>1
<1>2. ASSUME NEW r \in Reqs, NewAttempt(r) PROVE HandInv'
  <2> DEFINE n == <<r, tries[r] + 1>>
  <2>1. n \in Attempts /\ n[1] = r /\ n[2] = tries[r] + 1 /\ ex[n] = "none" /\ xid[n] = n
    BY <1>2, NewAttemptFresh
  <2>2. phase[r] = "request" =>
          /\ lease[r] \in Attempts /\ lease[r] # n
          /\ IsDiscover(lease[r]) /\ done[lease[r]] = "closed"
    BY <1>2, NewAttemptFresh
  <2>3. /\ tries' = [tries EXCEPT ![r] = @ + 1]
        /\ xid' = [xid EXCEPT ![n] = IF phase[r] = "request" THEN xid[lease[r]] ELSE n]
        /\ typ' = [typ EXCEPT ![n] = IF phase[r] = "discover" THEN "Discover" ELSE "Request"]
        /\ ex'  = [ex EXCEPT ![n] = "spawn"]
        /\ pc'  = [pc EXCEPT ![r] = "wait"]
        /\ UNCHANGED <<phase, lease, ctx, out, done, timer, ret, snd, store, held, rcv, net, panic>>
    BY <1>2 DEF NewAttempt
  <2>4. Cur(r)' = n
    BY <2>3
  <2> HIDE DEF n
  <2>5. \A q \in Reqs : lease[q] # n
    BY <2>1 DEF FreshInv, Started
  <2>6. ASSUME NEW q \in Reqs, q # r PROVE Cur(q)' = Cur(q) /\ Cur(q) # n
    BY <2>1, <2>3, <2>6
  <2> HIDE DEF Cur
  <2>7. \A q \in Reqs : lease[q] # NoLease => xid'[lease[q]] = xid[lease[q]]
    BY <2>3, <2>5
  <2>8. phase[r] = "request" => xid'[n] # n
    BY <2>1, <2>2, <2>3
  <2>9. ASSUME NEW q \in Reqs, q # r, phase[q] = "request", pc[q] \in {"wait", "sleep", "get"}
        PROVE  xid'[Cur(q)] # Cur(q)
    BY <2>3, <2>6, <2>9, CurType
  <2> QED
    BY <2>2, <2>3, <2>4, <2>6, <2>7, <2>8, <2>9
<1>3. ASSUME NEW r \in Reqs, GiveUp(r) PROVE HandInv'
  BY <1>3 DEF GiveUp, reqVars, attVars
<1>4. ASSUME NEW r \in Reqs, WaitReply(r) PROVE HandInv'
  <2>1. Cur(r) \in Attempts /\ Owner(Cur(r)) = r
    BY <1>4, CurType DEF WaitReply
  <2>5. \A q \in Reqs : UNCHANGED tries => Cur(q)' = Cur(q)
    OBVIOUS
  <2> HIDE DEF Cur
  <2>2. ret[Cur(r)] = "lease" =>
          done[Cur(r)] = "closed" /\ (IsDiscover(Cur(r)) <=> phase[r] = "discover")
    <3>1. done[Cur(r)] # "sent"
      BY <1>4, <2>1 DEF WaitReply, SignalInv, Gone
    <3> QED
      BY <1>4, <2>1, <3>1 DEF WaitReply, SignalInv, PhaseInv
  <2>3. UNCHANGED <<phase, xid, done, tries>>
    BY <1>4 DEF WaitReply
  <2>4. \A q \in Reqs : Cur(q)' = Cur(q)
    BY <2>5, <2>3
  <2> QED
    BY <1>4, <2>1, <2>2, <2>3, <2>4 DEF WaitReply
<1>5. ASSUME NEW r \in Reqs, WaitTimeout(r) PROVE HandInv'
  BY <1>5 DEF WaitTimeout, reqVars, attVars
<1>6. ASSUME NEW r \in Reqs, SleepOver(r) PROVE HandInv'
  BY <1>6 DEF SleepOver, reqVars, attVars
<1>7. ASSUME NEW r \in Reqs, SleepCancelled(r) PROVE HandInv'
  BY <1>7 DEF SleepCancelled, reqVars, attVars
<1>8. ASSUME NEW r \in Reqs, StoreGet(r) PROVE HandInv'
  <2> DEFINE b == store[xid[Cur(r)]]
  <2>1. Cur(r) \in Attempts /\ Owner(Cur(r)) = r
    BY <1>8, CurType DEF StoreGet
  <2>2. UNCHANGED <<phase, xid, done, tries>>
    BY <1>8 DEF StoreGet, attVars
  <2>3. \A q \in Reqs : Cur(q)' = Cur(q)
    BY <2>2
  <2> HIDE DEF Cur
  <2>4. CASE lease' = lease /\ (pc' = pc \/ pc' = [pc EXCEPT ![r] = "start"])
    BY <1>8, <2>2, <2>3, <2>4 DEF StoreGet
  <2>5. CASE b # NoLease /\ Finished(r, b) /\ lease' = [lease EXCEPT ![r] = b]
             /\ pc' = [pc EXCEPT ![r] = "remove"]
    <3>1. b \in Attempts /\ typ[b] \in AnswerTypes
      BY <2>1, <2>5 DEF Finished, AnswerTypes
    <3>2. done[b] = "closed" /\ (phase[r] = "discover" => typ[b] = "Offer")
          /\ (phase[r] # "discover" => typ[b] \in {"Ack", "Nak"})
      BY <2>5, <3>1 DEF Finished, DoneInv
    <3>3. IsDiscover(b) <=> phase[r] = "discover"
      BY <3>1, <3>2 DEF DoneInv
    <3> HIDE DEF b
    <3> QED
      BY <2>2, <2>3, <2>5, <3>1, <3>2, <3>3
  <2> QED
    BY <1>8, <2>4, <2>5 DEF StoreGet
<1>9. ASSUME NEW r \in Reqs, StoreRemove(r) PROVE HandInv'
  BY <1>9 DEF StoreRemove, Deleted, reqVars, attVars
<1>10. ASSUME NEW r \in Reqs, Respond(r) PROVE HandInv'
  BY <1>10 DEF Respond, Status, reqVars, attVars
<1>11. ASSUME NEW r \in Reqs, StartRelease(r) PROVE HandInv'
  BY <1>11 DEF StartRelease, reqVars, attVars
<1>12. ASSUME NEW r \in Reqs, ReleaseEnd(r) PROVE HandInv'
  <2>1. lease[r] = NoLease /\ UNCHANGED <<phase, lease, xid, done, tries>>
    BY <1>12 DEF ReleaseEnd, PhaseInv, attVars
  <2>2. \A q \in Reqs : Cur(q)' = Cur(q)
    BY <2>1 DEF Cur
  <2> QED
    BY <1>12, <2>1, <2>2 DEF ReleaseEnd
<1>13. CASE Process
  BY <1>13 DEF Process, CheckResponseType, reqVars, attVars
<1>14. CASE Clean
  BY <1>14 DEF Clean, reqVars, attVars
<1>15. ASSUME NEW r \in Reqs,
            WebTimeout(r)
      PROVE HandInv'
  BY <1>1, <1>15 DEF WebTimeout, reqVars, attVars
<1>16. ASSUME NEW a \in Attempts,
            Prepare(a) \/ StoreSet(a) \/ ErrorRemove(a) \/ SelectDone(a) \/
            SelectCtx(a) \/ TimerExpires(a) \/ SendOk(a) \/ SendFail(a) \/
            ServerAnswer(a)
      PROVE HandInv'
  BY <1>1, <1>16 DEF Prepare, StoreSet, ErrorRemove, SelectDone, SelectCtx, TimerExpires, SendOk, SendFail, ServerAnswer, reqVars, attVars
<1>17. ASSUME NEW m \in net,
            Receive(m)
      PROVE HandInv'
  BY <1>1, <1>17 DEF Receive, reqVars, attVars
<1>18. CASE UNCHANGED clientVars
  BY <1>1, <1>18 DEF clientVars, reqVars, attVars
<1> QED
  BY <1>1, <1>2, <1>3, <1>4, <1>5, <1>6, <1>7, <1>8, <1>9, <1>10, <1>11, <1>12, <1>13, <1>14, <1>15, <1>16, <1>17, <1>18, AsideStep DEF Next, Request, Exchange, Environment

\* The inductive invariant of the DHCP client holds in every behaviour in
\* which the store's ttl (60s) outlasts the web timeout of a request.
THEOREM Inductive == ASSUME ~ShortTTL PROVE Spec => [](TypeOK /\ CurrentInv /\ IInv)
<1>1. Init => IInv
  <2> SUFFICES ASSUME Init PROVE IInv
    OBVIOUS
  <2>1. \A a \in Attempts : a[1] \in Reqs /\ a[2] \in 1..MaxTries
    BY AttemptParts
  <2> USE <2>1, NoLeaseAssumption, ReqsAssumption DEF Init, NoPacket, AnswerTypes, Owner, Reqs
  <2>2. FreshInv
    BY DEF FreshInv, Started
  <2>3. XidInv
    BY DEF XidInv
  <2>4. DoneInv /\ SignalInv /\ CleanInv
    BY DEF DoneInv, SignalInv, CleanInv
  <2>5. PacketInv
    BY DEF PacketInv, Started
  <2>6. PhaseInv
    BY DEF PhaseInv
  <2>7. HandInv
    BY DEF HandInv
  <2> QED
    BY <2>2, <2>3, <2>4, <2>5, <2>6, <2>7 DEF IInv
<1>2. TypeOK /\ CurrentInv /\ IInv /\ [Next]_vars => IInv'
  BY XidStep, FreshStep, SignalStep, CleanStep, DoneStep, PacketStep, PhaseStep, HandStep DEF IInv
<1> QED
  BY <1>1, <1>2, TypeInvariance, PTL DEF Spec

\* A step from a state with the inductive invariant preserves AckedLease:
\* the handler of GetLease and Renew answers 200 only for an ACKed lease.
LEMMA AckedLeaseStep ==
    ASSUME TypeOK, CurrentInv, IInv, AckedLease, [Next]_vars
    PROVE  AckedLease'
<1> USE NoLeaseAssumption, MaxTriesAssumption DEF TypeOK, CurrentInv, AckedLease, IInv, Owner, Answer
<1>1. ASSUME UNCHANGED <<out, lease, xid, net>> PROVE AckedLease'
  BY <1>1
<1>2. ASSUME NEW r \in Reqs, NewAttempt(r) PROVE AckedLease'
  <2> DEFINE n == <<r, tries[r] + 1>>
  <2>1. n \in Attempts /\ n[1] = r /\ n[2] = tries[r] + 1 /\ ex[n] = "none" /\ xid[n] = n
    BY <1>2, NewAttemptFresh
  <2>2. phase[r] = "request" =>
          /\ lease[r] \in Attempts /\ lease[r] # n
          /\ IsDiscover(lease[r]) /\ done[lease[r]] = "closed"
    BY <1>2, NewAttemptFresh
  <2>3. /\ tries' = [tries EXCEPT ![r] = @ + 1]
        /\ xid' = [xid EXCEPT ![n] = IF phase[r] = "request" THEN xid[lease[r]] ELSE n]
        /\ typ' = [typ EXCEPT ![n] = IF phase[r] = "discover" THEN "Discover" ELSE "Request"]
        /\ ex'  = [ex EXCEPT ![n] = "spawn"]
        /\ pc'  = [pc EXCEPT ![r] = "wait"]
        /\ UNCHANGED <<phase, lease, ctx, out, done, timer, ret, snd, store, held, rcv, net, panic>>
    BY <1>2 DEF NewAttempt
  <2> HIDE DEF n
  <2>4. \A q \in Reqs : lease[q] # n
    BY <2>1 DEF FreshInv, Started
  <2> QED
    BY <2>3, <2>4
<1>3. ASSUME NEW r \in Reqs, GiveUp(r) PROVE AckedLease'
  <2>1. out[r] = 0 /\ UNCHANGED <<out, xid, net>>
    BY <1>3 DEF GiveUp, PhaseInv, attVars
  <2>2. \A q \in Reqs \ {r} : lease'[q] = lease[q]
    BY <1>3 DEF GiveUp
  <2> QED
    BY <2>1, <2>2
<1>4. ASSUME NEW r \in Reqs, WaitReply(r) PROVE AckedLease'
  <2>1. out[r] = 0 /\ UNCHANGED <<out, xid, net>>
    BY <1>4 DEF WaitReply, PhaseInv, attVars
  <2>2. \A q \in Reqs \ {r} : lease'[q] = lease[q]
    BY <1>4 DEF WaitReply
  <2> QED
    BY <2>1, <2>2
<1>5. ASSUME NEW r \in Reqs, SleepCancelled(r) PROVE AckedLease'
  <2>1. out[r] = 0 /\ UNCHANGED <<out, xid, net>>
    BY <1>5 DEF SleepCancelled, PhaseInv, attVars
  <2>2. \A q \in Reqs \ {r} : lease'[q] = lease[q]
    BY <1>5 DEF SleepCancelled
  <2> QED
    BY <2>1, <2>2
<1>6. ASSUME NEW r \in Reqs, StoreGet(r) PROVE AckedLease'
  <2>1. out[r] = 0 /\ UNCHANGED <<out, xid, net>>
    BY <1>6 DEF StoreGet, PhaseInv, attVars
  <2>2. \A q \in Reqs \ {r} : lease'[q] = lease[q]
    BY <1>6 DEF StoreGet
  <2> QED
    BY <2>1, <2>2
<1>7. ASSUME NEW r \in Reqs, Respond(r) PROVE AckedLease'
  <2>1. /\ out' = [out EXCEPT ![r] = Status(r)]
        /\ UNCHANGED <<lease, xid, net>>
    BY <1>7 DEF Respond, attVars
  <2>2. ASSUME r \notin ReleaseReqs, Status(r) = 200
        PROVE  /\ lease[r] # NoLease
               /\ Owner(lease[r]) = r
               /\ Answer(lease[r], "Ack")
               /\ r \in LeaseReqs => Answer(lease[r], "Offer")
    <3>1. lease[r] \in Attempts /\ Owner(lease[r]) = r
      BY <2>2 DEF Status, XidInv
    <3>2. done[lease[r]] = "closed" /\ ~IsDiscover(lease[r])
      BY <1>7, <3>1 DEF Respond, HandInv
    <3>3. Answer(lease[r], "Ack")
      <4> HIDE DEF Answer
      <4>1. typ[lease[r]] = "Ack"
        BY <2>2, <3>1, <3>2 DEF Status, DoneInv
      <4> QED
        BY <3>1, <4>1 DEF DoneInv, AnswerTypes
    <3>4. ASSUME r \in LeaseReqs PROVE Answer(lease[r], "Offer")
      <4>1. xid[lease[r]] # lease[r]
        BY <3>1, <3>2, <3>4 DEF IsDiscover
      <4>2. IsDiscover(xid[lease[r]]) /\ done[xid[lease[r]]] = "closed"
            /\ xid[xid[lease[r]]] = xid[lease[r]]
        BY <3>1, <4>1 DEF XidInv, IsDiscover
      <4>3. Answer(xid[lease[r]], "Offer")
        <5> HIDE DEF Answer, IsDiscover
        <5> QED
          BY <3>1, <4>2 DEF DoneInv
      <4> QED
        BY <4>2, <4>3
    <3> QED
      BY <3>1, <3>3, <3>4
  <2> QED
    BY <2>1, <2>2
<1>8. ASSUME NEW r \in Reqs, ReleaseEnd(r) PROVE AckedLease'
  <2>1. r \in ReleaseReqs
    BY <1>8 DEF ReleaseEnd, PhaseInv
  <2> QED
    BY <1>8, <2>1 DEF ReleaseEnd, attVars
<1>9. ASSUME NEW a \in Attempts, ServerAnswer(a) PROVE AckedLease'
  <2>1. net \subseteq net' /\ UNCHANGED <<out, lease, xid>>
    BY <1>9 DEF ServerAnswer, reqVars, attVars
  <2> QED
    BY <2>1
<1>10. ASSUME NEW r \in Reqs,
            WaitTimeout(r) \/ SleepOver(r) \/ StoreRemove(r) \/
            StartRelease(r) \/ WebTimeout(r)
      PROVE AckedLease'
  BY <1>1, <1>10 DEF WaitTimeout, SleepOver, StoreRemove, StartRelease, WebTimeout, reqVars, attVars
<1>11. ASSUME NEW a \in Attempts,
            Prepare(a) \/ StoreSet(a) \/ ErrorRemove(a) \/ SelectDone(a) \/
            SelectCtx(a) \/ TimerExpires(a) \/ SendOk(a) \/ SendFail(a)
      PROVE AckedLease'
  BY <1>1, <1>11 DEF Prepare, StoreSet, ErrorRemove, SelectDone, SelectCtx, TimerExpires, SendOk, SendFail, reqVars, attVars
<1>12. ASSUME NEW m \in net,
            Receive(m)
      PROVE AckedLease'
  BY <1>1, <1>12 DEF Receive, reqVars, attVars
<1>13. CASE Process
  BY <1>1, <1>13 DEF Process, reqVars, attVars
<1>14. CASE Clean
  BY <1>1, <1>14 DEF Clean, reqVars, attVars
<1>15. CASE UNCHANGED clientVars
  BY <1>1, <1>15 DEF clientVars, reqVars, attVars
<1> QED
  BY <1>1, <1>2, <1>3, <1>4, <1>5, <1>6, <1>7, <1>8, <1>9, <1>10, <1>11, <1>12, <1>13, <1>14, <1>15, AsideStep DEF Next, Request, Exchange, Environment

\* A step from a state with the inductive invariant preserves NakReported:
\* response() answers 406 only for a lease the receiver marked with a NAK.
LEMMA NakReportedStep ==
    ASSUME TypeOK, CurrentInv, IInv, NakReported, [Next]_vars
    PROVE  NakReported'
<1> USE NoLeaseAssumption, MaxTriesAssumption DEF TypeOK, CurrentInv, NakReported, IInv, Owner, Answer
<1>1. ASSUME UNCHANGED <<out, lease, xid, net>> PROVE NakReported'
  BY <1>1
<1>2. ASSUME NEW r \in Reqs, NewAttempt(r) PROVE NakReported'
  <2> DEFINE n == <<r, tries[r] + 1>>
  <2>1. n \in Attempts /\ n[1] = r /\ n[2] = tries[r] + 1 /\ ex[n] = "none" /\ xid[n] = n
    BY <1>2, NewAttemptFresh
  <2>2. phase[r] = "request" =>
          /\ lease[r] \in Attempts /\ lease[r] # n
          /\ IsDiscover(lease[r]) /\ done[lease[r]] = "closed"
    BY <1>2, NewAttemptFresh
  <2>3. /\ tries' = [tries EXCEPT ![r] = @ + 1]
        /\ xid' = [xid EXCEPT ![n] = IF phase[r] = "request" THEN xid[lease[r]] ELSE n]
        /\ typ' = [typ EXCEPT ![n] = IF phase[r] = "discover" THEN "Discover" ELSE "Request"]
        /\ ex'  = [ex EXCEPT ![n] = "spawn"]
        /\ pc'  = [pc EXCEPT ![r] = "wait"]
        /\ UNCHANGED <<phase, lease, ctx, out, done, timer, ret, snd, store, held, rcv, net, panic>>
    BY <1>2 DEF NewAttempt
  <2> HIDE DEF n
  <2>4. \A q \in Reqs : lease[q] # n
    BY <2>1 DEF FreshInv, Started
  <2> QED
    BY <2>3, <2>4
<1>3. ASSUME NEW r \in Reqs, GiveUp(r) PROVE NakReported'
  <2>1. out[r] = 0 /\ UNCHANGED <<out, xid, net>>
    BY <1>3 DEF GiveUp, PhaseInv, attVars
  <2>2. \A q \in Reqs \ {r} : lease'[q] = lease[q]
    BY <1>3 DEF GiveUp
  <2> QED
    BY <2>1, <2>2
<1>4. ASSUME NEW r \in Reqs, WaitReply(r) PROVE NakReported'
  <2>1. out[r] = 0 /\ UNCHANGED <<out, xid, net>>
    BY <1>4 DEF WaitReply, PhaseInv, attVars
  <2>2. \A q \in Reqs \ {r} : lease'[q] = lease[q]
    BY <1>4 DEF WaitReply
  <2> QED
    BY <2>1, <2>2
<1>5. ASSUME NEW r \in Reqs, SleepCancelled(r) PROVE NakReported'
  <2>1. out[r] = 0 /\ UNCHANGED <<out, xid, net>>
    BY <1>5 DEF SleepCancelled, PhaseInv, attVars
  <2>2. \A q \in Reqs \ {r} : lease'[q] = lease[q]
    BY <1>5 DEF SleepCancelled
  <2> QED
    BY <2>1, <2>2
<1>6. ASSUME NEW r \in Reqs, StoreGet(r) PROVE NakReported'
  <2>1. out[r] = 0 /\ UNCHANGED <<out, xid, net>>
    BY <1>6 DEF StoreGet, PhaseInv, attVars
  <2>2. \A q \in Reqs \ {r} : lease'[q] = lease[q]
    BY <1>6 DEF StoreGet
  <2> QED
    BY <2>1, <2>2
<1>7. ASSUME NEW r \in Reqs, Respond(r) PROVE NakReported'
  <2>1. /\ out' = [out EXCEPT ![r] = Status(r)]
        /\ UNCHANGED <<lease, xid, net>>
    BY <1>7 DEF Respond, attVars
  <2>2. ASSUME Status(r) = 406
        PROVE  lease[r] # NoLease /\ Owner(lease[r]) = r /\ Answer(lease[r], "Nak")
    <3>1. lease[r] \in Attempts /\ typ[lease[r]] = "Nak"
      BY <2>2 DEF Status
    <3> HIDE DEF Answer
    <3>2. Answer(lease[r], typ[lease[r]])
      BY <3>1 DEF DoneInv, AnswerTypes
    <3> QED
      BY <3>1, <3>2 DEF XidInv
  <2> QED
    BY <2>1, <2>2
<1>8. ASSUME NEW r \in Reqs, ReleaseEnd(r) PROVE NakReported'
  BY <1>8 DEF ReleaseEnd, reqVars, attVars
<1>9. ASSUME NEW a \in Attempts, ServerAnswer(a) PROVE NakReported'
  <2>1. net \subseteq net' /\ UNCHANGED <<out, lease, xid>>
    BY <1>9 DEF ServerAnswer, reqVars, attVars
  <2> QED
    BY <2>1
<1>10. ASSUME NEW r \in Reqs,
            WaitTimeout(r) \/ SleepOver(r) \/ StoreRemove(r) \/
            StartRelease(r) \/ WebTimeout(r)
      PROVE NakReported'
  BY <1>1, <1>10 DEF WaitTimeout, SleepOver, StoreRemove, StartRelease, WebTimeout, reqVars, attVars
<1>11. ASSUME NEW a \in Attempts,
            Prepare(a) \/ StoreSet(a) \/ ErrorRemove(a) \/ SelectDone(a) \/
            SelectCtx(a) \/ TimerExpires(a) \/ SendOk(a) \/ SendFail(a)
      PROVE NakReported'
  BY <1>1, <1>11 DEF Prepare, StoreSet, ErrorRemove, SelectDone, SelectCtx, TimerExpires, SendOk, SendFail, reqVars, attVars
<1>12. ASSUME NEW m \in net,
            Receive(m)
      PROVE NakReported'
  BY <1>1, <1>12 DEF Receive, reqVars, attVars
<1>13. CASE Process
  BY <1>1, <1>13 DEF Process, reqVars, attVars
<1>14. CASE Clean
  BY <1>1, <1>14 DEF Clean, reqVars, attVars
<1>15. CASE UNCHANGED clientVars
  BY <1>1, <1>15 DEF clientVars, reqVars, attVars
<1> QED
  BY <1>1, <1>2, <1>3, <1>4, <1>5, <1>6, <1>7, <1>8, <1>9, <1>10, <1>11, <1>12, <1>13, <1>14, <1>15, AsideStep DEF Next, Request, Exchange, Environment

\* A step from a state with the inductive invariant preserves HandedOver:
\* store.Remove ran before the handler gets a lease, and no later store.Set
\* brings that lease back.
LEMMA HandedOverStep ==
    ASSUME TypeOK, CurrentInv, IInv, HandedOver, [Next]_vars
    PROVE  HandedOver'
<1> USE NoLeaseAssumption, MaxTriesAssumption DEF TypeOK, CurrentInv, HandedOver, IInv, Owner
<1>1. ASSUME UNCHANGED <<pc, lease, store>> PROVE HandedOver'
  BY <1>1
<1>2. ASSUME NEW r \in Reqs, NewAttempt(r) PROVE HandedOver'
  BY <1>2 DEF NewAttempt
<1>3. ASSUME NEW r \in Reqs, GiveUp(r) PROVE HandedOver'
  BY <1>3 DEF GiveUp, reqVars, attVars
<1>4. ASSUME NEW r \in Reqs, WaitReply(r) PROVE HandedOver'
  BY <1>4 DEF WaitReply
<1>5. ASSUME NEW r \in Reqs, WaitTimeout(r) PROVE HandedOver'
  BY <1>5 DEF WaitTimeout, reqVars, attVars
<1>6. ASSUME NEW r \in Reqs, SleepOver(r) PROVE HandedOver'
  BY <1>6 DEF SleepOver, reqVars, attVars
<1>7. ASSUME NEW r \in Reqs, SleepCancelled(r) PROVE HandedOver'
  BY <1>7 DEF SleepCancelled, reqVars, attVars
<1>8. ASSUME NEW r \in Reqs, StoreGet(r) PROVE HandedOver'
  BY <1>8 DEF StoreGet
<1>9. ASSUME NEW r \in Reqs, StoreRemove(r) PROVE HandedOver'
  BY <1>9 DEF StoreRemove, Deleted, XidInv
<1>10. ASSUME NEW r \in Reqs, Respond(r) PROVE HandedOver'
  BY <1>10 DEF Respond, Status, reqVars, attVars
<1>11. ASSUME NEW r \in Reqs, StartRelease(r) PROVE HandedOver'
  BY <1>11 DEF StartRelease, reqVars, attVars
<1>12. ASSUME NEW r \in Reqs, ReleaseEnd(r) PROVE HandedOver'
  BY <1>12 DEF ReleaseEnd, PhaseInv
<1>13. ASSUME NEW a \in Attempts, StoreSet(a) PROVE HandedOver'
  BY <1>13 DEF StoreSet, FreshInv, Started, reqVars
<1>14. ASSUME NEW a \in Attempts, ErrorRemove(a) PROVE HandedOver'
  BY <1>14 DEF ErrorRemove, Deleted, reqVars, attVars
<1>15. CASE Clean
  BY <1>15 DEF Clean, reqVars, attVars
<1>16. ASSUME NEW r \in Reqs,
            WebTimeout(r)
      PROVE HandedOver'
  BY <1>1, <1>16 DEF WebTimeout, reqVars, attVars
<1>17. ASSUME NEW a \in Attempts,
            Prepare(a) \/ SelectDone(a) \/ SelectCtx(a) \/ TimerExpires(a)
            \/ SendOk(a) \/ SendFail(a) \/ ServerAnswer(a)
      PROVE HandedOver'
  BY <1>1, <1>17 DEF Prepare, SelectDone, SelectCtx, TimerExpires, SendOk, SendFail, ServerAnswer, reqVars, attVars
<1>18. ASSUME NEW m \in net,
            Receive(m)
      PROVE HandedOver'
  BY <1>1, <1>18 DEF Receive, reqVars, attVars
<1>19. CASE Process
  BY <1>1, <1>19 DEF Process, reqVars, attVars
<1>20. CASE UNCHANGED clientVars
  BY <1>1, <1>20 DEF clientVars, reqVars, attVars
<1> QED
  BY <1>1, <1>2, <1>3, <1>4, <1>5, <1>6, <1>7, <1>8, <1>9, <1>10, <1>11, <1>12, <1>13, <1>14, <1>15, <1>16, <1>17, <1>18, <1>19, <1>20, AsideStep DEF Next, Request, Exchange, Environment

\* In a state with the inductive invariant processDHCPReponse does not close
\* a Done channel that is closed: CheckResponseType rejects the answer.
LEMMA SingleCloseStep ==
    ASSUME TypeOK, CurrentInv, IInv, SingleClose, [Next]_vars
    PROVE  SingleClose'
<1> USE NoLeaseAssumption, MaxTriesAssumption DEF TypeOK, CurrentInv, SingleClose, IInv
<1>1. ASSUME UNCHANGED <<panic>> PROVE SingleClose'
  BY <1>1
<1>2. ASSUME NEW r \in Reqs, WaitReply(r) PROVE SingleClose'
  BY <1>2 DEF WaitReply, reqVars, attVars
<1>3. ASSUME NEW r \in Reqs, StoreGet(r) PROVE SingleClose'
  BY <1>3 DEF StoreGet, Finished, reqVars, attVars
<1>4. CASE Process
  <2>1. rcv.lease \in Attempts /\ (IsDiscover(rcv.lease) => rcv.type = "Offer")
    BY <1>4 DEF Process, PacketInv
  <2>2. done[rcv.lease] = "closed" => ~CheckResponseType(typ[rcv.lease], rcv.type)
    BY <2>1 DEF DoneInv, CheckResponseType
  <2> QED
    BY <1>4, <2>2 DEF Process
<1>5. CASE Clean
  BY <1>5 DEF Clean, reqVars, attVars
<1>6. ASSUME NEW r \in Reqs,
            NewAttempt(r) \/ GiveUp(r) \/ WaitTimeout(r) \/ SleepOver(r) \/
            SleepCancelled(r) \/ StoreRemove(r) \/ Respond(r) \/
            StartRelease(r) \/ ReleaseEnd(r) \/ WebTimeout(r)
      PROVE SingleClose'
  BY <1>1, <1>6 DEF NewAttempt, GiveUp, WaitTimeout, SleepOver, SleepCancelled, StoreRemove, Respond, StartRelease, ReleaseEnd, WebTimeout, reqVars, attVars
<1>7. ASSUME NEW a \in Attempts,
            Prepare(a) \/ StoreSet(a) \/ ErrorRemove(a) \/ SelectDone(a) \/
            SelectCtx(a) \/ TimerExpires(a) \/ SendOk(a) \/ SendFail(a) \/
            ServerAnswer(a)
      PROVE SingleClose'
  BY <1>1, <1>7 DEF Prepare, StoreSet, ErrorRemove, SelectDone, SelectCtx, TimerExpires, SendOk, SendFail, ServerAnswer, reqVars, attVars
<1>8. ASSUME NEW m \in net,
            Receive(m)
      PROVE SingleClose'
  BY <1>1, <1>8 DEF Receive, reqVars, attVars
<1>9. CASE UNCHANGED clientVars
  BY <1>1, <1>9 DEF clientVars, reqVars, attVars
<1> QED
  BY <1>1, <1>2, <1>3, <1>4, <1>5, <1>6, <1>7, <1>8, <1>9, AsideStep DEF Next, Request, Exchange, Environment

\* In a state with the inductive invariant no step changes a lease the
\* handler has: request() marks the offer's object only, and the receiver,
\* should it have got the lease before the Remove, rejects the answer.
LEMMA FrozenStep ==
    ASSUME TypeOK, CurrentInv, IInv, [Next]_vars
    PROVE  Frozen
<1> USE NoLeaseAssumption, MaxTriesAssumption DEF TypeOK, CurrentInv, Frozen, IInv
<1>1. ASSUME UNCHANGED <<typ>> PROVE Frozen
  BY <1>1
<1>2. ASSUME NEW r \in Reqs, NewAttempt(r) PROVE Frozen
  <2> DEFINE n == <<r, tries[r] + 1>>
  <2>1. n \in Attempts /\ n[1] = r /\ n[2] = tries[r] + 1 /\ ex[n] = "none" /\ xid[n] = n
    BY <1>2, NewAttemptFresh
  <2>2. phase[r] = "request" =>
          /\ lease[r] \in Attempts /\ lease[r] # n
          /\ IsDiscover(lease[r]) /\ done[lease[r]] = "closed"
    BY <1>2, NewAttemptFresh
  <2>3. /\ tries' = [tries EXCEPT ![r] = @ + 1]
        /\ xid' = [xid EXCEPT ![n] = IF phase[r] = "request" THEN xid[lease[r]] ELSE n]
        /\ typ' = [typ EXCEPT ![n] = IF phase[r] = "discover" THEN "Discover" ELSE "Request"]
        /\ ex'  = [ex EXCEPT ![n] = "spawn"]
        /\ pc'  = [pc EXCEPT ![r] = "wait"]
        /\ UNCHANGED <<phase, lease, ctx, out, done, timer, ret, snd, store, held, rcv, net, panic>>
    BY <1>2 DEF NewAttempt
  <2> HIDE DEF n
  <2>4. \A q \in Reqs : lease[q] # n
    BY <2>1 DEF FreshInv, Started
  <2> QED
    BY <2>3, <2>4
<1>3. ASSUME NEW r \in Reqs, StartRelease(r) PROVE Frozen
  <2> DEFINE n == <<r, 1>>
  <2>1. n \in Attempts /\ n[1] = r /\ n[2] = 1
    BY DEF Attempts
  <2>2. tries[r] = 0
    BY <1>3 DEF StartRelease, PhaseInv
  <2>3. \A q \in Reqs : lease[q] # n
    BY <2>1, <2>2 DEF FreshInv, Started
  <2> QED
    BY <1>3, <2>3 DEF StartRelease
<1>4. ASSUME NEW a \in Attempts, Prepare(a) PROVE Frozen
  <2>1. ASSUME NEW q \in Reqs, pc[q] \in {"respond", "done"}, lease[q] # NoLease
        PROVE  lease[q] # xid[a]
    <3>1. lease[q] # a
      BY <1>4 DEF Prepare, FreshInv, Started
    <3>2. ~IsDiscover(lease[q])
      BY <2>1 DEF HandInv
    <3>3. xid[a] # a => IsDiscover(xid[a])
      BY DEF XidInv, IsDiscover
    <3> QED
      BY <3>1, <3>2, <3>3
  <2> QED
    BY <1>4, <2>1 DEF Prepare
<1>5. CASE Process
  <2>1. ASSUME NEW q \in Reqs, pc[q] \in {"respond", "done"}, lease[q] # NoLease
        PROVE  typ[lease[q]] \in {"Ack", "Nak"}
    BY <2>1 DEF HandInv, DoneInv
  <2>2. typ' = typ \/ (typ' = [typ EXCEPT ![rcv.lease] = rcv.type]
                       /\ typ[rcv.lease] \in {"Discover", "Request"})
    BY <1>5 DEF Process, CheckResponseType
  <2> QED
    BY <2>1, <2>2
<1>6. ASSUME NEW r \in Reqs,
            GiveUp(r) \/ WaitReply(r) \/ WaitTimeout(r) \/ SleepOver(r) \/
            SleepCancelled(r) \/ StoreGet(r) \/ StoreRemove(r) \/ Respond(r)
            \/ ReleaseEnd(r) \/ WebTimeout(r)
      PROVE Frozen
  BY <1>1, <1>6 DEF GiveUp, WaitReply, WaitTimeout, SleepOver, SleepCancelled, StoreGet, StoreRemove, Respond, ReleaseEnd, WebTimeout, reqVars, attVars
<1>7. ASSUME NEW a \in Attempts,
            StoreSet(a) \/ ErrorRemove(a) \/ SelectDone(a) \/ SelectCtx(a)
            \/ TimerExpires(a) \/ SendOk(a) \/ SendFail(a) \/
            ServerAnswer(a)
      PROVE Frozen
  BY <1>1, <1>7 DEF StoreSet, ErrorRemove, SelectDone, SelectCtx, TimerExpires, SendOk, SendFail, ServerAnswer, reqVars, attVars
<1>8. ASSUME NEW m \in net,
            Receive(m)
      PROVE Frozen
  BY <1>1, <1>8 DEF Receive, reqVars, attVars
<1>9. CASE Clean
  BY <1>1, <1>9 DEF Clean, reqVars, attVars
<1>10. CASE UNCHANGED clientVars
  BY <1>1, <1>10 DEF clientVars, reqVars, attVars
<1> QED
  BY <1>1, <1>2, <1>3, <1>4, <1>5, <1>6, <1>7, <1>8, <1>9, <1>10, AsideStep DEF Next, Request, Exchange, Environment

\* GET /ip/... answers 200 only if the DHCP server acknowledged a transaction
\* of that very request (after an offer when it is a new lease), for any
\* number of requests and retries and any loss, delay and duplication.
THEOREM OnlyAckedLeases == ASSUME ~ShortTTL PROVE Spec => []AckedLease
<1>1. Init => AckedLease
  BY DEF Init, AckedLease
<1>2. TypeOK /\ CurrentInv /\ IInv /\ AckedLease /\ [Next]_vars => AckedLease'
  BY AckedLeaseStep
<1> QED
  BY <1>1, <1>2, Inductive, PTL DEF Spec

\* A 406 from response() always stands for a NAK the DHCP server sent for a
\* transaction of that request.
THEOREM OnlyRealNaks == ASSUME ~ShortTTL PROVE Spec => []NakReported
<1>1. Init => NakReported
  BY DEF Init, NakReported
<1>2. TypeOK /\ CurrentInv /\ IInv /\ NakReported /\ [Next]_vars => NakReported'
  BY NakReportedStep
<1> QED
  BY <1>1, <1>2, Inductive, PTL DEF Spec

\* close(lease.Done) in processDHCPReponse never panics, whatever answers are
\* duplicated and whatever transactions are repeated.
THEOREM ClosedOnce == ASSUME ~ShortTTL PROVE Spec => []SingleClose
<1>1. Init => SingleClose
  BY DEF Init, SingleClose
<1>2. TypeOK /\ CurrentInv /\ IInv /\ SingleClose /\ [Next]_vars => SingleClose'
  BY SingleCloseStep
<1> QED
  BY <1>1, <1>2, Inductive, PTL DEF Spec

\* A lease GetLease or Renew has handed to its handler is no longer reachable
\* through the store.
THEOREM HandedOverLeases == ASSUME ~ShortTTL PROVE Spec => []HandedOver
<1>1. Init => HandedOver
  BY DEF Init, HandedOver
<1>2. TypeOK /\ CurrentInv /\ IInv /\ HandedOver /\ [Next]_vars => HandedOver'
  BY HandedOverStep
<1> QED
  BY <1>1, <1>2, Inductive, PTL DEF Spec

\* The DHCP packet in a lease does not change under response(), which reads
\* it without the lease's lock.
THEOREM FrozenLeases == ASSUME ~ShortTTL PROVE Spec => LeaseFrozen
<1>1. TypeOK /\ CurrentInv /\ IInv /\ [Next]_vars => [Frozen]_vars
  BY FrozenStep
<1> QED
  BY <1>1, Inductive, PTL DEF Spec, LeaseFrozen

\* Type correctness of the DHCP client, for all constants.
THEOREM TypeCorrect == Spec => []TypeOK
  BY TypeInvariance, PTL

=============================================================================
