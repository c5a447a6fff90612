--------------------------- MODULE Requests_proofs ---------------------------
(***************************************************************************)
(* DHCPClient implements Requests, and it only dies after an attempt was   *)
(* abandoned.  Both rest on the inductive invariant of DHCPClient_proofs   *)
(* and on two more invariants: LeftInv, on what is left of an attempt its  *)
(* request has gone on from, and TimeoutInv, on why a handler may have no  *)
(* lease.                                                                  *)
(***************************************************************************)
EXTENDS DHCPClient_proofs

\* A step from a state with the inductive invariant preserves LeftInv: wait()
\* takes a result at most once, and the lease it takes is removed from the
\* store before the request goes on.
LEMMA LeftStep ==
    ASSUME TypeOK, CurrentInv, IInv, LeftInv, [Next]_vars
    PROVE  LeftInv'
<1> USE NoLeaseAssumption, MaxTriesAssumption DEF TypeOK, CurrentInv, LeftInv, IInv, Owner
<1>0. /\ \A a \in Attempts : a[1] \in Reqs /\ a[2] \in 1..MaxTries /\ a = <<a[1], a[2]>>
      /\ ReleaseReqs \subseteq Reqs
  BY AttemptParts DEF Reqs
<1>1. ASSUME UNCHANGED <<pc, tries, lease, ex, ret, store, panic>> PROVE LeftInv'
  BY <1>1 DEF Cur
\* The steps of an exchange that does not end and takes nothing from the store.
<1>b. ASSUME NEW a \in Attempts, ex[a] = "end" => ret'[a] = ret[a],
             UNCHANGED <<pc, tries, lease, store, panic>>,
             ex'[a] = "end" => ex[a] = "end",
             Owner(a) \in ReleaseReqs => ex'[a] = ex[a],
             ex'[a] \in {"reply", "end"} => ret'[a] # "none",
             \A b \in Attempts : b # a => ex'[b] = ex[b] /\ ret'[b] = ret[b]
      PROVE LeftInv'
  <2>1. \A q \in Reqs : Cur(q)' = Cur(q) /\ (pc[q] \in {"wait", "sleep", "get"} => Cur(q) \in Attempts)
    BY <1>b, CurType DEF Cur
  <2>2. \A b \in Attempts : ex'[b] = "end" => ex[b] = "end" /\ ret'[b] = ret[b]
    BY <1>b
  <2>3. \A b \in Attempts : ex[b] = "end" => ret'[b] = ret[b]
    BY <1>b
  <2>4. \A q \in Reqs : /\ pc'[q] = "wait" /\ panic' = "none" => ex'[Cur(q)'] # "end"
                        /\ pc'[q] \in {"sleep", "get"} => ret'[Cur(q)'] = "nil" \/ ex'[Cur(q)'] # "end"
    BY <1>b, <2>1, <2>2
  <2>5. \A b \in Attempts :
          /\ Owner(b) \in ReleaseReqs => ex'[b] = "none"
          /\ ex'[b] \in {"reply", "end"} => ret'[b] # "none"
    BY <1>b
  <2>6. \A b \in Attempts : ex'[b] = "end" /\ ret'[b] = "lease" =>
               \/ \A x \in Attempts : store'[x] # b
               \/ pc'[Owner(b)] = "remove" /\ lease'[Owner(b)] = b
    BY <1>b, <2>2
  <2> QED
    BY <2>4, <2>5, <2>6
<1>2. ASSUME NEW r \in Reqs, NewAttempt(r) PROVE LeftInv'
  <2> DEFINE n == <<r, tries[r] + 1>>
  <2>1. n \in Attempts /\ n[1] = r /\ ex[n] = "none"
    BY <1>2, NewAttemptFresh
  <2>2. /\ tries' = [tries EXCEPT ![r] = @ + 1]
        /\ ex'  = [ex EXCEPT ![n] = "spawn"]
        /\ pc'  = [pc EXCEPT ![r] = "wait"]
        /\ r \notin ReleaseReqs
        /\ pc[r] \in {"idle", "start"}
        /\ UNCHANGED <<lease, ret, store, panic>>
    BY <1>2 DEF NewAttempt
  <2>3. Cur(r)' = n /\ \A q \in Reqs \ {r} : Cur(q)' = Cur(q) /\ Cur(q) # n
    BY <2>2 DEF Cur
  <2> HIDE DEF n
  <2> QED
    BY <1>0, <2>1, <2>2, <2>3
<1>3. ASSUME NEW r \in Reqs, GiveUp(r) PROVE LeftInv'
  BY <1>3 DEF GiveUp, Cur, attVars
<1>4. ASSUME NEW r \in Reqs, WaitReply(r), panic = "none" PROVE LeftInv'
  <2>1. Cur(r) \in Attempts /\ Cur(r)[1] = r
    BY <1>4, CurType DEF WaitReply, Cur
  <2>2. \A q \in Reqs : /\ Cur(q)' = Cur(q) /\ (q # r => Cur(q) # Cur(r))
                        /\ pc[q] \in {"wait", "sleep", "get"} => Cur(q) \in Attempts
    BY <1>4, CurType DEF WaitReply, Cur
  <2>3. /\ ex[Cur(r)] = "reply" /\ pc[r] = "wait"
        /\ ex' = [ex EXCEPT ![Cur(r)] = "end"]
        /\ UNCHANGED <<ret, store>>
        /\ \/ /\ lease' = [lease EXCEPT ![r] = Cur(r)]
              /\ pc' = [pc EXCEPT ![r] = "remove"]
              /\ panic' = "none"
           \/ /\ ret[Cur(r)] = "nil"
              /\ pc' = [pc EXCEPT ![r] = "sleep"]
              /\ lease' = lease /\ panic' = "none"
           \/ /\ ret[Cur(r)] = "error"
              /\ panic' = "nil_packet"
              /\ pc' = pc /\ lease' = lease
    BY <1>4 DEF WaitReply
  <2>4. \A q \in Reqs : /\ pc'[q] = "wait" /\ panic' = "none" => ex'[Cur(q)'] # "end"
                        /\ pc'[q] \in {"sleep", "get"} => ret'[Cur(q)'] = "nil" \/ ex'[Cur(q)'] # "end"
    <3>1. /\ pc'[r] = "wait" /\ panic' = "none" => ex'[Cur(r)'] # "end"
          /\ pc'[r] \in {"sleep", "get"} => ret'[Cur(r)'] = "nil"
      BY <1>4, <2>1, <2>2, <2>3
    <3>2. ASSUME NEW q \in Reqs, q # r
          PROVE  /\ pc'[q] = pc[q] /\ Cur(q)' = Cur(q) /\ ret' = ret
                 /\ pc[q] \in {"wait", "sleep", "get"} => ex'[Cur(q)] = ex[Cur(q)]
      BY <2>1, <2>2, <2>3, <3>2
    <3> QED
      BY <1>4, <3>1, <3>2
  <2>5. \A b \in Attempts :
          /\ Owner(b) \in ReleaseReqs => ex'[b] = "none"
          /\ ex'[b] \in {"reply", "end"} => ret'[b] # "none"
    BY <2>1, <2>3
  <2>6. \A b \in Attempts : ex'[b] = "end" /\ ret'[b] = "lease" =>
               \/ \A x \in Attempts : store'[x] # b
               \/ pc'[Owner(b)] = "remove" /\ lease'[Owner(b)] = b
    BY <1>0, <2>1, <2>3
  <2> QED
    BY <2>4, <2>5, <2>6
<1>5. ASSUME NEW r \in Reqs, WaitTimeout(r), panic = "none" PROVE LeftInv'
  BY <1>5 DEF WaitTimeout, Cur, attVars
<1>6. ASSUME NEW r \in Reqs, SleepOver(r) PROVE LeftInv'
  BY <1>0, <1>6 DEF SleepOver, Cur, attVars
<1>6a. ASSUME NEW r \in Reqs, SleepCancelled(r) PROVE LeftInv'
  BY <1>0, <1>6a DEF SleepCancelled, Cur, attVars
<1>7. ASSUME NEW r \in Reqs, StoreGet(r) PROVE LeftInv'
  <2>1. \A q \in Reqs : Cur(q)' = Cur(q)
    BY <1>7 DEF StoreGet, Cur
  <2>2. /\ pc[r] = "get"
        /\ \/ pc' = pc /\ panic' # "none" /\ lease' = lease
           \/ pc' = [pc EXCEPT ![r] = "start"] /\ lease' = lease /\ panic' = panic
           \/ pc' = [pc EXCEPT ![r] = "remove"] /\ panic' = panic
              /\ \A q \in Reqs : q # r => lease'[q] = lease[q]
        /\ UNCHANGED <<ex, ret, store>>
    BY <1>7 DEF StoreGet, attVars
  <2> QED
    BY <1>0, <2>1, <2>2
<1>8. ASSUME NEW r \in Reqs, StoreRemove(r) PROVE LeftInv'
  BY <1>0, <1>8 DEF StoreRemove, Deleted, XidInv, Cur, attVars
<1>9. ASSUME NEW r \in Reqs, Respond(r) PROVE LeftInv'
  BY <1>0, <1>9 DEF Respond, Cur, attVars
<1>9a. ASSUME NEW r \in Reqs, ReleaseEnd(r) PROVE LeftInv'
  BY <1>0, <1>9a DEF ReleaseEnd, Cur, attVars
<1>10. ASSUME NEW r \in Reqs, StartRelease(r) PROVE LeftInv'
  BY <1>0, <1>10 DEF StartRelease, Cur
<1>11. ASSUME NEW a \in Attempts, Prepare(a) PROVE LeftInv'
  BY <1>0, <1>11 DEF Prepare, Cur, reqVars
<1>12. ASSUME NEW a \in Attempts, StoreSet(a) PROVE LeftInv'
  BY <1>0, <1>12 DEF StoreSet, Cur, reqVars
<1>13. ASSUME NEW a \in Attempts, ErrorRemove(a) PROVE LeftInv'
  BY <1>0, <1>13 DEF ErrorRemove, Deleted, Cur, reqVars
<1>14. ASSUME NEW a \in Attempts, SelectDone(a) PROVE LeftInv'
  BY <1>b, <1>14 DEF SelectDone, reqVars
<1>15. ASSUME NEW a \in Attempts, SelectCtx(a) PROVE LeftInv'
  BY <1>b, <1>15 DEF SelectCtx, Failed, reqVars
<1>16. ASSUME NEW a \in Attempts, SendOk(a) PROVE LeftInv'
  BY <1>b, <1>16 DEF SendOk, reqVars
<1>17. ASSUME NEW a \in Attempts, SendFail(a) PROVE LeftInv'
  BY <1>b, <1>17 DEF SendFail, Failed, reqVars
<1>18. CASE Clean
  BY <1>0, <1>18 DEF Clean, Cur, reqVars
<1>19. CASE Process
  BY <1>0, <1>19 DEF Process, Cur, reqVars
<1>20. ASSUME NEW r \in Reqs, WebTimeout(r) PROVE LeftInv'
  BY <1>1, <1>20 DEF WebTimeout, attVars
<1>21. ASSUME NEW a \in Attempts, TimerExpires(a) \/ ServerAnswer(a) PROVE LeftInv'
  BY <1>1, <1>21 DEF TimerExpires, ServerAnswer, reqVars, attVars
<1>22. ASSUME NEW m \in net, Receive(m) PROVE LeftInv'
  BY <1>1, <1>22 DEF Receive, reqVars, attVars
<1>23. CASE UNCHANGED clientVars
  BY <1>1, <1>23 DEF clientVars, reqVars, attVars
<1> QED
  BY <1>2, <1>3, <1>4, <1>5, <1>6, <1>6a, <1>7, <1>8, <1>9, <1>9a, <1>10, <1>11, <1>12,
     <1>13, <1>14,
     <1>15, <1>16, <1>17, <1>18, <1>19, <1>20, <1>21, <1>22, <1>23, AsideStep
  DEF Next, Request, Exchange, Environment

\* A step preserves TimeoutInv: GiveUp and SleepCancelled, the only ways to
\* the handler without a lease, need the web timeout.
LEMMA TimeoutStep ==
    ASSUME TypeOK, CurrentInv, IInv, TimeoutInv, [Next]_vars
    PROVE  TimeoutInv'
<1> USE NoLeaseAssumption, MaxTriesAssumption DEF TypeOK, CurrentInv, TimeoutInv, IInv
<1>1. ASSUME UNCHANGED <<pc, tries, lease, ctx>> PROVE TimeoutInv'
  BY <1>1
<1>2. ASSUME NEW r \in Reqs,
            NewAttempt(r) \/ GiveUp(r) \/ WaitTimeout(r) \/ SleepOver(r) \/ SleepCancelled(r)
            \/ StoreRemove(r) \/ Respond(r) \/ StartRelease(r) \/ ReleaseEnd(r) \/ WebTimeout(r)
      PROVE TimeoutInv'
  BY <1>2 DEF NewAttempt, GiveUp, WaitTimeout, SleepOver, SleepCancelled, StoreRemove,
              Respond, StartRelease, ReleaseEnd, WebTimeout
<1>3. ASSUME NEW r \in Reqs, WaitReply(r) PROVE TimeoutInv'
  BY <1>3 DEF WaitReply
<1>4. ASSUME NEW r \in Reqs, StoreGet(r) PROVE TimeoutInv'
  BY <1>4 DEF StoreGet
<1>5. ASSUME NEW a \in Attempts, Exchange(a) \/ Environment(a) PROVE TimeoutInv'
  BY <1>1, <1>5 DEF Exchange, Environment, Prepare, StoreSet, ErrorRemove, SelectDone, SelectCtx,
     TimerExpires, SendOk, SendFail, Jam, ServerAnswer, reqVars
<1>6. ASSUME NEW m \in net, Receive(m) PROVE TimeoutInv'
  BY <1>1, <1>6 DEF Receive, reqVars
<1>7. CASE Process
  BY <1>1, <1>7 DEF Process, reqVars
<1>8. CASE Clean
  BY <1>1, <1>8 DEF Clean, reqVars
<1>9. CASE UNCHANGED clientVars
  BY <1>1, <1>9 DEF clientVars, reqVars
<1> QED
  BY <1>2, <1>3, <1>4, <1>5, <1>6, <1>7, <1>8, <1>9, AsideStep DEF Next, Request

\* The packet of a release is not with Connection.Send before its handler
\* runs.
LEMMA UnsentStep ==
    ASSUME TypeOK, LeftInv, UnsentInv, [Next]_vars
    PROVE  UnsentInv'
<1>0. \A r \in ReleaseReqs : r \in Reqs /\ <<r, 1>> \in Attempts
  BY MaxTriesAssumption DEF Reqs, Attempts
<1> USE <1>0 DEF TypeOK, UnsentInv
<1>1. ASSUME UNCHANGED snd, \A r \in Reqs : pc'[r] = "idle" => pc[r] = "idle" PROVE UnsentInv'
  BY <1>1
<1>2. ASSUME NEW r \in Reqs, Request(r) \/ WebTimeout(r), ~StartRelease(r) PROVE UnsentInv'
  <2>1. UNCHANGED snd
    BY <1>2 DEF Request, NewAttempt, GiveUp, WaitReply, WaitTimeout, SleepOver, SleepCancelled,
                StoreGet, StoreRemove, Respond, ReleaseEnd, WebTimeout, attVars
  <2>2. pc' = pc \/ \E v \in {"wait", "start", "sleep", "get", "remove", "respond", "done"} :
                       pc' = [pc EXCEPT ![r] = v]
    BY <1>2 DEF Request, NewAttempt, GiveUp, WaitReply, WaitTimeout, SleepOver, SleepCancelled,
                StoreGet, StoreRemove, Respond, ReleaseEnd, WebTimeout
  <2> QED
    BY <1>1, <2>1, <2>2
<1>3. ASSUME NEW r \in Reqs, StartRelease(r) PROVE UnsentInv'
  BY <1>3 DEF StartRelease
<1>4. ASSUME NEW a \in Attempts, StoreSet(a) PROVE UnsentInv'
  <2>1. Owner(a) \notin ReleaseReqs
    BY <1>4 DEF StoreSet, LeftInv
  <2> QED
    BY <1>4, <2>1 DEF StoreSet, reqVars, Owner
<1>5. ASSUME NEW a \in Attempts, SendOk(a) \/ SendFail(a) PROVE UnsentInv'
  <2>1. snd[a] = "pending" /\ pc' = pc /\ \A b \in Attempts : b # a => snd'[b] = snd[b]
    BY <1>5 DEF SendOk, SendFail, reqVars
  <2> QED
    BY <2>1
<1>6. ASSUME NEW a \in Attempts,
            Prepare(a) \/ ErrorRemove(a) \/ SelectDone(a) \/ SelectCtx(a)
            \/ TimerExpires(a) \/ ServerAnswer(a)
      PROVE UnsentInv'
  BY <1>1, <1>6 DEF Prepare, ErrorRemove, SelectDone, SelectCtx, TimerExpires, ServerAnswer, reqVars, attVars
<1>7. ASSUME NEW m \in net, Receive(m) PROVE UnsentInv'
  BY <1>1, <1>7 DEF Receive, reqVars, attVars
<1>8. CASE Process
  BY <1>1, <1>8 DEF Process, reqVars
<1>9. CASE Clean
  BY <1>1, <1>9 DEF Clean, reqVars
<1>10. CASE UNCHANGED clientVars
  BY <1>1, <1>10 DEF clientVars, reqVars, attVars
<1> QED
  BY <1>2, <1>3, <1>4, <1>5, <1>6, <1>7, <1>8, <1>9, <1>10, AsideStep DEF Next, Exchange, Environment

\* The invariants of this module, on top of the inductive invariant.
THEOREM LeftBehind ==
    ASSUME ~ShortTTL
    PROVE  Spec => [](TypeOK /\ CurrentInv /\ IInv /\ LeftInv /\ TimeoutInv /\ UnsentInv)
<1>1. Init => LeftInv /\ TimeoutInv /\ UnsentInv
  BY MaxTriesAssumption DEF Init, LeftInv, TimeoutInv, UnsentInv, Owner, Attempts, Reqs
<1>2. TypeOK /\ CurrentInv /\ IInv /\ LeftInv /\ TimeoutInv /\ UnsentInv /\ [Next]_vars
        => LeftInv' /\ TimeoutInv' /\ UnsentInv'
  BY LeftStep, TimeoutStep, UnsentStep
<1> QED
  BY <1>1, <1>2, Inductive, PTL DEF Spec

\* A step that ends the process leaves an abandoned attempt behind: the one
\* whose send failed, the one sleep() followed, or, when Clean writes to a
\* closed Done, the one whose answer nobody took.
LEMMA PanicStep ==
    ASSUME TypeOK, CurrentInv, IInv, LeftInv, TimeoutInv, SingleClose, ~ShortTTL,
           PanicNeedsAbandonment, [Next]_vars
    PROVE  PanicNeedsAbandonment'
<1> USE NoLeaseAssumption, MaxTriesAssumption DEF TypeOK, CurrentInv
<1>1. ASSUME panic = "none", panic' = panic PROVE PanicNeedsAbandonment'
  BY <1>1 DEF PanicNeedsAbandonment
<1>2. ASSUME NEW r \in Reqs, WaitReply(r), panic = "none" PROVE PanicNeedsAbandonment'
  <2>1. Cur(r) \in Attempts
    BY <1>2, CurType DEF WaitReply
  <2>2. panic' # panic => ret[Cur(r)] = "error" /\ ret' = ret
    BY <1>2 DEF WaitReply
  <2>3. ret'[Cur(r)] = "error" => PanicNeedsAbandonment'
    BY <2>1 DEF PanicNeedsAbandonment, Abandoned
  <2> QED
    BY <1>1, <1>2, <2>2, <2>3
<1>3. ASSUME NEW r \in Reqs, StoreGet(r), panic = "none" PROVE PanicNeedsAbandonment'
  <2>1. Cur(r) \in Attempts /\ Owner(Cur(r)) = r /\ Cur(r)[2] = tries[r] /\ pc[r] = "get"
    BY <1>3, CurType DEF StoreGet, Cur
  <2>2. r \notin ReleaseReqs
    BY <2>1 DEF TimeoutInv
  <2>2a. tries[r] \in 1..MaxTries
    BY <2>1
  <2>3. ret[Cur(r)] = "nil" \/ ex[Cur(r)] # "end"
    BY <2>1 DEF LeftInv
  <2>4. UNCHANGED <<tries, ret, ex>> /\ (panic' # panic => pc' = pc)
    BY <1>3 DEF StoreGet, attVars
  <2>5. ASSUME panic' # panic PROVE Abandoned(Cur(r))'
    BY <2>1, <2>2, <2>2a, <2>3, <2>4, <2>5 DEF Abandoned, Owner, Cur
  <2>6. Cur(r)' = Cur(r)
    BY <2>4 DEF Cur
  <2> QED
    BY <1>1, <1>3, <2>1, <2>5, <2>6 DEF PanicNeedsAbandonment, Abandoned
<1>4. ASSUME Process, panic = "none" PROVE PanicNeedsAbandonment'
  <2>1. panic' # "double_close"
    BY SingleCloseStep DEF SingleClose
  <2> QED
    BY <1>1, <1>4, <2>1 DEF Process
<1>5. ASSUME Clean, panic = "none" PROVE PanicNeedsAbandonment'
  <2>1. CASE panic' = panic
    BY <1>1, <1>5, <2>1
  <2>2. CASE panic' # panic
    <3>1. PICK x \in cln : store[x] # NoLease /\ done[store[x]] = "closed"
      BY <1>5, <2>2 DEF Clean
    <3> DEFINE a == store[x]
    <3>0. x \in Attempts /\ a \in Attempts /\ Owner(a) = Owner(x)
      BY <3>1 DEF IInv, XidInv
    <3>2. /\ a \in Attempts /\ x \in Attempts
          /\ pc[Owner(a)] \in {"sleep", "done"}
      BY <3>0 DEF IInv, CleanInv, Gone
    <3>3. UNCHANGED <<pc, tries, ret, ex>>
      BY <1>5 DEF Clean, reqVars
    <3> HIDE DEF a
    <3>s. Started(a)
      BY <3>2 DEF IInv, FreshInv, a
    <3>4. /\ Owner(a) \notin ReleaseReqs
          /\ ex[a] = "end" => ret[a] \in {"nil", "error"}
      BY <3>2, <3>s DEF LeftInv, Started, a
    <3>5. a[1] \in Reqs /\ a[2] \in 1..tries[a[1]]
      BY <3>2, <3>s, AttemptParts DEF IInv, FreshInv, Started
    <3>6. Abandoned(a)
      BY <3>2, <3>4, <3>5 DEF Abandoned, Owner
    <3>7. \E b \in Attempts : Abandoned(b)'
      BY <3>2, <3>3, <3>6 DEF Abandoned, Cur
    <3> QED
      BY <3>7 DEF PanicNeedsAbandonment
  <2> QED
    BY <2>1, <2>2
<1>6. ASSUME NEW r \in Reqs, panic = "none",
            NewAttempt(r) \/ GiveUp(r) \/ WaitTimeout(r) \/ SleepOver(r) \/ SleepCancelled(r)
            \/ StoreRemove(r) \/ Respond(r) \/ StartRelease(r) \/ ReleaseEnd(r) \/ WebTimeout(r)
      PROVE PanicNeedsAbandonment'
  BY <1>1, <1>6 DEF NewAttempt, GiveUp, WaitTimeout, SleepOver, SleepCancelled, StoreRemove,
                    Respond, StartRelease, ReleaseEnd, WebTimeout
<1>7. ASSUME NEW a \in Attempts, panic = "none", Exchange(a) \/ Environment(a)
      PROVE PanicNeedsAbandonment'
  BY <1>1, <1>7 DEF Exchange, Environment, Prepare, StoreSet, ErrorRemove, SelectDone, SelectCtx,
                    TimerExpires, SendOk, SendFail, Jam, ServerAnswer
<1>8. ASSUME NEW m \in net, Receive(m), panic = "none" PROVE PanicNeedsAbandonment'
  BY <1>1, <1>8 DEF Receive
<1>9. CASE UNCHANGED clientVars
  BY <1>9 DEF clientVars, reqVars, attVars, PanicNeedsAbandonment, Abandoned, Cur
<1> QED
  BY <1>2, <1>3, <1>4, <1>5, <1>6, <1>7, <1>8, <1>9, AsideStep DEF Next, Request

\* The process only dies after a send failed or a request gave an attempt up:
\* while every attempt is answered in time none of the panics of client.go
\* and store.go can happen.
THEOREM PanicsNeedAbandonment == ASSUME ~ShortTTL PROVE Spec => []PanicNeedsAbandonment
<1>1. Init => PanicNeedsAbandonment
  BY DEF Init, PanicNeedsAbandonment
<1>2. TypeOK /\ CurrentInv /\ IInv /\ LeftInv /\ TimeoutInv /\ SingleClose /\ PanicNeedsAbandonment
        /\ [Next]_vars => PanicNeedsAbandonment'
  BY PanicStep
<1> QED
  BY <1>1, <1>2, LeftBehind, ClosedOnce, PTL DEF Spec


-----------------------------------------------------------------------------
(* The refinement                                                          *)

\* What a step that changes none of the mapped state looks like in Requests:
\* nothing happens, or the process dies.
LEMMA SilentStep ==
    ASSUME UNCHANGED <<ReqState, out, ctx, Said, PacketState>>, panic = "none"
    PROVE  [Promise!Next]_(Promise!vars)
<1>1. CASE panic' = "none"
  BY <1>1 DEF Promise!vars
<1>2. CASE panic' # "none"
  <2>1. Promise!Die
    BY <1>2 DEF Promise!Die
  <2> QED
    BY <2>1 DEF Promise!Next
<1> QED
  BY <1>1, <1>2

\* Said grows only when the DHCP server answers, and a request that goes on
\* within its handler looks the same from outside.
LEMMA SameSaid == ASSUME net' = net PROVE Said' = Said
  BY DEF Said

\* The packet of a release, too, changes only with Send.
LEMMA SamePacket == ASSUME snd' = snd PROVE PacketState' = PacketState
  BY DEF PacketState

\* A step that touches the packet of one release leaves the others alone.
LEMMA PacketChange ==
    ASSUME NEW r \in ReleaseReqs, \A q \in ReleaseReqs \ {r} : snd'[<<q, 1>>] = snd[<<q, 1>>]
    PROVE  PacketState' = [PacketState EXCEPT ![r] = PacketState'[r]]
<1>1. \A q \in ReleaseReqs \ {r} : PacketState'[q] = PacketState[q]
  BY DEF PacketState
<1>2. /\ PacketState  = [q \in ReleaseReqs |-> PacketState[q]]
      /\ PacketState' = [q \in ReleaseReqs |-> PacketState'[q]]
  BY DEF PacketState
<1> QED
  BY <1>1, <1>2

\* From outside a request is idle, busy or done.
LEMMA SameState ==
    ASSUME TypeOK, \A q \in Reqs : pc'[q] = pc[q] \/ {pc[q], pc'[q]} \cap {"idle", "done"} = {}
    PROVE  ReqState' = ReqState
  BY DEF ReqState, TypeOK

\* The handler has answered.
LEMMA DoneState ==
    ASSUME TypeOK, NEW r \in Reqs, pc[r] \notin {"idle", "done"}, pc' = [pc EXCEPT ![r] = "done"]
    PROVE  ReqState[r] = "busy" /\ ReqState' = [ReqState EXCEPT ![r] = "done"]
<1>1. pc'[r] = "done" /\ \A q \in Reqs \ {r} : pc'[q] = pc[q]
  BY DEF TypeOK
<1> QED
  BY <1>1 DEF ReqState

\* The steps of request goroutines between arrival and answer.
LEMMA BusyStep ==
    ASSUME TypeOK, NEW r \in Reqs, panic = "none",
           GiveUp(r) \/ WaitReply(r) \/ WaitTimeout(r) \/ SleepOver(r)
           \/ SleepCancelled(r) \/ StoreGet(r) \/ StoreRemove(r)
    PROVE  [Promise!Next]_(Promise!vars)
<1>1. UNCHANGED <<out, ctx, net, snd>>
  BY DEF GiveUp, WaitReply, WaitTimeout, SleepOver, SleepCancelled, StoreGet, StoreRemove, attVars
<1>2. /\ pc[r] \notin {"idle", "done"}
      /\ pc' = pc \/ \E v \in {"start", "sleep", "get", "remove", "respond"} : pc' = [pc EXCEPT ![r] = v]
  BY DEF GiveUp, WaitReply, WaitTimeout, SleepOver, SleepCancelled, StoreGet, StoreRemove
<1>3. ReqState' = ReqState
  BY <1>2, SameState DEF TypeOK
<1> QED
  BY <1>1, <1>3, SameSaid, SamePacket, SilentStep

\* A request arrives.
LEMMA ArriveStep ==
    ASSUME TypeOK, IInv, UnsentInv, NEW r \in Reqs, panic = "none",
           NewAttempt(r) \/ StartRelease(r)
    PROVE  [Promise!Next]_(Promise!vars)
<1>1. UNCHANGED <<out, ctx, net, panic>> /\ pc[r] \in {"idle", "start"}
  BY DEF NewAttempt, StartRelease
<1>2. pc' \in {[pc EXCEPT ![r] = "wait"], [pc EXCEPT ![r] = "releasing"]}
  BY DEF NewAttempt, StartRelease
<1>3. PacketState' = PacketState
  <2>1. CASE NewAttempt(r)
    BY <2>1, SamePacket DEF NewAttempt
  <2>2. CASE StartRelease(r)
    <3>1. /\ r \in ReleaseReqs /\ <<r, 1>> \in Attempts
          /\ snd' = [snd EXCEPT ![<<r, 1>>] = "pending"] /\ snd[<<r, 1>>] = "none"
      BY <2>2, MaxTriesAssumption DEF StartRelease, UnsentInv, Attempts
    <3>2. \A q \in ReleaseReqs : <<q, 1>> \in Attempts
      BY MaxTriesAssumption DEF Attempts, Reqs
    <3>3. /\ \A q \in ReleaseReqs \ {r} : snd'[<<q, 1>>] = snd[<<q, 1>>]
          /\ snd'[<<r, 1>>] = "pending"
      BY <3>1, <3>2 DEF TypeOK
    <3>4. PacketState[r] = "none" /\ PacketState'[r] = "none"
      BY <3>1, <3>3 DEF PacketState
    <3>5. PacketState = [q \in ReleaseReqs |-> PacketState[q]]
      BY DEF PacketState
    <3>6. PacketState' = [PacketState EXCEPT ![r] = PacketState'[r]]
      BY <3>1, <3>3, PacketChange
    <3> QED
      BY <3>4, <3>5, <3>6
  <2> QED
    BY <2>1, <2>2
<1>4. CASE pc[r] = "start"
  <2>1. ReqState' = ReqState
    BY <1>2, <1>4, SameState DEF TypeOK
  <2> QED
    BY <1>1, <1>3, <2>1, SameSaid, SilentStep
<1>5. CASE pc[r] = "idle"
  <2>1. ReqState[r] = "idle" /\ ReqState' = [ReqState EXCEPT ![r] = "busy"]
    <3>1. /\ pc'[r] \in {"wait", "releasing"}
          /\ \A q \in Reqs \ {r} : pc'[q] = pc[q]
      BY <1>2 DEF TypeOK
    <3> QED
      BY <1>5, <3>1 DEF ReqState
  <2>2. Promise!Arrive(r)
    BY <1>1, <1>3, <2>1, SameSaid DEF Promise!Arrive
  <2> QED
    BY <1>1, <2>2 DEF Promise!Next, Promise!Reqs, Reqs
<1> QED
  BY <1>1, <1>4, <1>5

\* What the server answered to a lease of a request it said of that request.
LEMMA AnswerSaid ==
    ASSUME TypeOK, IInv
    PROVE  \A a \in Attempts, t \in AnswerTypes : Answer(a, t) => t \in Said[Owner(a)]
<1> SUFFICES ASSUME NEW a \in Attempts, NEW t \in AnswerTypes, Answer(a, t)
             PROVE  t \in Said[Owner(a)]
  OBVIOUS
<1>1. Owner(a) \in Reqs /\ Owner(xid[a]) = Owner(a)
  BY AttemptParts DEF Owner, IInv, XidInv
<1>2. [xid |-> xid[a], type |-> t] \in net
  BY DEF Answer
<1> QED
  BY <1>1, <1>2 DEF Said

\* A handler answers with what the server said of its request, or with 408
\* after the web timeout.
LEMMA RespondStep ==
    ASSUME TypeOK, CurrentInv, IInv, TimeoutInv, NEW r \in Reqs, panic = "none", Respond(r)
    PROVE  [Promise!Next]_(Promise!vars)
<1>1. /\ pc[r] = "respond" /\ r \notin ReleaseReqs
      /\ UNCHANGED <<net, snd, panic>>
      /\ out' = [out EXCEPT ![r] = Status(r)]
      /\ ctx' = [ctx EXCEPT ![r] = TRUE]
      /\ pc'  = [pc EXCEPT ![r] = "done"]
  BY DEF Respond, TimeoutInv, attVars
<1>2. ReqState[r] = "busy" /\ ReqState' = [ReqState EXCEPT ![r] = "done"]
  BY <1>1, DoneState
<1>3. ASSUME lease[r] = NoLease PROVE Status(r) \in Promise!Statuses(r)
  <2>1. ctx[r] /\ Status(r) = 408
    BY <1>1, <1>3 DEF TimeoutInv, Status
  <2> QED
    BY <1>1, <2>1 DEF Promise!Statuses
<1>4. ASSUME lease[r] # NoLease PROVE Status(r) \in Promise!Statuses(r)
  <2>1. lease[r] \in Attempts /\ Owner(lease[r]) = r
    BY <1>4 DEF TypeOK, IInv, XidInv
  <2>2. typ[lease[r]] \in {"Ack", "Nak"}
    BY <1>1, <1>4, <2>1 DEF IInv, HandInv, DoneInv
  <2>3. typ[lease[r]] \in AnswerTypes /\ Answer(lease[r], typ[lease[r]])
    BY <2>1, <2>2 DEF IInv, DoneInv, AnswerTypes
  <2>4. typ[lease[r]] \in Said[r]
    BY <2>1, <2>3, AnswerSaid
  <2>5. Status(r) = IF typ[lease[r]] = "Nak" THEN 406 ELSE 200
    BY <1>4 DEF Status
  <2> QED
    BY <1>1, <2>2, <2>4, <2>5 DEF Promise!Statuses
<1>5. Status(r) \in Promise!Statuses(r)
  BY <1>3, <1>4
<1>6. Promise!Respond(r)
  BY <1>1, <1>2, <1>5, SameSaid, SamePacket DEF Promise!Respond
<1> QED
  BY <1>1, <1>6 DEF Promise!Next, Promise!Reqs, Reqs

\* Release answers with what became of its packet, or with 400 after the
\* web timeout.
LEMMA ReleaseStep ==
    ASSUME TypeOK, TimeoutInv, IInv, NEW r \in Reqs, panic = "none", ReleaseEnd(r)
    PROVE  [Promise!Next]_(Promise!vars)
<1>1. /\ pc[r] = "releasing" /\ r \in ReleaseReqs /\ Cur(r) = <<r, 1>>
      /\ UNCHANGED <<net, snd, panic>>
      /\ ctx' = [ctx EXCEPT ![r] = TRUE]
      /\ pc'  = [pc EXCEPT ![r] = "done"]
  BY DEF ReleaseEnd, TimeoutInv, IInv, PhaseInv, Cur, attVars
<1>2. ReqState[r] = "busy" /\ ReqState' = [ReqState EXCEPT ![r] = "done"]
  BY <1>1, DoneState
<1>3. /\ snd[<<r, 1>>] = "ok" => PacketState[r] = "sent"
      /\ snd[<<r, 1>>] = "failed" => PacketState[r] = "failed"
  BY <1>1 DEF PacketState
<1>4. \/ snd[<<r, 1>>] = "ok" /\ out' = [out EXCEPT ![r] = 200]
      \/ (snd[<<r, 1>>] = "failed" \/ ctx[r]) /\ out' = [out EXCEPT ![r] = 400]
  BY <1>1 DEF ReleaseEnd
<1>5. \E s \in Promise!Statuses(r) : out' = [out EXCEPT ![r] = s]
  <2>1. /\ snd[<<r, 1>>] = "ok" => 200 \in Promise!Statuses(r)
        /\ snd[<<r, 1>>] = "failed" \/ ctx[r] => 400 \in Promise!Statuses(r)
    BY <1>1, <1>3 DEF Promise!Statuses
  <2> QED
    BY <1>4, <2>1
<1>6. Promise!Respond(r)
  BY <1>1, <1>2, <1>5, SameSaid, SamePacket DEF Promise!Respond
<1> QED
  BY <1>1, <1>6 DEF Promise!Next, Promise!Reqs, Reqs

\* Connection.Send writes a packet or fails: seen from outside only if the
\* packet is that of a release.
LEMMA SendStep ==
    ASSUME TypeOK, NEW a \in Attempts, panic = "none", SendOk(a) \/ SendFail(a)
    PROVE  [Promise!Next]_(Promise!vars)
<1>1. UNCHANGED <<pc, out, ctx, net, panic>> /\ snd[a] = "pending"
  BY DEF SendOk, SendFail, reqVars
<1>2. PICK v \in {"ok", "failed"} : snd' = [snd EXCEPT ![a] = v]
  BY DEF SendOk, SendFail
<1>3. ReqState' = ReqState
  BY <1>1 DEF ReqState
<1>4. \A q \in ReleaseReqs : <<q, 1>> \in Attempts
  BY MaxTriesAssumption DEF Attempts, Reqs
<1>5. CASE \A q \in ReleaseReqs : a # <<q, 1>>
  <2>1. PacketState' = PacketState
    BY <1>2, <1>4, <1>5 DEF PacketState, TypeOK
  <2> QED
    BY <1>1, <1>3, <2>1, SameSaid, SilentStep
<1>6. ASSUME NEW r \in ReleaseReqs, a = <<r, 1>> PROVE [Promise!Next]_(Promise!vars)
  <2>1. /\ \A q \in ReleaseReqs \ {r} : snd'[<<q, 1>>] = snd[<<q, 1>>]
        /\ snd'[<<r, 1>>] = v
    BY <1>2, <1>4, <1>6 DEF TypeOK
  <2>2. PacketState[r] = "none" /\ PacketState'[r] \in {"sent", "failed"}
    BY <1>1, <1>6, <2>1 DEF PacketState
  <2>3. PacketState' = [PacketState EXCEPT ![r] = PacketState'[r]]
    BY <1>6, <2>1, PacketChange
  <2>4. Promise!Transmit(r)
    BY <1>1, <1>3, <2>2, <2>3, SameSaid DEF Promise!Transmit
  <2> QED
    BY <1>1, <2>4 DEF Promise!Next
<1> QED
  BY <1>5, <1>6

\* The server answers a request that has arrived, with an offer first if it
\* is one for a lease.
LEMMA AnswerStep ==
    ASSUME TypeOK, IInv, NEW a \in Attempts, panic = "none", ServerAnswer(a)
    PROVE  [Promise!Next]_(Promise!vars)
<1> DEFINE r == Owner(a)
<1>1. /\ r \in Reqs /\ r \notin ReleaseReqs /\ snd[a] = "ok"
      /\ UNCHANGED <<pc, out, ctx, snd, panic>>
  BY AttemptParts DEF ServerAnswer, reqVars, attVars, Owner
<1>2. PICK t \in AnswerTypes :
        /\ net' = net \cup {[xid |-> xid[a], type |-> t]}
        /\ t = "Offer" <=> IsDiscover(a)
  BY DEF ServerAnswer, AnswerTypes
<1> HIDE DEF r
<1>3. ReqState' = ReqState /\ PacketState' = PacketState
  BY <1>1, SamePacket DEF ReqState
<1>4. pc[r] # "idle"
  <2>1. ex[a] # "none"
    BY <1>1 DEF IInv, FreshInv, Started, r
  <2>2. tries[r] # 0
    <3>1. a[2] \in Nat \ {0} /\ tries[a[1]] \in Nat
      BY AttemptParts, MaxTriesAssumption DEF TypeOK
    <3>2. ~(a[2] > tries[a[1]])
      BY <2>1 DEF IInv, FreshInv
    <3> QED
      BY <3>1, <3>2 DEF r, Owner
  <2> QED
    BY <1>1, <2>2 DEF IInv, PhaseInv
<1>5. ReqState[r] # "idle"
  BY <1>1, <1>4 DEF ReqState, TypeOK
<1>6. Said' = [Said EXCEPT ![r] = @ \cup {t}]
  <2>1. Owner(xid[a]) = r
    BY DEF IInv, XidInv, r
  <2>2. \A q \in Reqs : Said'[q] = IF q = r THEN Said[q] \cup {t} ELSE Said[q]
    <3> DEFINE x == [xid |-> xid[a], type |-> t]
    <3>0. net' = net \cup {x} /\ Owner(x.xid) = r /\ x.type = t
      BY <1>2, <2>1
    <3> HIDE DEF x
    <3>1. \A q \in Reqs, u \in AnswerTypes :
             (\E m \in net' : Owner(m.xid) = q /\ m.type = u)
               <=> (\E m \in net : Owner(m.xid) = q /\ m.type = u) \/ (q = r /\ u = t)
      BY <3>0
    <3>2. \A q \in Reqs :
             /\ Said[q]  = {u \in AnswerTypes : \E m \in net : Owner(m.xid) = q /\ m.type = u}
             /\ Said'[q] = {u \in AnswerTypes : \E m \in net' : Owner(m.xid) = q /\ m.type = u}
      BY DEF Said
    <3>3. \A q \in Reqs : \A u : u \in Said'[q] <=> u \in Said[q] \/ (q = r /\ u = t)
      <4> SUFFICES ASSUME NEW q \in Reqs, NEW u
                   PROVE  u \in Said'[q] <=> u \in Said[q] \/ (q = r /\ u = t)
        OBVIOUS
      <4>1. /\ u \in Said[q]  <=> u \in AnswerTypes /\ \E m \in net : Owner(m.xid) = q /\ m.type = u
            /\ u \in Said'[q] <=> u \in AnswerTypes /\ \E m \in net' : Owner(m.xid) = q /\ m.type = u
        BY <3>2
      <4> QED
        BY <3>1, <4>1
    <3> SUFFICES ASSUME NEW q \in Reqs
                 PROVE  Said'[q] = IF q = r THEN Said[q] \cup {t} ELSE Said[q]
      OBVIOUS
    <3>4. CASE q = r
      <4>1. Said'[q] = Said[q] \cup {t}
        BY <3>3, <3>4
      <4> QED
        BY <3>4, <4>1
    <3>5. CASE q # r
      <4>1. Said'[q] = Said[q]
        BY <3>3, <3>5
      <4> QED
        BY <3>5, <4>1
    <3> QED
      BY <3>4, <3>5
  <2> QED
    BY <1>1, <2>2 DEF Said
<1>7. t = "Offer" => r \in LeaseReqs
  BY <1>2 DEF IsDiscover, r
<1>8. t # "Offer" => r \in RenewReqs \/ (r \in LeaseReqs /\ "Offer" \in Said[r])
  <2>1. CASE r \in LeaseReqs
    <3>1. t # "Offer" => xid[a] # a
      BY <1>2, <2>1 DEF IsDiscover, r
    <3>2. xid[a] # a => /\ xid[a] \in Attempts /\ Owner(xid[a]) = r
                        /\ done[xid[a]] = "closed" /\ IsDiscover(xid[a])
      BY <2>1 DEF IInv, XidInv, IsDiscover, TypeOK, r
    <3>3. xid[a] # a => Answer(xid[a], "Offer")
      BY <3>2 DEF IInv, DoneInv
    <3>4. xid[a] # a => "Offer" \in Said[r]
      BY <3>2, <3>3, AnswerSaid DEF AnswerTypes
    <3> QED
      BY <2>1, <3>1, <3>4
  <2>2. CASE r \notin LeaseReqs
    BY <1>1, <2>2 DEF Reqs
  <2> QED
    BY <2>1, <2>2
<1>9. Promise!Say(r, t)
  BY <1>1, <1>3, <1>5, <1>6, <1>7, <1>8 DEF Promise!Say
<1> QED
  BY <1>1, <1>9 DEF Promise!Next, Promise!Reqs, Reqs, AnswerTypes

\* Every step of the DHCP client is a step of Requests or none at all.
LEMMA RequestsStep ==
    ASSUME TypeOK, CurrentInv, IInv, LeftInv, TimeoutInv, UnsentInv, [Next]_vars
    PROVE  [Promise!Next]_(Promise!vars)
<1>1. ASSUME NEW r \in Reqs, Request(r), panic = "none" PROVE [Promise!Next]_(Promise!vars)
  BY <1>1, BusyStep, ArriveStep, RespondStep, ReleaseStep DEF Request
<1>2. ASSUME NEW r \in Reqs, WebTimeout(r), panic = "none" PROVE [Promise!Next]_(Promise!vars)
  <2>1. /\ pc[r] \notin {"idle", "done"} /\ UNCHANGED <<pc, out, net, snd, panic>>
        /\ ctx' = [ctx EXCEPT ![r] = TRUE]
    BY <1>2 DEF WebTimeout, attVars
  <2>2. ReqState[r] = "busy" /\ ReqState' = ReqState
    BY <2>1 DEF ReqState
  <2>3. Promise!Expire(r)
    BY <2>1, <2>2, SameSaid, SamePacket DEF Promise!Expire
  <2> QED
    BY <1>2, <2>3 DEF Promise!Next, Promise!Reqs, Reqs
<1>3. ASSUME UNCHANGED <<pc, out, ctx, net, snd>>, panic = "none" PROVE [Promise!Next]_(Promise!vars)
  <2>1. ReqState' = ReqState
    BY <1>3 DEF ReqState
  <2> QED
    BY <1>3, <2>1, SameSaid, SamePacket, SilentStep
<1>4. ASSUME NEW a \in Attempts, StoreSet(a), panic = "none" PROVE [Promise!Next]_(Promise!vars)
  <2>1. UNCHANGED <<pc, out, ctx, net, panic>> /\ Owner(a) \notin ReleaseReqs
    BY <1>4 DEF StoreSet, LeftInv, reqVars
  <2>2. PacketState' = PacketState
    <3>1. \A q \in ReleaseReqs : <<q, 1>> \in Attempts /\ <<q, 1>> # a
      BY <2>1, MaxTriesAssumption DEF Attempts, Reqs, Owner
    <3> QED
      BY <1>4, <3>1 DEF PacketState, StoreSet, TypeOK
  <2>3. ReqState' = ReqState
    BY <2>1 DEF ReqState
  <2> QED
    BY <1>4, <2>1, <2>2, <2>3, SameSaid, SilentStep
<1>5. ASSUME NEW a \in Attempts, panic = "none",
            Prepare(a) \/ ErrorRemove(a) \/ SelectDone(a) \/ SelectCtx(a) \/ TimerExpires(a)
      PROVE [Promise!Next]_(Promise!vars)
  BY <1>3, <1>5 DEF Prepare, ErrorRemove, SelectDone, SelectCtx, TimerExpires, reqVars
<1>6. ASSUME NEW m \in net, Receive(m), panic = "none" PROVE [Promise!Next]_(Promise!vars)
  BY <1>3, <1>6 DEF Receive, reqVars, attVars
<1>7. ASSUME Process, panic = "none" PROVE [Promise!Next]_(Promise!vars)
  BY <1>3, <1>7 DEF Process, reqVars
<1>8. ASSUME Clean, panic = "none" PROVE [Promise!Next]_(Promise!vars)
  BY <1>3, <1>8 DEF Clean, reqVars
<1>9. CASE UNCHANGED clientVars
  <2>1. UNCHANGED <<ReqState, Said, PacketState, out, ctx, panic>>
    BY <1>9, SameSaid, SamePacket DEF ReqState, clientVars, reqVars, attVars
  <2> QED
    BY <2>1 DEF Promise!vars
<1> QED
  BY <1>1, <1>2, <1>4, <1>5, <1>6, <1>7, <1>8, <1>9, SendStep, AnswerStep, AsideStep
  DEF Next, Exchange, Environment

\* The DHCP client with its handlers, for any number of requests, retries and
\* answers, is an implementation of Requests: every request gets at most one
\* status, and that status is what the server said of this request, what
\* became of its packet, or a timeout that has really happened.
THEOREM Implements == ASSUME ~ShortTTL PROVE Spec => ImplementsRequests
<1>1. Init => Promise!Init
  <2>1. ASSUME Init PROVE ReqState = [r \in Promise!Reqs |-> "idle"]
    BY <2>1 DEF Init, ReqState, Promise!Reqs, Reqs
  <2>2. ASSUME Init PROVE Said = [r \in Promise!Reqs |-> {}]
    BY <2>2 DEF Init, Said, Promise!Reqs, Reqs
  <2>3. ASSUME Init PROVE PacketState = [r \in ReleaseReqs |-> "none"]
    BY <2>3, MaxTriesAssumption DEF Init, PacketState, Attempts, Reqs
  <2> QED
    BY <2>1, <2>2, <2>3 DEF Init, Promise!Init, Promise!Reqs, Reqs
<1>2. TypeOK /\ CurrentInv /\ IInv /\ LeftInv /\ TimeoutInv /\ UnsentInv /\ [Next]_vars
        => [Promise!Next]_(Promise!vars)
  BY RequestsStep
<1> QED
  BY <1>1, <1>2, LeftBehind, PTL DEF Spec, ImplementsRequests, Promise!Spec

=============================================================================
