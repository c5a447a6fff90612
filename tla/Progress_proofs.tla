--------------------------- MODULE Progress_proofs ---------------------------
(***************************************************************************)
(* Progress of DHCPClient: every request is answered, and every entry      *)
(* leaves the store, unless the process dies, the receiver is stuck with   *)
(* the store's lock or a send is stuck with the connection.                *)
(***************************************************************************)
EXTENDS Requests_proofs

\* What is known of all states (see Requests_proofs).
Known == TypeOK /\ CurrentInv /\ IInv /\ LeftInv /\ TimeoutInv

\* The lease a request finds in the store is one of its own attempts, and not
\* one it has yet to make.
LEMMA FoundLease ==
    ASSUME Known, NEW r \in Reqs, pc[r] = "get", store[xid[Cur(r)]] # NoLease
    PROVE  LET b == store[xid[Cur(r)]] IN
           b \in Attempts /\ Owner(b) = r /\ b[2] <= tries[r] /\ xid[b] = xid[Cur(r)]
<1> DEFINE b == store[xid[Cur(r)]]
<1>1. Cur(r) \in Attempts /\ Owner(Cur(r)) = r
  BY CurType DEF Known
<1>2. xid[Cur(r)] \in Attempts /\ b \in Attempts
  BY <1>1 DEF Known, TypeOK
<1>3. xid[b] = xid[Cur(r)] /\ Owner(b) = r
  BY <1>1, <1>2 DEF Known, IInv, XidInv
<1>4. ~(b[2] > tries[b[1]])
  BY <1>2 DEF Known, IInv, FreshInv, Started
<1>5. b[2] \in Nat /\ tries[r] \in Nat
  BY <1>2, AttemptParts, MaxTriesAssumption DEF Known, TypeOK
<1> QED
  BY <1>2, <1>3, <1>4, <1>5 DEF Owner

\* A step preserves HeldInv: a request that ends lets go of its leases.
LEMMA HeldStep ==
    ASSUME Known, HeldInv, [Next]_vars PROVE HeldInv'
<1>0. \A a \in held : a \in Attempts /\ Owner(a) \in Reqs /\ a[2] \in Nat
  BY AttemptParts, MaxTriesAssumption DEF Known, TypeOK, Owner
<1> USE <1>0 DEF HeldInv
<1>t. pc \in [Reqs -> {"idle", "start", "wait", "sleep", "get", "remove", "respond", "releasing", "done"}]
      /\ tries \in [Reqs -> Nat]
  BY MaxTriesAssumption DEF Known, TypeOK
<1> USE <1>t
<1>1. ASSUME UNCHANGED <<pc, tries, held>> PROVE HeldInv'
  BY <1>1
<1>2. ASSUME NEW r \in Reqs, NewAttempt(r) PROVE HeldInv'
  BY <1>2 DEF NewAttempt
<1>3. ASSUME NEW r \in Reqs, GiveUp(r) \/ SleepCancelled(r) PROVE HeldInv'
  BY <1>3 DEF GiveUp, SleepCancelled, HeldBy
<1>4. ASSUME NEW r \in Reqs, StoreRemove(r) PROVE HeldInv'
  BY <1>4 DEF StoreRemove, HeldBy
<1>5. ASSUME NEW r \in Reqs, WaitReply(r) \/ WaitTimeout(r) \/ SleepOver(r) PROVE HeldInv'
  BY <1>5 DEF WaitReply, WaitTimeout, SleepOver
<1>6. ASSUME NEW r \in Reqs, StoreGet(r) PROVE HeldInv'
  <2> DEFINE b == store[xid[Cur(r)]]
  <2>1. pc[r] = "get" /\ tries' = tries
    BY <1>6 DEF StoreGet
  <2>2. b # NoLease => Owner(b) = r /\ b[2] <= tries[r]
    BY <2>1, FoundLease
  <2>3. \/ held' = held /\ pc' = pc
        \/ held' = held /\ pc' = [pc EXCEPT ![r] = "start"]
        \/ b # NoLease /\ held' = held \cup {b} /\ pc' = [pc EXCEPT ![r] = "remove"]
        \/ b # NoLease /\ held' = held \cup {b} /\ pc' = [pc EXCEPT ![r] = "start"] /\ phase[r] = "renew"
    BY <1>6 DEF StoreGet
  <2>4. phase[r] = "renew" => r \in RenewReqs
    BY <2>1 DEF Known, IInv, PhaseInv, TimeoutInv, Reqs
  <2> HIDE DEF b
  <2> QED
    BY <2>1, <2>2, <2>3, <2>4
<1>7. ASSUME NEW r \in Reqs, Respond(r) \/ StartRelease(r) \/ ReleaseEnd(r) PROVE HeldInv'
  BY <1>7 DEF Respond, StartRelease, ReleaseEnd
<1>8. ASSUME NEW r \in Reqs, WebTimeout(r) PROVE HeldInv'
  BY <1>1, <1>8 DEF WebTimeout
<1>9. ASSUME NEW a \in Attempts, Exchange(a) \/ Environment(a) PROVE HeldInv'
  BY <1>1, <1>9 DEF Exchange, Environment, Prepare, StoreSet, ErrorRemove, SelectDone, SelectCtx,
     TimerExpires, SendOk, SendFail, Jam, ServerAnswer, reqVars
<1>10. ASSUME NEW m \in net, Receive(m) PROVE HeldInv'
  BY <1>1, <1>10 DEF Receive, reqVars
<1>11. CASE Process
  BY <1>1, <1>11 DEF Process, reqVars
<1>12. CASE Clean
  BY <1>1, <1>12 DEF Clean, reqVars
<1>13. CASE UNCHANGED clientVars
  BY <1>1, <1>13 DEF clientVars, reqVars
<1> QED
  BY <1>2, <1>3, <1>4, <1>5, <1>6, <1>7, <1>8, <1>9, <1>10, <1>11, <1>12, <1>13, AsideStep DEF Next, Request

\* A step preserves RoundsInv.
LEMMA RoundsStep ==
    ASSUME Known, RoundsInv, [Next]_vars PROVE RoundsInv'
<1> USE MaxTriesAssumption DEF RoundsInv, Limit, Known, TypeOK
<1>1. ASSUME UNCHANGED <<pc, tries, phase, out, ctx>> PROVE RoundsInv'
  BY <1>1
<1>2. ASSUME NEW r \in Reqs, NewAttempt(r) PROVE RoundsInv'
  BY <1>2 DEF NewAttempt
<1>3. ASSUME NEW r \in Reqs, GiveUp(r) \/ SleepCancelled(r) \/ WaitTimeout(r) \/ SleepOver(r)
      PROVE RoundsInv'
  BY <1>3 DEF GiveUp, SleepCancelled, WaitTimeout, SleepOver
<1>4. ASSUME NEW r \in Reqs, StoreRemove(r) PROVE RoundsInv'
  BY <1>4 DEF StoreRemove
<1>5. ASSUME NEW r \in Reqs, WaitReply(r) PROVE RoundsInv'
  BY <1>5 DEF WaitReply
<1>6. ASSUME NEW r \in Reqs, StoreGet(r) PROVE RoundsInv'
  BY <1>6 DEF StoreGet
<1>7. ASSUME NEW r \in Reqs, Respond(r) PROVE RoundsInv'
  BY <1>7 DEF Respond, Status
<1>8. ASSUME NEW r \in Reqs, StartRelease(r) \/ ReleaseEnd(r) \/ WebTimeout(r) PROVE RoundsInv'
  <2>1. CASE StartRelease(r)
    BY <2>1 DEF StartRelease
  <2>2. CASE ReleaseEnd(r)
    BY <2>2 DEF ReleaseEnd
  <2>3. CASE WebTimeout(r)
    BY <2>3 DEF WebTimeout
  <2> QED
    BY <1>8, <2>1, <2>2, <2>3
<1>9. ASSUME NEW a \in Attempts, Exchange(a) \/ Environment(a) PROVE RoundsInv'
  BY <1>1, <1>9 DEF Exchange, Environment, Prepare, StoreSet, ErrorRemove, SelectDone, SelectCtx,
     TimerExpires, SendOk, SendFail, Jam, ServerAnswer, reqVars
<1>10. ASSUME NEW m \in net, Receive(m) PROVE RoundsInv'
  BY <1>1, <1>10 DEF Receive, reqVars
<1>11. CASE Process
  BY <1>1, <1>11 DEF Process, reqVars
<1>12. CASE Clean
  BY <1>1, <1>12 DEF Clean, reqVars
<1>13. CASE UNCHANGED clientVars
  BY <1>1, <1>13 DEF clientVars, reqVars
<1> QED
  BY <1>2, <1>3, <1>4, <1>5, <1>6, <1>7, <1>8, <1>9, <1>10, <1>11, <1>12, <1>13, AsideStep DEF Next, Request

PInv == Known /\ HeldInv /\ RoundsInv

\* No lock of a lease outlives the request that took it: what a receiver waits
\* for with the store locked is a lease of a request that is still at work,
\* and in a GetLease one that waits for the store in its turn.
THEOREM LocksHeld == ASSUME ~ShortTTL PROVE Spec => []PInv
<1>1. Init => HeldInv /\ RoundsInv
  BY MaxTriesAssumption DEF Init, HeldInv, RoundsInv, Limit
<1>2. Known /\ HeldInv /\ RoundsInv /\ [Next]_vars => (HeldInv /\ RoundsInv)'
  BY HeldStep, RoundsStep
<1>3. TypeOK /\ CurrentInv /\ IInv /\ LeftInv /\ TimeoutInv /\ UnsentInv => Known
  BY DEF Known
<1>4. Known /\ HeldInv /\ RoundsInv => PInv
  BY DEF PInv
<1> QED
  BY <1>1, <1>2, <1>3, <1>4, LeftBehind, PTL DEF Spec

-----------------------------------------------------------------------------
(* How a request goes on                                                   *)

Dead          == panic # "none"
Waiting(r, n)  == pc[r] = "wait" /\ tries[r] = n
Expired(r, n)  == pc[r] = "wait" /\ tries[r] = n /\ timer[Cur(r)]
Sleeping(r, n) == pc[r] = "sleep" /\ tries[r] = n
Getting(r, n)  == pc[r] = "get" /\ tries[r] = n
Removing(r, n) == pc[r] = "remove" /\ tries[r] = n
Starting(r, n) == pc[r] = "start" /\ tries[r] = n
More(r, n)     == pc[r] = "start" /\ tries[r] = n /\ tries[r] < Limit(r)
Last(r, n)     == pc[r] = "start" /\ tries[r] = n /\ tries[r] = Limit(r)
Over(r, n)     == pc[r] = "start" /\ tries[r] = n /\ tries[r] = Limit(r) /\ ctx[r]
Responding(r)  == pc[r] = "respond"
Releasing(r)   == pc[r] = "releasing"
Released(r)    == pc[r] = "releasing" /\ ctx[r]
Told(r)        == out[r] # 0
Jammed(r)      == jam /\ pc[r] = "sleep"

\* Only its own goroutine moves a request; a timeout that has passed stays so.
LEMMA OwnStep ==
    ASSUME PInv, [Next]_vars, NEW r \in Reqs
    PROVE  /\ Request(r) \/ UNCHANGED <<pc[r], tries[r], phase[r], out[r], lease[r]>>
           /\ ctx[r] => ctx'[r]
           /\ \A a \in Attempts : timer[a] => timer'[a]
<1> USE DEF PInv, Known, TypeOK
<1>1. ASSUME NEW q \in Reqs, Request(q)
      PROVE  /\ q = r \/ UNCHANGED <<pc[r], tries[r], phase[r], out[r], lease[r]>>
             /\ ctx[r] => ctx'[r]
             /\ timer' = timer
  <2>1. CASE NewAttempt(q) \/ GiveUp(q) \/ WaitTimeout(q) \/ SleepOver(q) \/ SleepCancelled(q)
    BY <2>1 DEF NewAttempt, GiveUp, WaitTimeout, SleepOver, SleepCancelled, attVars
  <2>2. CASE WaitReply(q)
    BY <2>2 DEF WaitReply
  <2>3. CASE StoreGet(q)
    BY <2>3 DEF StoreGet, attVars
  <2>4. CASE StoreRemove(q)
    BY <2>4 DEF StoreRemove, attVars
  <2>5. CASE Respond(q) \/ StartRelease(q) \/ ReleaseEnd(q)
    BY <2>5 DEF Respond, StartRelease, ReleaseEnd, attVars
  <2> QED
    BY <1>1, <2>1, <2>2, <2>3, <2>4, <2>5 DEF Request
<1>2. ASSUME NEW q \in Reqs, WebTimeout(q)
      PROVE  /\ UNCHANGED <<pc[r], tries[r], phase[r], out[r], lease[r]>>
             /\ ctx[r] => ctx'[r]
             /\ timer' = timer
  BY <1>2 DEF WebTimeout, attVars
<1>3. ASSUME NEW a \in Attempts, Exchange(a) \/ SendOk(a) \/ SendFail(a) \/ ServerAnswer(a)
      PROVE  reqVars' = reqVars /\ timer' = timer
  BY <1>3 DEF Exchange, Prepare, StoreSet, ErrorRemove, SelectDone, SelectCtx, SendOk, SendFail, ServerAnswer, attVars
<1>4. ASSUME NEW a \in Attempts, TimerExpires(a)
      PROVE  reqVars' = reqVars /\ \A b \in Attempts : timer[b] => timer'[b]
  BY <1>4 DEF TimerExpires
<1>5. ASSUME (\E m \in net : Receive(m)) \/ Process \/ Clean
      PROVE  reqVars' = reqVars /\ timer' = timer
  BY <1>5 DEF Receive, Process, Clean, attVars
<1>6. CASE UNCHANGED clientVars
  BY <1>6 DEF clientVars, reqVars, attVars
<1> QED
  BY <1>1, <1>2, <1>3, <1>4, <1>5, <1>6, AsideStep DEF Next, Environment, reqVars

\* From stage to stage, and from a round to the next.
LEMMA StageStep ==
    ASSUME PInv, [Next]_vars, NEW r \in Reqs, NEW n \in Nat
    PROVE  /\ Waiting(r, n)  => (Waiting(r, n) \/ Sleeping(r, n) \/ Removing(r, n))'
           /\ Expired(r, n)  => (Expired(r, n) \/ Sleeping(r, n) \/ Removing(r, n))'
           /\ Sleeping(r, n) => (Sleeping(r, n) \/ Getting(r, n) \/ Responding(r))'
           /\ Getting(r, n)  => (Getting(r, n) \/ Starting(r, n) \/ Removing(r, n))'
           /\ Removing(r, n) => (Removing(r, n) \/ Starting(r, n) \/ Responding(r))'
           /\ More(r, n)     => (More(r, n) \/ Waiting(r, n + 1))'
           /\ Last(r, n)     => (Last(r, n) \/ Responding(r))'
           /\ Over(r, n)     => (Over(r, n) \/ Responding(r))'
           /\ Responding(r)  => (Responding(r) \/ Told(r))'
           /\ Releasing(r)   => (Releasing(r) \/ Told(r))'
           /\ Released(r)    => (Released(r) \/ Told(r))'
<1> USE DEF PInv, Known, TypeOK, Waiting, Expired, Sleeping, Getting, Removing, Starting, More, Last,
            Over, Responding, Releasing, Released, Told
<1>1. CASE ~Request(r)
  <2>1. UNCHANGED <<pc[r], tries[r], phase[r], out[r]>> /\ (ctx[r] => ctx'[r])
        /\ \A a \in Attempts : timer[a] => timer'[a]
    BY <1>1, OwnStep
  <2>2. Cur(r)' = Cur(r) /\ Limit(r)' = Limit(r)
    BY <2>1 DEF Cur, Limit
  <2>3. pc[r] = "wait" => Cur(r) \in Attempts
    BY CurType
  <2> QED
    BY <2>1, <2>2, <2>3
<1>2. CASE Request(r)
  <2> USE MaxTriesAssumption
  <2>1. CASE NewAttempt(r)
    BY <2>1 DEF NewAttempt
  <2>2. CASE GiveUp(r) \/ WaitTimeout(r) \/ SleepOver(r) \/ SleepCancelled(r)
    BY <2>2 DEF GiveUp, WaitTimeout, SleepOver, SleepCancelled, Limit
  <2>3. CASE WaitReply(r)
    BY <2>3 DEF WaitReply, Cur
  <2>4. CASE StoreGet(r)
    BY <2>4 DEF StoreGet
  <2>5. CASE StoreRemove(r)
    BY <2>5 DEF StoreRemove
  <2>6. CASE Respond(r)
    BY <2>6 DEF Respond, Status
  <2>7. CASE StartRelease(r) \/ ReleaseEnd(r)
    BY <2>7 DEF StartRelease, ReleaseEnd
  <2> QED
    BY <1>2, <2>1, <2>2, <2>3, <2>4, <2>5, <2>6, <2>7 DEF Request
<1> QED
  BY <1>1, <1>2

\* A request goroutine that makes a step does not stay where it is, unless
\* the process dies.
LEMMA OwnEnds ==
    ASSUME PInv, NEW r \in Reqs, pc[r] # "idle", Request(r), pc'[r] = pc[r]
    PROVE  Dead'
<1> USE DEF PInv, Known, TypeOK, Dead
<1>1. CASE NewAttempt(r)
  BY <1>1 DEF NewAttempt
<1>2. CASE GiveUp(r) \/ WaitTimeout(r) \/ SleepOver(r) \/ SleepCancelled(r)
  BY <1>2 DEF GiveUp, WaitTimeout, SleepOver, SleepCancelled
<1>3. CASE WaitReply(r)
  BY <1>3 DEF WaitReply
<1>4. CASE StoreGet(r)
  BY <1>4 DEF StoreGet
<1>5. CASE StoreRemove(r)
  BY <1>5 DEF StoreRemove
<1>6. CASE Respond(r) \/ StartRelease(r) \/ ReleaseEnd(r)
  BY <1>6 DEF Respond, StartRelease, ReleaseEnd
<1> QED
  BY <1>1, <1>2, <1>3, <1>4, <1>5, <1>6 DEF Request

\* The part of a request's n-th round that needs no lock: the timer ends
\* wait(), the retry time or the context sleep() unless the connection is
\* jammed, and the loop goes on with round m = n + 1 or gives up after the web
\* timeout.
Unlocked(r, n, m) ==
    /\ [](Waiting(r, n) => <>(Sleeping(r, n) \/ Removing(r, n) \/ Dead))
    /\ [](Sleeping(r, n) => <>(Getting(r, n) \/ Responding(r) \/ Jammed(r) \/ Dead))
    /\ [](Starting(r, n) => <>(Waiting(r, m) \/ Responding(r) \/ Dead))
    /\ [](Responding(r) => <>(Told(r) \/ Dead))

LEMMA UnlockedPart ==
    ASSUME ~ShortTTL, NEW r \in Reqs, NEW n \in Nat, NEW m \in Nat, m = n + 1
    PROVE  FairSpec /\ []Guards => Unlocked(r, n, m)
<1>f. FairSpec => Spec /\ SF_vars(Step(pc[r] # "idle" /\ Request(r))) /\ WF_vars(Step(WebTimeout(r)))
  <2>1. Fairness => RequestFairness(r)
    BY DEF Fairness
  <2> QED
    BY <2>1, PTL DEF FairSpec, RequestFairness
<1>1. FairSpec /\ []Guards => [](Waiting(r, n) => <>(Expired(r, n) \/ Sleeping(r, n) \/ Removing(r, n) \/ Dead))
  <2>1. ASSUME NEW a \in Attempts, a = <<r, n>>
        PROVE  FairSpec /\ []Guards =>
                 [](Waiting(r, n) => <>(Expired(r, n) \/ Sleeping(r, n) \/ Removing(r, n) \/ Dead))
    <3>f. FairSpec => Spec /\ WF_vars(Step(TimerExpires(a)))
      <4>1. Fairness => AttemptFairness(a)
        BY DEF Fairness
      <4> QED
        BY <4>1, PTL DEF FairSpec, AttemptFairness
    <3>0. Waiting(r, n) => Cur(r) = a /\ Owner(a) = r
      BY <2>1 DEF Waiting, Cur, Owner
    <3>1. PInv /\ Waiting(r, n) /\ [Next]_vars => (Waiting(r, n) \/ Sleeping(r, n) \/ Removing(r, n))'
      BY StageStep
    <3>2. PInv /\ Waiting(r, n) /\ <<Step(TimerExpires(a))>>_vars => Expired(r, n)'
      BY <2>1 DEF Step, TimerExpires, Waiting, Expired, Cur, reqVars, PInv, Known, TypeOK
    <3>3. Waiting(r, n) /\ Guards =>
            Expired(r, n) \/ Dead \/ ENABLED <<Step(TimerExpires(a))>>_vars
      BY <3>0 DEF Guards, Waiting, Expired, Dead
    <3> QED
      BY <3>f, <3>1, <3>2, <3>3, LocksHeld, PTL DEF Spec
  <2>2. CASE <<r, n>> \notin Attempts
    <3>1. PInv => ~Waiting(r, n)
      BY <2>2, CurType DEF PInv, Known, Waiting, Cur
    <3> QED
      BY <1>f, <3>1, LocksHeld, PTL
  <2> QED
    BY <2>1, <2>2
<1>2. FairSpec /\ []Guards => [](Expired(r, n) => <>(Sleeping(r, n) \/ Removing(r, n) \/ Dead))
  <2>1. PInv /\ Expired(r, n) /\ [Next]_vars => (Expired(r, n) \/ Sleeping(r, n) \/ Removing(r, n))'
    BY StageStep
  <2>2. PInv /\ Expired(r, n) /\ <<Step(pc[r] # "idle" /\ Request(r))>>_vars => (Sleeping(r, n) \/ Removing(r, n) \/ Dead)'
    <3>1. ASSUME PInv, Expired(r, n), Step(pc[r] # "idle" /\ Request(r)) PROVE Next /\ (Expired(r, n)' => Dead')
      BY <3>1, OwnEnds DEF Step, Next, Expired, Dead
    <3> QED
      BY <3>1, StageStep
  <2>3. PInv /\ Expired(r, n) /\ Guards => Dead \/ ENABLED <<Step(pc[r] # "idle" /\ Request(r))>>_vars
    BY DEF Guards, RequestGuard, Expired, Dead
  <2> QED
    BY <1>f, <2>1, <2>2, <2>3, LocksHeld, PTL DEF Spec
<1>3. FairSpec /\ []Guards => [](Sleeping(r, n) => <>(Getting(r, n) \/ Responding(r) \/ Jammed(r) \/ Dead))
  <2>1. PInv /\ Sleeping(r, n) /\ [Next]_vars => (Sleeping(r, n) \/ Getting(r, n) \/ Responding(r))'
    BY StageStep
  <2>2. PInv /\ Sleeping(r, n) /\ <<Step(pc[r] # "idle" /\ Request(r))>>_vars => (Getting(r, n) \/ Responding(r) \/ Dead)'
    <3>1. ASSUME PInv, Sleeping(r, n), Step(pc[r] # "idle" /\ Request(r)) PROVE Next /\ (Sleeping(r, n)' => Dead')
      BY <3>1, OwnEnds DEF Step, Next, Sleeping, Dead
    <3> QED
      BY <3>1, StageStep
  <2>3. PInv /\ Sleeping(r, n) /\ Guards => Jammed(r) \/ Dead \/ ENABLED <<Step(pc[r] # "idle" /\ Request(r))>>_vars
    BY DEF Guards, RequestGuard, Sleeping, Jammed, Dead
  <2> QED
    BY <1>f, <2>1, <2>2, <2>3, LocksHeld, PTL DEF Spec
<1>4. FairSpec /\ []Guards => [](More(r, n) => <>(Waiting(r, n + 1) \/ Dead))
  <2>1. PInv /\ More(r, n) /\ [Next]_vars => (More(r, n) \/ Waiting(r, n + 1))'
    BY StageStep
  <2>2. PInv /\ More(r, n) /\ <<Step(pc[r] # "idle" /\ Request(r))>>_vars => (Waiting(r, n + 1) \/ Dead)'
    <3>1. ASSUME PInv, More(r, n), Step(pc[r] # "idle" /\ Request(r)) PROVE Next /\ (More(r, n)' => Dead')
      BY <3>1, OwnEnds DEF Step, Next, More, Dead
    <3> QED
      BY <3>1, StageStep
  <2>3. PInv /\ More(r, n) /\ Guards => Dead \/ ENABLED <<Step(pc[r] # "idle" /\ Request(r))>>_vars
    BY DEF Guards, RequestGuard, More, Dead, PInv, Known, TimeoutInv
  <2> QED
    BY <1>f, <2>1, <2>2, <2>3, LocksHeld, PTL DEF Spec
<1>5. FairSpec /\ []Guards => [](Last(r, n) => <>(Over(r, n) \/ Responding(r) \/ Dead))
  <2>1. PInv /\ Last(r, n) /\ [Next]_vars => (Last(r, n) \/ Responding(r))'
    BY StageStep
  <2>2. PInv /\ Last(r, n) /\ <<Step(WebTimeout(r))>>_vars => Over(r, n)'
    BY DEF Step, WebTimeout, Last, Over, Limit, PInv, Known, TypeOK
  <2>3. Last(r, n) /\ Guards => Over(r, n) \/ Dead \/ ENABLED <<Step(WebTimeout(r))>>_vars
    BY DEF Guards, Last, Over, Dead
  <2> QED
    BY <1>f, <2>1, <2>2, <2>3, LocksHeld, PTL DEF Spec
<1>6. FairSpec /\ []Guards => [](Over(r, n) => <>(Responding(r) \/ Dead))
  <2>1. PInv /\ Over(r, n) /\ [Next]_vars => (Over(r, n) \/ Responding(r))'
    BY StageStep
  <2>2. PInv /\ Over(r, n) /\ <<Step(pc[r] # "idle" /\ Request(r))>>_vars => (Responding(r) \/ Dead)'
    <3>1. ASSUME PInv, Over(r, n), Step(pc[r] # "idle" /\ Request(r)) PROVE Next /\ (Over(r, n)' => Dead')
      BY <3>1, OwnEnds DEF Step, Next, Over, Dead
    <3> QED
      BY <3>1, StageStep
  <2>3. PInv /\ Over(r, n) /\ Guards => Dead \/ ENABLED <<Step(pc[r] # "idle" /\ Request(r))>>_vars
    BY DEF Guards, RequestGuard, Over, Dead, PInv, Known, TimeoutInv
  <2> QED
    BY <1>f, <2>1, <2>2, <2>3, LocksHeld, PTL DEF Spec
<1>7. FairSpec /\ []Guards => [](Responding(r) => <>(Told(r) \/ Dead))
  <2>1. PInv /\ Responding(r) /\ [Next]_vars => (Responding(r) \/ Told(r))'
    BY StageStep
  <2>2. PInv /\ Responding(r) /\ <<Step(pc[r] # "idle" /\ Request(r))>>_vars => (Told(r) \/ Dead)'
    <3>1. ASSUME PInv, Responding(r), Step(pc[r] # "idle" /\ Request(r)) PROVE Next /\ (Responding(r)' => Dead')
      BY <3>1, OwnEnds DEF Step, Next, Responding, Dead
    <3> QED
      BY <3>1, StageStep
  <2>3. PInv /\ Responding(r) /\ Guards => Dead \/ ENABLED <<Step(pc[r] # "idle" /\ Request(r))>>_vars
    BY DEF Guards, RequestGuard, Responding, Dead
  <2> QED
    BY <1>f, <2>1, <2>2, <2>3, LocksHeld, PTL DEF Spec
<1>8. PInv /\ Starting(r, n) => More(r, n) \/ Last(r, n)
  BY MaxTriesAssumption DEF PInv, Known, TypeOK, RoundsInv, Limit, Starting, More, Last
<1>9. Waiting(r, n + 1) => Waiting(r, m)
  OBVIOUS
<1> QED
  BY <1>f, <1>1, <1>2, <1>3, <1>4, <1>5, <1>6, <1>7, <1>8, <1>9, LocksHeld, PTL DEF Unlocked

-----------------------------------------------------------------------------
(* How the receiver goes on                                                *)

Idle       == rcv = NoPacket
Ready      == rcv # NoPacket /\ rcv.lease \notin held
Blocked(r) == rcv # NoPacket /\ rcv.lease \in held /\ Owner(rcv.lease) = r
Busy(r, n) == Waiting(r, n) \/ Sleeping(r, n) \/ Getting(r, n) \/ Removing(r, n) \/ Starting(r, n)

\* A receiver that waits for a lease waits for this one until it is free,
\* and then nobody takes it away again.
LEMMA ReceiverStep ==
    ASSUME PInv, [Next]_vars
    PROVE  /\ Ready => (Ready \/ Idle)'
           /\ \A r \in Reqs : Blocked(r) => (Blocked(r) \/ Ready)'
<1> USE DEF Ready, Idle, Blocked
<1>1. ASSUME rcv' = rcv, rcv # NoPacket => (rcv.lease \in held' => rcv.lease \in held)
      PROVE  /\ Ready => (Ready \/ Idle)'
             /\ \A r \in Reqs : Blocked(r) => (Blocked(r) \/ Ready)'
  BY <1>1
<1>2. ASSUME NEW q \in Reqs, Request(q) \/ WebTimeout(q)
      PROVE  rcv' = rcv /\ (rcv # NoPacket => (rcv.lease \in held' => rcv.lease \in held))
  <2>1. CASE GiveUp(q) \/ SleepCancelled(q) \/ StoreRemove(q)
    BY <2>1 DEF GiveUp, SleepCancelled, StoreRemove
  <2>2. CASE StoreGet(q)
    <3>1. rcv # NoPacket => rcv.lease # NoLease
      BY NoLeaseAssumption DEF PInv, Known, IInv, PacketInv
    <3> DEFINE b == store[xid[Cur(q)]]
    <3>2. rcv' = rcv /\ (b = NoLease \/ rcv.lease # b) /\ (held' = held \/ held' = held \cup {b})
      BY <2>2 DEF StoreGet
    <3> QED
      BY <3>1, <3>2
  <2>3. CASE NewAttempt(q) \/ WaitReply(q) \/ WaitTimeout(q) \/ SleepOver(q) \/ Respond(q)
             \/ StartRelease(q) \/ ReleaseEnd(q) \/ WebTimeout(q)
    BY <2>3 DEF NewAttempt, WaitReply, WaitTimeout, SleepOver, Respond, StartRelease, ReleaseEnd, WebTimeout
  <2> QED
    BY <1>2, <2>1, <2>2, <2>3 DEF Request
<1>3. ASSUME NEW a \in Attempts, Exchange(a) \/ Environment(a) PROVE rcv' = rcv /\ held' = held
  BY <1>3 DEF Exchange, Environment, Prepare, StoreSet, ErrorRemove, SelectDone, SelectCtx,
              TimerExpires, SendOk, SendFail, Jam, ServerAnswer
<1>4. ASSUME NEW m \in net, Receive(m) PROVE rcv = NoPacket
  BY <1>4 DEF Receive
<1>5. CASE Process
  BY <1>5 DEF Process
<1>6. CASE Clean
  BY <1>1, <1>6 DEF Clean
<1>7. CASE UNCHANGED clientVars
  BY <1>7 DEF clientVars
<1> QED
  BY <1>1, <1>2, <1>3, <1>4, <1>5, <1>6, <1>7, AsideStep DEF Next

\* Renew, which takes its locks along, never asks the store for a lease it
\* has locked already.
LEMMA OtherLease ==
    ASSUME PInv, NEW r \in Reqs, pc[r] = "get", Blocked(r)
    PROVE  store[xid[Cur(r)]] # rcv.lease
<1> SUFFICES ASSUME store[xid[Cur(r)]] = rcv.lease PROVE FALSE
  OBVIOUS
<1>1. rcv.lease \in Attempts /\ Owner(rcv.lease) = r /\ rcv.lease \in held
  BY DEF Blocked, PInv, Known, TypeOK
<1>2. r \in RenewReqs /\ rcv.lease[2] < tries[r]
  BY <1>1 DEF PInv, HeldInv
<1>3. Cur(r) \in Attempts /\ Owner(Cur(r)) = r
  BY CurType DEF PInv, Known
<1>4. xid[rcv.lease] = xid[Cur(r)]
  BY <1>1, FoundLease, NoLeaseAssumption DEF PInv
<1>5. xid[rcv.lease] = rcv.lease /\ xid[Cur(r)] = Cur(r)
  BY <1>1, <1>2, <1>3, ReqsAssumption DEF PInv, Known, IInv, XidInv
<1>6. rcv.lease[2] = tries[r]
  <2>1. rcv.lease = Cur(r)
    BY <1>4, <1>5
  <2> QED
    BY <2>1 DEF Cur
<1>7. tries[r] \in Nat
  BY MaxTriesAssumption DEF PInv, Known, TypeOK
<1> QED
  BY <1>2, <1>6, <1>7

\* While the receiver waits for one of its leases a request gets to its next
\* round, or the lease is free, or both are stuck.
BlockedRound(r, n, m) ==
    [](Busy(r, n) /\ Blocked(r) => <>((Busy(r, m) /\ Blocked(r)) \/ Ready \/ ReceiverStuck \/ Dead))

LEMMA BlockedPart ==
    ASSUME ~ShortTTL, NEW r \in Reqs, NEW n \in Nat, NEW m \in Nat, m = n + 1
    PROVE  FairSpec /\ []Guards => BlockedRound(r, n, m)
<1>f. FairSpec => Spec /\ SF_vars(Step(pc[r] # "idle" /\ Request(r)))
  <2>1. Fairness => RequestFairness(r)
    BY DEF Fairness
  <2> QED
    BY <2>1, PTL DEF FairSpec, RequestFairness
<1>u. FairSpec /\ []Guards => Unlocked(r, n, m)
  BY UnlockedPart
<1>1. PInv /\ Blocked(r) /\ [Next]_vars => (Blocked(r) \/ Ready)'
  BY ReceiverStep
<1>2. (Removing(r, n) \/ Jammed(r)) /\ Blocked(r) => ReceiverStuck
  BY DEF Removing, Jammed, Blocked, ReceiverStuck, RLocked
<1>3. PInv => ~(Responding(r) /\ Blocked(r))
  BY DEF PInv, HeldInv, Responding, Blocked
<1>4. FairSpec /\ []Guards =>
        [](Getting(r, n) /\ Blocked(r) =>
             <>((Starting(r, n) /\ Blocked(r)) \/ Ready \/ ReceiverStuck \/ Dead))
  <2>1. PInv /\ Getting(r, n) /\ [Next]_vars => (Getting(r, n) \/ Starting(r, n) \/ Removing(r, n))'
    BY StageStep
  <2>2. PInv /\ Getting(r, n) /\ <<Step(pc[r] # "idle" /\ Request(r))>>_vars => (Starting(r, n) \/ Removing(r, n) \/ Dead)'
    <3>1. ASSUME PInv, Getting(r, n), Step(pc[r] # "idle" /\ Request(r)) PROVE Next /\ (Getting(r, n)' => Dead')
      BY <3>1, OwnEnds DEF Step, Next, Getting, Dead
    <3> QED
      BY <3>1, StageStep
  <2>3. PInv /\ Getting(r, n) /\ Blocked(r) /\ Guards =>
          ReceiverStuck \/ Dead \/ ENABLED <<Step(pc[r] # "idle" /\ Request(r))>>_vars
    BY OtherLease DEF Guards, RequestGuard, Getting, Blocked, Dead, ReceiverStuck, RLocked
  <2> QED
    BY <1>f, <1>1, <1>2, <2>1, <2>2, <2>3, LocksHeld, PTL DEF Spec
<1>5. Busy(r, n) => Waiting(r, n) \/ Sleeping(r, n) \/ Getting(r, n) \/ Removing(r, n) \/ Starting(r, n)
  BY DEF Busy
<1>6. Waiting(r, m) => Busy(r, m)
  BY DEF Busy
<1> QED
  BY <1>f, <1>u, <1>1, <1>2, <1>3, <1>4, <1>5, <1>6, LocksHeld, PTL DEF Spec, Unlocked, BlockedRound

\* With at most three rounds, the receiver is done with every packet some
\* time, unless it is stuck.
Unblocks(r) == [](Blocked(r) => <>(Ready \/ ReceiverStuck \/ Dead))

LEMMA Unblocked ==
    ASSUME ~ShortTTL, MaxTries <= 3, NEW r \in Reqs
    PROVE  FairSpec /\ []Guards => Unblocks(r)
<1>1. FairSpec /\ []Guards => BlockedRound(r, 0, 1)
  BY BlockedPart
<1>2. FairSpec /\ []Guards => BlockedRound(r, 1, 2)
  BY BlockedPart
<1>3. FairSpec /\ []Guards => BlockedRound(r, 2, 3)
  BY BlockedPart
<1>4. FairSpec /\ []Guards => BlockedRound(r, 3, 4)
  BY BlockedPart
<1>5. PInv /\ Blocked(r) => Busy(r, 0) \/ Busy(r, 1) \/ Busy(r, 2) \/ Busy(r, 3)
  <2>1. PInv /\ Blocked(r) => pc[r] \in {"start", "wait", "sleep", "get", "remove"}
    BY DEF PInv, HeldInv, Blocked
  <2>2. PInv => tries[r] \in {0, 1, 2, 3}
    <3>1. PInv => tries[r] \in 0..MaxTries
      BY DEF PInv, Known, TypeOK
    <3> QED
      BY <3>1, MaxTriesAssumption
  <2> QED
    BY <2>1, <2>2 DEF Busy, Waiting, Sleeping, Getting, Removing, Starting
<1>6. PInv => ~Busy(r, 4)
  BY MaxTriesAssumption DEF PInv, Known, TypeOK, Busy, Waiting, Sleeping, Getting, Removing, Starting
<1> QED
  BY <1>1, <1>2, <1>3, <1>4, <1>5, <1>6, LocksHeld, PTL DEF FairSpec, BlockedRound, Unblocks

LEMMA ReceiverIdle ==
    ASSUME ~ShortTTL, MaxTries <= 3
    PROVE  FairSpec /\ []Guards => []<>(Idle \/ ReceiverStuck \/ Dead)
<1>f. FairSpec => Spec /\ WF_vars(Step(Process))
  BY PTL DEF FairSpec, Fairness, ReceiverFairness
<1>1. FairSpec /\ []Guards => [](Ready => <>(Idle \/ Dead))
  <2>1. PInv /\ Ready /\ [Next]_vars => (Ready \/ Idle)'
    BY ReceiverStep
  <2>2. <<Step(Process)>>_vars => Idle'
    BY DEF Step, Process, Idle
  <2>3. Ready /\ Guards => Dead \/ ENABLED <<Step(Process)>>_vars
    BY DEF Ready, Guards, Dead
  <2> QED
    BY <1>f, <2>1, <2>2, <2>3, LocksHeld, PTL DEF Spec
<1>2. FairSpec /\ []Guards => \A r \in Reqs : Unblocks(r)
  BY Unblocked
<1>3. (\A r \in Reqs : Unblocks(r)) => [](\A r \in Reqs : Blocked(r) => <>(Ready \/ ReceiverStuck \/ Dead))
  BY DEF Unblocks
<1>4. (\A r \in Reqs : Blocked(r) => <>(Ready \/ ReceiverStuck \/ Dead)) /\ (\E r \in Reqs : Blocked(r))
        => <>(Ready \/ ReceiverStuck \/ Dead)
  OBVIOUS
<1>5. PInv => Idle \/ Ready \/ \E r \in Reqs : Blocked(r)
  BY AttemptParts DEF PInv, Known, TypeOK, Idle, Ready, Blocked, Owner
<1> QED
  BY <1>f, <1>1, <1>2, <1>3, <1>4, <1>5, LocksHeld, PTL

-----------------------------------------------------------------------------
(* Every request is answered                                               *)

\* An idle receiver keeps nobody from the store.
LEMMA IdleFree == ASSUME PInv, Idle PROVE CanRead /\ CanWrite /\ rcv.lease = NoLease
  BY NoLeaseAssumption DEF PInv, Known, TypeOK, Idle, NoPacket, CanRead, CanWrite, RLocked

\* A request gets from a round to the next, or to its answer.
Round(r, n, m) ==
    [](Busy(r, n) \/ Responding(r) => <>(Busy(r, m) \/ Told(r) \/ ReceiverStuck \/ Jammed(r) \/ Dead))

LEMMA RoundEnds ==
    ASSUME ~ShortTTL, MaxTries <= 3, NEW r \in Reqs, NEW n \in Nat, NEW m \in Nat, m = n + 1
    PROVE  FairSpec /\ []Guards => Round(r, n, m)
<1>f. FairSpec => Spec /\ SF_vars(Step(pc[r] # "idle" /\ Request(r)))
  <2>1. Fairness => RequestFairness(r)
    BY DEF Fairness
  <2> QED
    BY <2>1, PTL DEF FairSpec, RequestFairness
<1>u. FairSpec /\ []Guards => Unlocked(r, n, m)
  BY UnlockedPart
<1>1. FairSpec /\ []Guards => [](Getting(r, n) => <>(Starting(r, n) \/ Removing(r, n) \/ ReceiverStuck \/ Dead))
  <2>1. PInv /\ Getting(r, n) /\ [Next]_vars => (Getting(r, n) \/ Starting(r, n) \/ Removing(r, n))'
    BY StageStep
  <2>2. PInv /\ Getting(r, n) /\ <<Step(pc[r] # "idle" /\ Request(r))>>_vars => (Starting(r, n) \/ Removing(r, n) \/ Dead)'
    <3>1. ASSUME PInv, Getting(r, n), Step(pc[r] # "idle" /\ Request(r)) PROVE Next /\ (Getting(r, n)' => Dead')
      BY <3>1, OwnEnds DEF Step, Next, Getting, Dead
    <3> QED
      BY <3>1, StageStep
  <2>3. PInv /\ Getting(r, n) /\ Idle /\ Guards => Dead \/ ENABLED <<Step(pc[r] # "idle" /\ Request(r))>>_vars
    BY IdleFree DEF Guards, RequestGuard, Getting, Dead
  <2> QED
    BY <1>f, <2>1, <2>2, <2>3, LocksHeld, ReceiverIdle, PTL DEF Spec
<1>2. FairSpec /\ []Guards => [](Removing(r, n) => <>(Starting(r, n) \/ Responding(r) \/ ReceiverStuck \/ Dead))
  <2>1. PInv /\ Removing(r, n) /\ [Next]_vars => (Removing(r, n) \/ Starting(r, n) \/ Responding(r))'
    BY StageStep
  <2>2. PInv /\ Removing(r, n) /\ <<Step(pc[r] # "idle" /\ Request(r))>>_vars => (Starting(r, n) \/ Responding(r) \/ Dead)'
    <3>1. ASSUME PInv, Removing(r, n), Step(pc[r] # "idle" /\ Request(r)) PROVE Next /\ (Removing(r, n)' => Dead')
      BY <3>1, OwnEnds DEF Step, Next, Removing, Dead
    <3> QED
      BY <3>1, StageStep
  <2>3. PInv /\ Removing(r, n) /\ Idle /\ Guards => Dead \/ ENABLED <<Step(pc[r] # "idle" /\ Request(r))>>_vars
    BY IdleFree DEF Guards, RequestGuard, Removing, Dead
  <2> QED
    BY <1>f, <2>1, <2>2, <2>3, LocksHeld, ReceiverIdle, PTL DEF Spec
<1>3. Busy(r, n) => Waiting(r, n) \/ Sleeping(r, n) \/ Getting(r, n) \/ Removing(r, n) \/ Starting(r, n)
  BY DEF Busy
<1>4. Waiting(r, m) => Busy(r, m)
  BY DEF Busy
<1> QED
  BY <1>u, <1>1, <1>2, <1>3, <1>4, PTL DEF Unlocked, Round

\* DELETE waits for Connection.Send or for the web timeout.
LEMMA ReleaseAnswered ==
    ASSUME ~ShortTTL, NEW r \in Reqs
    PROVE  FairSpec /\ []Guards => [](Releasing(r) => <>(Told(r) \/ Dead))
<1>f. FairSpec => Spec /\ SF_vars(Step(pc[r] # "idle" /\ Request(r))) /\ WF_vars(Step(WebTimeout(r)))
  <2>1. Fairness => RequestFairness(r)
    BY DEF Fairness
  <2> QED
    BY <2>1, PTL DEF FairSpec, RequestFairness
<1>1. FairSpec /\ []Guards => [](Releasing(r) => <>(Released(r) \/ Told(r) \/ Dead))
  <2>1. PInv /\ Releasing(r) /\ [Next]_vars => (Releasing(r) \/ Told(r))'
    BY StageStep
  <2>2. PInv /\ Releasing(r) /\ <<Step(WebTimeout(r))>>_vars => Released(r)'
    BY DEF Step, WebTimeout, Releasing, Released, PInv, Known, TypeOK
  <2>3. Releasing(r) /\ Guards => Released(r) \/ Dead \/ ENABLED <<Step(WebTimeout(r))>>_vars
    BY DEF Guards, Releasing, Released, Dead
  <2> QED
    BY <1>f, <2>1, <2>2, <2>3, LocksHeld, PTL DEF Spec
<1>2. FairSpec /\ []Guards => [](Released(r) => <>(Told(r) \/ Dead))
  <2>1. PInv /\ Released(r) /\ [Next]_vars => (Released(r) \/ Told(r))'
    BY StageStep
  <2>2. PInv /\ Released(r) /\ <<Step(pc[r] # "idle" /\ Request(r))>>_vars => (Told(r) \/ Dead)'
    <3>1. ASSUME PInv, Released(r), Step(pc[r] # "idle" /\ Request(r)) PROVE Next /\ (Released(r)' => Dead')
      BY <3>1, OwnEnds DEF Step, Next, Released, Dead
    <3> QED
      BY <3>1, StageStep
  <2>3. Released(r) /\ Guards => Dead \/ ENABLED <<Step(pc[r] # "idle" /\ Request(r))>>_vars
    BY DEF Guards, RequestGuard, Released, Dead
  <2> QED
    BY <1>f, <2>1, <2>2, <2>3, LocksHeld, PTL DEF Spec
<1> QED
  BY <1>1, <1>2, PTL

Ends(r) == [](pc[r] # "idle" => <>(Told(r) \/ Dead \/ ReceiverStuck \/ Jammed(r)))

LEMMA RequestEnds ==
    ASSUME ~ShortTTL, MaxTries <= 3, NEW r \in Reqs
    PROVE  FairSpec /\ []Guards => Ends(r)
<1>1. FairSpec /\ []Guards => Round(r, 0, 1)
  BY RoundEnds
<1>2. FairSpec /\ []Guards => Round(r, 1, 2)
  BY RoundEnds
<1>3. FairSpec /\ []Guards => Round(r, 2, 3)
  BY RoundEnds
<1>4. FairSpec /\ []Guards => Round(r, 3, 4)
  BY RoundEnds
<1>5. PInv /\ pc[r] # "idle" =>
        \/ Busy(r, 0) \/ Busy(r, 1) \/ Busy(r, 2) \/ Busy(r, 3)
        \/ Responding(r) \/ Releasing(r) \/ Told(r)
  <2>1. PInv => tries[r] \in {0, 1, 2, 3}
    <3>1. PInv => tries[r] \in 0..MaxTries
      BY DEF PInv, Known, TypeOK
    <3> QED
      BY <3>1, MaxTriesAssumption
  <2>2. PInv /\ pc[r] = "done" => Told(r)
    BY DEF PInv, RoundsInv, Told
  <2> QED
    BY <2>1, <2>2 DEF PInv, Known, TypeOK, Busy, Waiting, Sleeping, Getting, Removing, Starting, Responding, Releasing
<1>6. PInv => ~Busy(r, 4)
  BY MaxTriesAssumption DEF PInv, Known, TypeOK, Busy, Waiting, Sleeping, Getting, Removing, Starting
<1> QED
  BY <1>1, <1>2, <1>3, <1>4, <1>5, <1>6, ReleaseAnswered, LocksHeld, PTL DEF FairSpec, Round, Ends

\* Every request that has arrived is answered unless the process dies, the
\* receiver is stuck with the store's lock, or the request itself waits in
\* sleep() for a connection that is jammed: for any number of requests that
\* make up to three attempts each, which is what the default timeouts of
\* cmd/root.go leave time for.  (Guards says when steps can be taken; see there.)
THEOREM RequestsAnswered ==
    ASSUME ~ShortTTL, MaxTries <= 3
    PROVE  FairSpec /\ []Guards => HangOnlyWhenStuck
<1>1. ASSUME NEW r \in Reqs
      PROVE  FairSpec /\ []Guards =>
               (pc[r] # "idle" ~> (\/ out[r] # 0 \/ panic # "none"
                                   \/ ReceiverStuck \/ (jam /\ pc[r] = "sleep")))
  <2>1. FairSpec /\ []Guards => Ends(r)
    BY RequestEnds
  <2>2. Told(r) => out[r] # 0
    BY DEF Told
  <2>3. Dead => panic # "none"
    BY DEF Dead
  <2>4. Jammed(r) => jam /\ pc[r] = "sleep"
    BY DEF Jammed
  <2> QED
    BY <2>1, <2>2, <2>3, <2>4, PTL DEF Ends
<1> QED
  BY <1>1 DEF HangOnlyWhenStuck

-----------------------------------------------------------------------------
(* Every entry leaves the store                                            *)

\* Exchange a of a request that is gone is in step v, or has come to its end:
\* nobody takes its result any more.
At(a, v) == Gone(Owner(a)) /\ ex[a] = v
Quiet(a) == Gone(Owner(a)) /\ ex[a] \in {"none", "reply", "end"}

LEMMA ExchangeStep ==
    ASSUME PInv, [Next]_vars, NEW a \in Attempts
    PROVE  /\ At(a, "spawn")  => (At(a, "spawn") \/ At(a, "set"))'
           /\ At(a, "set")    => (At(a, "set") \/ At(a, "send"))'
           /\ At(a, "send")   => (At(a, "send") \/ At(a, "answer") \/ At(a, "remove") \/ Quiet(a))'
           /\ At(a, "answer") => (At(a, "answer") \/ Quiet(a))'
           /\ At(a, "remove") => (At(a, "remove") \/ Quiet(a))'
           /\ Quiet(a)        => Quiet(a)'
<1> SUFFICES ASSUME Gone(Owner(a))
             PROVE  /\ Gone(Owner(a))'
                    /\ \/ ex'[a] = ex[a]
                       \/ ex[a] = "spawn" /\ ex'[a] = "set"
                       \/ ex[a] = "set" /\ ex'[a] = "send"
                       \/ ex[a] = "send" /\ ex'[a] \in {"answer", "remove", "reply"}
                       \/ ex[a] = "answer" /\ ex'[a] = "reply"
                       \/ ex[a] = "remove" /\ ex'[a] = "reply"
  BY DEF At, Quiet
<1>0. Owner(a) \in Reqs
  BY AttemptParts DEF Owner
<1> USE DEF PInv, Known, TypeOK
<1>1. ASSUME NEW q \in Reqs, Request(q) PROVE q # Owner(a)
  BY <1>1 DEF Gone, Request, NewAttempt, GiveUp, WaitReply, WaitTimeout, SleepOver, SleepCancelled,
              StoreGet, StoreRemove, Respond, StartRelease, ReleaseEnd
<1>2. Gone(Owner(a))'
  BY <1>0, GoneStep
<1>3. ASSUME NEW q \in Reqs, Request(q) \/ WebTimeout(q) PROVE ex'[a] = ex[a]
  <2>1. CASE NewAttempt(q)
    <3>1. a # <<q, tries[q] + 1>>
      BY <1>1, <2>1 DEF Request, Owner
    <3> QED
      BY <2>1, <3>1 DEF NewAttempt
  <2>2. CASE WaitReply(q)
    <3>1. a # Cur(q)
      BY <1>1, <2>2 DEF Request, Owner, Cur
    <3>2. ex' = [ex EXCEPT ![Cur(q)] = "end"]
      BY <2>2 DEF WaitReply
    <3> QED
      BY <3>1, <3>2
  <2>3. CASE GiveUp(q) \/ WaitTimeout(q) \/ SleepOver(q) \/ SleepCancelled(q) \/ StoreGet(q)
             \/ StoreRemove(q) \/ Respond(q) \/ StartRelease(q) \/ ReleaseEnd(q) \/ WebTimeout(q)
    BY <2>3 DEF GiveUp, WaitTimeout, SleepOver, SleepCancelled, StoreGet, StoreRemove, Respond,
                StartRelease, ReleaseEnd, WebTimeout, attVars
  <2> QED
    BY <1>3, <2>1, <2>2, <2>3 DEF Request
<1>4. ASSUME NEW b \in Attempts, Exchange(b) \/ SendOk(b) \/ SendFail(b), b # a PROVE ex'[a] = ex[a]
  BY <1>4 DEF Exchange, Prepare, StoreSet, ErrorRemove, SelectDone, SelectCtx, SendOk, SendFail, Failed
<1>5. ASSUME Exchange(a) \/ SendOk(a) \/ SendFail(a)
      PROVE  \/ ex'[a] = ex[a]
             \/ ex[a] = "spawn" /\ ex'[a] = "set"
             \/ ex[a] = "set" /\ ex'[a] = "send"
             \/ ex[a] = "send" /\ ex'[a] \in {"answer", "remove", "reply"}
             \/ ex[a] = "answer" /\ ex'[a] = "reply"
             \/ ex[a] = "remove" /\ ex'[a] = "reply"
  BY <1>5 DEF Exchange, Prepare, StoreSet, ErrorRemove, SelectDone, SelectCtx, SendOk, SendFail, Failed
<1>6. ASSUME NEW b \in Attempts, TimerExpires(b) \/ ServerAnswer(b) PROVE ex' = ex
  BY <1>6 DEF TimerExpires, ServerAnswer, attVars
<1>7. ASSUME (\E m \in net : Receive(m)) \/ Process \/ Clean PROVE ex' = ex
  BY <1>7 DEF Receive, Process, Clean, attVars
<1>8. CASE UNCHANGED clientVars
  BY <1>2, <1>8 DEF clientVars, attVars
<1> QED
  BY <1>2, <1>3, <1>4, <1>5, <1>6, <1>7, <1>8, AsideStep DEF Next, Environment

LEMMA ExchangeEnds ==
    ASSUME PInv, NEW a \in Attempts, Exchange(a) PROVE ex'[a] # ex[a]
  BY DEF PInv, Known, TypeOK, Exchange, Prepare, StoreSet, ErrorRemove, SelectDone, SelectCtx, Failed

\* An exchange ends once its request is gone, whose context is over then.
Silenced(a) == [](Gone(Owner(a)) => <>(([]Quiet(a)) \/ ReceiverStuck \/ Dead))

LEMMA ExchangesEnd ==
    ASSUME ~ShortTTL, MaxTries <= 3, NEW a \in Attempts
    PROVE  FairSpec /\ []Guards => Silenced(a)
<1>f. FairSpec => Spec /\ SF_vars(Step(Exchange(a)))
  <2>1. Fairness => AttemptFairness(a)
    BY DEF Fairness
  <2> QED
    BY <2>1, PTL DEF FairSpec, AttemptFairness
<1>1. FairSpec /\ []Guards => [](At(a, "spawn") => <>(At(a, "set") \/ ReceiverStuck \/ Dead))
  <2>1. PInv /\ At(a, "spawn") /\ [Next]_vars => (At(a, "spawn") \/ At(a, "set"))'
    BY ExchangeStep
  <2>2. PInv /\ At(a, "spawn") /\ <<Step(Exchange(a))>>_vars => (At(a, "set"))'
    <3>1. ASSUME PInv, At(a, "spawn"), Step(Exchange(a)) PROVE Next /\ ~At(a, "spawn")'
      BY <3>1, ExchangeEnds DEF Step, Next, At
    <3> QED
      BY <3>1, ExchangeStep
  <2>3. PInv /\ At(a, "spawn") /\ Idle /\ Guards => Dead \/ ENABLED <<Step(Exchange(a))>>_vars
    BY IdleFree DEF Guards, ExchangeGuard, At, Dead
  <2> QED
    BY <1>f, <2>1, <2>2, <2>3, LocksHeld, ReceiverIdle, PTL DEF Spec
<1>2. FairSpec /\ []Guards => [](At(a, "set") => <>(At(a, "send") \/ ReceiverStuck \/ Dead))
  <2>1. PInv /\ At(a, "set") /\ [Next]_vars => (At(a, "set") \/ At(a, "send"))'
    BY ExchangeStep
  <2>2. PInv /\ At(a, "set") /\ <<Step(Exchange(a))>>_vars => (At(a, "send"))'
    <3>1. ASSUME PInv, At(a, "set"), Step(Exchange(a)) PROVE Next /\ ~At(a, "set")'
      BY <3>1, ExchangeEnds DEF Step, Next, At
    <3> QED
      BY <3>1, ExchangeStep
  <2>3. PInv /\ At(a, "set") /\ Idle /\ Guards => Dead \/ ENABLED <<Step(Exchange(a))>>_vars
    BY IdleFree DEF Guards, ExchangeGuard, At, Dead
  <2> QED
    BY <1>f, <2>1, <2>2, <2>3, LocksHeld, ReceiverIdle, PTL DEF Spec
<1>3. FairSpec /\ []Guards => [](At(a, "send") => <>(At(a, "answer") \/ At(a, "remove") \/ Quiet(a) \/ ReceiverStuck \/ Dead))
  <2>1. PInv /\ At(a, "send") /\ [Next]_vars => (At(a, "send") \/ At(a, "answer") \/ At(a, "remove") \/ Quiet(a))'
    BY ExchangeStep
  <2>2. PInv /\ At(a, "send") /\ <<Step(Exchange(a))>>_vars => (At(a, "answer") \/ At(a, "remove") \/ Quiet(a))'
    <3>1. ASSUME PInv, At(a, "send"), Step(Exchange(a)) PROVE Next /\ ~At(a, "send")'
      BY <3>1, ExchangeEnds DEF Step, Next, At
    <3> QED
      BY <3>1, ExchangeStep
  <2>3. PInv /\ At(a, "send") /\ Idle /\ Guards => Dead \/ ENABLED <<Step(Exchange(a))>>_vars
    BY AttemptParts DEF Guards, ExchangeGuard, At, Dead, ExchangeDone, Gone, Owner, PInv, RoundsInv
  <2> QED
    BY <1>f, <2>1, <2>2, <2>3, LocksHeld, ReceiverIdle, PTL DEF Spec
<1>4. FairSpec /\ []Guards => [](At(a, "answer") => <>(Quiet(a) \/ ReceiverStuck \/ Dead))
  <2>1. PInv /\ At(a, "answer") /\ [Next]_vars => (At(a, "answer") \/ Quiet(a))'
    BY ExchangeStep
  <2>2. PInv /\ At(a, "answer") /\ <<Step(Exchange(a))>>_vars => (Quiet(a))'
    <3>1. ASSUME PInv, At(a, "answer"), Step(Exchange(a)) PROVE Next /\ ~At(a, "answer")'
      BY <3>1, ExchangeEnds DEF Step, Next, At
    <3> QED
      BY <3>1, ExchangeStep
  <2>3. PInv /\ At(a, "answer") /\ Idle /\ Guards => Dead \/ ENABLED <<Step(Exchange(a))>>_vars
    BY AttemptParts DEF Guards, ExchangeGuard, At, Dead, ExchangeDone, Gone, Owner, PInv, RoundsInv
  <2> QED
    BY <1>f, <2>1, <2>2, <2>3, LocksHeld, ReceiverIdle, PTL DEF Spec
<1>5. FairSpec /\ []Guards => [](At(a, "remove") => <>(Quiet(a) \/ ReceiverStuck \/ Dead))
  <2>1. PInv /\ At(a, "remove") /\ [Next]_vars => (At(a, "remove") \/ Quiet(a))'
    BY ExchangeStep
  <2>2. PInv /\ At(a, "remove") /\ <<Step(Exchange(a))>>_vars => (Quiet(a))'
    <3>1. ASSUME PInv, At(a, "remove"), Step(Exchange(a)) PROVE Next /\ ~At(a, "remove")'
      BY <3>1, ExchangeEnds DEF Step, Next, At
    <3> QED
      BY <3>1, ExchangeStep
  <2>3. PInv /\ At(a, "remove") /\ Idle /\ Guards => Dead \/ ENABLED <<Step(Exchange(a))>>_vars
    BY IdleFree DEF Guards, ExchangeGuard, At, Dead
  <2> QED
    BY <1>f, <2>1, <2>2, <2>3, LocksHeld, ReceiverIdle, PTL DEF Spec
<1>6. PInv /\ Quiet(a) /\ [Next]_vars => Quiet(a)'
  BY ExchangeStep
<1>7. PInv /\ Gone(Owner(a)) =>
        At(a, "spawn") \/ At(a, "set") \/ At(a, "send") \/ At(a, "answer") \/ At(a, "remove") \/ Quiet(a)
  BY DEF PInv, Known, TypeOK, At, Quiet
<1> QED
  BY <1>f, <1>1, <1>2, <1>3, <1>4, <1>5, <1>6, <1>7, LocksHeld, PTL DEF Spec, Silenced

\* The same, said of the i-th attempt of r, if there is one.
NoMore(r, i) == <<r, i>> \in Attempts => ex[<<r, i>>] \in {"none", "reply", "end"}
Settled(r, i) == [](Gone(r) => <>(([]NoMore(r, i)) \/ ReceiverStuck \/ Dead))

LEMMA AttemptsEnd ==
    ASSUME ~ShortTTL, MaxTries <= 3, NEW r \in Reqs, NEW i \in Nat
    PROVE  FairSpec /\ []Guards => Settled(r, i)
<1>1. ASSUME NEW a \in Attempts, a = <<r, i>> PROVE FairSpec /\ []Guards => Settled(r, i)
  <2>1. FairSpec /\ []Guards => Silenced(a)
    BY ExchangesEnd
  <2>2. Gone(r) => Gone(Owner(a))
    BY <1>1 DEF Owner
  <2>3. Quiet(a) => NoMore(r, i)
    BY <1>1 DEF Quiet, NoMore
  <2> QED
    BY <2>1, <2>2, <2>3, PTL DEF Silenced, Settled
<1>2. CASE <<r, i>> \notin Attempts
  <2>1. NoMore(r, i)
    BY <1>2 DEF NoMore
  <2> QED
    BY <2>1, PTL DEF Settled
<1> QED
  BY <1>1, <1>2

\* Only Clean takes entries off its list.
LEMMA ListKept ==
    ASSUME cln # {}, [Next]_vars, ~Clean PROVE cln' = cln
<1>1. ASSUME NEW q \in Reqs, Request(q) \/ WebTimeout(q) PROVE cln' = cln
  BY <1>1 DEF Request, NewAttempt, GiveUp, WaitReply, WaitTimeout, SleepOver, SleepCancelled,
              StoreGet, StoreRemove, Respond, StartRelease, ReleaseEnd, WebTimeout
<1>2. ASSUME NEW b \in Attempts, Exchange(b) \/ Environment(b) PROVE cln' = cln
  BY <1>2 DEF Exchange, Environment, Prepare, StoreSet, ErrorRemove, SelectDone, SelectCtx,
              TimerExpires, SendOk, SendFail, Jam, ServerAnswer
<1>3. ASSUME (\E m \in net : Receive(m)) \/ Process PROVE cln' = cln
  BY <1>3 DEF Receive, Process
<1>4. ASSUME NEW S \in SUBSET Attempts, CleanList(S) PROVE FALSE
  BY <1>4 DEF CleanList
<1> QED
  BY <1>1, <1>2, <1>3, <1>4 DEF Next, vars

\* The cleaner gets round to making a list again and again: after Clean the
\* store's lock is free, and an idle receiver leaves it free.
Listing == cln = {} /\ CanRead

LEMMA CleanerFree ==
    ASSUME ~ShortTTL, MaxTries <= 3
    PROVE  FairSpec /\ []Guards => []<>(Listing \/ ReceiverStuck \/ Dead)
<1>f. FairSpec => Spec /\ SF_vars(Step(Clean))
  BY PTL DEF FairSpec, Fairness, CleanerFairness
<1>1. (cln # {}) /\ Clean => Listing'
  BY DEF Clean, Listing, CanWrite, CanRead, RLocked
<1>2. (cln # {}) /\ [Next]_vars => (cln # {})' \/ Listing'
  BY <1>1, ListKept
<1>3. FairSpec /\ []Guards => [](cln # {} => <>(Listing \/ ReceiverStuck \/ Dead))
  <2>1. (cln # {}) /\ <<Step(Clean)>>_vars => Listing'
    BY <1>1 DEF Step
  <2>2. PInv /\ (cln # {}) /\ Idle /\ Guards => Dead \/ ENABLED <<Step(Clean)>>_vars
    BY IdleFree DEF Guards, Dead
  <2> QED
    BY <1>f, <1>2, <2>1, <2>2, LocksHeld, ReceiverIdle, PTL DEF Spec
<1>4. PInv /\ Idle => Listing \/ cln # {}
  BY IdleFree DEF Listing
<1> QED
  BY <1>f, <1>3, <1>4, LocksHeld, ReceiverIdle, PTL

Stored(x)  == store[x] # NoLease
Listed(x)  == x \in cln
Drained(x) == [](Stored(x) => <>(~Stored(x) \/ Dead \/ ReceiverStuck))

\* What the cleaner has listed it removes.
LEMMA ListedLeaves ==
    ASSUME ~ShortTTL, MaxTries <= 3, NEW a \in Attempts
    PROVE  FairSpec /\ []Guards => [](Listed(a) => <>(~Stored(a) \/ ReceiverStuck \/ Dead))
<1>f. FairSpec => Spec /\ SF_vars(Step(Clean))
  BY PTL DEF FairSpec, Fairness, CleanerFairness
<1>1. Listed(a) /\ Clean => ~Stored(a)'
  BY DEF Clean, Listed, Stored
<1>2. Listed(a) /\ [Next]_vars => Listed(a)' \/ ~Stored(a)'
  BY <1>1, ListKept DEF Listed
<1>3. Listed(a) /\ <<Step(Clean)>>_vars => ~Stored(a)'
  BY <1>1 DEF Step
<1>4. PInv /\ Listed(a) /\ Idle /\ Guards => Dead \/ ENABLED <<Step(Clean)>>_vars
  BY IdleFree DEF Guards, Dead, Listed
<1> QED
  BY <1>f, <1>2, <1>3, <1>4, LocksHeld, ReceiverIdle, PTL DEF Spec

\* A request whose sleep() never ends is gone with its web timeout.
LEMMA JammedGone ==
    ASSUME ~ShortTTL, NEW r \in Reqs
    PROVE  FairSpec /\ []Guards => [](Jammed(r) => <>(Gone(r) \/ Dead))
<1>f. FairSpec => Spec /\ WF_vars(Step(WebTimeout(r)))
  <2>1. Fairness => RequestFairness(r)
    BY DEF Fairness
  <2> QED
    BY <2>1, PTL DEF FairSpec, RequestFairness
<1>1. PInv /\ Jammed(r) /\ [Next]_vars => Jammed(r)'
  <2> SUFFICES ASSUME PInv, Jammed(r), [Next]_vars PROVE Jammed(r)'
    OBVIOUS
  <2>1. ~Request(r)
    BY DEF Jammed, Request, NewAttempt, GiveUp, WaitReply, WaitTimeout, SleepOver, SleepCancelled,
           StoreGet, StoreRemove, Respond, StartRelease, ReleaseEnd
  <2>2. pc'[r] = pc[r]
    BY <2>1, OwnStep
  <2>3. jam'
    <3>1. ASSUME NEW q \in Reqs, Request(q) \/ WebTimeout(q) PROVE jam' = jam
      BY <3>1 DEF Request, NewAttempt, GiveUp, WaitReply, WaitTimeout, SleepOver, SleepCancelled,
                  StoreGet, StoreRemove, Respond, StartRelease, ReleaseEnd, WebTimeout
    <3>2. ASSUME NEW b \in Attempts, Exchange(b) \/ Environment(b) PROVE jam' = jam \/ jam' = TRUE
      BY <3>2 DEF Exchange, Environment, Prepare, StoreSet, ErrorRemove, SelectDone, SelectCtx,
                  TimerExpires, SendOk, SendFail, Jam, ServerAnswer
    <3>3. ASSUME (\E m \in net : Receive(m)) \/ Process \/ Clean \/ \E S \in SUBSET Attempts : CleanList(S)
          PROVE  jam' = jam
      BY <3>3 DEF Receive, Process, Clean, CleanList
    <3> QED
      BY <3>1, <3>2, <3>3 DEF Next, vars, Jammed
  <2> QED
    BY <2>2, <2>3 DEF Jammed
<1>2. PInv /\ Jammed(r) /\ <<Step(WebTimeout(r))>>_vars => Gone(r)'
  BY DEF Step, WebTimeout, Jammed, Gone, PInv, Known, TypeOK
<1>3. Jammed(r) /\ Guards => Gone(r) \/ Dead \/ ENABLED <<Step(WebTimeout(r))>>_vars
  BY DEF Guards, Jammed, Gone, Dead
<1> QED
  BY <1>f, <1>1, <1>2, <1>3, LocksHeld, PTL DEF Spec

LEMMA EntryLeaves ==
    ASSUME ~ShortTTL, MaxTries <= 3, NEW a \in Attempts, NEW r \in Reqs, Owner(a) = r
    PROVE  FairSpec /\ []Guards => Drained(a)
<1>f. FairSpec => Spec /\ SF_vars(Step(ListEntry(a)))
  <2>1. Fairness => AttemptFairness(a)
    BY DEF Fairness
  <2> QED
    BY <2>1, PTL DEF FairSpec, AttemptFairness
<1>1. FairSpec /\ []Guards => Ends(r)
  BY RequestEnds
<1>2. PInv /\ Stored(a) => pc[r] # "idle" /\ store[a] \in Attempts /\ Owner(store[a]) = r /\ Started(store[a])
  <2> SUFFICES ASSUME PInv, Stored(a)
               PROVE  pc[r] # "idle" /\ store[a] \in Attempts /\ Owner(store[a]) = r /\ Started(store[a])
    OBVIOUS
  <2>1. store[a] \in Attempts
    BY DEF PInv, Known, TypeOK, Stored
  <2>2. Owner(store[a]) = r
    BY <2>1 DEF PInv, Known, IInv, XidInv, Stored
  <2>3. Started(store[a])
    BY <2>1 DEF PInv, Known, IInv, FreshInv
  <2>4. ~(store[a][2] > tries[r])
    BY <2>1, <2>2, <2>3 DEF PInv, Known, IInv, FreshInv, Started, Owner
  <2>5. store[a][2] \in 1..MaxTries /\ tries[r] \in Nat
    BY <2>1, AttemptParts, MaxTriesAssumption DEF PInv, Known, TypeOK
  <2>6. tries[r] # 0
    BY <2>4, <2>5, MaxTriesAssumption
  <2> QED
    BY <2>1, <2>2, <2>3, <2>6 DEF PInv, Known, IInv, PhaseInv
<1>3. PInv /\ Told(r) => Gone(r)
  BY DEF PInv, Known, IInv, PhaseInv, Told, Gone
<1>4. PInv /\ Gone(r) /\ [Next]_vars => Gone(r)'
  BY GoneStep DEF PInv, Known
<1>5. FairSpec /\ []Guards => Settled(r, 1)
  BY AttemptsEnd
<1>6. FairSpec /\ []Guards => Settled(r, 2)
  BY AttemptsEnd
<1>7. FairSpec /\ []Guards => Settled(r, 3)
  BY AttemptsEnd
<1>8. PInv /\ Stored(a) /\ Gone(r) /\ NoMore(r, 1) /\ NoMore(r, 2) /\ NoMore(r, 3) => Outdated(a)
  <2> SUFFICES ASSUME PInv, Stored(a), Gone(r), NoMore(r, 1), NoMore(r, 2), NoMore(r, 3)
               PROVE  Outdated(a)
    OBVIOUS
  <2>1. store[a] \in Attempts /\ Owner(store[a]) = r /\ Started(store[a])
    BY <1>2
  <2>2. store[a] = <<r, 1>> \/ store[a] = <<r, 2>> \/ store[a] = <<r, 3>>
    <3>1. store[a][2] \in 1..MaxTries /\ store[a] = <<r, store[a][2]>>
      BY <2>1, AttemptParts DEF Owner
    <3>2. store[a][2] = 1 \/ store[a][2] = 2 \/ store[a][2] = 3
      BY <3>1, MaxTriesAssumption
    <3> QED
      BY <3>1, <3>2
  <2>3. ex[store[a]] \in {"none", "reply", "end"}
    BY <2>1, <2>2 DEF NoMore
  <2> QED
    BY <2>1, <2>3 DEF Outdated, Stored, Started
<1>9. <<Step(ListEntry(a))>>_vars => Listed(a)'
  BY DEF Step, ListEntry, CleanList, Listed
<1>10. Outdated(a) /\ Listing /\ Guards => Dead \/ ENABLED <<Step(ListEntry(a))>>_vars
  BY DEF Guards, Dead, Listing, Outdated
<1>11. FairSpec /\ []Guards => [](Listed(a) => <>(~Stored(a) \/ ReceiverStuck \/ Dead))
  BY ListedLeaves
<1>12. FairSpec /\ []Guards => [](Jammed(r) => <>(Gone(r) \/ Dead))
  BY JammedGone
<1> QED
  BY <1>f, <1>1, <1>2, <1>3, <1>4, <1>5, <1>6, <1>7, <1>8, <1>9, <1>10, <1>11, <1>12, LocksHeld,
     CleanerFree, PTL
  DEF Spec, Ends, Settled, Drained

\* Abandoned attempts do not pile up: every entry of the lease store is removed,
\* by its request or by the cleaner, unless the process dies or the receiver is
\* stuck with the store's lock, jammed connection or not; again for any number of requests with up to three attempts each.
THEOREM StoreGetsEmpty ==
    ASSUME ~ShortTTL, MaxTries <= 3
    PROVE  FairSpec /\ []Guards => StoreDrains
<1>1. ASSUME NEW x \in Attempts
      PROVE  FairSpec /\ []Guards =>
               (store[x] # NoLease ~> (store[x] = NoLease \/ panic # "none" \/ ReceiverStuck))
  <2>1. Owner(x) \in Reqs
    BY AttemptParts DEF Owner
  <2>2. FairSpec /\ []Guards => Drained(x)
    BY <2>1, EntryLeaves
  <2>3. store[x] # NoLease => Stored(x)
    BY DEF Stored
  <2>4. ~Stored(x) => store[x] = NoLease
    BY DEF Stored
  <2>5. Dead => panic # "none"
    BY DEF Dead
  <2> QED
    BY <2>2, <2>3, <2>4, <2>5, PTL DEF Drained
<1> QED
  BY <1>1 DEF StoreDrains
=============================================================================
