-------------------------- MODULE LeaseStore_proofs --------------------------
(***************************************************************************)
(* Proofs about LeaseStore: its types, its inductive invariant, that it    *)
(* implements LeaseMap, that nothing but a cycle of waiting calls stops    *)
(* it, and that such a cycle takes a call made with a lease locked, for    *)
(* any number of users, leases and xids.                                   *)
(***************************************************************************)
EXTENDS LeaseStore, TLAPS

USE UsersAssumption, LeasesAssumption, TimeAssumption
USE DEF UsersAssumption, LeasesAssumption, TimeAssumption

\* TypeOK is inductive once a user inside a call is known to have a key.
KeyInv == \A u \in Users : op[u] # "none" => key[u] \in Xids
WaitInv == \A u \in Users : op[u] = "lock" => val[u] # Nil

LEMMA TypeInit == Init => TypeOK /\ KeyInv /\ WaitInv
<1> SUFFICES ASSUME Init PROVE TypeOK /\ KeyInv /\ WaitInv
  OBVIOUS
<1>1. now \in 0..MaxTime /\ expire \in [Xids -> 0..(now + TTL)]
  BY DEF Init
<1>2. KeyInv /\ WaitInv
  BY DEF Init, KeyInv, WaitInv
<1>3. panic \in BOOLEAN
  BY DEF Init
<1> QED
  BY <1>1, <1>2, <1>3 DEF Init, TypeOK

LEMMA TypeStep == TypeOK /\ KeyInv /\ WaitInv /\ [Next]_vars => TypeOK' /\ KeyInv' /\ WaitInv'
<1> SUFFICES ASSUME TypeOK, KeyInv, WaitInv, [Next]_vars PROVE TypeOK' /\ KeyInv' /\ WaitInv'
  OBVIOUS
<1> USE DEF TypeOK, KeyInv, WaitInv, userVars
<1>1. CASE UNCHANGED vars
  BY <1>1 DEF vars
<1>2. ASSUME NEW u \in Users, NEW o \in Ops, NEW x \in Xids, NEW l \in Leases \cup {Nil}, Call(u, o, x, l)
      PROVE  TypeOK' /\ KeyInv' /\ WaitInv'
  BY <1>2 DEF Call, Ops
<1>3. ASSUME NEW u \in Users, Announce(u) PROVE TypeOK' /\ KeyInv' /\ WaitInv'
  BY <1>3 DEF Announce
<1>4. ASSUME NEW u \in Users, Set(u) PROVE TypeOK' /\ KeyInv' /\ WaitInv'
  BY <1>4 DEF Set, Return, HasWriteLock
<1>5. ASSUME NEW u \in Users, Remove(u) PROVE TypeOK' /\ KeyInv' /\ WaitInv'
  BY <1>5 DEF Remove, Return, HasWriteLock
<1>6. ASSUME NEW u \in Users, Touch(u) PROVE TypeOK' /\ KeyInv' /\ WaitInv'
  BY <1>6 DEF Touch, Return, HasWriteLock
<1>7. ASSUME NEW u \in Users, Has(u) \/ GetItem(u) \/ HasStatus(u) PROVE TypeOK' /\ KeyInv' /\ WaitInv'
  BY <1>7 DEF Has, GetItem, HasStatus, Return
<1>8. ASSUME NEW u \in Users, GetLookup(u) PROVE TypeOK' /\ KeyInv' /\ WaitInv'
  BY <1>8 DEF GetLookup, Return
<1>9. ASSUME NEW u \in Users, GetLock(u) PROVE TypeOK' /\ KeyInv' /\ WaitInv'
  BY <1>9 DEF GetLock, Return
<1>10. ASSUME NEW u \in Users, Unlock(u) \/ \E l \in Leases : CloseDone(u, l)
       PROVE  TypeOK' /\ KeyInv' /\ WaitInv'
  BY <1>10 DEF Unlock, CloseDone
<1>11. ASSUME NEW l \in Leases, TakeDone(l) PROVE TypeOK' /\ KeyInv' /\ WaitInv'
  BY <1>11 DEF TakeDone
<1>12. CASE CleanList
  BY <1>12 DEF CleanList, Outdated
<1>13. CASE CleanAnnounce \/ CleanEnd \/ CleanStop
  BY <1>13 DEF CleanAnnounce, CleanEnd, CleanStop
<1>14. ASSUME NEW x \in Xids, CleanKey(x) PROVE TypeOK' /\ KeyInv' /\ WaitInv'
  BY <1>14 DEF CleanKey
<1>15. CASE Tick
  BY <1>15 DEF Tick
<1> QED
  BY <1>1, <1>2, <1>3, <1>4, <1>5, <1>6, <1>7, <1>8, <1>9, <1>10, <1>11, <1>12, <1>13, <1>14,
     <1>15 DEF Next, Method, Clean

\* Every variable keeps its type; no entry expires later than ttl from now.
THEOREM TypeCorrect == Spec => []TypeOK
<1>1. TypeOK /\ KeyInv /\ WaitInv => TypeOK
  OBVIOUS
<1> QED
  BY <1>1, TypeInit, TypeStep, PTL DEF Spec

-----------------------------------------------------------------------------
LEMMA StoreInit == Init => StoreInv
  BY DEF Init, StoreInv, LockInv, PendingInv, GetInv, StoredInv

LEMMA StoreStep == TypeOK /\ StoreInv /\ [Next]_vars => StoreInv'
<1> SUFFICES ASSUME TypeOK, StoreInv, [Next]_vars PROVE StoreInv'
  OBVIOUS
<1> USE DEF TypeOK, StoreInv, userVars
<1>1. CASE UNCHANGED vars
  BY <1>1 DEF vars, LockInv, PendingInv, GetInv, StoredInv
<1>2. ASSUME NEW u \in Users, NEW o \in Ops, NEW x \in Xids, NEW l \in Leases \cup {Nil}, Call(u, o, x, l) PROVE StoreInv'
  <2>1. LockInv'
    BY <1>2 DEF Call, Ops, LockInv
  <2>2. PendingInv'
    <3>1. \A v \in Users : val[v] # Nil => val[v] \in used
      BY DEF PendingInv, GetInv, StoredInv
    <3>2. \A v \in Users : l # Nil => val[v] # l
      BY <1>2, <3>1 DEF Call
    <3>3. CASE l = Nil
      BY <1>2, <3>3 DEF Call, Ops, PendingInv
    <3>4. CASE l # Nil
      BY <1>2, <3>2, <3>4 DEF Call, Ops, PendingInv, StoredInv
    <3> QED
      BY <3>3, <3>4
  <2>3. GetInv'
    BY <1>2 DEF Call, Ops, GetInv, PendingInv, LockInv
  <2>4. StoredInv'
    BY <1>2 DEF Call, Ops, StoredInv, PendingInv, GetInv
  <2> QED
    BY <2>1, <2>2, <2>3, <2>4
<1>3. ASSUME NEW u \in Users, Announce(u) PROVE StoreInv'
  <2>1. LockInv'
    BY <1>3 DEF Announce, LockInv
  <2>2. PendingInv'
    BY <1>3 DEF Announce, PendingInv, StoredInv
  <2>3. GetInv'
    BY <1>3 DEF Announce, GetInv, PendingInv, LockInv
  <2>4. StoredInv'
    BY <1>3 DEF Announce, StoredInv, PendingInv, GetInv
  <2> QED
    BY <2>1, <2>2, <2>3, <2>4
<1>4. ASSUME NEW u \in Users, Set(u) PROVE StoreInv'
  <2>1. LockInv'
    BY <1>4 DEF Set, Return, HasWriteLock, Readers, LockInv
  <2>2. PendingInv'
    BY <1>4 DEF Set, Return, HasWriteLock, Readers, PendingInv, StoredInv
  <2>3. GetInv'
    BY <1>4 DEF Set, Return, HasWriteLock, Readers, GetInv, PendingInv, LockInv
  <2>4. StoredInv'
    BY <1>4 DEF Set, Return, HasWriteLock, Readers, StoredInv, PendingInv, GetInv
  <2> QED
    BY <2>1, <2>2, <2>3, <2>4
<1>5. ASSUME NEW u \in Users, Remove(u) PROVE StoreInv'
  <2>1. LockInv'
    BY <1>5 DEF Remove, Return, HasWriteLock, Readers, LockInv
  <2>2. PendingInv'
    BY <1>5 DEF Remove, Return, HasWriteLock, Readers, PendingInv, StoredInv
  <2>3. GetInv'
    BY <1>5 DEF Remove, Return, HasWriteLock, Readers, GetInv, PendingInv, LockInv
  <2>4. StoredInv'
    BY <1>5 DEF Remove, Return, HasWriteLock, Readers, StoredInv, PendingInv, GetInv
  <2> QED
    BY <2>1, <2>2, <2>3, <2>4
<1>6. ASSUME NEW u \in Users, Touch(u) PROVE StoreInv'
  <2>1. LockInv'
    BY <1>6 DEF Touch, Return, HasWriteLock, Readers, LockInv
  <2>2. PendingInv'
    BY <1>6 DEF Touch, Return, HasWriteLock, Readers, PendingInv, StoredInv
  <2>3. GetInv'
    BY <1>6 DEF Touch, Return, HasWriteLock, Readers, GetInv, PendingInv, LockInv
  <2>4. StoredInv'
    BY <1>6 DEF Touch, Return, HasWriteLock, Readers, StoredInv, PendingInv, GetInv
  <2> QED
    BY <2>1, <2>2, <2>3, <2>4
<1>7. ASSUME NEW u \in Users, Has(u) \/ GetItem(u) \/ HasStatus(u) PROVE StoreInv'
  <2>1. LockInv'
    BY <1>7 DEF Has, GetItem, HasStatus, Return, CanRead, LockInv
  <2>2. PendingInv'
    BY <1>7 DEF Has, GetItem, HasStatus, Return, CanRead, PendingInv, StoredInv
  <2>3. GetInv'
    BY <1>7 DEF Has, GetItem, HasStatus, Return, CanRead, GetInv, PendingInv, LockInv
  <2>4. StoredInv'
    BY <1>7 DEF Has, GetItem, HasStatus, Return, CanRead, StoredInv, PendingInv, GetInv
  <2> QED
    BY <2>1, <2>2, <2>3, <2>4
<1>8. ASSUME NEW u \in Users, GetLookup(u) PROVE StoreInv'
  <2>1. LockInv'
    BY <1>8 DEF GetLookup, Return, CanRead, LockInv
  <2>2. PendingInv'
    BY <1>8 DEF GetLookup, Return, CanRead, PendingInv, StoredInv
  <2>3. GetInv'
    BY <1>8 DEF GetLookup, Return, CanRead, GetInv, PendingInv, LockInv
  <2>4. StoredInv'
    BY <1>8 DEF GetLookup, Return, CanRead, StoredInv, PendingInv, GetInv
  <2> QED
    BY <2>1, <2>2, <2>3, <2>4
<1>9. ASSUME NEW u \in Users, GetLock(u) PROVE StoreInv'
  <2>1. LockInv'
    BY <1>9 DEF GetLock, Return, LockInv
  <2>2. PendingInv'
    BY <1>9 DEF GetLock, Return, PendingInv, StoredInv
  <2>3. GetInv'
    BY <1>9 DEF GetLock, Return, GetInv, PendingInv, LockInv
  <2>4. StoredInv'
    BY <1>9 DEF GetLock, Return, StoredInv, PendingInv, GetInv
  <2> QED
    BY <2>1, <2>2, <2>3, <2>4
<1>10. ASSUME NEW u \in Users, Unlock(u) \/ \E l \in Leases : CloseDone(u, l) PROVE StoreInv'
  <2>1. LockInv'
    BY <1>10 DEF Unlock, CloseDone, LockInv
  <2>2. PendingInv'
    BY <1>10 DEF Unlock, CloseDone, PendingInv, StoredInv
  <2>3. GetInv'
    BY <1>10 DEF Unlock, CloseDone, GetInv, PendingInv, LockInv
  <2>4. StoredInv'
    BY <1>10 DEF Unlock, CloseDone, StoredInv, PendingInv, GetInv
  <2> QED
    BY <2>1, <2>2, <2>3, <2>4
<1>11. ASSUME NEW l \in Leases, TakeDone(l) PROVE StoreInv'
  <2>1. LockInv'
    BY <1>11 DEF TakeDone, LockInv
  <2>2. PendingInv'
    BY <1>11 DEF TakeDone, PendingInv, StoredInv
  <2>3. GetInv'
    BY <1>11 DEF TakeDone, GetInv, PendingInv, LockInv
  <2>4. StoredInv'
    BY <1>11 DEF TakeDone, StoredInv, PendingInv, GetInv
  <2> QED
    BY <2>1, <2>2, <2>3, <2>4
<1>12. ASSUME CleanList PROVE StoreInv'
  <2>1. LockInv'
    BY <1>12 DEF CleanList, Outdated, CanRead, LockInv
  <2>2. PendingInv'
    BY <1>12 DEF CleanList, Outdated, CanRead, PendingInv, StoredInv
  <2>3. GetInv'
    BY <1>12 DEF CleanList, Outdated, CanRead, GetInv, PendingInv, LockInv
  <2>4. StoredInv'
    BY <1>12 DEF CleanList, Outdated, CanRead, StoredInv, PendingInv, GetInv
  <2> QED
    BY <2>1, <2>2, <2>3, <2>4
<1>13. ASSUME CleanAnnounce \/ CleanEnd \/ CleanStop PROVE StoreInv'
  <2>1. LockInv'
    BY <1>13 DEF CleanAnnounce, CleanEnd, CleanStop, LockInv
  <2>2. PendingInv'
    BY <1>13 DEF CleanAnnounce, CleanEnd, CleanStop, PendingInv, StoredInv
  <2>3. GetInv'
    BY <1>13 DEF CleanAnnounce, CleanEnd, CleanStop, GetInv, PendingInv, LockInv
  <2>4. StoredInv'
    BY <1>13 DEF CleanAnnounce, CleanEnd, CleanStop, StoredInv, PendingInv, GetInv
  <2> QED
    BY <2>1, <2>2, <2>3, <2>4
<1>14. ASSUME NEW x \in Xids, CleanKey(x) PROVE StoreInv'
  <2>1. LockInv'
    BY <1>14 DEF CleanKey, HasWriteLock, Readers, LockInv
  <2>2. PendingInv'
    BY <1>14 DEF CleanKey, HasWriteLock, Readers, PendingInv, StoredInv
  <2>3. GetInv'
    BY <1>14 DEF CleanKey, HasWriteLock, Readers, GetInv, PendingInv, LockInv
  <2>4. StoredInv'
    BY <1>14 DEF CleanKey, HasWriteLock, Readers, StoredInv, PendingInv, GetInv
  <2> QED
    BY <2>1, <2>2, <2>3, <2>4
<1>15. ASSUME Tick PROVE StoreInv'
  <2>1. LockInv'
    BY <1>15 DEF Tick, LockInv
  <2>2. PendingInv'
    BY <1>15 DEF Tick, PendingInv, StoredInv
  <2>3. GetInv'
    BY <1>15 DEF Tick, GetInv, PendingInv, LockInv
  <2>4. StoredInv'
    BY <1>15 DEF Tick, StoredInv, PendingInv, GetInv
  <2> QED
    BY <2>1, <2>2, <2>3, <2>4
<1> QED
  BY <1>1, <1>2, <1>3, <1>4, <1>5, <1>6, <1>7, <1>8, <1>9, <1>10, <1>11, <1>12, <1>13, <1>14, <1>15 DEF Next, Method, Clean

\* The inductive invariant: a Get that waits for a lease still has its entry
\* in the store, and no stored lease has been signalled.
THEOREM Inductive == Spec => []StoreInv
  BY TypeCorrect, StoreInit, StoreStep, PTL DEF Spec

\* Clean never waits for a full Done channel with the store locked.
THEOREM CleanDoesNotWait == Spec => []CleanNeverWaits
<1>1. TypeOK /\ StoreInv => CleanNeverWaits
  BY DEF TypeOK, StoreInv, StoredInv, CleanNeverWaits
<1> QED
  BY <1>1, TypeCorrect, Inductive, PTL

-----------------------------------------------------------------------------
(* The refinement                                                          *)

LEMMA MapInit == Init => Map!Init
  BY DEF Init, Map!Init

\* The two variables the mapping changes, when a call returns.
MapOp  == [u \in Users |-> IF op[u] = "lock" THEN "Get" ELSE op[u]]
MapVal == [u \in Users |-> IF op[u] = "lock" THEN Nil ELSE val[u]]

LEMMA MapReturn ==
  ASSUME TypeOK, NEW u \in Users,
         op' = [op EXCEPT ![u] = "none"], val' = [val EXCEPT ![u] = Nil]
  PROVE  MapOp' = [MapOp EXCEPT ![u] = "none"] /\ MapVal' = [MapVal EXCEPT ![u] = Nil]
  BY DEF TypeOK, MapOp, MapVal

LEMMA MapStep == TypeOK /\ StoreInv /\ [Next]_vars => [Map!Next]_(Map!vars)
<1> SUFFICES ASSUME TypeOK, StoreInv, [Next]_vars PROVE [Map!Next]_(Map!vars)
  OBVIOUS
<1> USE DEF TypeOK, userVars
<1>1. CASE UNCHANGED vars
  BY <1>1 DEF vars, Map!vars
<1>0. CASE Next
  <2>1. ASSUME NEW u \in Users, NEW o \in Ops, NEW x \in Xids, NEW l \in Leases \cup {Nil}, Call(u, o, x, l)
        PROVE  Map!Invoke(u, o, x, l)
    BY <2>1 DEF Call, Ops, Map!Invoke
  <2>2. ASSUME NEW u \in Users, Set(u) PROVE Map!Set(u)
    BY <2>2, MapReturn DEF Set, Return, MapOp, MapVal, Map!Set, Map!Return
  <2>3. ASSUME NEW u \in Users, Remove(u) PROVE Map!Remove(u)
    BY <2>3, MapReturn DEF Remove, Return, MapOp, MapVal, Map!Remove, Map!Return
  <2>4. ASSUME NEW u \in Users, Touch(u) PROVE Map!Touch(u)
    BY <2>4, MapReturn DEF Touch, Return, MapOp, MapVal, Map!Touch, Map!Return
  <2>5. ASSUME NEW u \in Users, Has(u) PROVE Map!Has(u)
    BY <2>5, MapReturn DEF Has, Return, MapOp, MapVal, Map!Has, Map!Return
  <2>6. ASSUME NEW u \in Users, GetItem(u) PROVE Map!GetItem(u)
    BY <2>6, MapReturn DEF GetItem, Return, MapOp, MapVal, Map!GetItem, Map!Return
  <2>7. ASSUME NEW u \in Users, HasStatus(u) PROVE Map!HasStatus(u)
    BY <2>7, MapReturn DEF HasStatus, Return, MapOp, MapVal, Map!HasStatus, Map!Return
  <2>8. ASSUME NEW u \in Users, GetLookup(u) PROVE Map!Get(u) \/ UNCHANGED Map!vars
    <3>1. CASE store[key[u]] = Nil
      BY <2>8, <3>1, MapReturn DEF GetLookup, Return, MapOp, MapVal, Map!Get, Map!Return
    <3>2. CASE store[key[u]] # Nil
      BY <2>8, <3>2 DEF GetLookup, StoreInv, PendingInv, Map!vars
    <3> QED
      BY <3>1, <3>2
  <2>9. ASSUME NEW u \in Users, GetLock(u) PROVE Map!Get(u)
    BY <2>9, MapReturn DEF GetLock, Return, StoreInv, GetInv, MapOp, MapVal, Map!Get, Map!Return
  <2>10. ASSUME NEW u \in Users, Unlock(u) PROVE Map!Unlock(u)
    BY <2>10 DEF Unlock, Map!Unlock
  <2>11. ASSUME NEW u \in Users, NEW l \in Leases, CloseDone(u, l) PROVE Map!Close(u, l)
    BY <2>11 DEF CloseDone, Map!Close
  <2>12. ASSUME NEW l \in Leases, TakeDone(l) PROVE Map!Take(l)
    BY <2>12 DEF TakeDone, Map!Take
  <2>13. ASSUME CleanList PROVE Map!Condemn
    BY <2>13 DEF CleanList, Outdated, StoreInv, LockInv, Map!Condemn
  <2>14. ASSUME NEW x \in Xids, CleanKey(x) PROVE Map!Evict(x)
    BY <2>14 DEF CleanKey, Map!Evict
  <2>15. ASSUME Tick PROVE Map!Tick
    BY <2>15 DEF Tick, Map!Tick
  <2>16. ASSUME NEW u \in Users, Announce(u) PROVE UNCHANGED Map!vars
    BY <2>16 DEF Announce, Map!vars
  <2>17. ASSUME CleanAnnounce \/ CleanEnd \/ CleanStop PROVE UNCHANGED Map!vars
    BY <2>17 DEF CleanAnnounce, CleanEnd, CleanStop, Map!vars
  <2>18. ~panic
    BY <1>0 DEF Next
  <2> QED
    BY <1>0, <2>1, <2>2, <2>3, <2>4, <2>5, <2>6, <2>7, <2>8, <2>9, <2>10, <2>11, <2>12, <2>13, <2>14, <2>15, <2>16, <2>17, <2>18
    DEF Next, Method, Clean, Map!Next, Ops, Map!Ops
<1> QED
  BY <1>0, <1>1

\* The store is linearizable: with its locks it does nothing that LeaseMap,
\* which has none, does not do.
THEOREM Implements == Spec => ImplementsLeaseMap
  BY MapInit, MapStep, TypeCorrect, Inductive, PTL DEF Spec, ImplementsLeaseMap, Map!Spec

-----------------------------------------------------------------------------
(* Progress                                                                *)

\* Calls wait for nothing but each other, for any number of callers: unless
\* some wait in a cycle, one can go on, or the cleaner can, or somebody who
\* has a lease locked is not in a call and can unlock it.
THEOREM NoDeadlock == Spec => []SomebodyMoves
<1>1. TypeOK /\ StoreInv /\ CleanNeverWaits => SomebodyMoves
  <2> SUFFICES ASSUME TypeOK, StoreInv, CleanNeverWaits,
                      clean = "locked" \/ \E u \in Users : op[u] # "none",
                      \A u \in Users : ~MethodGuard(u) /\ ~(op[u] = "none" /\ Holds(u)),
                      ~CleanGuard
               PROVE  LockCycle
    BY DEF SomebodyMoves
  <2> DEFINE InCall == {u \in Users : op[u] # "none"}
             S == InCall \cup (IF clean = "locked" THEN {Cleaner} ELSE {})
  <2>1. S \in (SUBSET (Users \cup {Cleaner})) \ {{}}
    OBVIOUS
  <2>2. ASSUME NEW u \in Users, op[u] = "lock" PROVE \E q \in S : WaitsFor(u, q)
    <3>1. val[u] \in Leases /\ mux[val[u]] \in Users
      BY <2>2 DEF StoreInv, GetInv, TypeOK, MethodGuard
    <3>2. op[mux[val[u]]] # "none"
      BY <3>1 DEF Holds
    <3> QED
      BY <2>2, <3>1, <3>2 DEF WaitsFor
  <2>3. Readers \subseteq S
    BY DEF Readers
  <2>4. ASSUME clean = "locked" PROVE \E q \in S : WaitsFor(Cleaner, q)
    <3>1. rw = Cleaner
      BY <2>4 DEF StoreInv, LockInv
    <3>2. Readers # {}
      BY <2>4, <3>1 DEF CleanNeverWaits, CleanGuard, HasWriteLock
    <3> QED
      BY <2>3, <3>1, <3>2 DEF WaitsFor
  <2>5. ASSUME NEW u \in Users, op[u] \in Ops PROVE \E q \in S : WaitsFor(u, q)
    <3>1. CASE rw = u
      <4>1. op[u] \in {"Set", "Remove", "Touch"} /\ Readers # {}
        BY <3>1 DEF StoreInv, LockInv, MethodGuard, HasWriteLock
      <4> QED
        BY <2>3, <3>1, <4>1 DEF WaitsFor
    <3>2. CASE rw # u
      <4>1. rw # Nil
        BY <2>5 DEF Ops, MethodGuard, CanRead
      <4>2. rw \in S
        BY <4>1 DEF TypeOK, StoreInv, LockInv
      <4> QED
        BY <2>5, <3>2, <4>1, <4>2 DEF WaitsFor
    <3> QED
      BY <3>1, <3>2
  <2>6. \A p \in S : \E q \in S : WaitsFor(p, q)
    BY <2>2, <2>4, <2>5 DEF TypeOK
  <2> QED
    BY <2>1, <2>6 DEF LockCycle
<1> QED
  BY <1>1, TypeCorrect, Inductive, CleanDoesNotWait, PTL

\* What stops the store is always the same: a call made with a lease locked
\* that a Get waits for.  (error() and Renew make such calls.)
THEOREM CyclesKeepLeases == Spec => []CycleKeepsLease
<1>1. TypeOK /\ StoreInv => CycleKeepsLease
  <2> SUFFICES ASSUME TypeOK, StoreInv, LockCycle PROVE LeaseKept
    BY DEF CycleKeepsLease
  <2>1. PICK S \in (SUBSET (Users \cup {Cleaner})) \ {{}} : \A p \in S : \E q \in S : WaitsFor(p, q)
    BY DEF LockCycle
  <2>2. ASSUME NEW v \in S, v \in Users, op[v] = "lock" PROVE LeaseKept
    <3>1. PICK q \in S : WaitsFor(v, q)
      BY <2>1
    <3>2. q = mux[val[v]] /\ val[v] \in Leases
      BY <2>2, <3>1 DEF WaitsFor, StoreInv, LockInv, GetInv, TypeOK, Ops
    <3>3. q \in Users
      BY <3>2 DEF TypeOK
    <3>4. PICK p \in S : WaitsFor(q, p)
      BY <2>1
    <3>5. op[q] # "none"
      BY <3>3, <3>4 DEF WaitsFor, StoreInv, LockInv, Ops
    <3> QED
      BY <2>2, <3>2, <3>3, <3>5 DEF LeaseKept
  <2>3. ASSUME NEW w \in S, rw = w PROVE LeaseKept
    <3>1. PICK v \in S : WaitsFor(w, v)
      BY <2>1
    <3>2. CASE v \in Readers
      BY <2>2, <3>2 DEF Readers
    <3>3. CASE w \in Users /\ op[w] = "lock"
      BY <2>2, <3>3
    <3> QED
      BY <2>3, <3>1, <3>2, <3>3 DEF WaitsFor
  <2>4. PICK p \in S : TRUE
    BY <2>1
  <2>5. PICK q \in S : WaitsFor(p, q)
    BY <2>1
  <2>6. CASE p \in Users /\ op[p] = "lock"
    BY <2>2, <2>6
  <2>7. CASE rw = p \/ rw = q
    BY <2>3, <2>7
  <2> QED
    BY <2>5, <2>6, <2>7 DEF WaitsFor
<1> QED
  BY <1>1, TypeCorrect, Inductive, PTL
=============================================================================
