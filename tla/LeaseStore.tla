----------------------------- MODULE LeaseStore -----------------------------
(***************************************************************************)
(* The lease store of dhcp/store.go at the level of its locks.  Goroutines *)
(* (users) call it concurrently; a cleaner goroutine runs Clean whenever   *)
(* its timer fires.                                                        *)
(*                                                                         *)
(* The RWMutex: a writer announces itself (rw), which keeps new readers    *)
(* out, and goes on when the readers are gone.  Readers that may stay are  *)
(* those whose Get waits for a lease's mutex.  Everything else a method    *)
(* does under the lock is one step, except Clean, which may wait in the    *)
(* middle for a Done channel.                                              *)
(*                                                                         *)
(* Users call with leases locked, as error() and Renew of dhcp/client.go   *)
(* do, so calls can wait for each other for ever (LockCycle).  They store  *)
(* a Lease object once, as discover() and request() do.                    *)
(*                                                                         *)
(* ReadersNone, TouchAdds, UnlockNothing, CleanListOne, CleanKeyKeeps and  *)
(* CleanKeySilent are faulty versions of the definitions they precede; the *)
(* specification does not use them.                                        *)
(***************************************************************************)
EXTENDS Naturals

CONSTANTS
    Users,      \* goroutines that call the store
    CallsOf,    \* the methods each of them calls
    Leases,     \* Lease objects
    Xids,       \* transaction ids
    XidOf,      \* the xid of each lease
    TTL,        \* the store's ttl
    MaxTime,    \* bound: the last time the clock shows
    Cleaner,    \* the goroutine of Run, as owner of the store's mutex
    Nil         \* no entry, no lease, nobody

Ops == {"Set", "Get", "GetItem", "Has", "Remove", "Touch", "HasStatus"}

ASSUME UsersAssumption == Cleaner \notin Users /\ Nil \notin Users \cup {Cleaner}
ASSUME CallsAssumption == CallsOf \in [Users -> SUBSET Ops]
ASSUME LeasesAssumption ==
    /\ Nil \notin Leases \cup Xids
    /\ {"none", "ok", "no", "error"} \cap Leases = {}
    /\ XidOf \in [Leases -> Xids]
ASSUME TimeAssumption == TTL \in Nat /\ MaxTime \in Nat

VARIABLES
    now,        \* the clock
    store,      \* LeaseStore.store: xid -> lease
    expire,     \* LeaseStoreItem.Expire
    chan,       \* Lease.Done, of capacity one: empty, full, read (empty again), closed
    mux,        \* Lease.mux: who has locked it
    rw,         \* LeaseStore.mutex: the writer that has it or waits for its readers
    op,         \* per user: the method it is in; "lock" is Get waiting for a lease
    key,        \* its argument xid
    val,        \* its argument lease; the local variable val of Get
    res,        \* what it returned; the lease of a Get is the one it has locked
    used,       \* leases that were given to Set
    clean,      \* the cleaner: timer, announce, locked, stopped
    list,       \* its local variable outdated
    panic       \* the process died: send on a closed channel

userVars == <<op, key, val, res, used>>
vars == <<now, store, expire, chan, mux, rw, userVars, clean, list, panic>>

\* NewStore, Run
Init ==
    /\ now = 0
    /\ store = [x \in Xids |-> Nil]
    /\ expire = [x \in Xids |-> 0]
    /\ chan = [l \in Leases |-> "empty"]
    /\ mux = [l \in Leases |-> Nil]
    /\ rw = Nil
    /\ op = [u \in Users |-> "none"]
    /\ key = [u \in Users |-> Nil]
    /\ val = [u \in Users |-> Nil]
    /\ res = [u \in Users |-> "none"]
    /\ used = {}
    /\ clean = "timer"
    /\ list = {}
    /\ panic = FALSE

-----------------------------------------------------------------------------
(* The store's mutex                                                       *)

ReadersNone == {}

\* Users that keep the read lock over several steps.
Readers == {u \in Users : op[u] = "lock"}

\* mutex.RLock() does not wait.
CanRead == rw = Nil

\* mutex.Lock() of p has returned.
HasWriteLock(p) == rw = p /\ Readers = {}

-----------------------------------------------------------------------------
(* The users                                                               *)

Call(u, o, x, l) ==
    /\ op[u] = "none"
    /\ o \in CallsOf[u]
    /\ IF o = "Set" /\ l # Nil THEN l \notin used /\ x = XidOf[l] ELSE l = Nil
    /\ op'   = [op EXCEPT ![u] = o]
    /\ key'  = [key EXCEPT ![u] = x]
    /\ val'  = [val EXCEPT ![u] = l]
    /\ res'  = [res EXCEPT ![u] = "none"]
    /\ used' = IF l # Nil THEN used \cup {l} ELSE used
    /\ UNCHANGED <<now, store, expire, chan, mux, rw, clean, list, panic>>

Return(u, r) ==
    /\ op'  = [op EXCEPT ![u] = "none"]
    /\ res' = [res EXCEPT ![u] = r]
    /\ key' = [key EXCEPT ![u] = Nil]
    /\ val' = [val EXCEPT ![u] = Nil]
    /\ UNCHANGED <<now, chan, used, clean, list, panic>>

\* mutex.Lock() of Set, Remove and Touch: from now on readers wait.
Announce(u) ==
    /\ op[u] \in {"Set", "Remove", "Touch"}
    /\ rw = Nil
    /\ rw' = u
    /\ UNCHANGED <<now, store, expire, chan, mux, userVars, clean, list, panic>>

Set(u) ==
    /\ op[u] = "Set"
    /\ HasWriteLock(u)
    /\ \/ val[u] = Nil /\ Return(u, "error") /\ UNCHANGED <<store, expire>>
       \/ /\ val[u] # Nil
          /\ store'  = [store EXCEPT ![key[u]] = val[u]]
          /\ expire' = [expire EXCEPT ![key[u]] = now + TTL]
          /\ Return(u, "ok")
    /\ rw' = Nil
    /\ mux' = mux

Remove(u) ==
    /\ op[u] = "Remove"
    /\ HasWriteLock(u)
    /\ store' = [store EXCEPT ![key[u]] = Nil]
    /\ Return(u, IF store[key[u]] = Nil THEN "no" ELSE "ok")
    /\ rw' = Nil
    /\ UNCHANGED <<expire, mux>>

TouchAdds(u) ==
    /\ op[u] = "Touch"
    /\ HasWriteLock(u)
    /\ \/ store[key[u]] = Nil /\ Return(u, "no") /\ expire' = expire
       \/ /\ store[key[u]] # Nil
          /\ expire' = [expire EXCEPT ![key[u]] = @ + now + TTL]
          /\ Return(u, "ok")
    /\ rw' = Nil
    /\ UNCHANGED <<store, mux>>

Touch(u) ==
    /\ op[u] = "Touch"
    /\ HasWriteLock(u)
    /\ \/ store[key[u]] = Nil /\ Return(u, "no") /\ expire' = expire
       \/ /\ store[key[u]] # Nil
          /\ expire' = [expire EXCEPT ![key[u]] = now + TTL]
          /\ Return(u, "ok")
    /\ rw' = Nil
    /\ UNCHANGED <<store, mux>>

Has(u) ==
    /\ op[u] = "Has"
    /\ CanRead
    /\ Return(u, IF store[key[u]] = Nil THEN "no" ELSE "ok")
    /\ UNCHANGED <<store, expire, mux, rw>>

GetItem(u) ==
    /\ op[u] = "GetItem"
    /\ CanRead
    /\ Return(u, store[key[u]])
    /\ UNCHANGED <<store, expire, mux, rw>>

\* HasStatus, asked for the type of an answer: a lease has one when the
\* receiver has closed its Done channel, and may have one while somebody has
\* it locked, for the receiver sets the type before that.
HasStatus(u) ==
    LET l == store[key[u]] IN
    /\ op[u] = "HasStatus"
    /\ CanRead
    /\ \/ l # Nil /\ (chan[l] = "closed" \/ mux[l] # Nil) /\ Return(u, "ok")
       \/ (l # Nil => chan[l] # "closed") /\ Return(u, "no")
    /\ UNCHANGED <<store, expire, mux, rw>>

\* Get up to val.Lease.Lock(): the read lock is kept.
GetLookup(u) ==
    /\ op[u] = "Get"
    /\ CanRead
    /\ \/ store[key[u]] = Nil /\ Return(u, "no")
       \/ /\ store[key[u]] # Nil
          /\ op'  = [op EXCEPT ![u] = "lock"]
          /\ val' = [val EXCEPT ![u] = store[key[u]]]
          /\ UNCHANGED <<now, chan, key, res, used, clean, list, panic>>
    /\ UNCHANGED <<store, expire, mux, rw>>

\* The lease's mutex is ours: Get returns, and with it the read lock.
GetLock(u) ==
    /\ op[u] = "lock"
    /\ mux[val[u]] = Nil
    /\ mux' = [mux EXCEPT ![val[u]] = u]
    /\ Return(u, "ok")
    /\ UNCHANGED <<store, expire, rw>>

Holds(u) == \E l \in Leases : mux[l] = u

UnlockNothing(u) ==
    /\ op[u] = "none"
    /\ Holds(u)
    /\ UNCHANGED vars

\* The cancel functions that came with the leases.  The callers defer them,
\* so they run together, at the end of the function that got the leases.
Unlock(u) ==
    /\ op[u] = "none"
    /\ Holds(u)
    /\ mux' = [l \in Leases |-> IF mux[l] = u THEN Nil ELSE mux[l]]
    /\ UNCHANGED <<now, store, expire, chan, rw, userVars, clean, list, panic>>

\* processDHCPReponse closes Done with the lease locked, once.
CloseDone(u, l) ==
    /\ mux[l] = u
    /\ op[u] = "none"
    /\ chan[l] # "closed"
    /\ chan' = [chan EXCEPT ![l] = "closed"]
    /\ UNCHANGED <<now, store, expire, mux, rw, userVars, clean, list, panic>>

\* The select of discover() or request() takes the value Clean sent.
TakeDone(l) ==
    /\ chan[l] = "full"
    /\ chan' = [chan EXCEPT ![l] = "read"]
    /\ UNCHANGED <<now, store, expire, mux, rw, userVars, clean, list, panic>>

-----------------------------------------------------------------------------
(* The cleaner                                                             *)

\* v.Expire.Before(now)
Outdated == {x \in Xids : store[x] # Nil /\ expire[x] < now}

CleanListOne ==
    /\ clean = "timer"
    /\ CanRead
    /\ list'  = IF \E x \in Xids : Outdated \subseteq {x} THEN {} ELSE Outdated
    /\ clean' = IF list' = {} THEN "timer" ELSE "announce"
    /\ UNCHANGED <<now, store, expire, chan, mux, rw, userVars, panic>>

\* The timer fires; outdated() under the read lock.  If there are none the
\* timer is reset, otherwise Clean calls mutex.Lock().
CleanList ==
    /\ clean = "timer"
    /\ CanRead
    /\ list'  = Outdated
    /\ clean' = IF Outdated = {} THEN "timer" ELSE "announce"
    /\ UNCHANGED <<now, store, expire, chan, mux, rw, userVars, panic>>

CleanAnnounce ==
    /\ clean = "announce"
    /\ rw = Nil
    /\ rw' = Cleaner
    /\ clean' = "locked"
    /\ UNCHANGED <<now, store, expire, chan, mux, userVars, list, panic>>

CleanKeyKeeps(x) ==
    /\ clean = "locked"
    /\ HasWriteLock(Cleaner)
    /\ x \in list
    /\ store[x] # Nil => chan[store[x]] # "full"
    /\ list' = list \ {x}
    /\ chan' = [l \in Leases |-> IF l = store[x] THEN "full" ELSE chan[l]]
    /\ UNCHANGED <<now, store, expire, mux, rw, userVars, clean, panic>>

CleanKeySilent(x) ==
    /\ clean = "locked"
    /\ HasWriteLock(Cleaner)
    /\ x \in list
    /\ list'  = list \ {x}
    /\ store' = [store EXCEPT ![x] = Nil]
    /\ UNCHANGED <<now, expire, chan, mux, rw, userVars, clean, panic>>

\* One round of Clean's loop, in the order of its list, which is random:
\* Done <- true waits while the channel is full, with the store locked.
CleanKey(x) ==
    /\ clean = "locked"
    /\ HasWriteLock(Cleaner)
    /\ x \in list
    /\ \/ /\ store[x] = Nil
          /\ list' = list \ {x}
          /\ UNCHANGED <<store, chan, panic>>
       \/ /\ store[x] # Nil
          /\ chan[store[x]] \in {"empty", "read"}
          /\ list'  = list \ {x}
          /\ store' = [store EXCEPT ![x] = Nil]
          /\ chan'  = [chan EXCEPT ![store[x]] = "full"]
          /\ panic' = panic
       \/ /\ store[x] # Nil
          /\ chan[store[x]] = "closed"
          /\ panic' = TRUE
          /\ UNCHANGED <<store, chan, list>>
    /\ UNCHANGED <<now, expire, mux, rw, userVars, clean>>

\* The deferred Unlock and timer.Reset.
CleanEnd ==
    /\ clean = "locked"
    /\ HasWriteLock(Cleaner)
    /\ list = {}
    /\ rw' = Nil
    /\ clean' = "timer"
    /\ UNCHANGED <<now, store, expire, chan, mux, userVars, list, panic>>

\* ctx.Done() in Run's select.
CleanStop ==
    /\ clean = "timer"
    /\ clean' = "stopped"
    /\ UNCHANGED <<now, store, expire, chan, mux, rw, userVars, list, panic>>

Tick ==
    /\ now < MaxTime
    /\ now' = now + 1
    /\ UNCHANGED <<store, expire, chan, mux, rw, userVars, clean, list, panic>>

-----------------------------------------------------------------------------
Method(u) ==
    \/ Announce(u) \/ Set(u) \/ Remove(u) \/ Touch(u)
    \/ Has(u) \/ GetItem(u) \/ HasStatus(u) \/ GetLookup(u) \/ GetLock(u)

Clean == CleanList \/ CleanAnnounce \/ CleanEnd \/ \E x \in Xids : CleanKey(x)

Next ==
    /\ ~panic
    /\ \/ \E u \in Users, o \in Ops, x \in Xids, l \in Leases \cup {Nil} : Call(u, o, x, l)
       \/ \E u \in Users : Method(u) \/ Unlock(u)
       \/ \E u \in Users, l \in Leases : CloseDone(u, l)
       \/ \E l \in Leases : TakeDone(l)
       \/ Clean \/ CleanStop \/ Tick

Spec == Init /\ [][Next]_vars

\* Goroutines are scheduled; one that has locked a lease and whose calls
\* return unlocks it in the end; the mutexes starve neither readers nor
\* writers; the timer fires.
UserFairness(u) == SF_vars(~panic /\ Method(u))
HolderFairness(u) == SF_vars(~panic /\ Unlock(u))
CleanerFairness == SF_vars(~panic /\ Clean)

Fairness ==
    /\ \A u \in Users : UserFairness(u) /\ HolderFairness(u)
    /\ CleanerFairness

FairSpec == Spec /\ Fairness

-----------------------------------------------------------------------------
(* Properties                                                              *)

\* Types; an entry never expires later than ttl from now.
TypeOK ==
    /\ now \in 0..MaxTime
    /\ store \in [Xids -> Leases \cup {Nil}]
    /\ expire \in [Xids -> 0..(now + TTL)]
    /\ chan \in [Leases -> {"empty", "full", "read", "closed"}]
    /\ mux \in [Leases -> Users \cup {Nil}]
    /\ rw \in Users \cup {Cleaner, Nil}
    /\ op \in [Users -> Ops \cup {"none", "lock"}]
    /\ key \in [Users -> Xids \cup {Nil}]
    /\ val \in [Users -> Leases \cup {Nil}]
    /\ res \in [Users -> Leases \cup {Nil, "none", "ok", "no", "error"}]
    /\ used \in SUBSET Leases
    /\ clean \in {"timer", "announce", "locked", "stopped"}
    /\ list \in SUBSET Xids
    /\ panic \in BOOLEAN

\* Who may be in the middle of something.
LockInv ==
    /\ rw = Cleaner <=> clean = "locked"
    /\ \A u \in Users : rw = u => op[u] \in {"Set", "Remove", "Touch"}
    /\ clean \in {"timer", "stopped"} => list = {}

\* A lease waiting to be stored is nobody else's yet.
PendingInv ==
    \A u \in Users :
        /\ op[u] # "none" => key[u] \in Xids
        /\ op[u] \notin {"Set", "lock"} => val[u] = Nil
        /\ op[u] = "Set" /\ val[u] # Nil =>
             /\ val[u] \in used
             /\ chan[val[u]] = "empty"
             /\ mux[val[u]] = Nil
             /\ \A x \in Xids : store[x] # val[u]
             /\ \A v \in Users \ {u} : val[v] # val[u]

\* Get waits with the entry it found still in the store: this is what it
\* keeps the read lock for.
GetInv == \A u \in Users : op[u] = "lock" => val[u] # Nil /\ store[key[u]] = val[u]

\* A stored lease was never signalled by Clean, an unused lease by nobody.
StoredInv ==
    /\ \A x \in Xids : store[x] # Nil =>
          store[x] \in used /\ chan[store[x]] \in {"empty", "closed"}
    /\ \A x, y \in Xids : store[x] # Nil /\ store[x] = store[y] => x = y
    /\ \A l \in Leases : l \notin used => chan[l] = "empty" /\ mux[l] = Nil

\* The inductive invariant of the store, its users and its cleaner.
StoreInv == LockInv /\ PendingInv /\ GetInv /\ StoredInv

\* Clean does not wait for a Done channel while it has the store locked,
\* although its sends are not guarded by a select (store.go:195).
CleanNeverWaits ==
    clean = "locked" => \A x \in list : store[x] # Nil => chan[store[x]] # "full"

\* The store is the thread-safe map LeaseMap describes: each method takes
\* effect at one moment, that of a Get when it has the lease's mutex.
Map == INSTANCE LeaseMap WITH
    map       <- store,
    condemned <- list,
    op        <- [u \in Users |-> IF op[u] = "lock" THEN "Get" ELSE op[u]],
    val       <- [u \in Users |-> IF op[u] = "lock" THEN Nil ELSE val[u]]

ImplementsLeaseMap == Map!Spec

-----------------------------------------------------------------------------
(* Who waits for whom                                                      *)

\* p waits in one of the two kinds of mutex, and q has to leave it first.
WaitsFor(p, q) ==
    \/ /\ p \in Users /\ op[p] = "lock"
       /\ q = mux[val[p]]
    \/ /\ rw = p
       /\ q \in Readers
    \/ /\ IF p = Cleaner THEN clean = "announce" ELSE op[p] \in Ops
       /\ rw \notin {p, Nil} /\ q = rw

\* Some wait for each other, and so for ever.
LockCycle ==
    \E S \in (SUBSET (Users \cup {Cleaner})) \ {{}} :
        \A p \in S : \E q \in S : WaitsFor(p, q)

\* A user has called the store with a lease locked that a Get waits for.
LeaseKept ==
    \E u, v \in Users : op[u] # "none" /\ op[v] = "lock" /\ mux[val[v]] = u

\* Calls that wait for each other in the store's two kinds of mutex are the
\* only thing that keeps a call from returning, and it takes a caller with a
\* locked lease: readers that wait for a lease, writers that wait for
\* readers and a cleaner that waits for a channel do not do it alone.
CallsReturn ==
    \A u \in Users : op[u] # "none" ~> (op[u] = "none" \/ panic \/ (LockCycle /\ LeaseKept))

\* Outdated entries go (or are touched or replaced) as long as Run runs and
\* the calls of the store do not wait for each other.
OutdatedGoes ==
    \A x \in Xids : x \in Outdated ~>
        (x \notin Outdated \/ panic \/ clean = "stopped" \/ (LockCycle /\ LeaseKept))

\* What a call waits for before its next step, and what the cleaner does.
MethodGuard(u) ==
    \/ op[u] \in {"Set", "Remove", "Touch"} /\ (rw = Nil \/ HasWriteLock(u))
    \/ op[u] \in {"Has", "HasStatus", "Get", "GetItem"} /\ CanRead
    \/ op[u] = "lock" /\ mux[val[u]] = Nil

CleanGuard ==
    \/ clean = "timer" /\ CanRead /\ Outdated # {}
    \/ clean = "announce" /\ rw = Nil
    \/ /\ clean = "locked" /\ HasWriteLock(Cleaner)
       /\ list = {} \/ \E x \in list : store[x] # Nil => chan[store[x]] # "full"

\* While a call is under way some call or the cleaner can go on, or a lease
\* can be unlocked, or some calls wait for each other.
SomebodyMoves ==
    (clean = "locked" \/ \E u \in Users : op[u] # "none") =>
        \/ \E u \in Users : MethodGuard(u) \/ (op[u] = "none" /\ Holds(u))
        \/ CleanGuard
        \/ LockCycle

\* Calls wait for each other only if one was made with a lease locked.
CycleKeepsLease == LockCycle => LeaseKept
=============================================================================
