------------------------------ MODULE LeaseMap ------------------------------
(***************************************************************************)
(* What dhcp/store.go promises to the goroutines that share a lease store: *)
(* a map from xids to leases on which every call takes effect in one step  *)
(* between its invocation and its return.  There are no locks here.        *)
(*                                                                         *)
(* A lease found by Get comes locked (mux); its Done channel has room for  *)
(* one value.  An entry that is seen outdated is condemned, and condemned  *)
(* keys are evicted: whatever lease is under the key by then finds a value *)
(* in its Done channel.                                                    *)
(***************************************************************************)
EXTENDS Naturals

CONSTANTS
    Users,      \* goroutines that call the store
    Leases,     \* Lease objects
    Xids,       \* transaction ids
    XidOf,      \* the xid of each lease
    TTL,        \* how long an entry is good for
    MaxTime,    \* bound: the last time the clock shows
    Nil         \* no entry, no lease, nobody

VARIABLES
    now,        \* the clock
    map,        \* xid -> lease
    expire,     \* when the entry of an xid expires
    condemned,  \* xids seen outdated
    chan,       \* Done: empty, full, read, closed
    mux,        \* who has locked a lease
    op,         \* the call a user is in, "none" between calls
    key,        \* its xid
    val,        \* its lease
    res,        \* what it returned
    used,       \* leases that were given to Set
    panic       \* the process died: send on a closed channel

vars == <<now, map, expire, condemned, chan, mux, op, key, val, res, used, panic>>

Init ==
    /\ now = 0
    /\ map = [x \in Xids |-> Nil]
    /\ expire = [x \in Xids |-> 0]
    /\ condemned = {}
    /\ chan = [l \in Leases |-> "empty"]
    /\ mux = [l \in Leases |-> Nil]
    /\ op = [u \in Users |-> "none"]
    /\ key = [u \in Users |-> Nil]
    /\ val = [u \in Users |-> Nil]
    /\ res = [u \in Users |-> "none"]
    /\ used = {}
    /\ panic = FALSE

\* A user between two calls starts one; a lease is stored once.
Invoke(u, o, x, l) ==
    /\ op[u] = "none"
    /\ IF o = "Set" /\ l # Nil THEN l \notin used /\ x = XidOf[l] ELSE l = Nil
    /\ op'   = [op EXCEPT ![u] = o]
    /\ key'  = [key EXCEPT ![u] = x]
    /\ val'  = [val EXCEPT ![u] = l]
    /\ res'  = [res EXCEPT ![u] = "none"]
    /\ used' = IF l # Nil THEN used \cup {l} ELSE used
    /\ UNCHANGED <<now, map, expire, condemned, chan, mux, panic>>

Return(u, r) ==
    /\ op'  = [op EXCEPT ![u] = "none"]
    /\ res' = [res EXCEPT ![u] = r]
    /\ key' = [key EXCEPT ![u] = Nil]
    /\ val' = [val EXCEPT ![u] = Nil]
    /\ UNCHANGED <<now, condemned, chan, used, panic>>

\* The effect and the result of each call, in one step.
Set(u) ==
    /\ op[u] = "Set"
    /\ IF val[u] = Nil
         THEN Return(u, "error") /\ UNCHANGED <<map, expire>>
         ELSE /\ map'    = [map EXCEPT ![key[u]] = val[u]]
              /\ expire' = [expire EXCEPT ![key[u]] = now + TTL]
              /\ Return(u, "ok")
    /\ mux' = mux

Remove(u) ==
    /\ op[u] = "Remove"
    /\ map' = [map EXCEPT ![key[u]] = Nil]
    /\ Return(u, IF map[key[u]] = Nil THEN "no" ELSE "ok")
    /\ UNCHANGED <<expire, mux>>

Touch(u) ==
    /\ op[u] = "Touch"
    /\ IF map[key[u]] = Nil
         THEN Return(u, "no") /\ expire' = expire
         ELSE Return(u, "ok") /\ expire' = [expire EXCEPT ![key[u]] = now + TTL]
    /\ UNCHANGED <<map, mux>>

Has(u) ==
    /\ op[u] = "Has"
    /\ Return(u, IF map[key[u]] = Nil THEN "no" ELSE "ok")
    /\ UNCHANGED <<map, expire, mux>>

GetItem(u) ==
    /\ op[u] = "GetItem"
    /\ Return(u, map[key[u]])
    /\ UNCHANGED <<map, expire, mux>>

\* A lease is answered when its Done channel is closed, or about to be.
HasStatus(u) ==
    LET l == map[key[u]] IN
    /\ op[u] = "HasStatus"
    /\ \/ l # Nil /\ (chan[l] = "closed" \/ mux[l] # Nil) /\ Return(u, "ok")
       \/ (l # Nil => chan[l] # "closed") /\ Return(u, "no")
    /\ UNCHANGED <<map, expire, mux>>

Get(u) ==
    LET l == map[key[u]] IN
    /\ op[u] = "Get"
    /\ IF l = Nil THEN Return(u, "no") /\ mux' = mux
                  ELSE /\ mux[l] = Nil
                       /\ Return(u, "ok") /\ mux' = [mux EXCEPT ![l] = u]
    /\ UNCHANGED <<map, expire>>

\* The cancel functions of Get, and what its callers do before: close Done.
Unlock(u) ==
    /\ op[u] = "none"
    /\ mux' = [l \in Leases |-> IF mux[l] = u THEN Nil ELSE mux[l]]
    /\ UNCHANGED <<now, map, expire, condemned, chan, op, key, val, res, used, panic>>

Close(u, l) ==
    /\ mux[l] = u
    /\ op[u] = "none"
    /\ chan[l] # "closed"
    /\ chan' = [chan EXCEPT ![l] = "closed"]
    /\ UNCHANGED <<now, map, expire, condemned, mux, op, key, val, res, used, panic>>

\* The goroutine that waits for a lease takes the value out of Done.
Take(l) ==
    /\ chan[l] = "full"
    /\ chan' = [chan EXCEPT ![l] = "read"]
    /\ UNCHANGED <<now, map, expire, condemned, mux, op, key, val, res, used, panic>>

Tick ==
    /\ now < MaxTime
    /\ now' = now + 1
    /\ UNCHANGED <<map, expire, condemned, chan, mux, op, key, val, res, used, panic>>

Condemn ==
    /\ condemned = {}
    /\ condemned' = {x \in Xids : map[x] # Nil /\ expire[x] < now}
    /\ UNCHANGED <<now, map, expire, chan, mux, op, key, val, res, used, panic>>

Evict(x) ==
    /\ x \in condemned
    /\ IF map[x] # Nil /\ chan[map[x]] = "closed"
         THEN panic' = TRUE /\ UNCHANGED <<map, chan, condemned>>
         ELSE /\ condemned' = condemned \ {x}
              /\ map'  = [map EXCEPT ![x] = Nil]
              /\ chan' = [l \in Leases |-> IF l = map[x] THEN "full" ELSE chan[l]]
              /\ panic' = panic
    /\ UNCHANGED <<now, expire, mux, op, key, val, res, used>>

Ops == {"Set", "Get", "GetItem", "Has", "Remove", "Touch", "HasStatus"}

Next ==
    /\ ~panic
    /\ \/ \E u \in Users, o \in Ops, x \in Xids, l \in Leases \cup {Nil} : Invoke(u, o, x, l)
       \/ \E u \in Users : Unlock(u) \/ Set(u) \/ Remove(u) \/ Touch(u)
                           \/ Has(u) \/ GetItem(u) \/ HasStatus(u) \/ Get(u)
       \/ \E u \in Users, l \in Leases : Close(u, l)
       \/ \E l \in Leases : Take(l)
       \/ Tick \/ Condemn \/ \E x \in Xids : Evict(x)

Spec == Init /\ [][Next]_vars
=============================================================================
