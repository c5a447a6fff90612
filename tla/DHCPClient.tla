----------------------------- MODULE DHCPClient -----------------------------
(***************************************************************************)
(* The DHCP client behind the REST handlers: dhcp/client.go, the part of   *)
(* dhcp/store.go and dhcp/lease.go it relies on, and the handlers of       *)
(* service/server.go that turn its results into HTTP statuses.             *)
(*                                                                         *)
(* A handler (lease, renew, release) runs a goroutine that works through   *)
(* attempts.  An attempt is one Lease object: it has a transaction id, a   *)
(* Done channel, an exchange goroutine (discover() or request()) that      *)
(* stores and sends it, and a timer (dhcp-timeout).  One receiver          *)
(* goroutine applies the answers of the DHCP server to the stored leases,  *)
(* one cleaner goroutine drops outdated store entries.                     *)
(*                                                                         *)
(* Definitions such as DeletedNothing, CheckResponseTypeLax or StatusOther *)
(* right before the one they vary are faulty versions the specification    *)
(* does not use; PROJECT.json says which property notices which of them.   *)
(***************************************************************************)
EXTENDS Naturals, FiniteSets

CONSTANTS
    LeaseReqs,      \* requests handled by GET /ip/{hostname}
    RenewReqs,      \* requests handled by GET /ip/{hostname}/{mac}/{ip}
    ReleaseReqs,    \* requests handled by DELETE
    MaxTries,       \* bound: attempts of one request within its web timeout
    MaxDiscovers,   \* bound: how many of them are discovers
    Refusals,       \* may the DHCP server answer a request with a NAK?
    SendFails,      \* may Connection.Send report an error of its own?
    SendsStick,     \* may it report one nobody takes, and keep the connection?
    ShortTTL,       \* may a store entry outlive its ttl before its request ends?
    NoLease         \* a nil *Lease, an absent store entry

Reqs     == LeaseReqs \cup RenewReqs \cup ReleaseReqs
Attempts == Reqs \X (1..MaxTries)

ASSUME ReqsAssumption ==
    /\ LeaseReqs \cap RenewReqs = {}
    /\ LeaseReqs \cap ReleaseReqs = {}
    /\ RenewReqs \cap ReleaseReqs = {}
ASSUME MaxTriesAssumption == MaxTries \in Nat \ {0} /\ MaxDiscovers \in 1..MaxTries
ASSUME EnvironmentAssumption == {Refusals, SendFails, SendsStick, ShortTTL} \subseteq BOOLEAN
ASSUME NoLeaseAssumption == NoLease \notin Attempts

VARIABLES
    \* one API request: the handler and its goroutine in client.go
    pc,         \* idle, start, wait, sleep, get, remove, respond, releasing, done
    phase,      \* which loop: discover, request, renew, release
    tries,      \* attempts made so far; the current one is <<r, tries[r]>>
    lease,      \* the variable lease (discover loop) or lease2 (the others)
    ctx,        \* the web timeout has expired, or the handler has cancelled it
    out,        \* HTTP status, 0 while the request is unanswered
    \* one attempt: a Lease object and its exchange goroutine
    xid,        \* transaction id, named by the attempt that generated it
    typ,        \* DHCP message type of the Lease object
    done,       \* the channel Lease.Done: open, sent (by Clean), closed
    timer,      \* the attempt's dhcp-timeout has expired
    ex,         \* none, spawn, set, send, answer, remove, reply, end
    ret,        \* what the exchange hands back: none, lease, nil, error
    snd,        \* Connection.Send: none, pending, ok, failed
    \* shared
    store,      \* LeaseStore: xid -> attempt
    held,       \* lease mutexes held by request goroutines
    rcv,        \* the packet processDHCPReponse is working on
    net,        \* every answer the DHCP server has emitted
    cln,        \* entries the cleaner found outdated and has yet to remove
    jam,        \* a send holds the connection's outmux for ever
    panic       \* why the process died

reqVars  == <<pc, phase, tries, lease, ctx, out>>
attVars  == <<xid, typ, done, timer, ex, ret, snd>>
vars     == <<reqVars, attVars, store, held, rcv, net, cln, jam, panic>>

AnswerTypes  == {"Offer", "Ack", "Nak"}
NoPacket     == [lease |-> NoLease, type |-> "none"]
Packets      == [xid : Attempts, type : AnswerTypes]

Cur(r)       == <<r, tries[r]>>
Owner(a)     == a[1]

\* discover() made this attempt, not request(): GetLease's request loop
\* reuses the xid of the offer, every other attempt has an xid of its own.
IsDiscover(a) == Owner(a) \in LeaseReqs /\ xid[a] = a

Init ==
    /\ pc    = [r \in Reqs |-> "idle"]
    /\ phase = [r \in Reqs |-> IF r \in LeaseReqs THEN "discover"
                               ELSE IF r \in RenewReqs THEN "renew" ELSE "release"]
    /\ tries = [r \in Reqs |-> 0]
    /\ lease = [r \in Reqs |-> NoLease]
    /\ ctx   = [r \in Reqs |-> FALSE]
    /\ out   = [r \in Reqs |-> 0]
    /\ xid   = [a \in Attempts |-> a]
    /\ typ   = [a \in Attempts |-> "none"]
    /\ done  = [a \in Attempts |-> "open"]
    /\ timer = [a \in Attempts |-> FALSE]
    /\ ex    = [a \in Attempts |-> "none"]
    /\ ret   = [a \in Attempts |-> "none"]
    /\ snd   = [a \in Attempts |-> "none"]
    /\ store = [x \in Attempts |-> NoLease]
    /\ held  = {}
    /\ rcv   = NoPacket
    /\ net   = {}
    /\ cln   = {}
    /\ jam   = FALSE
    /\ panic = "none"

-----------------------------------------------------------------------------
(* The two kinds of lock.  LeaseStore.Get locks the lease while it holds   *)
(* the store's RWMutex for reading, so the receiver keeps every writer     *)
(* out while it waits for a lease a request goroutine has locked; and a    *)
(* waiting writer keeps new readers out.                                   *)

RLocked   == rcv.lease \in held
CanWrite  == ~RLocked
Writers   == \/ \E r \in Reqs : pc[r] = "remove"
             \/ \E a \in Attempts : ex[a] \in {"set", "remove"}
             \/ cln # {}
CanRead   == ~(RLocked /\ Writers)

\* LeaseStore.Remove (a call of its own, under the write lock)
DeletedNothing(x) == store
Deleted(x) == [store EXCEPT ![x] = NoLease]

\* The lease mutexes request r holds: error() until it returns, Renew until
\* its goroutine ends (defer cancel() inside the for loop).
HeldBy(r) == {a \in held : Owner(a) = r}

-----------------------------------------------------------------------------
(* The request goroutine                                                   *)

\* Bound on the attempts the web timeout leaves room for.
Limit(r) == IF phase[r] = "discover" THEN MaxDiscovers ELSE MaxTries

\* The head of the loops of GetLease and Renew: a new attempt with its timer
\* and its exchange goroutine.
NewAttempt(r) ==
    LET a == <<r, tries[r] + 1>> IN
    /\ r \notin ReleaseReqs
    /\ pc[r] \in {"idle", "start"}
    /\ tries[r] < Limit(r)
    /\ tries' = [tries EXCEPT ![r] = @ + 1]
    /\ xid' = [xid EXCEPT ![a] = IF phase[r] = "request" THEN xid[lease[r]] ELSE a]
    /\ typ' = [typ EXCEPT ![a] = IF phase[r] = "discover" THEN "Discover" ELSE "Request"]
    /\ ex'  = [ex EXCEPT ![a] = "spawn"]
    /\ pc'  = [pc EXCEPT ![r] = "wait"]
    /\ UNCHANGED <<phase, lease, ctx, out, done, timer, ret, snd, store, held, rcv, net, panic, cln, jam>>

\* An attempt beyond the bound would start under an expired context, where
\* wait() and sleep() give nil.
GiveUp(r) ==
    /\ pc[r] = "start"
    /\ tries[r] = Limit(r)
    /\ ctx[r]
    /\ lease' = [lease EXCEPT ![r] = NoLease]
    /\ held'  = held \ HeldBy(r)
    /\ pc'    = [pc EXCEPT ![r] = "respond"]
    /\ UNCHANGED <<phase, tries, ctx, out, attVars, store, rcv, net, panic, cln, jam>>

\* wait() gets the result of the exchange.  A lease is removed from the
\* store next; for an error the loops dereference the nil DHCP4 first.
WaitReply(r) ==
    LET a == Cur(r) IN
    /\ pc[r] = "wait"
    /\ ex[a] = "reply"
    /\ ex' = [ex EXCEPT ![a] = "end"]
    /\ \/ /\ ret[a] = "lease"
          /\ lease' = [lease EXCEPT ![r] = a]
          /\ pc'    = [pc EXCEPT ![r] = "remove"]
          /\ panic' = panic
       \/ /\ ret[a] = "nil"
          /\ pc'    = [pc EXCEPT ![r] = "sleep"]
          /\ UNCHANGED <<lease, panic>>
       \/ /\ ret[a] = "error"
          /\ panic' = "nil_packet"
          /\ UNCHANGED <<pc, lease>>
    /\ UNCHANGED <<phase, tries, ctx, out, xid, typ, done, timer, ret, snd, store, held, rcv, net, cln, jam>>

\* wait() sees the attempt's deadline first; the exchange is abandoned.
WaitTimeout(r) ==
    /\ pc[r] = "wait"
    /\ timer[Cur(r)] \/ ctx[r]
    /\ pc' = [pc EXCEPT ![r] = "sleep"]
    /\ UNCHANGED <<phase, tries, lease, ctx, out, attVars, store, held, rcv, net, panic, cln, jam>>

\* sleep(): Block gets outmux, then the retry timer fires.  The two are one
\* step: once Block has outmux no send can get stuck with it.
SleepOver(r) ==
    /\ pc[r] = "sleep"
    /\ ~jam
    /\ pc' = [pc EXCEPT ![r] = "get"]
    /\ UNCHANGED <<phase, tries, lease, ctx, out, attVars, store, held, rcv, net, panic, cln, jam>>

\* sleep(): the web timeout ends the request with a nil lease.  Block does
\* not look at the context, so this too waits for outmux.
SleepCancelled(r) ==
    /\ pc[r] = "sleep"
    /\ ~jam
    /\ ctx[r]
    /\ lease' = [lease EXCEPT ![r] = NoLease]
    /\ held'  = held \ HeldBy(r)
    /\ pc'    = [pc EXCEPT ![r] = "respond"]
    /\ UNCHANGED <<phase, tries, ctx, out, attVars, store, rcv, net, panic, cln, jam>>

FinishedAlways(r, b) == b # NoLease

\* The answers that end a loop when they came in during the sleep.
Finished(r, b) ==
    typ[b] \in (IF phase[r] = "discover" THEN {"Offer"} ELSE {"Ack", "Nak"})

\* After the sleep: store.Get(xid).  The lease may have been answered
\* meanwhile; error() dereferences the result even when there is none.
StoreGet(r) ==
    LET b == store[xid[Cur(r)]] IN
    /\ pc[r] = "get"
    /\ CanRead
    /\ b = NoLease \/ rcv.lease # b
    /\ \/ /\ b = NoLease
          /\ phase[r] = "renew"
          /\ pc' = [pc EXCEPT ![r] = "start"]
          /\ UNCHANGED <<lease, held, panic>>
       \/ /\ b = NoLease
          /\ phase[r] # "renew"
          /\ panic' = "nil_lease"
          /\ UNCHANGED <<pc, lease, held>>
       \/ /\ b # NoLease
          /\ Finished(r, b)
          /\ lease' = [lease EXCEPT ![r] = b]
          /\ held'  = held \cup {b}
          /\ pc'    = [pc EXCEPT ![r] = "remove"]
          /\ panic' = panic
       \/ /\ b # NoLease
          /\ ~Finished(r, b)
          /\ held' = IF phase[r] = "renew" THEN held \cup {b} ELSE held
          /\ pc'   = [pc EXCEPT ![r] = "start"]
          /\ UNCHANGED <<lease, panic>>
    /\ UNCHANGED <<phase, tries, ctx, out, attVars, store, rcv, net, cln, jam>>

\* store.Remove of an answered lease.  GetLease goes on to its request loop
\* after an offer; everything else goes to the handler.
StoreRemove(r) ==
    /\ pc[r] = "remove"
    /\ CanWrite
    /\ store' = Deleted(xid[lease[r]])
    /\ held'  = held \ HeldBy(r)
    /\ IF phase[r] = "discover"
         THEN /\ phase' = [phase EXCEPT ![r] = "request"]
              /\ pc'    = [pc EXCEPT ![r] = "start"]
         ELSE /\ phase' = phase
              /\ pc'    = [pc EXCEPT ![r] = "respond"]
    /\ UNCHANGED <<tries, lease, ctx, out, attVars, rcv, net, panic, cln, jam>>

StatusOther(r) == IF lease[r] = NoLease THEN 504 ELSE 200
StatusWithoutNak(r) == IF lease[r] = NoLease THEN 408 ELSE 200

\* response(): the status for the lease the client handed out.
Status(r) ==
    IF lease[r] = NoLease THEN 408
    ELSE IF typ[lease[r]] = "Nak" THEN 406 ELSE 200

\* The handler answers and its deferred cancel() ends the context.
Respond(r) ==
    /\ pc[r] = "respond"
    /\ out' = [out EXCEPT ![r] = Status(r)]
    /\ ctx' = [ctx EXCEPT ![r] = TRUE]
    /\ pc'  = [pc EXCEPT ![r] = "done"]
    /\ UNCHANGED <<phase, tries, lease, attVars, store, held, rcv, net, panic, cln, jam>>

\* Release: one packet that is sent and neither stored nor answered.
StartRelease(r) ==
    /\ r \in ReleaseReqs
    /\ pc[r] = "idle"
    /\ tries' = [tries EXCEPT ![r] = 1]
    /\ typ' = [typ EXCEPT ![<<r, 1>>] = "Release"]
    /\ snd' = [snd EXCEPT ![<<r, 1>>] = "pending"]
    /\ pc'  = [pc EXCEPT ![r] = "releasing"]
    /\ UNCHANGED <<phase, lease, ctx, out, xid, done, timer, ex, ret, store, held, rcv, net, panic, cln, jam>>

ReleaseEndWithoutContext(r) ==
    /\ pc[r] = "releasing"
    /\ \/ /\ snd[Cur(r)] = "ok"
          /\ out' = [out EXCEPT ![r] = 200]
       \/ /\ snd[Cur(r)] = "failed"
          /\ out' = [out EXCEPT ![r] = 400]
    /\ ctx' = [ctx EXCEPT ![r] = TRUE]
    /\ pc'  = [pc EXCEPT ![r] = "done"]
    /\ UNCHANGED <<phase, tries, lease, attVars, store, held, rcv, net, panic, cln, jam>>

ReleaseEndEarly(r) ==
    /\ pc[r] = "releasing"
    /\ \/ /\ snd[Cur(r)] # "failed"
          /\ out' = [out EXCEPT ![r] = 200]
       \/ /\ snd[Cur(r)] = "failed" \/ ctx[r]
          /\ out' = [out EXCEPT ![r] = 400]
    /\ ctx' = [ctx EXCEPT ![r] = TRUE]
    /\ pc'  = [pc EXCEPT ![r] = "done"]
    /\ UNCHANGED <<phase, tries, lease, attVars, store, held, rcv, net, panic, cln, jam>>

\* Release: the select over the two channels of Send and the context.
ReleaseEnd(r) ==
    /\ pc[r] = "releasing"
    /\ \/ /\ snd[Cur(r)] = "ok"
          /\ out' = [out EXCEPT ![r] = 200]
       \/ /\ snd[Cur(r)] = "failed" \/ ctx[r]
          /\ out' = [out EXCEPT ![r] = 400]
    /\ ctx' = [ctx EXCEPT ![r] = TRUE]
    /\ pc'  = [pc EXCEPT ![r] = "done"]
    /\ UNCHANGED <<phase, tries, lease, attVars, store, held, rcv, net, panic, cln, jam>>

-----------------------------------------------------------------------------
(* The exchange goroutine: discover() and request()                        *)

\* The context of the exchange: GetLease passes the attempt's timeout,
\* Renew the web timeout.
ExchangeDone(a) == ctx[Owner(a)] \/ (Owner(a) \in LeaseReqs /\ timer[a])

\* Build the message; request() also marks the lease it was made from,
\* in GetLease the object of the answered discover.
Prepare(a) ==
    /\ ex[a] = "spawn"
    /\ ex'  = [ex EXCEPT ![a] = "set"]
    /\ typ' = IF IsDiscover(a) THEN typ ELSE [typ EXCEPT ![xid[a]] = "Request"]
    /\ UNCHANGED <<reqVars, xid, done, timer, ret, snd, store, held, rcv, net, panic, cln, jam>>

\* store.Set, then Connection.Send.
StoreSet(a) ==
    /\ ex[a] = "set"
    /\ CanWrite
    /\ store' = [store EXCEPT ![xid[a]] = a]
    /\ snd'   = [snd EXCEPT ![a] = "pending"]
    /\ ex'    = [ex EXCEPT ![a] = "send"]
    /\ UNCHANGED <<reqVars, xid, typ, done, timer, ret, held, rcv, net, panic, cln, jam>>

\* select: Send reports an error.  discover() removes its entry first.
Failed(a) ==
    IF IsDiscover(a)
      THEN ex' = [ex EXCEPT ![a] = "remove"] /\ ret' = ret
      ELSE ex' = [ex EXCEPT ![a] = "reply"] /\ ret' = [ret EXCEPT ![a] = "error"]

ErrorRemove(a) ==
    /\ ex[a] = "remove"
    /\ CanWrite
    /\ store' = Deleted(xid[a])
    /\ ex'    = [ex EXCEPT ![a] = "reply"]
    /\ ret'   = [ret EXCEPT ![a] = "error"]
    /\ UNCHANGED <<reqVars, xid, typ, done, timer, snd, held, rcv, net, panic, cln, jam>>

\* select: Done was closed by the receiver, or written to by Clean.
SelectDone(a) ==
    /\ ex[a] = "answer"
    /\ done[a] # "open"
    /\ ex'  = [ex EXCEPT ![a] = "reply"]
    /\ ret' = [ret EXCEPT ![a] = "lease"]
    /\ UNCHANGED <<reqVars, xid, typ, done, timer, snd, store, held, rcv, net, panic, cln, jam>>

\* select: the context ends first, and with it the watcher of Send writes
\* the context's error to the error channel: either case may be chosen.
SelectCtx(a) ==
    /\ ex[a] \in {"send", "answer"}
    /\ ExchangeDone(a)
    /\ \/ /\ ex'  = [ex EXCEPT ![a] = "reply"]
          /\ ret' = [ret EXCEPT ![a] = "nil"]
       \/ ex[a] = "send" /\ Failed(a)
    /\ UNCHANGED <<reqVars, xid, typ, done, timer, snd, store, held, rcv, net, panic, cln, jam>>

-----------------------------------------------------------------------------
(* The receiver goroutine                                                  *)

CheckResponseTypeLax(old, new) == new \in AnswerTypes
CheckResponseTypeNakAfterAck(old, new) ==
    \/ old = "Discover" /\ new = "Offer"
    \/ old \in {"Request", "Ack"} /\ new \in {"Ack", "Nak"} /\ old # new

\* Lease.CheckResponseType (DHCP inform is never sent).
CheckResponseType(old, new) ==
    \/ old = "Discover" /\ new = "Offer"
    \/ old = "Request" /\ new \in {"Ack", "Nak"}

\* processDHCPReponse up to store.Get: packets with an unknown xid are
\* logged and dropped, for the others Get goes for the lease's mutex.
Receive(m) ==
    /\ rcv = NoPacket
    /\ store[m.xid] # NoLease
    /\ rcv' = [lease |-> store[m.xid], type |-> m.type]
    /\ UNCHANGED <<reqVars, attVars, store, held, net, panic, cln, jam>>

ProcessKeepsLock ==
    LET a == rcv.lease IN
    /\ rcv # NoPacket
    /\ a \notin held
    /\ CheckResponseType(typ[a], rcv.type)
    /\ rcv'   = NoPacket
    /\ typ'   = [typ EXCEPT ![a] = rcv.type]
    /\ done'  = [done EXCEPT ![a] = "closed"]
    /\ panic' = IF done[a] = "closed" THEN "double_close" ELSE panic
    /\ UNCHANGED <<reqVars, xid, timer, ex, ret, snd, store, held, net, cln, jam>>

\* The rest of processDHCPReponse, with the lease locked.
Process ==
    LET a == rcv.lease IN
    /\ rcv # NoPacket
    /\ a \notin held
    /\ rcv' = NoPacket
    /\ \/ /\ CheckResponseType(typ[a], rcv.type)
          /\ typ'   = [typ EXCEPT ![a] = rcv.type]
          /\ done'  = [done EXCEPT ![a] = "closed"]
          /\ panic' = IF done[a] = "closed" THEN "double_close" ELSE panic
       \/ /\ ~CheckResponseType(typ[a], rcv.type)
          /\ UNCHANGED <<typ, done, panic>>
    /\ UNCHANGED <<reqVars, xid, timer, ex, ret, snd, store, held, net, cln, jam>>

-----------------------------------------------------------------------------
(* The cleaner goroutine                                                   *)

\* Request r will not look into the store again: it was answered, or its
\* context is over and its sleep() waits for a connection that is jammed.
Gone(r) == pc[r] = "done" \/ (jam /\ pc[r] = "sleep" /\ ctx[r])

OutdatedAnswered(x) ==
    /\ store[x] # NoLease
    /\ done[store[x]] = "closed"
    /\ Gone(Owner(store[x])) /\ ex[store[x]] \in {"remove", "reply", "end"}

\* With ttl = 60s above the web timeout an entry is outdated only when its
\* request has ended and its exchange has left its select (to end, to remove
\* the entry or to wait in vain to hand its result over).
Outdated(x) ==
    /\ store[x] # NoLease
    /\ \/ ShortTTL
       \/ Gone(Owner(store[x])) /\ ex[store[x]] \in {"remove", "reply", "end"}

\* outdated(): the list of outdated entries, made under the read lock; Clean
\* then asks for the write lock.
CleanList(S) ==
    /\ cln = {}
    /\ S # {}
    /\ \A x \in S : Outdated(x)
    /\ CanRead
    /\ cln' = S
    /\ UNCHANGED <<reqVars, attVars, store, held, rcv, net, jam, panic>>

\* The rest of Clean: for every listed entry that is still there (or is there
\* again) Done <- true, then delete.
Clean ==
    /\ cln # {}
    /\ CanWrite
    /\ done'  = [a \in Attempts |->
                   IF \E x \in cln : store[x] = a /\ done[a] = "open" THEN "sent" ELSE done[a]]
    /\ store' = [x \in Attempts |-> IF x \in cln THEN NoLease ELSE store[x]]
    /\ panic' = IF \E x \in cln : store[x] # NoLease /\ done[store[x]] = "closed"
                  THEN "closed_channel" ELSE panic
    /\ cln'   = {}
    /\ UNCHANGED <<reqVars, xid, typ, timer, ex, ret, snd, held, rcv, net, jam>>

-----------------------------------------------------------------------------
(* The environment: timers, the connection, the DHCP server                *)

TimerExpires(a) ==
    /\ pc[Owner(a)] = "wait"
    /\ a = Cur(Owner(a))
    /\ ~timer[a]
    /\ timer' = [timer EXCEPT ![a] = TRUE]
    /\ UNCHANGED <<reqVars, xid, typ, done, ex, ret, snd, store, held, rcv, net, panic, cln, jam>>

WebTimeout(r) ==
    /\ pc[r] \notin {"idle", "done"}
    /\ ~ctx[r]
    /\ ctx' = [ctx EXCEPT ![r] = TRUE]
    /\ UNCHANGED <<pc, phase, tries, lease, out, attVars, store, held, rcv, net, panic, cln, jam>>

\* Send writes the packet, and an exchange still in its select goes on to
\* wait for Done.  The packet may leave long after its context ended: Send
\* waits for the outgoing traffic another request's sleep() blocks.
SendOk(a) ==
    /\ snd[a] = "pending"
    /\ ~jam
    /\ snd' = [snd EXCEPT ![a] = "ok"]
    /\ ex'  = [ex EXCEPT ![a] = IF @ = "send" THEN "answer" ELSE @]
    /\ UNCHANGED <<reqVars, xid, typ, done, timer, ret, store, held, rcv, net, panic, cln, jam>>

\* Send reports an error of its own.  (The error a context's end causes is
\* a case of SelectCtx; one nobody listens to any more changes nothing.)
SendFail(a) ==
    /\ SendFails
    /\ snd[a] = "pending"
    /\ snd' = [snd EXCEPT ![a] = "failed"]
    /\ \/ ex[a] = "send" /\ Failed(a)
       \/ Owner(a) \in ReleaseReqs /\ UNCHANGED <<ex, ret>>
    /\ UNCHANGED <<reqVars, xid, typ, done, timer, store, held, rcv, net, panic, cln, jam>>

\* The write fails after the context's error has filled the error channel and
\* the caller has left for the context's end: Send blocks with outmux locked
\* (module Connection shows how).  No packet leaves any more, no Block returns.
Jam(a) ==
    /\ SendsStick
    /\ ~jam
    /\ snd[a] = "pending"
    /\ ret[a] = "nil" \/ (Owner(a) \in ReleaseReqs /\ pc[Owner(a)] = "done")
    /\ jam' = TRUE
    /\ UNCHANGED <<reqVars, attVars, store, held, rcv, net, cln, panic>>

\* The server answers what it was sent.  Answers stay in net: UDP may lose
\* them (they are never received), delay, reorder and duplicate them.
ServerAnswer(a) ==
    /\ snd[a] = "ok"
    /\ Owner(a) \notin ReleaseReqs
    /\ \E t \in (IF IsDiscover(a) THEN {"Offer"}
                 ELSE IF Refusals THEN {"Ack", "Nak"} ELSE {"Ack"}) :
          net' = net \cup {[xid |-> xid[a], type |-> t]}
    /\ UNCHANGED <<reqVars, attVars, store, held, rcv, panic, cln, jam>>

-----------------------------------------------------------------------------
Request(r) ==
    \/ NewAttempt(r) \/ GiveUp(r) \/ WaitReply(r) \/ WaitTimeout(r)
    \/ SleepOver(r) \/ SleepCancelled(r) \/ StoreGet(r) \/ StoreRemove(r)
    \/ Respond(r) \/ StartRelease(r) \/ ReleaseEnd(r)

Exchange(a) ==
    \/ Prepare(a) \/ StoreSet(a) \/ ErrorRemove(a)
    \/ SelectDone(a) \/ SelectCtx(a)

Environment(a) ==
    TimerExpires(a) \/ SendOk(a) \/ SendFail(a) \/ Jam(a) \/ ServerAnswer(a)

\* A panic in any goroutine ends the process.
Next ==
    /\ panic = "none"
    /\ \/ \E r \in Reqs : Request(r) \/ WebTimeout(r)
       \/ \E a \in Attempts : Exchange(a) \/ Environment(a)
       \/ \E m \in net : Receive(m)
       \/ Process
       \/ \E S \in SUBSET Attempts : CleanList(S)
       \/ Clean

Spec == Init /\ [][Next]_vars

\* Go schedules every runnable goroutine, timers and deadlines fire, every
\* entry outlives its ttl, and sync.Mutex and sync.RWMutex starve nobody.
\* Requests need not arrive; packets need not be sent, answered or received.
Step(A) == panic = "none" /\ A

\* The cleaner lists entry x, with others that are outdated.
ListEntry(x) == \E S \in SUBSET Attempts : x \in S /\ CleanList(S)

RequestFairness(r) ==
    /\ SF_vars(Step(pc[r] # "idle" /\ Request(r)))
    /\ WF_vars(Step(WebTimeout(r)))
AttemptFairness(a) ==
    /\ SF_vars(Step(Exchange(a)))
    /\ WF_vars(Step(TimerExpires(a)))
    /\ SF_vars(Step(ListEntry(a)))
ReceiverFairness == WF_vars(Step(Process))
CleanerFairness  == SF_vars(Step(Clean))

Fairness ==
    /\ \A r \in Reqs : RequestFairness(r)
    /\ \A a \in Attempts : AttemptFairness(a)
    /\ ReceiverFairness
    /\ CleanerFairness

FairSpec == Spec /\ Fairness

-----------------------------------------------------------------------------
(* Properties                                                              *)

\* Every variable keeps its type: in particular a handler answers with one
\* of the statuses response() and release write.
TypeOK ==
    /\ pc \in [Reqs -> {"idle", "start", "wait", "sleep", "get", "remove",
                        "respond", "releasing", "done"}]
    /\ phase \in [Reqs -> {"discover", "request", "renew", "release"}]
    /\ tries \in [Reqs -> 0..MaxTries]
    /\ lease \in [Reqs -> Attempts \cup {NoLease}]
    /\ ctx \in [Reqs -> BOOLEAN]
    /\ out \in [Reqs -> {0, 200, 400, 406, 408}]
    /\ xid \in [Attempts -> Attempts]
    /\ typ \in [Attempts -> {"none", "Discover", "Request", "Release"} \cup AnswerTypes]
    /\ done \in [Attempts -> {"open", "sent", "closed"}]
    /\ timer \in [Attempts -> BOOLEAN]
    /\ ex \in [Attempts -> {"none", "spawn", "set", "send", "answer", "remove", "reply", "end"}]
    /\ ret \in [Attempts -> {"none", "lease", "nil", "error"}]
    /\ snd \in [Attempts -> {"none", "pending", "ok", "failed"}]
    /\ store \in [Attempts -> Attempts \cup {NoLease}]
    /\ held \subseteq Attempts
    /\ rcv \in [lease : Attempts \cup {NoLease}, type : AnswerTypes \cup {"none"}]
    /\ net \subseteq Packets
    /\ cln \subseteq Attempts
    /\ jam \in BOOLEAN
    /\ panic \in {"none", "nil_packet", "nil_lease", "double_close", "closed_channel"}

\* A request that waits for an attempt has one, and one that goes on with a
\* lease has it (needed to see that TypeOK is inductive).
CurrentInv ==
    \A r \in Reqs :
        /\ pc[r] \in {"wait", "sleep", "get", "releasing"} => tries[r] # 0
        /\ pc[r] = "remove" => lease[r] # NoLease
        /\ phase[r] = "request" /\ pc[r] \in {"start", "wait", "sleep", "get"}
             => lease[r] # NoLease
        /\ pc[r] = "idle" => phase[r] # "request"

Answer(a, t) == [xid |-> xid[a], type |-> t] \in net

\* A 200 for a lease or a renewal stands for an ACK the DHCP server sent for
\* a transaction of that very request, after an offer when it is a lease:
\* no timeout, retry, duplicate or clean-up makes response() report one.
AckedLease ==
    \A r \in Reqs : r \notin ReleaseReqs /\ out[r] = 200 =>
        /\ lease[r] # NoLease
        /\ Owner(lease[r]) = r
        /\ Answer(lease[r], "Ack")
        /\ r \in LeaseReqs => Answer(lease[r], "Offer")

\* A 406 stands for a NAK the server sent for a transaction of that request.
NakReported ==
    \A r \in Reqs : out[r] = 406 =>
        /\ lease[r] # NoLease
        /\ Owner(lease[r]) = r
        /\ Answer(lease[r], "Nak")

\* However often an answer is duplicated or a request repeated with the same
\* xid, processDHCPReponse closes a Done channel at most once.
SingleClose == panic # "double_close"

\* Attempt a failed, or its request moved on without its result.
Abandoned(a) ==
    \/ ret[a] \in {"nil", "error"}
    \/ /\ Owner(a) \notin ReleaseReqs
       /\ a[2] \in 1..tries[Owner(a)]
       /\ ex[a] # "end"
       /\ ~(a = Cur(Owner(a)) /\ pc[Owner(a)] = "wait")

\* As long as every attempt is answered in time the process survives: it
\* only dies (store.go:195, client.go:197, 241, 266, 327) after a send failed
\* or a request abandoned an attempt.
PanicNeedsAbandonment == panic # "none" => \E a \in Attempts : Abandoned(a)

\* The lease a handler works on is its own: the store does not lead the
\* receiver or the cleaner to it any more.
HandedOver ==
    \A r \in Reqs : pc[r] \in {"respond", "done"} /\ lease[r] # NoLease =>
        \A x \in Attempts : store[x] # lease[r]

\* ... and nobody changes it while response() reads it without its lock.
Frozen ==
    \A r \in Reqs : pc[r] \in {"respond", "done"} /\ lease[r] # NoLease =>
        typ'[lease[r]] = typ[lease[r]]

LeaseFrozen == [][Frozen]_vars

\* A request as its HTTP client sees it, what the DHCP server has said of it
\* and what became of the packet of a release.
ReqState    == [r \in Reqs |-> IF pc[r] \in {"idle", "done"} THEN pc[r] ELSE "busy"]
Said        == [r \in Reqs |-> {t \in AnswerTypes : \E m \in net : Owner(m.xid) = r /\ m.type = t}]
PacketState == [r \in ReleaseReqs |-> CASE snd[<<r, 1>>] = "ok" -> "sent"
                                         [] snd[<<r, 1>>] = "failed" -> "failed"
                                         [] OTHER -> "none"]

\* For its HTTP clients all of this is Requests: one answer per request, that
\* of the DHCP server to this request, and a 408 only after the web timeout.
Promise == INSTANCE Requests WITH
    state <- ReqState, expired <- ctx, said <- Said, packet <- PacketState, dead <- panic # "none"

ImplementsRequests == Promise!Spec

-----------------------------------------------------------------------------
(* The invariant behind them                                               *)

\* The exchange has stored its lease (and has called Send).
Started(a) == ex[a] \in {"send", "answer", "remove", "reply", "end"}

\* Before that nobody but the exchange knows the lease.
FreshInv ==
    \A a \in Attempts :
        /\ a[2] > tries[a[1]] => ex[a] = "none" /\ xid[a] = a
        /\ ~Started(a) =>
             /\ done[a] = "open"
             /\ ret[a] # "lease"
             /\ typ[a] \notin AnswerTypes
             /\ Owner(a) \in ReleaseReqs \/ snd[a] = "none"
             /\ rcv.lease # a
             /\ \A x \in Attempts : store[x] # a /\ (x # a => xid[x] # a)
             /\ \A r \in Reqs : lease[r] # a

\* Transactions stay within a request; only GetLease's request loop reuses
\* an xid, that of a discover which was answered.
XidInv ==
    /\ \A a \in Attempts :
          /\ Owner(xid[a]) = Owner(a)
          /\ xid[xid[a]] = xid[a]
          /\ xid[a] # a => Owner(a) \in LeaseReqs /\ done[xid[a]] = "closed"
    /\ \A x \in Attempts : store[x] # NoLease => xid[store[x]] = x
    /\ \A r \in Reqs : lease[r] # NoLease => Owner(lease[r]) = r

\* A lease is answered by what the server sent for it, and Done tells so.
DoneInv ==
    \A a \in Attempts :
        /\ typ[a] \in AnswerTypes => done[a] = "closed" /\ Answer(a, typ[a])
        /\ done[a] = "closed" =>
             IF IsDiscover(a) THEN typ[a] \in {"Offer", "Request"} /\ Answer(a, "Offer")
                              ELSE typ[a] \in {"Ack", "Nak"}
        /\ typ[a] = "Discover" => IsDiscover(a)

\* What wakes an exchange that waits for Done is an answer, as long as its
\* request can still take the result.
SignalInv ==
    \A a \in Attempts :
        /\ done[a] = "sent" => Gone(Owner(a))
        /\ ret[a] = "lease" => done[a] # "open"

\* What the cleaner is about to remove is of no use to a request any more,
\* even if an exchange has stored a lease under the same xid meanwhile.
CleanInv == \A x \in cln : Gone(Owner(x))

\* No ACK or NAK finds a discover in the store: its request is there already.
PacketInv ==
    /\ \A m \in net : m.type # "Offer" =>
          \E b \in Attempts : Started(b) /\ ~IsDiscover(b) /\ xid[b] = m.xid
    /\ \A b \in Attempts :
          Started(b) /\ ~IsDiscover(b) /\ store[xid[b]] # NoLease
            => ~IsDiscover(store[xid[b]])
    /\ rcv # NoPacket =>
          /\ rcv.lease \in Attempts
          /\ rcv.type \in AnswerTypes
          /\ Answer(rcv.lease, rcv.type)
          /\ IsDiscover(rcv.lease) => rcv.type = "Offer"

\* Which loop a request goroutine is in.
PhaseInv ==
    \A r \in Reqs :
        /\ phase[r] \in {"discover", "request"} <=> r \in LeaseReqs
        /\ phase[r] = "discover" => \A a \in Attempts : Owner(a) = r => xid[a] = a
        /\ pc[r] = "idle" => tries[r] = 0 /\ lease[r] = NoLease
        /\ pc[r] = "releasing" => r \in ReleaseReqs /\ lease[r] = NoLease
        /\ out[r] # 0 => pc[r] = "done"

\* Which lease it has in hand: the offer while it requests, an answered
\* lease from there on.
HandInv ==
    \A r \in Reqs :
        /\ phase[r] = "request" /\ pc[r] \in {"start", "wait", "sleep", "get"} =>
             IsDiscover(lease[r]) /\ done[lease[r]] = "closed"
        /\ phase[r] = "request" /\ pc[r] \in {"wait", "sleep", "get"} => xid[Cur(r)] # Cur(r)
        /\ pc[r] = "remove" =>
             done[lease[r]] = "closed" /\ (IsDiscover(lease[r]) <=> phase[r] = "discover")
        /\ pc[r] \in {"respond", "done"} /\ lease[r] # NoLease =>
             done[lease[r]] = "closed" /\ ~IsDiscover(lease[r])

\* The inductive invariant of client.go's goroutines and its lease store.
IInv == FreshInv /\ XidInv /\ DoneInv /\ SignalInv /\ CleanInv /\ PacketInv /\ PhaseInv /\ HandInv

\* What is known of an attempt its request has left: it gave nothing, or its
\* exchange still goes on, or its lease was taken out of the store.
LeftInv ==
    /\ \A r \in Reqs :
          /\ pc[r] = "wait" /\ panic = "none" => ex[Cur(r)] # "end"
          /\ pc[r] \in {"sleep", "get"} => ret[Cur(r)] = "nil" \/ ex[Cur(r)] # "end"
    /\ \A a \in Attempts :
          /\ Owner(a) \in ReleaseReqs => ex[a] = "none"
          /\ ex[a] \in {"reply", "end"} => ret[a] # "none"
          /\ ex[a] = "end" /\ ret[a] = "lease" =>
               \/ \A x \in Attempts : store[x] # a
               \/ pc[Owner(a)] = "remove" /\ lease[Owner(a)] = a

\* A handler gets no lease only because of the web timeout; a release sends
\* one packet and never waits for an answer.
TimeoutInv ==
    \A r \in Reqs :
        /\ pc[r] = "respond" /\ lease[r] = NoLease => ctx[r]
        /\ r \in ReleaseReqs => pc[r] \in {"idle", "releasing", "done"}
        /\ pc[r] = "releasing" => tries[r] = 1

\* A release that has not begun has sent nothing.
UnsentInv == \A r \in ReleaseReqs : pc[r] = "idle" => snd[<<r, 1>>] = "none"

\* Who may hold a lease's mutex: a request that is not over yet, and the
\* current lease of its loop only between store.Get and the next round.
\* GetLease's loops hold one only while they remove it; Renew, whose deferred
\* cancel runs at its very end, takes its locks along.
HeldInv ==
    \A a \in held :
        /\ pc[Owner(a)] \in {"start", "wait", "sleep", "get", "remove"}
        /\ pc[Owner(a)] # "remove" => Owner(a) \in RenewReqs
        /\ a[2] <= tries[Owner(a)]
        /\ pc[Owner(a)] \in {"wait", "sleep", "get"} => a[2] < tries[Owner(a)]

\* A loop keeps to its number of rounds, and what is done was answered.
RoundsInv ==
    \A r \in Reqs :
        /\ tries[r] <= Limit(r)
        /\ pc[r] = "done" => out[r] # 0 /\ ctx[r]

-----------------------------------------------------------------------------
(* Progress                                                                *)

\* When a request goroutine that is not waiting for a request can go on.
RequestGuard(r) ==
    \/ pc[r] = "start" /\ r \notin ReleaseReqs /\ (tries[r] < Limit(r) \/ (tries[r] = Limit(r) /\ ctx[r]))
    \/ pc[r] = "wait" /\ (timer[Cur(r)] \/ ctx[r])
    \/ pc[r] = "sleep" /\ ~jam
    \/ pc[r] = "respond"
    \/ pc[r] = "get" /\ CanRead /\ (rcv.lease = NoLease \/ store[xid[Cur(r)]] # rcv.lease)
    \/ pc[r] = "remove" /\ CanWrite
    \/ pc[r] = "releasing" /\ ctx[r]

\* ... and an exchange goroutine.
ExchangeGuard(a) ==
    \/ ex[a] = "spawn"
    \/ ex[a] \in {"set", "remove"} /\ CanWrite
    \/ ex[a] \in {"send", "answer"} /\ ExchangeDone(a)

\* Nothing but these conditions keeps a step from being taken.  The proofs of
\* progress start from here, as TLAPS does not evaluate ENABLED; for TLC it is
\* an invariant like any other.
Guards == panic = "none" =>
    /\ \A r \in Reqs :
          /\ RequestGuard(r) => ENABLED <<Step(pc[r] # "idle" /\ Request(r))>>_vars
          /\ pc[r] \notin {"idle", "done"} /\ ~ctx[r] => ENABLED <<Step(WebTimeout(r))>>_vars
    /\ \A a \in Attempts :
          /\ ExchangeGuard(a) => ENABLED <<Step(Exchange(a))>>_vars
          /\ pc[Owner(a)] = "wait" /\ a = Cur(Owner(a)) /\ ~timer[a]
               => ENABLED <<Step(TimerExpires(a))>>_vars
          /\ Outdated(a) /\ cln = {} /\ CanRead => ENABLED <<Step(ListEntry(a))>>_vars
    /\ rcv # NoPacket /\ rcv.lease \notin held => ENABLED <<Step(Process)>>_vars
    /\ cln # {} /\ CanWrite => ENABLED <<Step(Clean)>>_vars

\* The receiver holds the store's lock and waits, for ever, for a lease whose
\* request waits in its turn: for the store's write lock, for its read lock
\* behind another writer (the cleaner, say), or in sleep() for a connection
\* that is jammed.
ReceiverStuck ==
    /\ RLocked
    /\ \/ pc[Owner(rcv.lease)] = "remove"
       \/ pc[Owner(rcv.lease)] = "get" /\ ~CanRead
       \/ pc[Owner(rcv.lease)] = "sleep" /\ jam

\* A request that has arrived is answered, unless the process dies, the
\* receiver is stuck with the store's lock, or a send is stuck with the
\* connection's outmux while this very request is about to sleep().  Nothing
\* else (a lost answer, an abandoned exchange, a stuck send where the request
\* need not sleep) keeps a handler waiting.
HangOnlyWhenStuck ==
    \A r \in Reqs :
        pc[r] # "idle" ~> (\/ out[r] # 0 \/ panic # "none"
                           \/ ReceiverStuck \/ (jam /\ pc[r] = "sleep"))

\* Abandoned attempts do not pile up in the store, not even those of a request
\* that hangs in sleep(): only a stuck receiver keeps the cleaner out.
StoreDrains ==
    \A x \in Attempts :
        store[x] # NoLease ~> (store[x] = NoLease \/ panic # "none" \/ ReceiverStuck)

\* Every request is answered (or the process dies) within its web timeout.
Answered ==
    \A r \in Reqs : pc[r] # "idle" ~> (out[r] # 0 \/ panic # "none")

\* The cleaner removes outdated entries and harms nobody.
CleanSurvives == panic # "closed_channel"
=============================================================================
