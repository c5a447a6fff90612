# rest2dhcp in TLA+

rest2dhcp is a web service that obtains, renews and releases DHCP leases on
behalf of HTTP clients; it talks to the DHCP server as a relay.  This directory
holds TLA+ modules that model its concurrent parts, TLC configurations that
check them on small instances, and theorems TLAPS proves for all values of the
constants.  Paths below are relative to `src/`.

    tlc -workers 2 -config client_lease.cfg MCDHCPClient    # a run
    tlapm DHCPClient_proofs.tla                             # the proofs

The program itself is the Go code under `cmd/`, `service/`, `dhcp/`,
`background/`, `client/`, `kubernetes/` and `routing/`.

## The system

| part | state | operations | model |
|---|---|---|---|
| REST client (`client/`) | none | `Lease`, `Renew`, `Release`: checks, HTTP call, decoding | Rest |
| Content negotiation (`service/middleware.go`) | none | `ContentMiddleware` | Rest |
| REST handlers (`service/server.go`, `types.go`) | per request a context with the web timeout (30s by default) | `lease`, `renew`, `release`, `response`, `write` | DHCPClient, Rest |
| DHCP client (`dhcp/client.go`) | per request a goroutine that works through attempts; one receiver goroutine | `GetLease`, `Renew`, `Release`, `discover`, `request`, `error`, `wait`, `sleep`, `processDHCPReponse` | DHCPClient, abstractly Requests |
| Lease store (`dhcp/store.go`) | map from xid to item, RWMutex, ttl of 60s | `Set`, `Get`, `GetItem`, `Has`, `HasStatus`, `Touch`, `Remove`, `Clean`, `Run` | LeaseStore, abstractly LeaseMap; the part the client uses in DHCPClient |
| Lease (`dhcp/lease.go`) | packet, `Done` channel, error, mutex | `CheckResponseType`, `GetRequest`, lease times | DHCPClient, Rest (times) |
| Connections (`dhcp/udp.go`, `dual.go`, `raw.go`) | socket(s) with deadlines, inmux, outmux, port counter | `Send`, `Block`, `GetPort`; `Receive`, `Close` | Connection, abstractly Transmission; Service |
| Resolvers (`dhcp/resolver.go`) | addresses, the relay address found last | `GetServerIP`, `GetLocalIP`, `GetRelayIP`, `GetConnection` | Relay |
| Routing (`routing/`) | routing table read at start | `Route` | Relay, partly |
| Kubernetes client (`kubernetes/`) | none | `GetService`, `PatchService`, `WatchService` | Relay, partly |
| Background process (`background/process.go`) | context, `done` channel | `Init`, `Run`, `Stop` (`Wait` is used by tests) | Service |
| Server lifecycle (`service/server.go`, `cmd/root.go`) | listener, `done` channel, SIGINT channel | `Start`, `Shutdown`, the command | Service, partly |
| Logger, version command, generated code, Swagger UI (`doc/`) | none | | no |

How they interact.  A handler calls the client, which starts a goroutine and
returns a channel.  The goroutine starts, per attempt, an exchange goroutine
(`discover()` or `request()`) that puts a `Lease` object into the store under a
transaction id (xid) and sends it.  `Send` itself starts two more goroutines, a
writer and a watcher of the context.  The receiver looks answers up in the
store and closes the lease's `Done` channel, which wakes the exchange, which
hands the lease to the waiting goroutine.  A timer per attempt and the web
timeout cut all of this short at any point; between attempts `sleep()` blocks
all outgoing traffic through `Connection.Block`.  A cleaner goroutine drops
store entries older than the ttl.  Every attempt asks the resolver for the
relay address, which may ask Kubernetes.

What is hard here: two kinds of lock (store and lease) taken in both orders;
objects handed between goroutines while a third still has a reference; answers
that come late, twice or not at all; attempts that are abandoned but go on
living; buffered channels nobody reads any more; a write deadline that all
sends share; a list of outdated entries made under one lock and used under
another; a relay address that requests cache for each other without a lock; a
shutdown while requests are served; arithmetic on lease times that wraps.  `PROJECT.json` lists these
hazards at the lines where they bite, with the properties that watch them.

What makes the parts correct:

* handlers and client: a 200 is backed by an ACK for this very request, a 406
  by a NAK; every request is answered; the process survives;
* store and lease: a lease in a handler's hands belongs to it alone; a `Done`
  channel is closed once; the store is a map on which each method takes effect
  at one moment; entries do not stay for ever;
* connections: results tell what happened to the packet; `Block` blocks, and
  returns; no packet that was received is lost;
* addresses: a packet's relay address was an address of the service, and an old
  one comes back only in a race;
* REST calls: what a caller is told is true, whatever breaks on the way;
* lifecycle: a SIGINT ends the program, unless the receiver is stuck, and leaves
  nothing open.

## The modules

    Rest --uses--> Requests <--implements-- DHCPClient (progress: Progress_proofs)
    Connection --implements--> Transmission
    LeaseStore --implements--> LeaseMap
    Relay, Service

Rest composes the REST client and the server with Requests, the promise
DHCPClient is shown to keep.  The other modules meet at the calls named below.
`MC...` modules add model values for TLC, `..._proofs` modules the theorems.

### DHCPClient: requests, attempts, store, receiver, cleaner

An *attempt* `<<r, n>>` is the n-th `Lease` object of request `r` with its
exchange goroutine and its timer.  `pc[r]` is the point the request goroutine
has reached, `ex[a]` the point of the exchange, `store` the map from xids to
attempts, `held` the lease mutexes request goroutines hold, `rcv` the answer
the receiver works on, `net` all answers the server ever sent, `cln` the entries
the cleaner has listed, `jam` whether a send is stuck with outmux.

| actions | code |
|---|---|
| NewAttempt, GiveUp, WaitReply, WaitTimeout, SleepOver, SleepCancelled, StoreGet, StoreRemove | the loops of `GetLease` and `Renew` with `wait`, `error`, `sleep` |
| Respond | `lease`, `renew`, `response` of the server |
| StartRelease, ReleaseEnd | `Release` and its handler |
| Prepare, StoreSet, ErrorRemove, SelectDone, SelectCtx | `discover()`, `request()` |
| Receive, Process | the receive loop, `processDHCPReponse` |
| CleanList, Clean | `outdated()`, the rest of `LeaseStore.Clean` |
| TimerExpires, WebTimeout, SendOk, SendFail, Jam, ServerAnswer | timers, connection, DHCP server |

* A step ends where a goroutine may be interrupted: at a lock, a channel
  operation or a call of the store.
* Answers stay in `net` for ever, so each may be received never, late, twice or
  in any order, as with UDP.
* An xid is named by the attempt that drew it: collisions of random numbers are
  not considered.  `GetLease` sends its requests with the xid of the offer, as
  in the code.
* `RLocked`, `CanRead` and `CanWrite` model the RWMutex: `Get` waits for the
  lease's mutex with the store locked for reading, and a waiting writer keeps
  new readers out.  Writers are the request and exchange goroutines at `Set` and
  `Remove`, and the cleaner once it has its list.
* `ReceiverStuck`: the receiver waits, with the store read-locked, for a lease whose
  request waits itself: to remove an entry, to read the store behind a waiting
  writer (`Renew` with locks of earlier rounds), or in `sleep()` for the connection.
* A panic in any goroutine ends the process (`panic`); the points where the
  code can panic are steps of the model.
* `Block` is seen as a delay of sends of any length.  That it may never return is
  `jam`: a send whose caller has left gets stuck with outmux (`Jam`; Connection shows
  how), from then on no packet leaves, and a request that comes to `sleep()` stays
  there, its expired context notwithstanding (`dhcp/client.go:517`).  A send error nobody listens to changes nothing
  and is left out; one the request gets comes without a packet, and logging its
  fields panics (`dhcp/client.go:241`).
* Bounds: `MaxTries`, `MaxDiscovers`.  With the default values (30s web timeout,
  5s DHCP timeout, 15s retry) a loop makes at most two rounds and a lease at most three
  attempts.  An attempt beyond the bound would start under an expired context
  (`GiveUp`).
* `ShortTTL = FALSE` says that the ttl of 60s exceeds the web timeout, so that
  an entry gets outdated only after its request.  With a longer web timeout
  `Clean` writes to `Done` while a request waits, and the request takes that for
  an answer.

### Requests: what the DHCP client promises a handler

A request arrives, the DHCP server says things about it, its context expires,
the packet of a release is transmitted or fails, and the handler answers
(`Statuses`): 200 after an ACK (a sent packet), 406 after a NAK, 408 or 400
after the context expired or a send failed.  There are no attempts, no store and no
locks.  `ImplementsRequests` maps `pc` to idle, busy and done, and the packets of
`net` to what the server said of the owner's xids.

### Connection: Send and Block

Per send the state of caller, writer and watcher, the two channels of capacity
one, `done`; for the connection `outmux`, the write deadline, what was written
(`wire`) and the port counter.  The variable `kind`, chosen from `Kinds` as
`GetConnection` does at the start, selects the implementation: `udp`
locks first and builds the packet then, `raw` (also dual with the fixed port)
builds first, `fritzbox` also asks `GetPort`, whose test, reset, increment (a read
and a write) and final read of the counter are steps of their own with anything in
between.  A write that ran into the deadline is told apart from one that failed by
itself (`aborted`).  `Select` is the caller's select in
`discover()`, `request()` and `Release`.  The write and `close(done)` that
follows it are one step.

### Transmission: what Send and Block promise the client

A packet is transmitted at most once and never while traffic is blocked; the
caller is told "ok" only of a transmitted packet, and "error" only if
it never will be transmitted or the caller's context has ended.  Connection
implements it on all three kinds.

### Service: start, receive loop, shutdown

The command, the goroutines of `Start`, the background process, and the
rounds of the receive loop with reader and watcher of `Receive`.  A request is
followed only as far as the lifecycle concerns it; DHCPClient has the rest,
also the panics of a client that runs.  When the client's context is cancelled
a new round may wait for the reader of an old one; `LeaveLoop` stands for such
rounds, as their select finds the context done.  Watchers of earlier rounds
have no effect and are dropped.  `ServerDone` stands for the two ends of
`Shutdown`: all handlers are done, or its ten seconds are over.  A packet the receive
loop has taken is processed (`ProcessPacket`), or its `store.Get` never returns
(`GetSticks`), which is DHCPClient's ReceiverStuck seen from here: the request
the packet answers waits itself, gets no answer, and the loop never looks at its context
again.  `CloseConn` closes the connection; that `Close` may return an error, which
`Run` logs, makes no difference to the lifecycle and is left out.  Not modelled: a
second SIGINT, which kills the process.

### LeaseStore and LeaseMap: the store by itself

LeaseStore has every method at the level of its locks, a clock, and users that
call in any order.  `rw` is the writer that holds the store's mutex or waits
for its readers to go, `mux` the leases' mutexes, `chan` the `Done` channels of capacity
one.  `Get` takes two steps: it finds the entry under the read lock and keeps that
lock while it waits for the lease (`GetLookup`, `GetLock`).  `Clean` lists outdated
entries under the read lock, then takes the write lock, then goes through the
list key by key (`CleanList`, `CleanAnnounce`, `CleanKey`, `CleanEnd`), so that
entries may be touched, replaced or removed in between; its send on `Done`
waits if the channel is full and panics if it is closed.  Users keep to
one rule the callers in `dhcp/client.go` keep: a lease object is stored once.  They may
call the store with leases locked, as `error()` and `Renew` do, and unlock all
of them later (`Unlock`, the deferred cancel functions), if their calls return.
`CallsOf` says who calls what.  `WaitsFor` is the relation of waiting in the two
kinds of mutex; a `LockCycle` is a set of callers (the cleaner included)
that wait for each other.  `HasStatus` compares the status of the stored packet; since
`CloseDone` is one step for setting the type and closing `Done`, a lease that is
locked may already have the new type.

LeaseMap is the same store without locks: each call takes effect in one step.
What the stale list of `Clean` does is part of the promise and visible there: a key that was
seen outdated (`Condemn`) is evicted later, with whatever lease is under it by
then (`Evict`), touched or replaced as it may be.

### Relay: addresses

`GetIPResolver`, `GetServerIP`, `GetLocalIP`, `GetRelayIP` are the start, in that
order, with the routing table changing in between; `Ask`, `Compare` and `Store`
are `GetRelayIP` of the Kubernetes resolver during the requests: the call of
`GetService`, the comparison with the address found last, and the assignment,
each with other requests in between.  `RoutesIn` is the choice of a route by
prefix and priority, `RouteTo` that choice in the present table; `tables` remembers
the tables there have been, for the properties only.  `To4` models how the comparison treats an IPv6 address
(as `<nil>`), and `ExternalIP` which of a service's addresses counts.

### Rest: calls from end to end

The checks of `client.Client`, its HTTP call and decoding; content negotiation,
the query and the handlers; the lease times.  The IP of a query is IPv4, IPv6, one
`NewQuery` cannot parse (400), or, through `client.Client` only, a `net.IP` of an
impossible length (`odd`).  `Release` puts the latter into its URL as `?...`, so that
the path ends before the IP, the router answers 405 without a body, and
`call` panics on the last byte of that body (`client/client.go:209`).  The connection may break, the caller
give up and the process die at any time; the handler of a caller that
gave up goes on, as its context is not the request's.  What the DHCP client does in
between is `Meanwhile`, the steps of Requests.  `RebindTime` has the arithmetic of the
code: the unsigned multiplication by 7 comes first and wraps at `Modulus`
(2^32).

The faulty definitions (`...Lax`, `...Early`, `...KeepsLock` and the like) next to
some definitions are plausible bugs; `PROJECT.json` ("mutants") says which
property of which run each of them breaks.

## The runs

Deadlock is not checked: requests are finite in number, and the process may end.

| run | instance | shows |
|---|---|---|
| `client_lease` | one lease, 2 attempts, NAKs, failing and stuck sends, fairness; 121k states | TypeOK, the inductive invariant IInv, SingleClose, PanicNeedsAbandonment, HangOnlyWhenStuck, ImplementsRequests |
| `client_renew` | one renewal, 2 attempts, stuck sends, fairness; 52k | AckedLease, HangOnlyWhenStuck with the locks `Renew` keeps over its retries, StoreDrains |
| `client_release` | a release and a renewal with NAKs, failing and stuck sends, fairness; 25k | LeaseFrozen, HangOnlyWhenStuck, ImplementsRequests with two kinds of request that share store and receiver |
| `conn_send` | two sends and a block on each kind of connection, failures, fairness; 627k | TypeOK, ConnInv, ResultHonest, StuckNeedsTimeout, OneAbortPerCancel, BlockedTraffic, ImplementsTransmission, BlockReturnsUnlessStuck |
| `svc_lifecycle` | two requests, failing init, listener and reads, a receiver that may get stuck, fairness; 18k | TypeOK, NoPacketLost, CleanExit, DiesWithoutClient, InterruptStops |
| `store_locks` | a user of every method that may hold leases, the receiver, two leases under one xid, the cleaner, fairness; 113k | TypeOK, StoreInv, CleanNeverWaits, ImplementsLeaseMap, CallsReturn, OutdatedGoes |
| `relay` | every kind of configuration, three lookups, two changes of table or service; 2.5M | TypeOK, RelayInv, AddressesAsConfigured, RelayPublished, FallbackNotOutdated |
| `rest` | two of three calls, fifteen queries, seven ACKs; 1.2M | TypeOK, CallerToldTruth, OnlySoundCalls, TimesInOrder |

In words: what a handler answers is what Requests promises, so only an ACK (a
NAK) of the same request gives a 200 (406); `Done` is closed once; a lease in a
handler's hands does not change; the process dies only after an attempt
failed or was abandoned; a request ends unless the process dies, the receiver is stuck
with the store's lock, or the request sleeps behind a send stuck with the connection; the
store empties again unless the receiver is stuck.  `Send` tells the
truth, nothing leaves during `Block`, a context that ends aborts one write at most
(its own or another's), the port counter passes its limit by no more than one per send, and
`Block` returns unless a send holds outmux with an error nobody
takes.  The receive loop loses nothing, and SIGINT ends the program unless the receiver is
stuck.  The store is a map, its calls return and outdated entries go unless calls wait for
each other, which takes a caller that holds a lease; the cleaner never waits for a
full channel.  The client starts with the addresses it is configured for or the documented
defaults, a packet carries a relay address the service has had, and a failed lookup falls
back to one that is outdated only if lookups raced or the comparison by `To4()` has kept an
IPv6 address.  A caller of the REST interface is told the truth, and what it cannot read it
never gets.

Four runs show that the code does not do what it or its documentation says:

| run | property | what happens |
|---|---|---|
| `client_clean_panics` | CleanSurvives | a late answer closes `Done`, then `Clean` sends on the closed channel: panic (`dhcp/store.go:195`) |
| `client_lock_order` | Answered | `error()` removes from the store with a lease locked, the receiver locks the lease with the store locked: deadlock (`dhcp/client.go:207`) |
| `conn_block_hangs` | BlockReturns | caller gone, both goroutines of `Send` have an error for a channel of capacity one: the writer waits with outmux locked, and every later send and `sleep()` hangs (`dhcp/udp.go:119`) |
| `relay_fallback` | ServerAsConfigured | Kubernetes fails at the start: the static resolver that stands in gets the relay address as that of the server (`service/server.go:459`; `README.md:47` says what the option means) |

`conn_block_hangs` and `client_lock_order` show how a request comes to hang;
HangOnlyWhenStuck, InterruptStops, CallsReturn and OutdatedGoes name exactly these ends as
their exceptions, and show that there are no others.

Three more things met on the way have no run of their own.  `api/swagger.yaml` (111-116,
151-156) describes the IP of a renewal and of a release as ipv4; `NewQuery` and
`client.Client`'s `Release` let IPv6 addresses through, and so does OnlySoundCalls, except in
a renewal through `client.Client`, which checks.  `api/swagger.yaml:157-161` lists 200 and 400
for a release, which can also be answered with 415.  And `client.Client` panics on an error
answer without a body; CallerToldTruth says when the service causes that.

### Bounds

The instances are small, but the cases of interest need few actors.

* `MaxTries`, `MaxDiscovers`: two attempts have everything about late answers,
  reused xids and locks kept over a retry; a release and a renewal have the mix-ups.
* `SendsStick` lets a send get stuck.  It is off in `client_lock_order` and
  `client_clean_panics`, whose counterexamples do not need it.
* Two sends and a block have the shared deadline and the full channel.
  `MaxPort = 1` and `StartPort = 1` put the counter at its limit: one send increments it,
  one that tests before that increments it again (beyond the limit), one that tests after
  it starts again at 1.
* `LocksStick` lets the receiver of Service get stuck.
* Two users, two leases and one xid have entries replaced while a `Get` waits and
  while `Clean` has its list.  The second user calls `Get` alone, as the receiver does
  (`MCCallsOf`): with a first one that holds a lease this has the lock cycle.  `TTL = 0` and `MaxTime = 1` let an entry get outdated
  and be touched or replaced afterwards.
* Three lookups and `MaxChanges = 2`: one that finds an old address, one that
  finds a new one, and one that fails.
* `MaxCalls = 2`: calls meet only in the DHCP client.  `Modulus = 64` keeps the arithmetic
  of the code at six bits: 9 seconds are the longest lease whose rebind
  time does not wrap, 10 wrap, 63 stand for an infinite lease; the proofs are for any
  word size.

### Fairness

* The scheduler runs every runnable goroutine: weak fairness of the receiver (once
  it has a packet), of writer and caller of a send, of `processDHCPReponse` in Service,
  which returns or gets stuck.
* Timers and deadlines fire: weak fairness of TimerExpires, WebTimeout and the contexts of
  blocks; a write ends within its deadline of ten seconds.
* `sync.Mutex` and `sync.RWMutex` starve nobody: strong fairness of the request and
  exchange goroutines of DHCPClient, of BlockLock, and of the methods and `Clean` in
  LeaseStore.  There the cleaner's timer fires, and a user that can unlock again
  and again (none of its calls is under way) does so some time: strong fairness of Unlock, which
  says nothing of a user whose call never returns.
* `FairSpec` of Connection has only what BlockReturnsUnlessStuck needs; `FullFairSpec`, which
  `conn_block_hangs` uses, adds the watchers, the contexts of sends and the mutex for sends, to
  show that nothing that is scheduled helps.
* `sleep()` is a step of its request goroutine, possible only while the connection is not
  jammed: no fairness makes `Block` return.
* Every entry outlives its ttl and the cleaner comes round again: strong fairness of listing
  each entry and of the rest of `Clean`, a waiting writer of the store's mutex.
* A select that finds its context done again and again takes that case some
  time (Go chooses at random): strong fairness of SelectCtx and LeaveLoop in Service.
* The client's init, which asks the network, comes to an end.
* Nothing is assumed of requests, sends, the DHCP server and the network: packets
  need not be sent, answered or received.

## The proofs

`DHCPClient_proofs`, for any set of requests and any bounds:

* `TypeCorrect`; TypeOK needs CurrentInv (a waiting request has an attempt, one
  that goes on has a lease) to be inductive.
* `Inductive`: IInv under `~ShortTTL`.  Its parts follow a lease through its life.
  FreshInv: nobody knows a lease before its exchange has stored it.  XidInv: an
  xid stays within its request, and only the request loop of `GetLease` reuses one.
  DoneInv: a lease has the type of an answer only if the server sent that answer, and
  `Done` is closed then.  SignalInv and CleanInv: what wakes an exchange is an answer and not
  `Clean`, because what the cleaner lists or signals belongs to a request that will not
  look into the store again (`Gone`: answered, or out of time behind a jammed connection).
  PacketInv: no ACK or NAK meets a discover in the store.  PhaseInv and HandInv: which
  loop a request is in and which lease it has in hand there.
* `OnlyAckedLeases`, `OnlyRealNaks`, `ClosedOnce`, `HandedOverLeases`, `FrozenLeases`
  follow from it.

`Requests_proofs`, with the same parameters and `~ShortTTL`:

* LeftInv (an attempt its request has left gave nothing, goes on, or has its lease
  out of the store), TimeoutInv (only the web timeout leaves a handler without a
  lease; a release sends one packet and never waits for an answer) and UnsentInv
  (a release that has not begun has sent nothing), inductive together with IInv;
* `PanicsNeedAbandonment`; it needs LeftInv because the panic of `Clean` and
  that of a late answer are caused by attempts nobody waits for;
* `Implements`: DHCPClient implements Requests.  Most steps are stutters
  (`BusyStep`, `SilentStep`); the heart is that what a handler answers
  was said of its own request (`AnswerSaid`).

`Connection_proofs`, for any number of sends and blocks, any kinds and any `MaxPort`:

* `TypeCorrect`; the range of the port counter comes from PortInv of the next theorem: the counter,
  and what a send is about to increment, exceed `MaxPort` by at most the number of sends
  that have written it (`Counted`);
* `Inductive`: ConnInv.  MutexInv (who holds outmux), SendInv (what writer, watcher
  and caller know of each other), PortInv, and two counts.  DeadlineInv: aborted writes, with the one
  that is about to be aborted, are no more than the sends whose watcher moved the deadline.
  ErrorInv: every error put into chan2 is there or was taken by the
  caller.  The count is what `StuckOnlyAfterTimeout` needs;
* `TrafficBlocked`, `HonestResults`, `StuckOnlyAfterTimeout`, `AbortsLimited` (OneAbortPerCancel);
* `Implements`: Connection implements Transmission;
* `BlocksReturn`: Block returns unless a send is stuck with outmux.  Who holds outmux is a
  send between lock and unlock or a block whose context runs (MutexInv); each gives it
  back (`SendReleases`, `BlockReleases`), so that it is free again and again.

`LeaseStore_proofs`, for any users, leases, xids, ttl and clock:

* `TypeCorrect`; `Inductive`: StoreInv.  LockInv (who may hold the mutex), PendingInv
  (a lease on its way into the store is nobody else's), GetInv (the entry a
  `Get` waits with stays) and StoredInv (a stored lease was never signalled by `Clean`);
* `CleanDoesNotWait` from StoredInv, although the sends of `Clean` are unguarded;
* `Implements`: LeaseStore implements LeaseMap; GetInv is what makes the moment
  `Get` has the lease's mutex the moment it takes effect;
* `NoDeadlock`: while a call is under way or the cleaner has the store, somebody can move, or
  there is a LockCycle;
* `CyclesKeepLeases`: a LockCycle has a caller in it that entered the store with a lease
  locked which a `Get` waits for (LeaseKept).  So the deadlock of `client_lock_order` is the only
  kind the store can have.

`Relay_proofs`, for any addresses, tables, services and number of lookups:

* `TypeCorrect`; `Inductive`: RelayInv.  StartInv (what each stage of the start
  has fixed), LookupInv (what a lookup knows) and CacheInv: the address found
  last is as new as every finished lookup, up to races;
* `Addresses`, `Published`, `Fallback`.  The defaults come from a table the start has met:
  `tables` only grows, and what a route once gave stays true of it (`DefaultsStay`).

`Rest_proofs`, for any calls, queries, ACK options and any word size:

* `TypeCorrect`; `Inductive`: RestInv.  ServerInv ties the server's stage to the
  state of the DHCP client, ReplyTrue says what a reply may claim, CallerInv
  that a result is a reply or an error.  That only the `odd` IP is answered without a body
  is part of it;
* `ToldTruth`, `SoundCalls`, `TimesOrdered` (this one rests on arithmetic with
  division and remainder);
* `UsesRequests`: Rest makes no step with the DHCP client that Requests does not have, so
  that DHCPClient, which implements Requests, may stand in its place.

`Service_proofs`, for any number of requests:

* `TypeCorrect`; `Inductive`: ServiceInv.  LifeInv orders start and shutdown,
  RoundInv says that before Stop a round has one reader and one result,
  PacketInv that packets answer requests that were sent;
* `ExitIsClean`, `RoundsDoNotOverlap`, `PacketsArrive`, `DiesOnlyWithoutClient`;
* `InterruptEnds`: SIGINT ends the program unless the receiver is stuck (a stuck receiver stays
  stuck, with its request unanswered).  OrderInv says how far server, process and
  receive loop have come for each other, so that every stage of the shutdown leads to
  the next.

`Progress_proofs`, for any number of requests and `~ShortTTL`:

* `LocksHeld`: HeldInv and RoundsInv, inductive together with the invariants above.
  HeldInv says who holds a lease's mutex: a request at work, never one that is over; in
  `GetLease` only one about to remove the lease from the store; in `Renew`, which keeps
  its locks, never the lease of the current round.  So what the receiver waits
  for is given back, or the receiver is stuck (`Unblocked`), and then it stays so;
* `RequestsAnswered` (HangOnlyWhenStuck), for up to three attempts per request:
  a round of a loop leads to the next or to the answer (`RoundEnds`), the last one
  to the answer once the web timeout has expired, and only a jammed connection keeps a request
  in `sleep()`;
* `StoreGetsEmpty` (StoreDrains), likewise: once a request is answered, or is out of time behind a
  jammed connection (`JammedGone`), each of its exchanges comes to an end (`ExchangesEnd`), no
  attempt is made any more, what it left in the store is outdated then, gets on the
  cleaner's list and goes (`CleanerFree`, `ListedLeaves`, `EntryLeaves`).

How progress is proved.  The theorems read `FairSpec /\ []Guards => ...`.  `Guards` says of
every action with fairness under which condition it is ENABLED, which TLAPS does not
evaluate.  It involves no more than the conjuncts of the actions, and TLC finds it true in
every state of the runs' instances: add `INVARIANT Guards` to `client_lease.cfg`,
`client_renew.cfg`, `client_release.cfg`, `conn_send.cfg` or `svc_lifecycle.cfg`.  Each stage of an argument is then three facts about single steps (no
other step leaves the stage but to the next one, the fair step does leave it, the fair
step is possible) and a temporal step that combines them.

`OnlyRealNaks`, `HandedOverLeases`, `RoundsDoNotOverlap`, `LocksHeld`, `NoDeadlock`,
`CyclesKeepLeases`,
`UsesRequests` and the `Inductive` theorems of Service and Rest state properties no run repeats.

Assumptions are those on the constants (named ASSUMEs of the modules, evaluated by TLC
in every run), for the client `~ShortTTL`, and for progress `Guards` and the fairness above.

Only model-checked: `Guards`, with such a cfg; CallsReturn and OutdatedGoes, which need
that a finite number of readers (of listed entries) is gone some time, an induction over
sets.  The prover has no induction over data in temporal formulas; for the same reason
HangOnlyWhenStuck and StoreDrains are proved for up to three attempts per request and
say nothing of more.  That
DHCPClient uses of the store what LeaseStore models, and of the connection what
Transmission promises, is read off the code, not proved.  Definitions by recursion and
induction over data are out of the prover's reach too; the modules have none.

## Not modelled

* Packet bytes and the options of a packet other than type and lease times;
  parsing and encoding beyond what a query, a media type or an error status
  tells apart, hostnames with `?` or `#` in them included; the MAC derived from a hostname.
* Flags, config file and environment; logging and metrics; the version command;
  generated mocks and embedded files.
* `PatchService` and `WatchService` of the Kubernetes client, which nothing in the
  service calls, and the API server itself.
* How the kernel's routing table is read; routes by source address or input
  interface, which the service never asks for.
* The Swagger UI under `doc/`: five bundles of minified third-party JavaScript the server
  hands out as files, the only JavaScript in the repository.  They are not part
  of the program and keep no state of it.
* Two racing `GetPort` calls may use one port (Connection has it, no property forbids it): it
  only costs a retry.  When the service stops,
  requests that still wait lose their answers: the client is stopped before the
  listener, and `Shutdown` waits ten seconds (Service has these behaviours, no
  property forbids them).
* Four hazards are left without a property.  Two are leaked goroutines that hold no lock and
  change no result: the watcher a failed raw read leaves behind (`dhcp/raw.go:183`) and the
  exchange that stays blocked on its result channel after its waiter took the timeout
  (`dhcp/client.go:398`).  Two are what the code does and no document forbids: an IPv6 address
  that stays the cached one (`dhcp/resolver.go:185`), which FallbackNotOutdated exempts, and
  routes of equal metric, any of which may decide (`routing/routing_linux.go:137`).

## Plan

Done: DHCPClient, Connection, Service, LeaseStore with LeaseMap, Requests and
Transmission with their refinements, Relay, Rest, the proofs of all of
their safety properties and of most of progress.  Left, most useful first:

1. Compose DHCPClient with Transmission in place of its SendOk, SendFail and Jam, so that
   delays and stuck sends come from the connection.
2. Join Service and Requests: what becomes of requests in flight when the client
   stops before the listener.
3. Prove that the methods DHCPClient inlines are those of LeaseMap, with a mapping
   from attempts to leases.
