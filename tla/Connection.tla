----------------------------- MODULE Connection -----------------------------
(***************************************************************************)
(* The outgoing side of a DHCP connection: Send and Block of dhcp/udp.go,  *)
(* dhcp/dual.go and dhcp/raw.go, which differ only in what is done before  *)
(* the lock is taken, and the selects of dhcp/client.go over their         *)
(* results.                                                                *)
(*                                                                         *)
(* Send starts two goroutines.  The writer takes outmux, sets the write    *)
(* deadline, writes and reports on one of two channels of capacity one.    *)
(* The watcher waits for the end of the write (channel done) or of the     *)
(* caller's context; then it moves the deadline, which all sends share, to *)
(* now and reports the context's error.  Block takes outmux and keeps it   *)
(* until its context ends.                                                 *)
(*                                                                         *)
(* GetPortResetToZero, BuildGoesOn, SetWriteDeadlineGoesOn,                *)
(* SetWriteDeadlineOnce, WriteAlwaysOk, PutKeepsLock and BlockEndEarly are *)
(* faulty versions of the definitions they precede; the specification does *)
(* not use them.                                                           *)
(***************************************************************************)
EXTENDS Naturals, FiniteSets

CONSTANTS
    Sends,      \* calls of Connection.Send
    Blocks,     \* calls of Connection.Block, made by sleep()
    Kinds,      \* of "udp", "raw" (raw or dual with a fixed port), "fritzbox"
    MaxPort,    \* the last counter value that is still incremented (60000)
    StartPort,  \* the counter when the sends begin, as earlier sends have left it
    WriteFails, \* may building, SetWriteDeadline or the write itself fail?
    Nobody      \* outmux is unlocked

ASSUME CallsAssumption == Sends \cap Blocks = {} /\ Nobody \notin Sends \cup Blocks
ASSUME SendsAssumption == IsFiniteSet(Sends)
ASSUME KindsAssumption == Kinds \subseteq {"udp", "raw", "fritzbox"}
ASSUME MaxPortAssumption == MaxPort \in Nat /\ StartPort \in 0..MaxPort
ASSUME WriteFailsAssumption == WriteFails \in BOOLEAN

VARIABLES
    kind,       \* the connection the resolver has chosen
    ctx,        \* contexts that have ended
    caller,     \* per send: idle, select, and what select chose: ok, error, ctx
    watcher,    \* per send: none, select, put, sent, end
    writer,     \* per send: none, port, reset, inc, add, ret, build, lock, deadline,
                \* write, put, end
    result,     \* per send: what the writer has to report: none, ok, failed, or
                \* aborted (a write that ran into the deadline)
    done,       \* sends whose channel done is closed
    chan1,      \* number of results in the buffer of chan1
    chan2,      \* number of errors in the buffer of chan2
    block,      \* per block: idle, lock, held, end
    outmux,     \* who holds the mutex
    deadline,   \* the connection's write deadline: future or past
    wire,       \* sends whose packet has been written
    cnt,        \* DualConn.cnt
    port        \* per send: the cnt it increments, then the source port, until the
                \* packet is built

vars == <<kind, ctx, caller, watcher, writer, result, done, chan1, chan2, block,
          outmux, deadline, wire, cnt, port>>

\* The counter of a new connection is 0.  (One beyond MaxPort does not differ
\* from it: GetPort starts again at 1.)
Init ==
    /\ kind     \in Kinds
    /\ ctx      = {}
    /\ caller   = [s \in Sends |-> "idle"]
    /\ watcher  = [s \in Sends |-> "none"]
    /\ writer   = [s \in Sends |-> "none"]
    /\ result   = [s \in Sends |-> "none"]
    /\ done     = {}
    /\ chan1    = [s \in Sends |-> 0]
    /\ chan2    = [s \in Sends |-> 0]
    /\ block    = [b \in Blocks |-> "idle"]
    /\ outmux   = Nobody
    /\ deadline = "future"
    /\ wire     = {}
    /\ cnt      = StartPort
    /\ port     = [s \in Sends |-> 0]

-----------------------------------------------------------------------------
(* Send                                                                    *)

\* UDPConn locks at once; the others build the packet first, and a fritzbox
\* connection asks for a port before that.
FirstStep == CASE kind = "udp" -> "lock" [] kind = "raw" -> "build" [] OTHER -> "port"

Send(s) ==
    /\ caller[s] = "idle"
    /\ caller'  = [caller EXCEPT ![s] = "select"]
    /\ watcher' = [watcher EXCEPT ![s] = "select"]
    /\ writer'  = [writer EXCEPT ![s] = FirstStep]
    /\ UNCHANGED <<kind, ctx, result, done, chan1, chan2, block, outmux, deadline, wire, cnt, port>>

\* GetPort works on cnt without a lock: other writers may run between each of
\* its accesses.  The test comes first.  (Its two reads are one here: cnt is
\* never 0 again after the first write, so the read that decides stands for
\* both.)
GetPortTest(s) ==
    /\ writer[s] = "port"
    /\ writer' = [writer EXCEPT ![s] = IF cnt < 1 \/ cnt > MaxPort THEN "reset" ELSE "inc"]
    /\ UNCHANGED <<kind, ctx, caller, watcher, result, done, chan1, chan2, block, outmux, deadline, wire, cnt, port>>

GetPortResetToZero(s) ==
    /\ writer[s] = "reset"
    /\ cnt'    = 0
    /\ writer' = [writer EXCEPT ![s] = "ret"]
    /\ UNCHANGED <<kind, ctx, caller, watcher, result, done, chan1, chan2, block, outmux, deadline, wire, port>>

GetPortReset(s) ==
    /\ writer[s] = "reset"
    /\ cnt'    = 1
    /\ writer' = [writer EXCEPT ![s] = "ret"]
    /\ UNCHANGED <<kind, ctx, caller, watcher, result, done, chan1, chan2, block, outmux, deadline, wire, port>>

\* c.cnt++ reads the counter again, which may be beyond MaxPort by now ...
GetPortInc(s) ==
    /\ writer[s] = "inc"
    /\ port'   = [port EXCEPT ![s] = cnt]
    /\ writer' = [writer EXCEPT ![s] = "add"]
    /\ UNCHANGED <<kind, ctx, caller, watcher, result, done, chan1, chan2, block, outmux, deadline, wire, cnt>>

\* ... and writes it, whatever others have written in between.
GetPortAdd(s) ==
    /\ writer[s] = "add"
    /\ cnt'    = port[s] + 1
    /\ writer' = [writer EXCEPT ![s] = "ret"]
    /\ UNCHANGED <<kind, ctx, caller, watcher, result, done, chan1, chan2, block, outmux, deadline, wire, port>>

\* The port is what cnt is at the return.
GetPortReturn(s) ==
    /\ writer[s] = "ret"
    /\ port'   = [port EXCEPT ![s] = cnt]
    /\ writer' = [writer EXCEPT ![s] = "build"]
    /\ UNCHANGED <<kind, ctx, caller, watcher, result, done, chan1, chan2, block, outmux, deadline, wire, cnt>>

GetPort(s) ==
    \/ GetPortTest(s) \/ GetPortReset(s) \/ GetPortInc(s) \/ GetPortAdd(s)
    \/ GetPortReturn(s)

\* The writer gives up before the write, which leaves done open.
Fail(s) ==
    /\ WriteFails
    /\ result' = [result EXCEPT ![s] = "failed"]
    /\ writer' = [writer EXCEPT ![s] = "put"]

BuildGoesOn(s) ==
    /\ writer[s] = "build"
    /\ writer' = [writer EXCEPT ![s] = "lock"]
    /\ chan2' \in {chan2, [chan2 EXCEPT ![s] = 1]}
    /\ UNCHANGED <<kind, ctx, caller, watcher, result, done, chan1, block, outmux, deadline, wire, cnt, port>>

Build(s) ==
    /\ writer[s] = "build"
    /\ \/ Fail(s)
       \/ writer' = [writer EXCEPT ![s] = "lock"] /\ result' = result
    /\ port' = [port EXCEPT ![s] = 0]
    /\ UNCHANGED <<kind, ctx, caller, watcher, done, chan1, chan2, block, outmux, deadline, wire, cnt>>

Lock(s) ==
    /\ writer[s] = "lock"
    /\ outmux = Nobody
    /\ outmux' = s
    /\ writer' = [writer EXCEPT ![s] = "deadline"]
    /\ UNCHANGED <<kind, ctx, caller, watcher, result, done, chan1, chan2, block, deadline, wire, cnt, port>>

SetWriteDeadlineGoesOn(s) ==
    /\ writer[s] = "deadline"
    /\ deadline' = "future"
    /\ writer'   = [writer EXCEPT ![s] = "write"]
    /\ chan2' \in {chan2, [chan2 EXCEPT ![s] = 1]}
    /\ UNCHANGED <<kind, ctx, caller, watcher, result, done, chan1, block, outmux, wire, cnt, port>>

SetWriteDeadlineOnce(s) ==
    /\ writer[s] = "deadline"
    /\ writer' = [writer EXCEPT ![s] = "write"]
    /\ UNCHANGED <<kind, ctx, caller, watcher, result, done, chan1, chan2, block, outmux, deadline, wire, cnt, port>>

\* SetWriteDeadline in ten seconds; UDPConn builds its packet after that.
SetWriteDeadline(s) ==
    /\ writer[s] = "deadline"
    /\ \/ Fail(s) /\ deadline' = deadline
       \/ kind = "udp" /\ Fail(s) /\ deadline' = "future"
       \/ /\ deadline' = "future"
          /\ writer'   = [writer EXCEPT ![s] = "write"]
          /\ result'   = result
    /\ UNCHANGED <<kind, ctx, caller, watcher, done, chan1, chan2, block, outmux, wire, cnt, port>>

WriteAlwaysOk(s) ==
    /\ writer[s] = "write"
    /\ \/ deadline = "future" /\ wire' = wire \cup {s}
       \/ (deadline = "past" \/ WriteFails) /\ wire' = wire
    /\ result' = [result EXCEPT ![s] = "ok"]
    /\ done'   = done \cup {s}
    /\ writer' = [writer EXCEPT ![s] = "put"]
    /\ UNCHANGED <<kind, ctx, caller, watcher, chan1, chan2, block, outmux, deadline, cnt, port>>

\* The write, and close(done).  A deadline in the past makes it fail.
Write(s) ==
    /\ writer[s] = "write"
    /\ \/ /\ deadline = "future"
          /\ wire'   = wire \cup {s}
          /\ result' = [result EXCEPT ![s] = "ok"]
       \/ /\ deadline = "past"
          /\ wire'   = wire
          /\ result' = [result EXCEPT ![s] = "aborted"]
       \/ /\ deadline = "future" /\ WriteFails
          /\ wire'   = wire
          /\ result' = [result EXCEPT ![s] = "failed"]
    /\ done'   = done \cup {s}
    /\ writer' = [writer EXCEPT ![s] = "put"]
    /\ UNCHANGED <<kind, ctx, caller, watcher, chan1, chan2, block, outmux, deadline, cnt, port>>

\* What goes to chan2.
Errors == {"failed", "aborted"}

PutKeepsLock(s) ==
    /\ writer[s] = "put"
    /\ \/ /\ result[s] = "ok" /\ chan1' = [chan1 EXCEPT ![s] = 1] /\ chan2' = chan2
          /\ outmux' = IF outmux = s THEN Nobody ELSE outmux
       \/ /\ result[s] \in Errors /\ chan2[s] = 0
          /\ chan2' = [chan2 EXCEPT ![s] = 1] /\ chan1' = chan1 /\ outmux' = outmux
    /\ writer' = [writer EXCEPT ![s] = "end"]
    /\ UNCHANGED <<kind, ctx, caller, watcher, result, done, block, deadline, wire, cnt, port>>

\* chan1 <- i or chan2 <- err, and the deferred unlock.  The goroutine waits,
\* with outmux locked, while the buffer of chan2 is full.
Put(s) ==
    /\ writer[s] = "put"
    /\ \/ result[s] = "ok" /\ chan1' = [chan1 EXCEPT ![s] = 1] /\ chan2' = chan2
       \/ /\ result[s] \in Errors /\ chan2[s] = 0
          /\ chan2' = [chan2 EXCEPT ![s] = 1] /\ chan1' = chan1
    /\ writer' = [writer EXCEPT ![s] = "end"]
    /\ outmux' = IF outmux = s THEN Nobody ELSE outmux
    /\ UNCHANGED <<kind, ctx, caller, watcher, result, done, block, deadline, wire, cnt, port>>

\* The watcher's select: the write is over ...
WatcherDone(s) ==
    /\ watcher[s] = "select"
    /\ s \in done
    /\ watcher' = [watcher EXCEPT ![s] = "end"]
    /\ UNCHANGED <<kind, ctx, caller, writer, result, done, chan1, chan2, block, outmux, deadline, wire, cnt, port>>

\* ... or the context is: it moves the deadline whoever is writing.
WatcherCtx(s) ==
    /\ watcher[s] = "select"
    /\ s \in ctx
    /\ deadline' = "past"
    /\ watcher'  = [watcher EXCEPT ![s] = "put"]
    /\ UNCHANGED <<kind, ctx, caller, writer, result, done, chan1, chan2, block, outmux, wire, cnt, port>>

WatcherPut(s) ==
    /\ watcher[s] = "put"
    /\ chan2[s] = 0
    /\ chan2'   = [chan2 EXCEPT ![s] = 1]
    /\ watcher' = [watcher EXCEPT ![s] = "sent"]
    /\ UNCHANGED <<kind, ctx, caller, writer, result, done, chan1, block, outmux, deadline, wire, cnt, port>>

\* The select of discover(), request() and Release.
Select(s) ==
    /\ caller[s] = "select"
    /\ \/ /\ chan1[s] = 1
          /\ chan1'  = [chan1 EXCEPT ![s] = 0]
          /\ caller' = [caller EXCEPT ![s] = "ok"]
          /\ chan2'  = chan2
       \/ /\ chan2[s] = 1
          /\ chan2'  = [chan2 EXCEPT ![s] = 0]
          /\ caller' = [caller EXCEPT ![s] = "error"]
          /\ chan1'  = chan1
       \/ /\ s \in ctx
          /\ caller' = [caller EXCEPT ![s] = "ctx"]
          /\ UNCHANGED <<chan1, chan2>>
    /\ UNCHANGED <<kind, ctx, watcher, writer, result, done, block, outmux, deadline, wire, cnt, port>>

-----------------------------------------------------------------------------
(* Block                                                                   *)

Block(b) ==
    /\ block[b] = "idle"
    /\ block' = [block EXCEPT ![b] = "lock"]
    /\ UNCHANGED <<kind, ctx, caller, watcher, writer, result, done, chan1, chan2, outmux, deadline, wire, cnt, port>>

\* Block returns; its context plays no part before that.
BlockLock(b) ==
    /\ block[b] = "lock"
    /\ outmux = Nobody
    /\ outmux' = b
    /\ block'  = [block EXCEPT ![b] = "held"]
    /\ UNCHANGED <<kind, ctx, caller, watcher, writer, result, done, chan1, chan2, deadline, wire, cnt, port>>

BlockEndEarly(b) ==
    /\ block[b] = "held"
    /\ outmux' = Nobody
    /\ block'  = [block EXCEPT ![b] = "end"]
    /\ UNCHANGED <<kind, ctx, caller, watcher, writer, result, done, chan1, chan2, deadline, wire, cnt, port>>

BlockEnd(b) ==
    /\ block[b] = "held"
    /\ b \in ctx
    /\ outmux' = Nobody
    /\ block'  = [block EXCEPT ![b] = "end"]
    /\ UNCHANGED <<kind, ctx, caller, watcher, writer, result, done, chan1, chan2, deadline, wire, cnt, port>>

\* A deadline expires, or the function that made the context returns.
ContextEnds(p) ==
    /\ p \notin ctx
    /\ IF p \in Sends THEN caller[p] # "idle" ELSE block[p] # "idle"
    /\ ctx' = ctx \cup {p}
    /\ UNCHANGED <<kind, caller, watcher, writer, result, done, chan1, chan2, block, outmux, deadline, wire, cnt, port>>

-----------------------------------------------------------------------------
Writer(s)  == GetPort(s) \/ Build(s) \/ Lock(s) \/ SetWriteDeadline(s) \/ Write(s) \/ Put(s)
Watcher(s) == WatcherDone(s) \/ WatcherCtx(s) \/ WatcherPut(s)

Next ==
    \/ \E s \in Sends : Send(s) \/ Writer(s) \/ Watcher(s) \/ Select(s)
    \/ \E b \in Blocks : Block(b) \/ BlockLock(b) \/ BlockEnd(b)
    \/ \E p \in Sends \cup Blocks : ContextEnds(p)

Spec == Init /\ [][Next]_vars

\* Goroutines are scheduled, a write ends within its ten seconds, the contexts
\* of blocks end, and sync.Mutex serves a block that waits.
SendFairness(s) == WF_vars(Writer(s)) /\ WF_vars(Select(s))
BlockFairness(b) ==
    /\ SF_vars(BlockLock(b)) /\ WF_vars(BlockEnd(b))
    /\ WF_vars(ContextEnds(b))

Fairness == (\A s \in Sends : SendFairness(s)) /\ (\A b \in Blocks : BlockFairness(b))

FairSpec == Spec /\ Fairness

\* Nothing else that is scheduled helps either: the watchers, the contexts of
\* sends and the mutex for sends that wait.
FullFairSpec ==
    /\ FairSpec
    /\ \A s \in Sends : WF_vars(Watcher(s)) /\ WF_vars(ContextEnds(s)) /\ SF_vars(Lock(s))

-----------------------------------------------------------------------------
(* Properties                                                              *)

\* GetPort's counter may pass MaxPort by one for each send that takes part.
HighestPort == MaxPort + Cardinality(Sends)

\* Types; in particular the counter that racing calls of GetPort test,
\* increment and read without a lock leaves its range by no more than the
\* number of sends, and no send of a fritzbox connection gets port 0.
TypeOK ==
    /\ kind \in Kinds
    /\ ctx \subseteq Sends \cup Blocks
    /\ caller \in [Sends -> {"idle", "select", "ok", "error", "ctx"}]
    /\ watcher \in [Sends -> {"none", "select", "put", "sent", "end"}]
    /\ writer \in [Sends -> {"none", "port", "reset", "inc", "add", "ret", "build", "lock",
                             "deadline", "write", "put", "end"}]
    /\ result \in [Sends -> {"none", "ok", "failed", "aborted"}]
    /\ done \subseteq Sends
    /\ chan1 \in [Sends -> {0, 1}]
    /\ chan2 \in [Sends -> {0, 1}]
    /\ block \in [Blocks -> {"idle", "lock", "held", "end"}]
    /\ outmux \in Sends \cup Blocks \cup {Nobody}
    /\ deadline \in {"future", "past"}
    /\ wire \subseteq Sends
    /\ cnt \in 0..HighestPort
    /\ port \in [Sends -> 0..HighestPort]
    /\ kind = "fritzbox" => \A s \in Sends : writer[s] = "build" => port[s] > 0

\* From the return of Block until the end of its context no packet leaves.
Quiet ==
    (\E b \in Blocks : block[b] \in {"held", "end"} /\ b \notin ctx) => wire' = wire

BlockedTraffic == [][Quiet]_vars

\* What Send reports is what happened: a caller told of a success has had its
\* packet written, and one told of an error while its context is alive can
\* rely on its packet never being written.
ResultHonest ==
    \A s \in Sends :
        /\ caller[s] = "ok" => s \in wire
        /\ caller[s] = "error" /\ s \notin ctx => s \notin wire /\ writer[s] = "end"

\* For client.go, Send and Block are what Transmission says.
Promise == INSTANCE Transmission WITH
    ended    <- ctx,
    failed   <- {s \in Sends : result[s] \in Errors},
    blocking <- {b \in Blocks : block[b] = "held"}

ImplementsTransmission == Promise!Spec

\* A goroutine of Send has an error to report and chan2 will not take it.
Stuck(s) ==
    /\ chan2[s] = 1
    /\ \/ writer[s] = "put" /\ result[s] \in Errors
       \/ watcher[s] = "put"
    /\ caller[s] # "select"

\* The two goroutines of a Send and the one place in chan2 get along unless
\* the caller has left because of its context.
StuckNeedsTimeout == \A s \in Sends : Stuck(s) => caller[s] = "ctx"

\* Sends whose context ended before their write did: their watcher has moved
\* the deadline that all sends share.
Cancelled == {s \in Sends : watcher[s] \in {"put", "sent"}}
Aborted   == {s \in Sends : result[s] = "aborted"}

\* A context that ends may abort the write of another send, but each aborts
\* one at most: the deadline it has moved is gone before the next write.
OneAbortPerCancel == Cardinality(Aborted) <= Cardinality(Cancelled)

-----------------------------------------------------------------------------
(* The invariant behind them                                               *)

\* outmux is held by the writer that sets the deadline and writes, and by
\* a block until its context has ended; a holder still has its unlock to do.
MutexInv ==
    /\ \A s \in Sends :
          /\ writer[s] \in {"deadline", "write"} => outmux = s
          /\ outmux = s => writer[s] \in {"deadline", "write", "put"}
    /\ \A b \in Blocks :
          /\ block[b] = "held" <=> outmux = b
          /\ block[b] = "end" => b \in ctx

Count(P) == IF P THEN 1 ELSE 0

\* Every error that was put into chan2 is there or was taken by the caller.
ErrorInv ==
    \A s \in Sends :
        chan2[s] + Count(caller[s] = "error") =
            Count(writer[s] = "end" /\ result[s] \in Errors) + Count(watcher[s] = "sent")

SendInv ==
    \A s \in Sends :
        /\ caller[s] = "idle" => writer[s] = "none" /\ watcher[s] = "none"
        /\ watcher[s] \in {"put", "sent"} => s \in ctx
        /\ s \in wire <=> result[s] = "ok"
        /\ result[s] # "none" <=> writer[s] \in {"put", "end"}
        /\ chan1[s] = 1 \/ caller[s] = "ok" => writer[s] = "end" /\ result[s] = "ok"

\* A write that is about to be aborted has a cancelled send of its own to
\* blame, which no aborted write has used up.
DeadlineInv ==
    Cardinality(Aborted) + Count(deadline = "past" /\ \E s \in Sends : writer[s] = "write")
        <= Cardinality(Cancelled)

\* Sends that have written the counter, or never will.
Counted == {s \in Sends : writer[s] \notin {"none", "port", "reset", "inc", "add"}}

\* What has been read of the counter and what it is: one more than MaxPort
\* for each send that has written it.
PortInv ==
    /\ cnt <= MaxPort + Cardinality(Counted)
    /\ \A s \in Sends : writer[s] = "add" => port[s] <= MaxPort + Cardinality(Counted)
    /\ \A s \in Sends : writer[s] = "ret" => cnt > 0

\* The inductive invariant of Send and Block.
ConnInv == MutexInv /\ ErrorInv /\ SendInv /\ DeadlineInv /\ PortInv

-----------------------------------------------------------------------------
(* Progress                                                                *)

\* When a writer, a caller's select and a block can go on.
WriterGuard(s) ==
    \/ writer[s] \in {"port", "reset", "inc", "add", "ret", "build", "deadline", "write"}
    \/ writer[s] = "lock" /\ outmux = Nobody
    \/ writer[s] = "put" /\ (result[s] = "ok" \/ (result[s] \in Errors /\ chan2[s] = 0))
SelectGuard(s) == caller[s] = "select" /\ (chan1[s] = 1 \/ chan2[s] = 1 \/ s \in ctx)

\* Nothing but these conditions keeps a step from being taken.  The proofs of
\* progress start from here, as TLAPS does not evaluate ENABLED; for TLC it is
\* an invariant like any other.
Guards ==
    /\ \A s \in Sends :
          /\ ENABLED <<Writer(s)>>_vars <=> WriterGuard(s)
          /\ ENABLED <<Select(s)>>_vars <=> SelectGuard(s)
    /\ \A b \in Blocks :
          /\ ENABLED <<BlockLock(b)>>_vars   <=> block[b] = "lock" /\ outmux = Nobody
          /\ ENABLED <<BlockEnd(b)>>_vars    <=> block[b] = "held" /\ b \in ctx
          /\ ENABLED <<ContextEnds(b)>>_vars <=> block[b] # "idle" /\ b \notin ctx

\* Block returns, and with it sleep() and the retries of every request,
\* unless a send holds outmux that cannot report its error.
BlockReturnsUnlessStuck ==
    \A b \in Blocks : block[b] = "lock" ~>
        (block[b] # "lock" \/ \E s \in Sends : Stuck(s) /\ outmux = s)

\* Traffic is blocked until a context is finished, not for ever.
BlockReturns == \A b \in Blocks : block[b] = "lock" ~> block[b] # "lock"
=============================================================================
