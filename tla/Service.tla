------------------------------- MODULE Service -------------------------------
(***************************************************************************)
(* The service from its start to its shutdown: the command of cmd/root.go, *)
(* the goroutines of Server.Start in service/server.go, the background     *)
(* process of the DHCP client (background/process.go with the functions    *)
(* dhcp/client.go gives it) and the receiver loop with Connection.Receive  *)
(* (dhcp/udp.go, dhcp/dual.go, dhcp/raw.go).                               *)
(*                                                                         *)
(* A request is only followed as far as the lifecycle concerns it: it has  *)
(* arrived, its DHCP packet is sent, the answer is there, it is answered.  *)
(* DHCPClient has the details.                                             *)
(*                                                                         *)
(* InterruptIgnored, ReadyEarly, CloseConnFirst, ReaderPutMore and         *)
(* SelectPacketLoses are faulty versions of the definitions they precede;  *)
(* the specification does not use them.                                    *)
(***************************************************************************)
EXTENDS Naturals

CONSTANTS
    Reqs,        \* HTTP requests; each also names the answer to its packet
    InitFails,   \* may the client's init fail (no server, local or relay ip)?
    ListenFails, \* may the HTTP listener fail?
    ReadFails,   \* may a read or a decoding fail?
    LocksStick,  \* may store.Get keep the receiver for ever (DHCPClient shows how)?
    NoPacket

ASSUME FailsAssumption == {InitFails, ListenFails, ReadFails, LocksStick} \subseteq BOOLEAN
ASSUME NoPacketAssumption == NoPacket \notin Reqs

VARIABLES
    main,       \* the command: start, run, stopping, exit
    sig,        \* SIGINT is in the channel term
    ctx,        \* the command's context is cancelled
    srv,        \* goroutine of Server.Start: start, serve, stop, shutdown, done
    http,       \* the listener: off, starting, on, closed
    probe,      \* the goroutine that waits for the listener: off, loop, ok
    proc,       \* goroutine of Process.Run: init, run, closing, done
    pctx,       \* the process's context is cancelled
    ready,      \* the channel Process.Run returned is closed
    conn,       \* the connection: nil, open, closed
    rcvr,       \* the receive loop: off, loop, select, process, stuck, left
    reader,     \* reading goroutine of Receive: none, read, have, error, end
    watcher,    \* watching goroutine of Receive: none, select, put, end
    pkt,        \* the packet the reader has, or has put into chan1
    chan1, chan2,  \* number of packets and of errors in Receive's channels
    socket,     \* packets that wait to be read
    taken,      \* packets that have been read
    req,        \* per request: none, active, sent, acked, answered
    died        \* why the process died

mainVars == <<main, sig, ctx, srv, http, probe>>
procVars == <<proc, pctx, ready, conn>>
recvVars == <<rcvr, reader, watcher, pkt, chan1, chan2, socket, taken>>
vars     == <<mainVars, procVars, recvVars, req, died>>

Init ==
    /\ main = "start" /\ sig = FALSE /\ ctx = FALSE
    /\ srv = "start" /\ http = "off" /\ probe = "off"
    /\ proc = "init" /\ pctx = FALSE /\ ready = FALSE /\ conn = "nil"
    /\ rcvr = "off" /\ reader = "none" /\ watcher = "none"
    /\ pkt = NoPacket /\ chan1 = 0 /\ chan2 = 0
    /\ socket = {} /\ taken = {}
    /\ req = [r \in Reqs |-> "none"]
    /\ died = "none"

-----------------------------------------------------------------------------
(* The command                                                             *)

Interrupt ==
    /\ ~sig /\ main # "exit"
    /\ sig' = TRUE
    /\ UNCHANGED <<main, ctx, srv, http, probe, procVars, recvVars, req, died>>

\* <-server.Start(ctx): nothing else is listened to, not even the signal.
MainReady ==
    /\ main = "start" /\ probe = "ok"
    /\ main' = "run"
    /\ UNCHANGED <<sig, ctx, srv, http, probe, procVars, recvVars, req, died>>

InterruptIgnored ==
    /\ main = "run" /\ sig
    /\ main' = "stopping" /\ ctx' = FALSE
    /\ UNCHANGED <<sig, srv, http, probe, procVars, recvVars, req, died>>

MainInterrupt ==
    /\ main = "run" /\ sig
    /\ main' = "stopping" /\ ctx' = TRUE
    /\ UNCHANGED <<sig, srv, http, probe, procVars, recvVars, req, died>>

MainExit ==
    /\ main = "stopping" /\ srv = "done"
    /\ main' = "exit"
    /\ UNCHANGED <<sig, ctx, srv, http, probe, procVars, recvVars, req, died>>

-----------------------------------------------------------------------------
(* Server.Start                                                            *)

\* The client's channel is closed when its init is over, well or not.
ServerReady ==
    /\ srv = "start" /\ ready
    /\ srv' = "serve" /\ http' = "starting" /\ probe' = "loop"
    /\ UNCHANGED <<main, sig, ctx, procVars, recvVars, req, died>>

Listen ==
    /\ http = "starting"
    /\ \/ http' = "on" /\ died' = died
       \/ ListenFails /\ died' = "listen" /\ http' = http
    /\ UNCHANGED <<main, sig, ctx, srv, probe, procVars, recvVars, req>>

\* Any answer to GET /health will do.
Probe ==
    /\ probe = "loop" /\ http = "on"
    /\ probe' = "ok"
    /\ UNCHANGED <<main, sig, ctx, srv, http, procVars, recvVars, req, died>>

\* client.Stop(): cancel, then wait for done.
ServerStop ==
    /\ srv = "serve" /\ ctx
    /\ srv' = "stop" /\ pctx' = TRUE
    /\ UNCHANGED <<main, sig, ctx, http, probe, proc, ready, conn, recvVars, req, died>>

ServerStopped ==
    /\ srv = "stop" /\ proc = "done"
    /\ srv' = "shutdown" /\ http' = "closed"
    /\ UNCHANGED <<main, sig, ctx, probe, procVars, recvVars, req, died>>

\* Shutdown returns when every handler has, or with an error after ten
\* seconds, which may be before a web timeout.
ServerDone ==
    /\ srv = "shutdown"
    /\ srv' = "done"
    /\ UNCHANGED <<main, sig, ctx, http, probe, procVars, recvVars, req, died>>

-----------------------------------------------------------------------------
(* Process.Run of the DHCP client                                          *)

ReadyEarly ==
    /\ proc = "init"
    /\ ready' = TRUE
    /\ \/ proc' = "run" /\ conn' = "open" /\ rcvr' = "loop"
       \/ UNCHANGED <<proc, conn, rcvr>>
    /\ UNCHANGED <<mainVars, pctx, reader, watcher, pkt, chan1, chan2, socket, taken, req, died>>

ProcessInit ==
    /\ proc = "init"
    /\ ready' = TRUE
    /\ \/ proc' = "run" /\ conn' = "open" /\ rcvr' = "loop"
       \/ InitFails /\ proc' = "done" /\ UNCHANGED <<conn, rcvr>>
    /\ UNCHANGED <<mainVars, pctx, reader, watcher, pkt, chan1, chan2, socket, taken, req, died>>

CloseConnFirst ==
    /\ proc = "run" /\ pctx
    /\ proc' = "closing" /\ conn' = "closed"
    /\ UNCHANGED <<mainVars, pctx, ready, recvVars, req, died>>

\* The process function has returned.  An error of close is logged and changes
\* nothing else, also the one after which DualConn.Close leaves the socket for
\* sending to the end of the program.
CloseConn ==
    /\ proc = "run" /\ rcvr = "left"
    /\ proc' = "closing" /\ conn' = "closed"
    /\ UNCHANGED <<mainVars, pctx, ready, recvVars, req, died>>

ProcessDone ==
    /\ proc = "closing"
    /\ proc' = "done"
    /\ UNCHANGED <<mainVars, pctx, ready, conn, recvVars, req, died>>

-----------------------------------------------------------------------------
(* The receive loop                                                        *)

\* conn.Receive starts a reader and a watcher with channels of their own.
\* (Under a cancelled context a reader of an earlier round may still hold
\* inmux; LeaveLoop stands for the rounds in which the new one waits.)
Receive ==
    /\ rcvr = "loop"
    /\ reader \in {"none", "end"}
    /\ rcvr' = "select" /\ reader' = "read" /\ watcher' = "select"
    /\ pkt' = NoPacket /\ chan1' = 0 /\ chan2' = 0
    /\ UNCHANGED <<mainVars, procVars, socket, taken, req, died>>

LeaveLoop ==
    /\ rcvr = "loop" /\ pctx
    /\ rcvr' = "left"
    /\ UNCHANGED <<mainVars, procVars, reader, watcher, pkt, chan1, chan2, socket, taken, req, died>>

\* SetReadDeadline, the read and the decoding.  The watcher ends a read by
\* its deadline, Close ends it too.
Read ==
    /\ reader = "read"
    /\ \/ \E r \in socket :
             /\ conn = "open"
             /\ socket' = socket \ {r}
             /\ taken'  = taken \cup {r}
             /\ pkt'    = r
             /\ reader' = "have"
       \/ /\ ReadFails \/ watcher \in {"put", "end"} \/ conn = "closed"
          /\ reader' = "error"
          /\ UNCHANGED <<socket, taken, pkt>>
    /\ UNCHANGED <<mainVars, procVars, rcvr, watcher, chan1, chan2, req, died>>

ReaderPutMore ==
    /\ \/ reader = "have" /\ chan1' = 1 /\ chan2' = chan2
       \/ reader = "error" /\ chan2' = chan2 + 1 /\ chan1' = chan1
    /\ reader' = "end"
    /\ UNCHANGED <<mainVars, procVars, rcvr, watcher, pkt, socket, taken, req, died>>

\* The reader's channels have room for one element each.
ReaderPut ==
    /\ \/ reader = "have" /\ chan1' = 1 /\ chan2' = chan2
       \/ reader = "error" /\ chan2 = 0 /\ chan2' = 1 /\ chan1' = chan1
    /\ reader' = "end"
    /\ UNCHANGED <<mainVars, procVars, rcvr, watcher, pkt, socket, taken, req, died>>

Watch ==
    /\ watcher = "select"
    /\ \/ reader \in {"have", "error", "end"} /\ watcher' = "end"
       \/ pctx /\ watcher' = "put"
    /\ UNCHANGED <<mainVars, procVars, rcvr, reader, pkt, chan1, chan2, socket, taken, req, died>>

WatcherPut ==
    /\ watcher = "put" /\ chan2 = 0
    /\ watcher' = "end" /\ chan2' = 1
    /\ UNCHANGED <<mainVars, procVars, rcvr, reader, pkt, chan1, socket, taken, req, died>>

SelectPacketLoses ==
    /\ rcvr = "select" /\ chan1 = 1
    /\ chan1' = 0 /\ rcvr' = "loop"
    /\ UNCHANGED <<mainVars, procVars, reader, watcher, pkt, chan2, socket, taken, req, died>>

SelectPacket ==
    /\ rcvr = "select" /\ chan1 = 1
    /\ chan1' = 0 /\ rcvr' = "process"
    /\ UNCHANGED <<mainVars, procVars, reader, watcher, pkt, chan2, socket, taken, req, died>>

\* processDHCPReponse: the request that waits for this answer has it now.
ProcessPacket ==
    /\ rcvr = "process"
    /\ rcvr' = "loop"
    /\ req' = [req EXCEPT ![pkt] = IF @ = "sent" THEN "acked" ELSE @]
    /\ UNCHANGED <<mainVars, procVars, reader, watcher, pkt, chan1, chan2, socket, taken, died>>

\* Or it never returns: store.Get waits for the lease of a request that holds
\* it and waits itself, for the store or for a jammed connection
\* (DHCPClient!ReceiverStuck).
GetSticks ==
    /\ LocksStick
    /\ rcvr = "process" /\ req[pkt] = "sent"
    /\ rcvr' = "stuck"
    /\ UNCHANGED <<mainVars, procVars, reader, watcher, pkt, chan1, chan2, socket, taken, req, died>>

SelectError ==
    /\ rcvr = "select" /\ chan2 = 1
    /\ chan2' = 0 /\ rcvr' = "loop"
    /\ UNCHANGED <<mainVars, procVars, reader, watcher, pkt, chan1, socket, taken, req, died>>

SelectCtx ==
    /\ rcvr = "select" /\ pctx
    /\ rcvr' = "left"
    /\ UNCHANGED <<mainVars, procVars, reader, watcher, pkt, chan1, chan2, socket, taken, req, died>>

-----------------------------------------------------------------------------
(* Requests                                                                *)

Accept(r) ==
    /\ http = "on" /\ req[r] = "none"
    /\ req' = [req EXCEPT ![r] = "active"]
    /\ UNCHANGED <<mainVars, procVars, recvVars, died>>

\* Without a connection the process dies; on a closed one a release gets an
\* error, while a lease or a renewal dies of it (see DHCPClient).
SendPacket(r) ==
    /\ req[r] = "active"
    /\ \/ conn = "open" /\ req' = [req EXCEPT ![r] = "sent"] /\ died' = died
       \/ conn = "closed" /\ req' = [req EXCEPT ![r] = "answered"] /\ died' = died
       \/ conn # "open" /\ died' = "send" /\ req' = req
    /\ UNCHANGED <<mainVars, procVars, recvVars>>

\* The handler answers: with the lease, or with 408 at the web timeout, but not
\* the one that is stuck together with the receiver.
Answer(r) ==
    /\ req[r] \in {"sent", "acked"}
    /\ ~(rcvr = "stuck" /\ pkt = r)
    /\ req' = [req EXCEPT ![r] = "answered"]
    /\ UNCHANGED <<mainVars, procVars, recvVars, died>>

\* The DHCP server's answer arrives.
Arrive(r) ==
    /\ req[r] \in {"sent", "acked", "answered"}
    /\ conn = "open" /\ r \notin socket \cup taken
    /\ socket' = socket \cup {r}
    /\ UNCHANGED <<mainVars, procVars, rcvr, reader, watcher, pkt, chan1, chan2, taken, req, died>>

-----------------------------------------------------------------------------
Command  == MainReady \/ MainInterrupt \/ MainExit
Server   == ServerReady \/ ServerStop \/ ServerStopped \/ ServerDone
Process  == ProcessInit \/ CloseConn \/ ProcessDone
Processing == ProcessPacket \/ GetSticks
Receiver == Receive \/ LeaveLoop \/ SelectPacket \/ Processing \/ SelectError \/ SelectCtx
Reading  == Read \/ ReaderPut
Watching == Watch \/ WatcherPut
Request(r) == Accept(r) \/ SendPacket(r) \/ Answer(r) \/ Arrive(r)

\* A panic or a fatal error ends the process, and so does main.
Running == died = "none" /\ main # "exit"

Next ==
    /\ Running
    /\ \/ Interrupt \/ Command \/ Server \/ Listen \/ Probe \/ Process
       \/ Receiver \/ Reading \/ Watching
       \/ \E r \in Reqs : Request(r)

Spec == Init /\ [][Next]_vars

\* Go schedules every goroutine and a select that finds its context done
\* again and again takes it some time.  The client's init, which asks the
\* network, is assumed to come to an end; a read need not, and
\* processDHCPReponse comes to an end or sticks.
Fairness ==
    /\ WF_vars(Running /\ Command) /\ WF_vars(Running /\ Server)
    /\ WF_vars(Running /\ Listen) /\ WF_vars(Running /\ Probe)
    /\ WF_vars(Running /\ Process)
    /\ WF_vars(Running /\ Receiver) /\ WF_vars(Running /\ Processing)
    /\ SF_vars(Running /\ SelectCtx) /\ SF_vars(Running /\ LeaveLoop)
    /\ WF_vars(Running /\ Watching) /\ WF_vars(Running /\ ReaderPut)

FairSpec == Spec /\ Fairness

-----------------------------------------------------------------------------
(* Properties                                                              *)

\* Every variable keeps its type.
TypeOK ==
    /\ main \in {"start", "run", "stopping", "exit"}
    /\ sig \in BOOLEAN /\ ctx \in BOOLEAN
    /\ pctx \in BOOLEAN /\ ready \in BOOLEAN
    /\ srv \in {"start", "serve", "stop", "shutdown", "done"}
    /\ http \in {"off", "starting", "on", "closed"}
    /\ probe \in {"off", "loop", "ok"}
    /\ proc \in {"init", "run", "closing", "done"}
    /\ conn \in {"nil", "open", "closed"}
    /\ rcvr \in {"off", "loop", "select", "process", "stuck", "left"}
    /\ reader \in {"none", "read", "have", "error", "end"}
    /\ watcher \in {"none", "select", "put", "end"}
    /\ pkt \in Reqs \cup {NoPacket}
    /\ chan1 \in {0, 1} /\ chan2 \in {0, 1}
    /\ socket \subseteq Reqs
    /\ taken \subseteq Reqs
    /\ req \in [Reqs -> {"none", "active", "sent", "acked", "answered"}]
    /\ died \in {"none", "listen", "send"}

\* As long as the service is not stopped a packet taken off the socket
\* reaches processDHCPReponse, whatever errors the rounds of the receive
\* loop meet, and so its request, unless that is what the receiver is stuck
\* with.
NoPacketLost ==
    ~pctx => \A r \in taken :
        \/ req[r] \in {"acked", "answered"}
        \/ pkt = r /\ rcvr = "select" /\ (reader = "have" \/ chan1 = 1)
        \/ pkt = r /\ rcvr \in {"process", "stuck"}

\* The rounds of the receive loop do not overlap: a new Receive finds inmux
\* free, so its reader is the one the loop listens to.
OneReader == rcvr = "loop" /\ ~pctx => reader \in {"none", "end"}

\* When the command has ended after a SIGINT nothing is left behind: the
\* listener is closed, and the DHCP client has left its loop and closed its
\* connection, in this order.
CleanExit ==
    /\ conn = "closed" => rcvr = "left"
    /\ main = "exit" => /\ http = "closed"
                        /\ proc = "done"
                        /\ conn # "open"

\* A request meets a connection that is missing or closed, and dies of it,
\* only when the client's init has failed or the client was stopped under it:
\* never because the server listens too early.  (How a request can kill the
\* process over an open connection is the subject of DHCPClient.)
DiesWithoutClient == died = "send" => conn # "open" /\ (pctx \/ proc = "done")

-----------------------------------------------------------------------------
(* The invariant behind them                                               *)

\* Process, connection and receive loop go through their lives together, and
\* the server waits for them.
LifeInv ==
    /\ proc = "init" => conn = "nil" /\ rcvr = "off" /\ ~ready
    /\ proc = "run" => conn = "open" /\ rcvr # "off"
    /\ proc = "closing" => conn = "closed" /\ rcvr = "left"
    /\ proc = "done" => \/ conn = "nil" /\ rcvr = "off"
                        \/ conn = "closed" /\ rcvr = "left"
    /\ srv = "start" => http = "off" /\ ~pctx
    /\ srv # "start" \/ http # "off" => ready
    /\ \A r \in Reqs : req[r] # "none" => ready
    /\ rcvr = "left" => pctx
    /\ srv \in {"shutdown", "done"} => proc = "done" /\ http = "closed"
    /\ main = "exit" => srv = "done"

\* Until the service is stopped a round of the receive loop has one reader
\* and gets one result of it.
RoundInv ==
    ~pctx =>
        /\ watcher # "put"
        /\ rcvr \in {"off", "loop", "process", "stuck"} =>
             reader \in {"none", "end"} /\ chan1 = 0 /\ chan2 = 0
        /\ rcvr = "select" =>
             \/ reader \in {"read", "have", "error"} /\ chan1 = 0 /\ chan2 = 0
             \/ reader = "end" /\ chan1 # chan2

PacketInv ==
    /\ reader = "read" => pkt = NoPacket
    /\ reader = "have" \/ chan1 = 1 => pkt # NoPacket
    /\ chan1 = 1 => reader = "end"
    /\ rcvr \in {"process", "stuck"} => pkt # NoPacket /\ reader = "end"
    /\ rcvr = "stuck" => LocksStick /\ req[pkt] = "sent"
    /\ \A r \in socket \cup taken : req[r] \in {"sent", "acked", "answered"}

\* The inductive invariant of the lifecycle.
ServiceInv == LifeInv /\ RoundInv /\ PacketInv

\* How far command, server and process have come, seen from each other.
OrderInv ==
    /\ main # "start" => probe = "ok"
    /\ main \in {"stopping", "exit"} => ctx /\ sig
    /\ ctx => main \in {"stopping", "exit"}
    /\ pctx => srv \in {"stop", "shutdown", "done"}
    /\ srv \in {"stop", "shutdown", "done"} => pctx /\ ctx
    /\ srv = "start" <=> probe = "off"
    /\ srv = "serve" => http \in {"starting", "on"}
    /\ probe = "ok" => http # "starting"
    /\ ready <=> proc # "init"

-----------------------------------------------------------------------------
(* Progress                                                                *)

\* When the goroutines can go on: what fairness of their steps means.
CommandGuard == \/ main = "start" /\ probe = "ok"
                \/ main = "run" /\ sig
                \/ main = "stopping" /\ srv = "done"
ServerGuard  == \/ srv = "start" /\ ready
                \/ srv = "serve" /\ ctx
                \/ srv = "stop" /\ proc = "done"
                \/ srv = "shutdown"
ProcessGuard == \/ proc \in {"init", "closing"}
                \/ proc = "run" /\ rcvr = "left"

\* Nothing but these conditions keeps a step from being taken.  The proofs of
\* progress start from here, as TLAPS does not evaluate ENABLED; for TLC it is
\* an invariant like any other.
Guards ==
    /\ ENABLED <<Running /\ Command>>_vars   <=> Running /\ CommandGuard
    /\ ENABLED <<Running /\ Server>>_vars    <=> Running /\ ServerGuard
    /\ ENABLED <<Running /\ Process>>_vars   <=> Running /\ ProcessGuard
    /\ ENABLED <<Running /\ Listen>>_vars    <=> Running /\ http = "starting"
    /\ ENABLED <<Running /\ Probe>>_vars     <=> Running /\ probe = "loop" /\ http = "on"
    /\ ENABLED <<Running /\ Processing>>_vars <=> Running /\ rcvr = "process"
    /\ ENABLED <<Running /\ SelectCtx>>_vars <=> Running /\ rcvr = "select" /\ pctx
    /\ ENABLED <<Running /\ LeaveLoop>>_vars <=> Running /\ rcvr = "loop" /\ pctx

\* A SIGINT ends the program, also one that comes while it starts, unless the
\* receiver is stuck in processDHCPReponse with the answer to a request that
\* nobody has answered: Stop waits for the receive loop, and for ever then.
InterruptStops ==
    sig ~> \/ main = "exit" \/ died # "none"
           \/ rcvr = "stuck" /\ req[pkt] = "sent"
=============================================================================
