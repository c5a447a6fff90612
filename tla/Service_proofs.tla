--------------------------- MODULE Service_proofs ---------------------------
(***************************************************************************)
(* Proofs of Service's safety properties, and that SIGINT ends the         *)
(* program or meets a stuck receiver, for any number of requests and       *)
(* whatever may fail.                                                      *)
(***************************************************************************)
EXTENDS Service, TLAPS

\* Every variable keeps its type (the state of Start, Process.Run, Receive
\* and the command).
THEOREM TypeCorrect == Spec => []TypeOK
<1>1. Init => TypeOK
  BY DEF Init, TypeOK
<1>2. TypeOK /\ [Next]_vars => TypeOK'
  <2> SUFFICES ASSUME TypeOK, [Next]_vars PROVE TypeOK'
    OBVIOUS
  <2> USE DEF TypeOK, mainVars, procVars, recvVars
  <2>1. CASE Interrupt \/ Command
    BY <2>1 DEF Interrupt, Command, MainReady, MainInterrupt, MainExit
  <2>2. CASE Server \/ Listen \/ Probe
    BY <2>2 DEF Server, ServerReady, ServerStop, ServerStopped, ServerDone, Listen, Probe
  <2>3. CASE Process
    BY <2>3 DEF Process, ProcessInit, CloseConn, ProcessDone
  <2>4. CASE Receiver
    BY <2>4 DEF Receiver, Receive, LeaveLoop, SelectPacket, Processing, ProcessPacket, GetSticks, SelectError, SelectCtx
  <2>5. CASE Reading
    BY <2>5 DEF Reading, Read, ReaderPut
  <2>6. CASE Watching
    BY <2>6 DEF Watching, Watch, WatcherPut
  <2>7. ASSUME NEW r \in Reqs, Request(r) PROVE TypeOK'
    BY <2>7 DEF Request, Accept, SendPacket, Answer, Arrive
  <2>8. CASE UNCHANGED vars
    BY <2>8 DEF vars
  <2> QED
    BY <2>1, <2>2, <2>3, <2>4, <2>5, <2>6, <2>7, <2>8 DEF Next
<1> QED
  BY <1>1, <1>2, PTL DEF Spec

\* Process, connection, receive loop and server keep in step, because Stop
\* waits for done and Run closes the connection after the loop.
LEMMA LifeStep ==
    ASSUME TypeOK, LifeInv, [Next]_vars PROVE LifeInv'
<1> USE DEF TypeOK, LifeInv, mainVars, procVars, recvVars
<1>1. CASE Interrupt \/ Command
  BY <1>1 DEF Interrupt, Command, MainReady, MainInterrupt, MainExit
<1>2. CASE Server
  <2>1. CASE ServerReady
    BY <2>1 DEF ServerReady
  <2>2. CASE ServerStop
    BY <2>2 DEF ServerStop
  <2>3. CASE ServerStopped \/ ServerDone
    BY <2>3 DEF ServerStopped, ServerDone
  <2> QED
    BY <1>2, <2>1, <2>2, <2>3 DEF Server
<1>3. CASE Listen \/ Probe
  BY <1>3 DEF Listen, Probe
<1>4. CASE Process
  BY <1>4 DEF Process, ProcessInit, CloseConn, ProcessDone
<1>5. CASE Receiver
  BY <1>5 DEF Receiver, Receive, LeaveLoop, SelectPacket, Processing, ProcessPacket, GetSticks, SelectError, SelectCtx
<1>6. CASE Reading
  BY <1>6 DEF Reading, Read, ReaderPut
<1>7. CASE Watching
  BY <1>7 DEF Watching, Watch, WatcherPut
<1>8. ASSUME NEW r \in Reqs, Running, Request(r) PROVE LifeInv'
  BY <1>8 DEF Running, Request, Accept, SendPacket, Answer, Arrive
<1>9. CASE UNCHANGED vars
  BY <1>9 DEF vars
<1> QED
  BY <1>1, <1>2, <1>3, <1>4, <1>5, <1>6, <1>7, <1>8, <1>9 DEF Next

\* A round of the receive loop has one reader and one result.
LEMMA RoundStep ==
    ASSUME TypeOK, LifeInv, RoundInv, [Next]_vars PROVE RoundInv'
<1> USE DEF TypeOK, LifeInv, RoundInv, mainVars, procVars, recvVars
<1>1. CASE Interrupt \/ Command
  BY <1>1 DEF Interrupt, Command, MainReady, MainInterrupt, MainExit
<1>2. CASE Server \/ Listen \/ Probe
  BY <1>2 DEF Server, ServerReady, ServerStop, ServerStopped, ServerDone, Listen, Probe
<1>3. CASE Process
  BY <1>3 DEF Process, ProcessInit, CloseConn, ProcessDone
<1>4. CASE Receiver
  BY <1>4 DEF Receiver, Receive, LeaveLoop, SelectPacket, Processing, ProcessPacket, GetSticks, SelectError, SelectCtx
<1>5. CASE Reading
  BY <1>5 DEF Reading, Read, ReaderPut
<1>6. CASE Watching
  BY <1>6 DEF Watching, Watch, WatcherPut
<1>7. ASSUME NEW r \in Reqs, Running, Request(r) PROVE RoundInv'
  BY <1>7 DEF Running, Request, Accept, SendPacket, Answer, Arrive
<1>8. CASE UNCHANGED vars
  BY <1>8 DEF vars
<1> QED
  BY <1>1, <1>2, <1>3, <1>4, <1>5, <1>6, <1>7, <1>8 DEF Next

\* The reader has a packet exactly when it says so, and every packet answers
\* a request that was sent.
LEMMA PacketStep ==
    ASSUME TypeOK, PacketInv, [Next]_vars PROVE PacketInv'
<1> USE DEF TypeOK, PacketInv, mainVars, procVars, recvVars
<1>1. CASE Interrupt \/ Command
  BY <1>1, NoPacketAssumption DEF Interrupt, Command, MainReady, MainInterrupt, MainExit
<1>2. CASE Server \/ Listen \/ Probe
  BY <1>2, NoPacketAssumption DEF Server, ServerReady, ServerStop, ServerStopped, ServerDone, Listen, Probe
<1>3. CASE Process
  BY <1>3, NoPacketAssumption DEF Process, ProcessInit, CloseConn, ProcessDone
<1>4. CASE Receiver
  BY <1>4, NoPacketAssumption DEF Receiver, Receive, LeaveLoop, SelectPacket, Processing, ProcessPacket, GetSticks, SelectError, SelectCtx
<1>5. CASE Reading
  BY <1>5, NoPacketAssumption DEF Reading, Read, ReaderPut
<1>6. CASE Watching
  BY <1>6, NoPacketAssumption DEF Watching, Watch, WatcherPut
<1>7. ASSUME NEW r \in Reqs, Running, Request(r) PROVE PacketInv'
  BY <1>7, NoPacketAssumption DEF Running, Request, Accept, SendPacket, Answer, Arrive
<1>8. CASE UNCHANGED vars
  BY <1>8 DEF vars
<1> QED
  BY <1>1, <1>2, <1>3, <1>4, <1>5, <1>6, <1>7, <1>8 DEF Next

\* The inductive invariant of the lifecycle: LifeInv orders start and
\* shutdown, RoundInv and PacketInv follow a packet through Receive.
THEOREM Inductive == Spec => [](TypeOK /\ ServiceInv)
<1>1. Init => ServiceInv
  BY DEF Init, ServiceInv, LifeInv, RoundInv, PacketInv
<1>2. TypeOK /\ ServiceInv /\ [Next]_vars => ServiceInv'
  BY LifeStep, RoundStep, PacketStep DEF ServiceInv
<1> QED
  BY <1>1, <1>2, TypeCorrect, PTL DEF Spec

\* A command that ended after SIGINT has left no listener and no connection
\* open, and the connection was closed after the receive loop.
THEOREM ExitIsClean == Spec => []CleanExit
<1>1. TypeOK /\ ServiceInv => CleanExit
  BY DEF TypeOK, ServiceInv, LifeInv, CleanExit
<1> QED
  BY <1>1, Inductive, PTL

\* The rounds of the receive loop do not overlap before Stop.
THEOREM RoundsDoNotOverlap == Spec => []OneReader
<1>1. ServiceInv => OneReader
  BY DEF ServiceInv, RoundInv, OneReader
<1> QED
  BY <1>1, Inductive, PTL

\* A packet stays with its round until processDHCPReponse has it.
LEMMA NoPacketLostStep ==
    ASSUME TypeOK, ServiceInv, NoPacketLost, [Next]_vars PROVE NoPacketLost'
<1> USE DEF TypeOK, ServiceInv, LifeInv, RoundInv, PacketInv, NoPacketLost, mainVars, procVars, recvVars
<1>1. CASE Interrupt \/ Command
  BY <1>1, NoPacketAssumption DEF Interrupt, Command, MainReady, MainInterrupt, MainExit
<1>2. CASE Server \/ Listen \/ Probe
  BY <1>2, NoPacketAssumption DEF Server, ServerReady, ServerStop, ServerStopped, ServerDone, Listen, Probe
<1>3. CASE Process
  BY <1>3, NoPacketAssumption DEF Process, ProcessInit, CloseConn, ProcessDone
<1>4. CASE Receiver
  BY <1>4, NoPacketAssumption DEF Receiver, Receive, LeaveLoop, SelectPacket, Processing, ProcessPacket, GetSticks, SelectError, SelectCtx
<1>5. CASE Reading
  BY <1>5, NoPacketAssumption DEF Reading, Read, ReaderPut
<1>6. CASE Watching
  BY <1>6, NoPacketAssumption DEF Watching, Watch, WatcherPut
<1>7. ASSUME NEW r \in Reqs, Running, Request(r) PROVE NoPacketLost'
  BY <1>7, NoPacketAssumption DEF Running, Request, Accept, SendPacket, Answer, Arrive
<1>8. CASE UNCHANGED vars
  BY <1>8 DEF vars
<1> QED
  BY <1>1, <1>2, <1>3, <1>4, <1>5, <1>6, <1>7, <1>8 DEF Next

\* Before Stop every packet the receiver takes off the socket reaches
\* processDHCPReponse.
THEOREM PacketsArrive == Spec => []NoPacketLost
<1>1. Init => NoPacketLost
  BY DEF Init, NoPacketLost
<1> QED
  BY <1>1, NoPacketLostStep, Inductive, PTL DEF Spec

\* A request is only served once the client's init is over.
LEMMA DiesStep ==
    ASSUME TypeOK, ServiceInv, DiesWithoutClient, [Next]_vars PROVE DiesWithoutClient'
<1> USE DEF TypeOK, ServiceInv, LifeInv, DiesWithoutClient, mainVars, procVars, recvVars
<1>1. CASE Interrupt \/ Command
  BY <1>1 DEF Interrupt, Command, MainReady, MainInterrupt, MainExit
<1>2. CASE Server \/ Listen \/ Probe
  BY <1>2 DEF Server, ServerReady, ServerStop, ServerStopped, ServerDone, Listen, Probe
<1>3. CASE Process
  BY <1>3 DEF Process, ProcessInit, CloseConn, ProcessDone
<1>4. CASE Receiver
  BY <1>4 DEF Receiver, Receive, LeaveLoop, SelectPacket, Processing, ProcessPacket, GetSticks, SelectError, SelectCtx
<1>5. CASE Reading
  BY <1>5 DEF Reading, Read, ReaderPut
<1>6. CASE Watching
  BY <1>6 DEF Watching, Watch, WatcherPut
<1>7. ASSUME NEW r \in Reqs, Running, Request(r) PROVE DiesWithoutClient'
  BY <1>7 DEF Running, Request, Accept, SendPacket, Answer, Arrive
<1>8. CASE UNCHANGED vars
  BY <1>8 DEF vars
<1> QED
  BY <1>1, <1>2, <1>3, <1>4, <1>5, <1>6, <1>7, <1>8 DEF Next

\* A request kills the process only when the client's init failed or the
\* client was stopped under it.
THEOREM DiesOnlyWithoutClient == Spec => []DiesWithoutClient
<1>1. Init => DiesWithoutClient
  BY DEF Init, DiesWithoutClient
<1> QED
  BY <1>1, DiesStep, Inductive, PTL DEF Spec

-----------------------------------------------------------------------------
(* The end of the program                                                  *)

\* Start, shutdown and the command's reaction to SIGINT happen in one order.
LEMMA OrderStep ==
    ASSUME TypeOK, LifeInv, OrderInv, [Next]_vars PROVE OrderInv'
<1> USE DEF TypeOK, LifeInv, OrderInv, mainVars, procVars, recvVars
<1>1. CASE Interrupt \/ Command
  BY <1>1 DEF Interrupt, Command, MainReady, MainInterrupt, MainExit
<1>2. CASE Server \/ Listen \/ Probe
  BY <1>2 DEF Server, ServerReady, ServerStop, ServerStopped, ServerDone, Listen, Probe
<1>3. CASE Process
  BY <1>3 DEF Process, ProcessInit, CloseConn, ProcessDone
<1>4. CASE Receiver
  BY <1>4 DEF Receiver, Receive, LeaveLoop, SelectPacket, Processing, ProcessPacket, GetSticks, SelectError, SelectCtx
<1>5. CASE Reading
  BY <1>5 DEF Reading, Read, ReaderPut
<1>6. CASE Watching
  BY <1>6 DEF Watching, Watch, WatcherPut
<1>7. ASSUME NEW r \in Reqs, Request(r) PROVE OrderInv'
  BY <1>7 DEF Request, Accept, SendPacket, Answer, Arrive
<1>8. CASE UNCHANGED vars
  BY <1>8 DEF vars
<1> QED
  BY <1>1, <1>2, <1>3, <1>4, <1>5, <1>6, <1>7, <1>8 DEF Next

\* A receiver is stuck with the answer to a request that has none.
StuckInv == rcvr = "stuck" => req[pkt] = "sent"

LEMMA Ordered == Spec => [](TypeOK /\ LifeInv /\ OrderInv /\ StuckInv)
<1>1. Init => OrderInv
  BY DEF Init, OrderInv
<1>2. TypeOK /\ ServiceInv => LifeInv /\ StuckInv
  BY DEF ServiceInv, PacketInv, StuckInv
<1> QED
  BY <1>1, <1>2, OrderStep, Inductive, PTL DEF Spec

Over  == main = "exit" \/ died # "none"
Stuck == rcvr = "stuck" /\ req[pkt] = "sent"

\* The stages of a program that has got a SIGINT.
Initialising == sig /\ Running /\ proc = "init"
Initialised  == sig /\ Running /\ srv = "start" /\ ready
Listening    == sig /\ Running /\ http = "starting"
Probing      == sig /\ Running /\ probe = "loop" /\ http = "on"
Probed       == sig /\ Running /\ main = "start" /\ probe = "ok"
Interrupted  == sig /\ Running /\ main = "run"
Cancelled    == sig /\ Running /\ main = "stopping" /\ srv = "serve"
Looping      == sig /\ Running /\ srv = "stop" /\ proc = "run" /\ rcvr \in {"loop", "select"}
InProcess    == sig /\ Running /\ srv = "stop" /\ proc = "run" /\ rcvr = "process"
Left         == sig /\ Running /\ srv = "stop" /\ proc = "run" /\ rcvr = "left"
Closing      == sig /\ Running /\ srv = "stop" /\ proc = "closing"
Stopped      == sig /\ Running /\ srv = "stop" /\ proc = "done"
ShuttingDown == sig /\ Running /\ srv = "shutdown"
ShutDown     == sig /\ Running /\ srv = "done"

\* No step leads back, or out of order, from one stage to another.
LEMMA StageStep ==
    ASSUME TypeOK, LifeInv, OrderInv, StuckInv, Next
    PROVE  /\ Initialising => (Initialising \/ Initialised \/ Over)'
           /\ Initialised  => (Initialised \/ Listening \/ Over)'
           /\ Listening    => (Listening \/ Probing \/ Over)'
           /\ Probing      => (Probing \/ Probed \/ Over)'
           /\ Probed       => (Probed \/ Interrupted \/ Over)'
           /\ Interrupted  => (Interrupted \/ Cancelled \/ Over)'
           /\ Cancelled    => (Cancelled \/ Looping \/ InProcess \/ Left \/ Closing \/ Stopped \/ Over \/ Stuck)'
           /\ Looping      => (Looping \/ InProcess \/ Left \/ Over)'
           /\ InProcess    => (InProcess \/ Looping \/ Over \/ Stuck)'
           /\ Left         => (Left \/ Closing \/ Over)'
           /\ Closing      => (Closing \/ Stopped \/ Over)'
           /\ Stopped      => (Stopped \/ ShuttingDown \/ Over)'
           /\ ShuttingDown => (ShuttingDown \/ ShutDown \/ Over)'
           /\ ShutDown     => (ShutDown \/ Over)'
<1> USE DEF TypeOK, LifeInv, OrderInv, StuckInv, Over, Running, mainVars, procVars, recvVars,
            Initialising, Initialised, Listening, Probing, Probed, Interrupted, Cancelled,
            Looping, InProcess, Left, Closing, Stopped, ShuttingDown, ShutDown, Stuck
<1>1. CASE Interrupt \/ Command
  BY <1>1 DEF Interrupt, Command, MainReady, MainInterrupt, MainExit
<1>2. CASE Server \/ Listen \/ Probe
  BY <1>2 DEF Server, ServerReady, ServerStop, ServerStopped, ServerDone, Listen, Probe
<1>3. CASE Process
  BY <1>3 DEF Process, ProcessInit, CloseConn, ProcessDone
<1>4. CASE Receiver
  BY <1>4 DEF Receiver, Receive, LeaveLoop, SelectPacket, Processing, ProcessPacket, GetSticks, SelectError, SelectCtx
<1>5. CASE Reading
  BY <1>5 DEF Reading, Read, ReaderPut
<1>6. CASE Watching
  BY <1>6 DEF Watching, Watch, WatcherPut
<1>7. ASSUME NEW r \in Reqs, Request(r) PROVE UNCHANGED <<mainVars, procVars, rcvr>>
  BY <1>7 DEF Request, Accept, SendPacket, Answer, Arrive
<1> QED
  BY <1>1, <1>2, <1>3, <1>4, <1>5, <1>6, <1>7 DEF Next

\* ... and a stutter leaves everything as it is.
LEMMA StageStutter ==
    ASSUME UNCHANGED vars
    PROVE  /\ Initialising => Initialising'
           /\ Initialised  => Initialised'
           /\ Listening    => Listening'
           /\ Probing      => Probing'
           /\ Probed       => Probed'
           /\ Interrupted  => Interrupted'
           /\ Cancelled    => Cancelled'
           /\ Looping      => Looping'
           /\ InProcess    => InProcess'
           /\ Left         => Left'
           /\ Closing      => Closing'
           /\ Stopped      => Stopped'
           /\ ShuttingDown => ShuttingDown'
           /\ ShutDown     => ShutDown'
BY DEF vars, mainVars, procVars, recvVars, Running,
       Initialising, Initialised, Listening, Probing, Probed, Interrupted, Cancelled,
       Looping, InProcess, Left, Closing, Stopped, ShuttingDown, ShutDown

\* A SIGINT ends the program, also one that comes while it starts, unless the
\* receiver is stuck in processDHCPReponse, which Stop then waits for: every
\* other stage of start and shutdown is left, since somebody in it can go on.
\* (Guards says when; see there.)
THEOREM InterruptEnds == FairSpec /\ []Guards => InterruptStops
<1>1. FairSpec /\ []Guards => (Initialising ~> Initialised \/ Over)
  <2>1. TypeOK /\ LifeInv /\ OrderInv /\ StuckInv /\ Initialising /\ [Next]_vars => (Initialising \/ Initialised \/ Over)'
    BY StageStep, StageStutter
  <2>2. TypeOK /\ LifeInv /\ OrderInv /\ StuckInv /\ Initialising /\ <<Running /\ Process>>_vars => (Initialised \/ Over)'
    <3>1. ASSUME TypeOK, LifeInv, OrderInv, StuckInv, Initialising, Running /\ Process PROVE Next /\ ~Initialising'
      BY <3>1 DEF Next, Initialising, TypeOK, LifeInv, OrderInv, Running, Process, ProcessInit, CloseConn, ProcessDone, mainVars, procVars
    <3> QED
      BY <3>1, StageStep
  <2>3. TypeOK /\ OrderInv /\ Initialising /\ Guards => ENABLED <<Running /\ Process>>_vars
    BY DEF OrderInv, Initialising, Guards, ProcessGuard
  <2> QED
    BY <2>1, <2>2, <2>3, Ordered, PTL DEF FairSpec, Fairness, Spec
<1>2. FairSpec /\ []Guards => (Initialised ~> Listening \/ Over)
  <2>1. TypeOK /\ LifeInv /\ OrderInv /\ StuckInv /\ Initialised /\ [Next]_vars => (Initialised \/ Listening \/ Over)'
    BY StageStep, StageStutter
  <2>2. TypeOK /\ LifeInv /\ OrderInv /\ StuckInv /\ Initialised /\ <<Running /\ Server>>_vars => (Listening \/ Over)'
    <3>1. ASSUME TypeOK, LifeInv, OrderInv, StuckInv, Initialised, Running /\ Server PROVE Next /\ ~Initialised'
      BY <3>1 DEF Next, Initialised, TypeOK, LifeInv, OrderInv, Running, Server, ServerReady, ServerStop, ServerStopped, ServerDone, mainVars, procVars
    <3> QED
      BY <3>1, StageStep
  <2>3. TypeOK /\ OrderInv /\ Initialised /\ Guards => ENABLED <<Running /\ Server>>_vars
    BY DEF OrderInv, Initialised, Guards, ServerGuard
  <2> QED
    BY <2>1, <2>2, <2>3, Ordered, PTL DEF FairSpec, Fairness, Spec
<1>3. FairSpec /\ []Guards => (Listening ~> Probing \/ Over)
  <2>1. TypeOK /\ LifeInv /\ OrderInv /\ StuckInv /\ Listening /\ [Next]_vars => (Listening \/ Probing \/ Over)'
    BY StageStep, StageStutter
  <2>2. TypeOK /\ LifeInv /\ OrderInv /\ StuckInv /\ Listening /\ <<Running /\ Listen>>_vars => (Probing \/ Over)'
    <3>1. ASSUME TypeOK, LifeInv, OrderInv, StuckInv, Listening, Running /\ Listen PROVE Next /\ ~Listening'
      BY <3>1 DEF Next, Listening, TypeOK, LifeInv, OrderInv, Running, Listen, mainVars, procVars
    <3> QED
      BY <3>1, StageStep
  <2>3. TypeOK /\ OrderInv /\ Listening /\ Guards => ENABLED <<Running /\ Listen>>_vars
    BY DEF OrderInv, Listening, Guards
  <2> QED
    BY <2>1, <2>2, <2>3, Ordered, PTL DEF FairSpec, Fairness, Spec
<1>4. FairSpec /\ []Guards => (Probing ~> Probed \/ Over)
  <2>1. TypeOK /\ LifeInv /\ OrderInv /\ StuckInv /\ Probing /\ [Next]_vars => (Probing \/ Probed \/ Over)'
    BY StageStep, StageStutter
  <2>2. TypeOK /\ LifeInv /\ OrderInv /\ StuckInv /\ Probing /\ <<Running /\ Probe>>_vars => (Probed \/ Over)'
    <3>1. ASSUME TypeOK, LifeInv, OrderInv, StuckInv, Probing, Running /\ Probe PROVE Next /\ ~Probing'
      BY <3>1 DEF Next, Probing, TypeOK, LifeInv, OrderInv, Running, Probe, mainVars, procVars
    <3> QED
      BY <3>1, StageStep
  <2>3. TypeOK /\ OrderInv /\ Probing /\ Guards => ENABLED <<Running /\ Probe>>_vars
    BY DEF OrderInv, Probing, Guards
  <2> QED
    BY <2>1, <2>2, <2>3, Ordered, PTL DEF FairSpec, Fairness, Spec
<1>5. FairSpec /\ []Guards => (Probed ~> Interrupted \/ Over)
  <2>1. TypeOK /\ LifeInv /\ OrderInv /\ StuckInv /\ Probed /\ [Next]_vars => (Probed \/ Interrupted \/ Over)'
    BY StageStep, StageStutter
  <2>2. TypeOK /\ LifeInv /\ OrderInv /\ StuckInv /\ Probed /\ <<Running /\ Command>>_vars => (Interrupted \/ Over)'
    <3>1. ASSUME TypeOK, LifeInv, OrderInv, StuckInv, Probed, Running /\ Command PROVE Next /\ ~Probed'
      BY <3>1 DEF Next, Probed, TypeOK, LifeInv, OrderInv, Running, Command, MainReady, MainInterrupt, MainExit, mainVars, procVars
    <3> QED
      BY <3>1, StageStep
  <2>3. TypeOK /\ OrderInv /\ Probed /\ Guards => ENABLED <<Running /\ Command>>_vars
    BY DEF OrderInv, Probed, Guards, CommandGuard
  <2> QED
    BY <2>1, <2>2, <2>3, Ordered, PTL DEF FairSpec, Fairness, Spec
<1>6. FairSpec /\ []Guards => (Interrupted ~> Cancelled \/ Over)
  <2>1. TypeOK /\ LifeInv /\ OrderInv /\ StuckInv /\ Interrupted /\ [Next]_vars => (Interrupted \/ Cancelled \/ Over)'
    BY StageStep, StageStutter
  <2>2. TypeOK /\ LifeInv /\ OrderInv /\ StuckInv /\ Interrupted /\ <<Running /\ Command>>_vars => (Cancelled \/ Over)'
    <3>1. ASSUME TypeOK, LifeInv, OrderInv, StuckInv, Interrupted, Running /\ Command PROVE Next /\ ~Interrupted'
      BY <3>1 DEF Next, Interrupted, TypeOK, LifeInv, OrderInv, Running, Command, MainReady, MainInterrupt, MainExit, mainVars, procVars
    <3> QED
      BY <3>1, StageStep
  <2>3. TypeOK /\ OrderInv /\ Interrupted /\ Guards => ENABLED <<Running /\ Command>>_vars
    BY DEF OrderInv, Interrupted, Guards, CommandGuard
  <2> QED
    BY <2>1, <2>2, <2>3, Ordered, PTL DEF FairSpec, Fairness, Spec
<1>7. FairSpec /\ []Guards => (Cancelled ~> Looping \/ InProcess \/ Left \/ Closing \/ Stopped \/ Over \/ Stuck)
  <2>1. TypeOK /\ LifeInv /\ OrderInv /\ StuckInv /\ Cancelled /\ [Next]_vars => (Cancelled \/ Looping \/ InProcess \/ Left \/ Closing \/ Stopped \/ Over \/ Stuck)'
    BY StageStep, StageStutter
  <2>2. TypeOK /\ LifeInv /\ OrderInv /\ StuckInv /\ Cancelled /\ <<Running /\ Server>>_vars => (Looping \/ InProcess \/ Left \/ Closing \/ Stopped \/ Over \/ Stuck)'
    <3>1. ASSUME TypeOK, LifeInv, OrderInv, StuckInv, Cancelled, Running /\ Server PROVE Next /\ ~Cancelled'
      BY <3>1 DEF Next, Cancelled, TypeOK, LifeInv, OrderInv, Running, Server, ServerReady, ServerStop, ServerStopped, ServerDone, mainVars, procVars
    <3> QED
      BY <3>1, StageStep
  <2>3. TypeOK /\ OrderInv /\ Cancelled /\ Guards => ENABLED <<Running /\ Server>>_vars
    BY DEF OrderInv, Cancelled, Guards, ServerGuard
  <2> QED
    BY <2>1, <2>2, <2>3, Ordered, PTL DEF FairSpec, Fairness, Spec
<1>8. FairSpec /\ []Guards => (Looping \/ InProcess ~> Left \/ Over \/ Stuck)
  <2>1. TypeOK /\ LifeInv /\ OrderInv /\ StuckInv /\ Looping /\ [Next]_vars => (Looping \/ InProcess \/ Left \/ Over)'
    BY StageStep, StageStutter
  <2>2. TypeOK /\ LifeInv /\ OrderInv /\ StuckInv /\ InProcess /\ [Next]_vars => (InProcess \/ Looping \/ Over \/ Stuck)'
    BY StageStep, StageStutter
  <2>3. TypeOK /\ LifeInv /\ OrderInv /\ StuckInv /\ InProcess /\ <<Running /\ Processing>>_vars => (Looping \/ Over \/ Stuck)'
    <3>1. ASSUME TypeOK, InProcess, Running /\ Processing PROVE Next /\ ~InProcess'
      BY <3>1 DEF Next, InProcess, TypeOK, Running, Receiver, Processing, ProcessPacket, GetSticks, mainVars, procVars
    <3> QED
      BY <3>1, StageStep
  <2>4. InProcess /\ Guards => ENABLED <<Running /\ Processing>>_vars
    BY DEF InProcess, Guards
  <2>5. OrderInv /\ Looping /\ <<Running /\ SelectCtx>>_vars => (Left \/ Over)'
    BY DEF OrderInv, Looping, Left, Over, Running, SelectCtx, mainVars, procVars
  <2>6. OrderInv /\ Looping /\ <<Running /\ LeaveLoop>>_vars => (Left \/ Over)'
    BY DEF OrderInv, Looping, Left, Over, Running, LeaveLoop, mainVars, procVars
  <2>7. OrderInv /\ Looping /\ Guards =>
          \/ ENABLED <<Running /\ SelectCtx>>_vars
          \/ ENABLED <<Running /\ LeaveLoop>>_vars
    BY DEF OrderInv, Looping, Guards
  <2>8. InProcess => ~(Running /\ SelectCtx) /\ ~(Running /\ LeaveLoop)
    BY DEF InProcess, SelectCtx, LeaveLoop
  <2> QED
    BY <2>1, <2>2, <2>3, <2>4, <2>5, <2>6, <2>7, <2>8, Ordered, PTL DEF FairSpec, Fairness, Spec
<1>9. FairSpec /\ []Guards => (Left ~> Closing \/ Over)
  <2>1. TypeOK /\ LifeInv /\ OrderInv /\ StuckInv /\ Left /\ [Next]_vars => (Left \/ Closing \/ Over)'
    BY StageStep, StageStutter
  <2>2. TypeOK /\ LifeInv /\ OrderInv /\ StuckInv /\ Left /\ <<Running /\ Process>>_vars => (Closing \/ Over)'
    <3>1. ASSUME TypeOK, LifeInv, OrderInv, StuckInv, Left, Running /\ Process PROVE Next /\ ~Left'
      BY <3>1 DEF Next, Left, TypeOK, LifeInv, OrderInv, Running, Process, ProcessInit, CloseConn, ProcessDone, mainVars, procVars
    <3> QED
      BY <3>1, StageStep
  <2>3. TypeOK /\ OrderInv /\ Left /\ Guards => ENABLED <<Running /\ Process>>_vars
    BY DEF OrderInv, Left, Guards, ProcessGuard
  <2> QED
    BY <2>1, <2>2, <2>3, Ordered, PTL DEF FairSpec, Fairness, Spec
<1>10. FairSpec /\ []Guards => (Closing ~> Stopped \/ Over)
  <2>1. TypeOK /\ LifeInv /\ OrderInv /\ StuckInv /\ Closing /\ [Next]_vars => (Closing \/ Stopped \/ Over)'
    BY StageStep, StageStutter
  <2>2. TypeOK /\ LifeInv /\ OrderInv /\ StuckInv /\ Closing /\ <<Running /\ Process>>_vars => (Stopped \/ Over)'
    <3>1. ASSUME TypeOK, LifeInv, OrderInv, StuckInv, Closing, Running /\ Process PROVE Next /\ ~Closing'
      BY <3>1 DEF Next, Closing, TypeOK, LifeInv, OrderInv, Running, Process, ProcessInit, CloseConn, ProcessDone, mainVars, procVars
    <3> QED
      BY <3>1, StageStep
  <2>3. TypeOK /\ OrderInv /\ Closing /\ Guards => ENABLED <<Running /\ Process>>_vars
    BY DEF OrderInv, Closing, Guards, ProcessGuard
  <2> QED
    BY <2>1, <2>2, <2>3, Ordered, PTL DEF FairSpec, Fairness, Spec
<1>11. FairSpec /\ []Guards => (Stopped ~> ShuttingDown \/ Over)
  <2>1. TypeOK /\ LifeInv /\ OrderInv /\ StuckInv /\ Stopped /\ [Next]_vars => (Stopped \/ ShuttingDown \/ Over)'
    BY StageStep, StageStutter
  <2>2. TypeOK /\ LifeInv /\ OrderInv /\ StuckInv /\ Stopped /\ <<Running /\ Server>>_vars => (ShuttingDown \/ Over)'
    <3>1. ASSUME TypeOK, LifeInv, OrderInv, StuckInv, Stopped, Running /\ Server PROVE Next /\ ~Stopped'
      BY <3>1 DEF Next, Stopped, TypeOK, LifeInv, OrderInv, Running, Server, ServerReady, ServerStop, ServerStopped, ServerDone, mainVars, procVars
    <3> QED
      BY <3>1, StageStep
  <2>3. TypeOK /\ OrderInv /\ Stopped /\ Guards => ENABLED <<Running /\ Server>>_vars
    BY DEF OrderInv, Stopped, Guards, ServerGuard
  <2> QED
    BY <2>1, <2>2, <2>3, Ordered, PTL DEF FairSpec, Fairness, Spec
<1>12. FairSpec /\ []Guards => (ShuttingDown ~> ShutDown \/ Over)
  <2>1. TypeOK /\ LifeInv /\ OrderInv /\ StuckInv /\ ShuttingDown /\ [Next]_vars => (ShuttingDown \/ ShutDown \/ Over)'
    BY StageStep, StageStutter
  <2>2. TypeOK /\ LifeInv /\ OrderInv /\ StuckInv /\ ShuttingDown /\ <<Running /\ Server>>_vars => (ShutDown \/ Over)'
    <3>1. ASSUME TypeOK, LifeInv, OrderInv, StuckInv, ShuttingDown, Running /\ Server PROVE Next /\ ~ShuttingDown'
      BY <3>1 DEF Next, ShuttingDown, TypeOK, LifeInv, OrderInv, Running, Server, ServerReady, ServerStop, ServerStopped, ServerDone, mainVars, procVars
    <3> QED
      BY <3>1, StageStep
  <2>3. TypeOK /\ OrderInv /\ ShuttingDown /\ Guards => ENABLED <<Running /\ Server>>_vars
    BY DEF OrderInv, ShuttingDown, Guards, ServerGuard
  <2> QED
    BY <2>1, <2>2, <2>3, Ordered, PTL DEF FairSpec, Fairness, Spec
<1>13. FairSpec /\ []Guards => (ShutDown ~> Over)
  <2>1. TypeOK /\ LifeInv /\ OrderInv /\ StuckInv /\ ShutDown /\ [Next]_vars => (ShutDown \/ Over)'
    BY StageStep, StageStutter
  <2>2. TypeOK /\ LifeInv /\ OrderInv /\ StuckInv /\ ShutDown /\ <<Running /\ Command>>_vars => Over'
    <3>1. ASSUME TypeOK, LifeInv, OrderInv, StuckInv, ShutDown, Running /\ Command PROVE Next /\ ~ShutDown'
      BY <3>1 DEF Next, ShutDown, TypeOK, LifeInv, OrderInv, Running, Command, MainReady, MainInterrupt, MainExit, mainVars, procVars
    <3> QED
      BY <3>1, StageStep
  <2>3. TypeOK /\ OrderInv /\ ShutDown /\ Guards => ENABLED <<Running /\ Command>>_vars
    BY DEF OrderInv, ShutDown, Guards, CommandGuard, Running, TypeOK
  <2> QED
    BY <2>1, <2>2, <2>3, Ordered, PTL DEF FairSpec, Fairness, Spec
<1>14. TypeOK /\ LifeInv /\ OrderInv /\ StuckInv /\ sig =>
         \/ Initialising \/ Initialised \/ Listening \/ Probing \/ Probed \/ Interrupted \/ Cancelled
         \/ Looping \/ InProcess \/ Left \/ Closing \/ Stopped \/ ShuttingDown \/ ShutDown \/ Over \/ Stuck
  BY DEF TypeOK, LifeInv, OrderInv, StuckInv, Running, Over, Stuck,
         Initialising, Initialised, Listening, Probing, Probed, Interrupted, Cancelled,
         Looping, InProcess, Left, Closing, Stopped, ShuttingDown, ShutDown
<1>15. FairSpec => [](TypeOK /\ LifeInv /\ OrderInv /\ StuckInv)
  BY Ordered, PTL DEF FairSpec
<1> QED
  BY <1>1, <1>2, <1>3, <1>4, <1>5, <1>6, <1>7, <1>8, <1>9, <1>10, <1>11, <1>12, <1>13, <1>14, <1>15, PTL DEF InterruptStops, Over, Stuck
=============================================================================
