-------------------------- MODULE Connection_proofs --------------------------
(***************************************************************************)
(* Theorems about Connection, for any number of sends and blocks and every *)
(* kind of connection: type correctness, the inductive invariant ConnInv,  *)
(* the safety properties that follow from it, the refinement of            *)
(* Transmission, and when Block returns.                                   *)
(***************************************************************************)
EXTENDS Connection, FiniteSetTheorems, TLAPS

\* GetPort works on the counter and on nothing else.
LEMMA GetPortStep ==
    ASSUME TypeOK, NEW s \in Sends, GetPort(s)
    PROVE  /\ writer[s]  \in {"port", "reset", "inc", "add", "ret"}
           /\ writer'[s] \in {"reset", "inc", "add", "ret", "build"}
           /\ \E w \in {"reset", "inc", "add", "ret", "build"} : writer' = [writer EXCEPT ![s] = w]
           /\ UNCHANGED <<kind, ctx, caller, watcher, result, done, chan1, chan2, block,
                          outmux, deadline, wire>>
<1> USE DEF TypeOK
<1>1. CASE GetPortTest(s)
  BY <1>1 DEF GetPortTest
<1>2. CASE GetPortReset(s) \/ GetPortInc(s)
  BY <1>2 DEF GetPortReset, GetPortInc
<1>3. CASE GetPortAdd(s) \/ GetPortReturn(s)
  BY <1>3 DEF GetPortAdd, GetPortReturn
<1> QED
  BY <1>1, <1>2, <1>3 DEF GetPort

\* Sends do not leave Counted, whose size is a number up to that of Sends.
LEMMA CountedSize ==
    ASSUME TypeOK
    PROVE  Cardinality(Counted) \in Nat /\ Cardinality(Counted) <= Cardinality(Sends)
           /\ IsFiniteSet(Counted) /\ Cardinality(Sends) \in Nat
<1>1. Counted \in SUBSET Sends
  BY DEF Counted
<1> QED
  BY <1>1, SendsAssumption, FS_Subset, FS_CardinalityType

LEMMA CountedStep ==
    ASSUME TypeOK, SendInv, [Next]_vars
    PROVE  /\ Counted \subseteq Counted'
           /\ IsFiniteSet(Counted') /\ Cardinality(Counted') \in Nat
           /\ Cardinality(Counted) <= Cardinality(Counted')
           /\ Cardinality(Counted') <= Cardinality(Sends)
<1> USE DEF TypeOK, Counted
<1>1. ASSUME NEW s \in Sends, Send(s) PROVE Counted \subseteq Counted'
  <2>1. writer[s] = "none" /\ \A t \in Sends \ {s} : writer'[t] = writer[t]
    BY <1>1 DEF Send, SendInv
  <2> QED
    BY <2>1
<1>2. ASSUME NEW s \in Sends, GetPort(s) PROVE Counted \subseteq Counted'
  BY <1>2 DEF GetPort, GetPortTest, GetPortReset, GetPortInc, GetPortAdd, GetPortReturn
<1>3. ASSUME NEW s \in Sends, Build(s) \/ Lock(s) \/ SetWriteDeadline(s) \/ Write(s) \/ Put(s)
      PROVE  Counted \subseteq Counted'
  <2>1. \E w \in {"lock", "deadline", "write", "put", "end"} : writer' = [writer EXCEPT ![s] = w]
    BY <1>3 DEF Build, Lock, SetWriteDeadline, Write, Put, Fail
  <2> QED
    BY <2>1
<1>4. ASSUME NEW s \in Sends, Watcher(s) \/ Select(s) PROVE writer' = writer
  BY <1>4 DEF Watcher, WatcherDone, WatcherCtx, WatcherPut, Select
<1>5. ASSUME NEW b \in Blocks, Block(b) \/ BlockLock(b) \/ BlockEnd(b) PROVE writer' = writer
  BY <1>5 DEF Block, BlockLock, BlockEnd
<1>6. ASSUME NEW p \in Sends \cup Blocks, ContextEnds(p) PROVE writer' = writer
  BY <1>6 DEF ContextEnds
<1>7. ASSUME UNCHANGED vars PROVE writer' = writer
  BY <1>7 DEF vars
<1>8. Counted \subseteq Counted'
  BY <1>1, <1>2, <1>3, <1>4, <1>5, <1>6, <1>7 DEF Next, Writer
<1>9. Counted' \in SUBSET Sends
  OBVIOUS
<1>10. IsFiniteSet(Counted') /\ Cardinality(Counted') <= Cardinality(Sends)
  BY <1>9, SendsAssumption, FS_Subset
<1> HIDE DEF Counted
<1>11. Cardinality(Counted) <= Cardinality(Counted')
  BY <1>8, <1>10, FS_Subset
<1> QED
  BY <1>8, <1>10, <1>11, FS_CardinalityType

\* PortInv is inductive: a send that increments the counter has read one that
\* was beyond MaxPort by no more than the sends that had written it, and adds
\* itself to them.
LEMMA PortStep ==
    ASSUME TypeOK, SendInv, PortInv, [Next]_vars
    PROVE  PortInv'
<1> DEFINE C == Cardinality(Counted)
           D == Cardinality(Counted')
<1>0. C \in Nat /\ D \in Nat /\ C <= D /\ cnt \in Nat /\ MaxPort \in Nat
  BY CountedSize, CountedStep, MaxPortAssumption DEF TypeOK, HighestPort
<1>1. ASSUME NEW s \in Sends, GetPort(s) PROVE PortInv'
  <2>1. CASE GetPortTest(s)
    <3>1. cnt' = cnt /\ port' = port
      BY <2>1 DEF GetPortTest
    <3>2. \A t \in Sends : writer'[t] \in {"add", "ret"} => writer[t] = writer'[t]
      BY <2>1 DEF GetPortTest, TypeOK
    <3> QED
      BY <1>0, <3>1, <3>2 DEF PortInv, TypeOK, HighestPort
  <2>2. CASE GetPortReset(s)
    <3>1. cnt' = 1 /\ port' = port /\ writer'[s] = "ret"
      BY <2>2 DEF GetPortReset, TypeOK
    <3>2. \A t \in Sends : writer'[t] = "add" => writer[t] = "add"
      BY <2>2 DEF GetPortReset, TypeOK
    <3>3. s \in Counted' /\ Counted' # {}
      BY <3>1 DEF Counted
    <3>4. D # 0
      BY <3>3, CountedStep, FS_EmptySet
    <3> QED
      BY <1>0, <3>1, <3>2, <3>4 DEF PortInv, TypeOK, HighestPort
  <2>3. CASE GetPortInc(s)
    <3>1. cnt' = cnt /\ port' = [port EXCEPT ![s] = cnt]
      BY <2>3 DEF GetPortInc
    <3>2. \A t \in Sends \ {s} : writer'[t] = writer[t]
      BY <2>3 DEF GetPortInc, TypeOK
    <3>3. writer'[s] = "add"
      BY <2>3 DEF GetPortInc, TypeOK
    <3> QED
      BY <1>0, <3>1, <3>2, <3>3 DEF PortInv, TypeOK, HighestPort
  <2>4. CASE GetPortAdd(s)
    <3>1. cnt' = port[s] + 1 /\ port' = port /\ writer[s] = "add" /\ writer'[s] = "ret"
      BY <2>4 DEF GetPortAdd, TypeOK
    <3>2. \A t \in Sends \ {s} : writer'[t] = writer[t]
      BY <2>4 DEF GetPortAdd, TypeOK
    <3>3. Counted' = Counted \cup {s} /\ s \notin Counted
      BY <3>1, <3>2 DEF Counted, TypeOK
    <3>4. D = C + 1
      BY <3>3, CountedSize, FS_AddElement
    <3>5. port[s] <= MaxPort + C /\ port[s] \in Nat
      BY <3>1 DEF PortInv, TypeOK, HighestPort
    <3> QED
      BY <1>0, <3>1, <3>2, <3>4, <3>5 DEF PortInv, TypeOK, HighestPort
  <2>5. CASE GetPortReturn(s)
    <3>1. cnt' = cnt /\ \A t \in Sends \ {s} : port'[t] = port[t]
      BY <2>5 DEF GetPortReturn, TypeOK
    <3>2. \A t \in Sends : writer'[t] \in {"add", "ret"} => t # s /\ writer[t] = writer'[t]
      BY <2>5 DEF GetPortReturn, TypeOK
    <3> QED
      BY <1>0, <3>1, <3>2 DEF PortInv, TypeOK, HighestPort
  <2> QED
    BY <1>1, <2>1, <2>2, <2>3, <2>4, <2>5 DEF GetPort
<1>2. ASSUME cnt' = cnt,
             \A t \in Sends : writer'[t] \in {"add", "ret"} => writer[t] = writer'[t] /\ port'[t] = port[t]
      PROVE  PortInv'
  BY <1>0, <1>2 DEF PortInv, TypeOK, HighestPort
<1>3. ASSUME NEW s \in Sends, Send(s) PROVE PortInv'
  BY <1>2, <1>3 DEF Send, FirstStep, TypeOK
<1>4. ASSUME NEW s \in Sends, Build(s) PROVE PortInv'
  BY <1>2, <1>4 DEF Build, Fail, TypeOK
<1>5. ASSUME NEW s \in Sends, Lock(s) \/ SetWriteDeadline(s) \/ Write(s) \/ Put(s) PROVE PortInv'
  BY <1>2, <1>5 DEF Lock, SetWriteDeadline, Write, Put, Fail, TypeOK
<1>6. ASSUME NEW s \in Sends, Watcher(s) \/ Select(s) PROVE PortInv'
  BY <1>2, <1>6 DEF Watcher, WatcherDone, WatcherCtx, WatcherPut, Select
<1>7. ASSUME NEW b \in Blocks, Block(b) \/ BlockLock(b) \/ BlockEnd(b) PROVE PortInv'
  BY <1>2, <1>7 DEF Block, BlockLock, BlockEnd
<1>8. ASSUME NEW p \in Sends \cup Blocks, ContextEnds(p) PROVE PortInv'
  BY <1>2, <1>8 DEF ContextEnds
<1>9. CASE UNCHANGED vars
  BY <1>2, <1>9 DEF vars
<1> QED
  BY <1>1, <1>3, <1>4, <1>5, <1>6, <1>7, <1>8, <1>9 DEF Next, Writer

\* Every step keeps the types: GetPort's counter, too, stays within its range.
LEMMA TypeStep == ASSUME TypeOK, SendInv, PortInv, [Next]_vars PROVE TypeOK'
<1> USE DEF TypeOK
<1>1. ASSUME NEW s \in Sends, Send(s) PROVE TypeOK'
  BY <1>1 DEF Send, FirstStep
<1>2. ASSUME NEW s \in Sends, GetPort(s) PROVE TypeOK'
  <2>1. cnt' \in Nat
    BY <1>2 DEF GetPort, GetPortTest, GetPortReset, GetPortInc, GetPortAdd, GetPortReturn, HighestPort
  <2>2. cnt' <= MaxPort + Cardinality(Counted')
    BY PortStep DEF PortInv
  <2>3. cnt' \in 0..HighestPort
    BY <2>1, <2>2, CountedSize, CountedStep, MaxPortAssumption DEF HighestPort
  <2>4. port' \in [Sends -> 0..HighestPort]
    BY <1>2 DEF GetPort, GetPortTest, GetPortReset, GetPortInc, GetPortAdd, GetPortReturn
  <2>5. \A t \in Sends \ {s} : writer'[t] = writer[t] /\ port'[t] = port[t]
    BY <1>2 DEF GetPort, GetPortTest, GetPortReset, GetPortInc, GetPortAdd, GetPortReturn
  <2>6. writer'[s] = "build" => port'[s] > 0
    BY <1>2 DEF GetPort, GetPortTest, GetPortReset, GetPortInc, GetPortAdd, GetPortReturn, PortInv
  <2> QED
    BY <1>2, <2>3, <2>4, <2>5, <2>6, GetPortStep
<1>3. HighestPort \in Nat
  BY MaxPortAssumption, CountedSize DEF HighestPort
<1>4. ASSUME NEW s \in Sends, Build(s) \/ Lock(s) \/ SetWriteDeadline(s) PROVE TypeOK'
  BY <1>3, <1>4 DEF Build, Lock, SetWriteDeadline, Fail
<1>5. ASSUME NEW s \in Sends, Write(s) \/ Put(s) PROVE TypeOK'
  BY <1>5 DEF Write, Put
<1>6. ASSUME NEW s \in Sends, Watcher(s) PROVE TypeOK'
  BY <1>6 DEF Watcher, WatcherDone, WatcherCtx, WatcherPut
<1>7. ASSUME NEW s \in Sends, Select(s) PROVE TypeOK'
  BY <1>7 DEF Select
<1>8. ASSUME NEW b \in Blocks, Block(b) \/ BlockLock(b) \/ BlockEnd(b) PROVE TypeOK'
  BY <1>8 DEF Block, BlockLock, BlockEnd
<1>9. ASSUME NEW p \in Sends \cup Blocks, ContextEnds(p) PROVE TypeOK'
  BY <1>9 DEF ContextEnds
<1>10. CASE UNCHANGED vars
  BY <1>10 DEF vars
<1> QED
  BY <1>1, <1>2, <1>3, <1>4, <1>5, <1>6, <1>7, <1>8, <1>9, <1>10 DEF Next, Writer

\* MutexInv is inductive: only the goroutine that locked outmux sets the
\* deadline and writes, and a block unlocks it after the end of its context.
LEMMA MutexStep ==
    ASSUME TypeOK, MutexInv, SendInv, [Next]_vars
    PROVE  MutexInv'
<1> USE CallsAssumption DEF TypeOK, MutexInv
<1>1. ASSUME NEW s \in Sends, Send(s) \/ GetPort(s) \/ Build(s)
      PROVE  MutexInv'
  <2>1. writer'[s] \notin {"deadline", "write"}
    BY <1>1, GetPortStep DEF Send, FirstStep, Build, Fail
  <2>2. \A t \in Sends \ {s} : writer'[t] = writer[t]
    BY <1>1, GetPortStep DEF Send, Build, Fail
  <2>3. UNCHANGED <<outmux, block, ctx>>
    BY <1>1, GetPortStep DEF Send, Build
  <2>4. outmux # s
    BY <1>1, GetPortStep DEF Send, Build, SendInv
  <2> QED
    BY <2>1, <2>2, <2>3, <2>4
<1>2. ASSUME NEW s \in Sends, Lock(s) PROVE MutexInv'
  BY <1>2 DEF Lock
<1>3. ASSUME NEW s \in Sends, SetWriteDeadline(s) \/ Write(s) PROVE MutexInv'
  BY <1>3 DEF SetWriteDeadline, Write, Fail
<1>4. ASSUME NEW s \in Sends, Put(s) PROVE MutexInv'
  BY <1>4 DEF Put
<1>5. ASSUME NEW s \in Sends, Watcher(s) \/ Select(s) PROVE MutexInv'
  BY <1>5 DEF Watcher, WatcherDone, WatcherCtx, WatcherPut, Select
<1>6. ASSUME NEW b \in Blocks, Block(b) PROVE MutexInv'
  BY <1>6 DEF Block
<1>7. ASSUME NEW b \in Blocks, BlockLock(b) PROVE MutexInv'
  BY <1>7 DEF BlockLock
<1>8. ASSUME NEW b \in Blocks, BlockEnd(b) PROVE MutexInv'
  BY <1>8 DEF BlockEnd
<1>9. ASSUME NEW p \in Sends \cup Blocks, ContextEnds(p) PROVE MutexInv'
  BY <1>9 DEF ContextEnds
<1>10. CASE UNCHANGED vars
  BY <1>10 DEF vars
<1> QED
  BY <1>1, <1>2, <1>3, <1>4, <1>5, <1>6, <1>7, <1>8, <1>9, <1>10 DEF Next, Writer

\* SendInv is inductive: a writer reports once and only what the write gave,
\* and the watcher reports an error only after the context has ended.
LEMMA SendStep ==
    ASSUME TypeOK, SendInv, [Next]_vars
    PROVE  SendInv'
<1> USE CallsAssumption DEF TypeOK, SendInv
<1>1. ASSUME NEW s \in Sends, Send(s) \/ GetPort(s) PROVE SendInv'
  BY <1>1, GetPortStep DEF Send, FirstStep
<1>2. ASSUME NEW s \in Sends, Build(s) \/ Lock(s) PROVE SendInv'
  BY <1>2 DEF Build, Lock, Fail
<1>3. ASSUME NEW s \in Sends, SetWriteDeadline(s) PROVE SendInv'
  BY <1>3 DEF SetWriteDeadline, Fail
<1>4. ASSUME NEW s \in Sends, Write(s) PROVE SendInv'
  BY <1>4 DEF Write
<1>5. ASSUME NEW s \in Sends, Put(s) PROVE SendInv'
  BY <1>5 DEF Put
<1>6. ASSUME NEW s \in Sends, Watcher(s) PROVE SendInv'
  BY <1>6 DEF Watcher, WatcherDone, WatcherCtx, WatcherPut
<1>7. ASSUME NEW s \in Sends, Select(s) PROVE SendInv'
  BY <1>7 DEF Select
<1>8. ASSUME NEW b \in Blocks, Block(b) \/ BlockLock(b) \/ BlockEnd(b) PROVE SendInv'
  BY <1>8 DEF Block, BlockLock, BlockEnd
<1>9. ASSUME NEW p \in Sends \cup Blocks, ContextEnds(p) PROVE SendInv'
  BY <1>9 DEF ContextEnds
<1>10. CASE UNCHANGED vars
  BY <1>10 DEF vars
<1> QED
  BY <1>1, <1>2, <1>3, <1>4, <1>5, <1>6, <1>7, <1>8, <1>9, <1>10 DEF Next, Writer

\* ErrorInv is inductive: chan2 loses no error and invents none.
LEMMA ErrorStep ==
    ASSUME TypeOK, SendInv, ErrorInv, [Next]_vars
    PROVE  ErrorInv'
<1> USE DEF TypeOK, ErrorInv, Count, Errors
<1>1. ASSUME NEW s \in Sends, Send(s) PROVE ErrorInv'
  BY <1>1 DEF Send, FirstStep, SendInv
<1>2. ASSUME NEW s \in Sends,
            GetPort(s) \/ Build(s) \/ Lock(s) \/ SetWriteDeadline(s) \/ Write(s)
      PROVE  ErrorInv'
  <2>1. writer[s] # "end" /\ writer'[s] # "end"
    BY <1>2, GetPortStep DEF Build, Lock, SetWriteDeadline, Write, Fail
  <2>2. \A t \in Sends \ {s} : writer'[t] = writer[t] /\ result'[t] = result[t]
    BY <1>2, GetPortStep DEF Build, Lock, SetWriteDeadline, Write, Fail
  <2>3. UNCHANGED <<chan2, caller, watcher>>
    BY <1>2, GetPortStep DEF Build, Lock, SetWriteDeadline, Write
  <2> QED
    BY <2>1, <2>2, <2>3
<1>3. ASSUME NEW s \in Sends, Put(s) PROVE ErrorInv'
  <2>1. /\ writer[s] = "put" /\ writer' = [writer EXCEPT ![s] = "end"]
        /\ UNCHANGED <<caller, watcher, result>>
    BY <1>3 DEF Put
  <2>2. CASE result[s] = "ok" /\ chan2' = chan2
    BY <2>1, <2>2
  <2>3. CASE result[s] \in Errors /\ chan2[s] = 0 /\ chan2' = [chan2 EXCEPT ![s] = 1]
    <3>1. chan2'[s] = chan2[s] + 1 /\ writer'[s] = "end" /\ writer[s] # "end"
      BY <2>1, <2>3
    <3>2. \A t \in Sends \ {s} : chan2'[t] = chan2[t] /\ writer'[t] = writer[t]
      BY <2>1, <2>3
    <3>3. chan2'[s] + Count(caller'[s] = "error") =
            Count(writer'[s] = "end" /\ result'[s] \in Errors) + Count(watcher'[s] = "sent")
      BY <2>1, <2>3, <3>1
    <3>4. ASSUME NEW t \in Sends, t # s
          PROVE  chan2'[t] + Count(caller'[t] = "error") =
                   Count(writer'[t] = "end" /\ result'[t] \in Errors) + Count(watcher'[t] = "sent")
      BY <2>1, <3>2, <3>4
    <3> QED
      BY <3>3, <3>4
  <2> QED
    BY <1>3, <2>2, <2>3 DEF Put
<1>4. ASSUME NEW s \in Sends, WatcherDone(s) \/ WatcherCtx(s) PROVE ErrorInv'
  <2>1. UNCHANGED <<chan2, caller, writer, result>>
    BY <1>4 DEF WatcherDone, WatcherCtx
  <2>2. \A t \in Sends : watcher'[t] = "sent" <=> watcher[t] = "sent"
    BY <1>4 DEF WatcherDone, WatcherCtx
  <2> QED
    BY <2>1, <2>2
<1>5. ASSUME NEW s \in Sends, WatcherPut(s) PROVE ErrorInv'
  BY <1>5 DEF WatcherPut
<1>6. ASSUME NEW s \in Sends, Select(s) PROVE ErrorInv'
  BY <1>6 DEF Select
<1>7. ASSUME NEW b \in Blocks, Block(b) \/ BlockLock(b) \/ BlockEnd(b) PROVE ErrorInv'
  BY <1>7 DEF Block, BlockLock, BlockEnd
<1>8. ASSUME NEW p \in Sends \cup Blocks, ContextEnds(p) PROVE ErrorInv'
  BY <1>8 DEF ContextEnds
<1>9. CASE UNCHANGED vars
  BY <1>9 DEF vars
<1> QED
  BY <1>1, <1>2, <1>3, <1>4, <1>5, <1>6, <1>7, <1>8, <1>9 DEF Next, Writer, Watcher

\* Aborted and Cancelled are finite.
LEMMA CancelSizes ==
    /\ IsFiniteSet(Aborted) /\ Cardinality(Aborted) \in Nat
    /\ IsFiniteSet(Cancelled) /\ Cardinality(Cancelled) \in Nat
<1>1. Aborted \in SUBSET Sends /\ Cancelled \in SUBSET Sends
  BY DEF Aborted, Cancelled
<1> QED
  BY <1>1, SendsAssumption, FS_Subset, FS_CardinalityType

\* DeadlineInv is inductive: the deadline is set again between two writes, a
\* watcher moves it once, and only the holder of outmux is in a write.
LEMMA DeadlineStep ==
    ASSUME TypeOK, MutexInv, SendInv, DeadlineInv, [Next]_vars
    PROVE  DeadlineInv'
<1> DEFINE Doomed == deadline = "past" /\ \E s \in Sends : writer[s] = "write"
<1> USE DEF TypeOK
<1>0. Count(Doomed) \in {0, 1} /\ Count(Doomed') \in {0, 1}
  BY DEF Count
<1>1. ASSUME Aborted' = Aborted, Cancelled' = Cancelled, Doomed' => Doomed
      PROVE  DeadlineInv'
  <2>1. Count(Doomed') <= Count(Doomed)
    BY <1>1 DEF Count
  <2> QED
    BY <1>0, <1>1, <2>1, CancelSizes DEF DeadlineInv
<1>2. ASSUME NEW s \in Sends, Send(s) PROVE DeadlineInv'
  <2>1. Doomed' => Doomed
    BY <1>2 DEF Send, FirstStep
  <2>2. Aborted' = Aborted
    BY <1>2 DEF Send, Aborted
  <2>3. Cancelled' = Cancelled
    BY <1>2 DEF Send, Cancelled, SendInv
  <2> QED
    BY <1>1, <2>1, <2>2, <2>3
<1>3. ASSUME NEW s \in Sends, GetPort(s) \/ Build(s) \/ Lock(s) \/ SetWriteDeadline(s) \/ Put(s)
      PROVE  DeadlineInv'
  <2>1. Doomed' => Doomed
    <3>1. CASE GetPort(s)
      BY <3>1, GetPortStep
    <3>2. CASE Build(s) \/ Lock(s) \/ Put(s)
      BY <3>2 DEF Build, Lock, Put, Fail
    <3>3. CASE SetWriteDeadline(s)
      BY <3>3 DEF SetWriteDeadline, Fail
    <3> QED
      BY <1>3, <3>1, <3>2, <3>3
  <2>2. Aborted' = Aborted
    BY <1>3, GetPortStep DEF Build, Lock, SetWriteDeadline, Put, Fail, Aborted, SendInv
  <2>3. Cancelled' = Cancelled
    BY <1>3, GetPortStep DEF Build, Lock, SetWriteDeadline, Put, Cancelled
  <2> QED
    BY <1>1, <2>1, <2>2, <2>3
<1>4. ASSUME NEW s \in Sends, Write(s) PROVE DeadlineInv'
  <2>1. writer[s] = "write" /\ deadline' = deadline /\ writer' = [writer EXCEPT ![s] = "put"]
    BY <1>4 DEF Write
  <2>2. outmux = s
    BY <2>1 DEF MutexInv
  <2>3. ~Doomed'
    BY <2>1, <2>2 DEF MutexInv
  <2>4. Cancelled' = Cancelled
    BY <1>4 DEF Write, Cancelled
  <2>5. CASE result' = [result EXCEPT ![s] = "aborted"] /\ deadline = "past"
    <3>1. Doomed
      BY <2>1, <2>5
    <3>2. Aborted' = Aborted \cup {s} /\ s \notin Aborted
      BY <2>1, <2>5 DEF Aborted, SendInv
    <3>3. Cardinality(Aborted') = Cardinality(Aborted) + 1
      BY <3>2, CancelSizes, FS_AddElement
    <3>4. Count(Doomed) = 1 /\ Count(Doomed') = 0
      BY <3>1, <2>3 DEF Count
    <3> QED
      BY <2>4, <3>3, <3>4, CancelSizes DEF DeadlineInv
  <2>6. CASE \E x \in {"ok", "failed"} : result' = [result EXCEPT ![s] = x]
    <3>1. Aborted' = Aborted
      BY <2>1, <2>6 DEF Aborted, SendInv
    <3> QED
      BY <1>1, <2>3, <2>4, <3>1
  <2> QED
    BY <1>4, <2>5, <2>6 DEF Write
<1>5. ASSUME NEW s \in Sends, WatcherCtx(s) PROVE DeadlineInv'
  <2>1. Cancelled' = Cancelled \cup {s} /\ s \notin Cancelled
    BY <1>5 DEF WatcherCtx, Cancelled
  <2>2. Cardinality(Cancelled') = Cardinality(Cancelled) + 1
    BY <2>1, CancelSizes, FS_AddElement
  <2>3. Aborted' = Aborted
    BY <1>5 DEF WatcherCtx, Aborted
  <2> QED
    BY <1>0, <2>2, <2>3, CancelSizes DEF DeadlineInv
<1>6. ASSUME NEW s \in Sends, WatcherDone(s) \/ WatcherPut(s) \/ Select(s) PROVE DeadlineInv'
  <2>1. Cancelled' = Cancelled
    BY <1>6 DEF WatcherDone, WatcherPut, Select, Cancelled
  <2>2. Aborted' = Aborted /\ (Doomed' => Doomed)
    BY <1>6 DEF WatcherDone, WatcherPut, Select, Aborted
  <2> QED
    BY <1>1, <2>1, <2>2
<1>7. ASSUME NEW b \in Blocks, Block(b) \/ BlockLock(b) \/ BlockEnd(b) PROVE DeadlineInv'
  BY <1>1, <1>7 DEF Block, BlockLock, BlockEnd, Aborted, Cancelled
<1>8. ASSUME NEW p \in Sends \cup Blocks, ContextEnds(p) PROVE DeadlineInv'
  BY <1>1, <1>8 DEF ContextEnds, Aborted, Cancelled
<1>9. CASE UNCHANGED vars
  BY <1>1, <1>9 DEF vars, Aborted, Cancelled
<1> QED
  BY <1>2, <1>3, <1>4, <1>5, <1>6, <1>7, <1>8, <1>9 DEF Next, Writer, Watcher

\* The inductive invariant of Send and Block holds in every behaviour.
THEOREM Inductive == Spec => [](TypeOK /\ ConnInv)
<1>1. ASSUME Init PROVE TypeOK /\ ConnInv
  <2>1. Cardinality(Sends) \in Nat
    BY SendsAssumption, FS_CardinalityType
  <2>2. TypeOK
    BY <1>1, <2>1, MaxPortAssumption DEF Init, TypeOK, HighestPort
  <2>3. Aborted = {}
    BY <1>1 DEF Init, Aborted
  <2>4. DeadlineInv
    BY <1>1, <2>3, CancelSizes, FS_EmptySet DEF Init, DeadlineInv, Count
  <2>5. PortInv
    BY <1>1, <2>2, CountedSize, MaxPortAssumption DEF Init, PortInv
  <2>6. MutexInv /\ ErrorInv /\ SendInv
    BY <1>1, CallsAssumption DEF Init, MutexInv, ErrorInv, SendInv, Count
  <2> QED
    BY <2>2, <2>4, <2>5, <2>6 DEF ConnInv
<1>2. TypeOK /\ ConnInv /\ [Next]_vars => TypeOK' /\ ConnInv'
  BY TypeStep, MutexStep, SendStep, ErrorStep, DeadlineStep, PortStep DEF ConnInv
<1> QED
  BY <1>1, <1>2, PTL DEF Spec

\* Type correctness, for any number of sends and blocks: the counter that
\* racing calls of GetPort share stays within its range, too.
THEOREM TypeCorrect == Spec => []TypeOK
  BY Inductive, PTL

\* After Block has returned no packet leaves before the end of its context.
THEOREM TrafficBlocked == Spec => BlockedTraffic
<1>1. TypeOK /\ ConnInv /\ [Next]_vars => [Quiet]_vars
  <2> SUFFICES ASSUME TypeOK, MutexInv, [Next]_vars,
                      NEW b \in Blocks, block[b] \in {"held", "end"}, b \notin ctx
               PROVE  wire' = wire
    BY DEF ConnInv, Quiet
  <2>1. outmux = b
    BY DEF MutexInv
  <2>2. ASSUME NEW s \in Sends PROVE ~Write(s)
    BY <2>1, CallsAssumption DEF MutexInv, Write
  <2>3. CASE UNCHANGED vars
    BY <2>3 DEF vars
  <2>4. ASSUME NEW s \in Sends, Send(s) \/ Writer(s) \/ Watcher(s) \/ Select(s)
        PROVE  wire' = wire
    BY <2>2, <2>4, GetPortStep DEF Writer, Watcher, Send, Build, Lock, SetWriteDeadline, Put,
       WatcherDone, WatcherCtx, WatcherPut, Select
  <2>5. ASSUME NEW c \in Blocks, Block(c) \/ BlockLock(c) \/ BlockEnd(c) PROVE wire' = wire
    BY <2>5 DEF Block, BlockLock, BlockEnd
  <2>6. ASSUME NEW p \in Sends \cup Blocks, ContextEnds(p) PROVE wire' = wire
    BY <2>6 DEF ContextEnds
  <2> QED
    BY <2>3, <2>4, <2>5, <2>6 DEF Next
<1> QED
  BY <1>1, Inductive, PTL DEF Spec, BlockedTraffic

\* Send tells the truth: a success is a written packet, and an error under a
\* live context is a packet that will not be written.
THEOREM HonestResults == Spec => []ResultHonest
<1>1. TypeOK /\ ConnInv => ResultHonest
  <2> SUFFICES ASSUME TypeOK, ErrorInv, SendInv, NEW s \in Sends
               PROVE  /\ caller[s] = "ok" => s \in wire
                      /\ caller[s] = "error" /\ s \notin ctx => s \notin wire /\ writer[s] = "end"
    BY DEF ConnInv, ResultHonest
  <2>1. caller[s] = "ok" => s \in wire
    BY DEF SendInv
  <2>2. ASSUME caller[s] = "error", s \notin ctx PROVE s \notin wire /\ writer[s] = "end"
    <3>1. watcher[s] # "sent"
      BY <2>2 DEF SendInv
    <3>2. chan2[s] \in {0, 1}
      BY DEF TypeOK
    <3>3. chan2[s] + 1 = Count(writer[s] = "end" /\ result[s] \in Errors) + 0
      BY <2>2, <3>1 DEF ErrorInv, Count
    <3>4. writer[s] = "end" /\ result[s] \in Errors
      BY <3>2, <3>3 DEF Count
    <3> QED
      BY <3>4 DEF SendInv, Errors
  <2> QED
    BY <2>1, <2>2
<1> QED
  BY <1>1, Inductive, PTL

\* The two goroutines of a Send never wait for chan2 in vain while their
\* caller listens, nor after it got a result: only a caller that left because
\* of its context can leave one of them, and with it outmux, stuck.
THEOREM StuckOnlyAfterTimeout == Spec => []StuckNeedsTimeout
<1>1. TypeOK /\ ConnInv => StuckNeedsTimeout
  <2> SUFFICES ASSUME TypeOK, ErrorInv, SendInv, NEW s \in Sends, Stuck(s), caller[s] # "ctx"
               PROVE  FALSE
    BY DEF ConnInv, StuckNeedsTimeout
  <2>1. caller[s] \in {"idle", "ok", "error"}
    BY DEF Stuck, TypeOK
  <2>2. caller[s] # "idle"
    BY DEF Stuck, SendInv
  <2>3. CASE caller[s] = "ok"
    <3>1. writer[s] = "end" /\ result[s] = "ok" /\ watcher[s] = "put"
      BY <2>3 DEF SendInv, Stuck
    <3> QED
      BY <3>1, <2>3 DEF ErrorInv, Count, Stuck, Errors
  <2>4. CASE caller[s] = "error"
    <3>1. Count(writer[s] = "end" /\ result[s] \in Errors) + Count(watcher[s] = "sent") = 2
      BY <2>4 DEF ErrorInv, Count, Stuck
    <3>2. writer[s] = "end" /\ watcher[s] = "sent"
      BY <3>1 DEF Count
    <3> QED
      BY <3>2 DEF Stuck
  <2> QED
    BY <2>1, <2>2, <2>3, <2>4
<1> QED
  BY <1>1, Inductive, PTL

\* The context of a send aborts one write at most, its own or another's.
THEOREM AbortsLimited == Spec => []OneAbortPerCancel
<1>1. TypeOK /\ ConnInv => OneAbortPerCancel
  BY CancelSizes DEF ConnInv, DeadlineInv, OneAbortPerCancel, Count
<1> QED
  BY <1>1, Inductive, PTL

-----------------------------------------------------------------------------
(* The refinement                                                          *)

\* The writer's steps that decide nothing, and the watcher's.
LEMMA InnerStep ==
    ASSUME TypeOK, SendInv, NEW s \in Sends,
           \/ GetPort(s) \/ Lock(s) \/ Put(s)
           \/ WatcherDone(s) \/ WatcherCtx(s) \/ WatcherPut(s)
    PROVE  UNCHANGED (Promise!vars)
  BY GetPortStep DEF Lock, Put, WatcherDone, WatcherCtx, WatcherPut, Promise!vars

\* A writer that gives up: its packet has not been and will not be sent.
LEMMA FailStep ==
    ASSUME TypeOK, SendInv, NEW s \in Sends,
           NEW e \in Errors, UNCHANGED <<caller, ctx, wire, block>>,
           result' = [result EXCEPT ![s] = e], caller[s] # "idle", s \notin wire
    PROVE  Promise!Fail(s)
<1>1. {t \in Sends : result'[t] \in Errors} = {t \in Sends : result[t] \in Errors} \cup {s}
  BY DEF TypeOK
<1> QED
  BY <1>1 DEF Promise!Fail

\* Every step of a connection is a step of Transmission or none at all.
LEMMA TransmissionStep ==
    ASSUME TypeOK, ConnInv, [Next]_vars
    PROVE  [Promise!Next]_(Promise!vars)
<1> USE CallsAssumption DEF TypeOK
<1>1. ASSUME NEW s \in Sends, Send(s) PROVE [Promise!Next]_(Promise!vars)
  <2>1. Promise!Begin(s)
    BY <1>1 DEF Send, Promise!Begin
  <2> QED
    BY <2>1 DEF Promise!Next
<1>2. ASSUME NEW s \in Sends, writer[s] \in {"build", "deadline", "write"}
      PROVE  caller[s] # "idle" /\ s \notin wire /\ result[s] = "none"
  BY <1>2 DEF ConnInv, SendInv
<1>3. ASSUME NEW s \in Sends, Build(s) PROVE [Promise!Next]_(Promise!vars)
  <2>1. UNCHANGED <<caller, ctx, wire, block>> /\ writer[s] = "build"
    BY <1>3 DEF Build
  <2>2. CASE result' = result
    BY <2>1, <2>2 DEF Promise!vars
  <2>3. CASE result' = [result EXCEPT ![s] = "failed"]
    BY <1>2, <2>1, <2>3, FailStep DEF Promise!Next, ConnInv, Errors
  <2> QED
    BY <1>3, <2>2, <2>3 DEF Build, Fail
<1>4. ASSUME NEW s \in Sends, SetWriteDeadline(s) PROVE [Promise!Next]_(Promise!vars)
  <2>1. UNCHANGED <<caller, ctx, wire, block>> /\ writer[s] = "deadline"
    BY <1>4 DEF SetWriteDeadline
  <2>2. CASE result' = result
    BY <2>1, <2>2 DEF Promise!vars
  <2>3. CASE result' = [result EXCEPT ![s] = "failed"]
    BY <1>2, <2>1, <2>3, FailStep DEF Promise!Next, ConnInv, Errors
  <2> QED
    BY <1>4, <2>2, <2>3 DEF SetWriteDeadline, Fail
<1>5. ASSUME NEW s \in Sends, Write(s) PROVE [Promise!Next]_(Promise!vars)
  <2>1. UNCHANGED <<caller, ctx, block>> /\ writer[s] = "write"
    BY <1>5 DEF Write
  <2>2. CASE wire' = wire \cup {s} /\ result' = [result EXCEPT ![s] = "ok"]
    <3>1. outmux = s
      BY <2>1 DEF ConnInv, MutexInv
    <3>2. {b \in Blocks : block[b] = "held"} = {}
      BY <3>1 DEF ConnInv, MutexInv
    <3>3. {t \in Sends : result'[t] \in Errors} = {t \in Sends : result[t] \in Errors}
      BY <1>2, <2>1, <2>2 DEF Errors
    <3>4. Promise!Transmit(s)
      BY <1>2, <2>1, <2>2, <3>2, <3>3 DEF Promise!Transmit, Errors
    <3> QED
      BY <3>4 DEF Promise!Next
  <2>3. CASE wire' = wire /\ \E e \in Errors : result' = [result EXCEPT ![s] = e]
    BY <1>2, <2>1, <2>3, FailStep DEF Promise!Next, ConnInv, Errors
  <2> QED
    BY <1>5, <2>2, <2>3 DEF Write, Errors
<1>6. ASSUME NEW s \in Sends, Select(s) PROVE [Promise!Next]_(Promise!vars)
  <2>1. /\ caller[s] = "select" /\ UNCHANGED <<ctx, wire, result, block>>
        /\ \E c \in {"ok", "error", "ctx"} :
             /\ caller' = [caller EXCEPT ![s] = c]
             /\ c = "ok" => chan1[s] = 1
             /\ c = "error" => chan2[s] = 1
             /\ c = "ctx" => s \in ctx
    BY <1>6 DEF Select
  <2>2. chan1[s] = 1 => s \in wire
    BY DEF ConnInv, SendInv
  <2>3. chan2[s] = 1 => result[s] \in Errors \/ s \in ctx
    <3>1. chan2[s] = 1 => result[s] \in Errors \/ watcher[s] = "sent"
      BY DEF ConnInv, ErrorInv, Count
    <3> QED
      BY <3>1 DEF ConnInv, SendInv
  <2>4. Promise!Report(s)
    BY <2>1, <2>2, <2>3 DEF Promise!Report
  <2> QED
    BY <2>4 DEF Promise!Next
<1>7. ASSUME NEW b \in Blocks, Block(b) PROVE [Promise!Next]_(Promise!vars)
  <2>1. {c \in Blocks : block'[c] = "held"} = {c \in Blocks : block[c] = "held"}
    BY <1>7 DEF Block
  <2> QED
    BY <1>7, <2>1 DEF Block, Promise!vars
<1>8. ASSUME NEW b \in Blocks, BlockLock(b) PROVE [Promise!Next]_(Promise!vars)
  <2>1. {c \in Blocks : block[c] = "held"} = {}
    BY <1>8 DEF BlockLock, ConnInv, MutexInv
  <2>2. {c \in Blocks : block'[c] = "held"} = {b}
    BY <1>8, <2>1 DEF BlockLock
  <2>3. Promise!Start(b)
    BY <1>8, <2>1, <2>2 DEF BlockLock, Promise!Start
  <2> QED
    BY <2>3 DEF Promise!Next
<1>9. ASSUME NEW b \in Blocks, BlockEnd(b) PROVE [Promise!Next]_(Promise!vars)
  <2>1. {c \in Blocks : block'[c] = "held"} = {c \in Blocks : block[c] = "held"} \ {b}
    BY <1>9 DEF BlockEnd
  <2>2. Promise!Finish(b)
    BY <1>9, <2>1 DEF BlockEnd, Promise!Finish
  <2> QED
    BY <2>2 DEF Promise!Next
<1>10. ASSUME NEW p \in Sends \cup Blocks, ContextEnds(p) PROVE [Promise!Next]_(Promise!vars)
  <2>1. Promise!End(p)
    BY <1>10 DEF ContextEnds, Promise!End
  <2> QED
    BY <2>1 DEF Promise!Next
<1>11. CASE UNCHANGED vars
  BY <1>11 DEF vars, Promise!vars
<1> QED
  BY <1>1, <1>3, <1>4, <1>5, <1>6, <1>7, <1>8, <1>9, <1>10, <1>11, InnerStep
  DEF Next, Writer, Watcher, ConnInv

\* Send and Block of every kind of connection implement Transmission: a packet
\* leaves at most once and never while traffic is blocked, and what the
\* selects of client.go are told of it is true.
THEOREM Implements == Spec => ImplementsTransmission
<1>1. Init => Promise!Init
  BY DEF Init, Promise!Init, Errors
<1>2. TypeOK /\ ConnInv /\ [Next]_vars => [Promise!Next]_(Promise!vars)
  BY TransmissionStep
<1> QED
  BY <1>1, <1>2, Inductive, PTL DEF Spec, ImplementsTransmission, Promise!Spec

-----------------------------------------------------------------------------
(* Block returns                                                           *)

Free == outmux = Nobody
Jam  == \E s \in Sends : Stuck(s) /\ outmux = s

\* The stages of a send that holds outmux.
SetsDeadline(s)  == outmux = s /\ writer[s] = "deadline"
Writes(s)        == outmux = s /\ writer[s] = "write"
ReportsOk(s)     == outmux = s /\ writer[s] = "put" /\ result[s] = "ok"
ReportsError(s)  == /\ outmux = s /\ writer[s] = "put" /\ result[s] \in Errors
                    /\ chan2[s] = 0 /\ caller[s] = "select"
WaitsForCaller(s) == /\ outmux = s /\ writer[s] = "put" /\ result[s] \in Errors
                     /\ chan2[s] = 1 /\ caller[s] = "select"
CallerHasLeft(s) == /\ outmux = s /\ writer[s] = "put" /\ result[s] \in Errors
                    /\ chan2[s] = 0 /\ caller[s] # "select"
Reports(s) == ReportsOk(s) \/ ReportsError(s) \/ WaitsForCaller(s) \/ CallerHasLeft(s) \/ Jam

\* ... and of a block.
Waits(b)  == outmux = b /\ b \notin ctx
Leaves(b) == outmux = b /\ b \in ctx

\* What the steps of the others leave to the send that holds outmux.
LEMMA OthersStep ==
    ASSUME TypeOK, ConnInv, NEW s \in Sends, outmux = s, [Next]_vars
    PROVE  \/ Writer(s) \/ Watcher(s) \/ Select(s)
           \/ UNCHANGED <<outmux, writer[s], result[s], chan2[s], caller[s]>>
<1> USE CallsAssumption DEF TypeOK, ConnInv, MutexInv, SendInv
<1>1. ASSUME NEW t \in Sends, Send(t)
      PROVE  UNCHANGED <<outmux, writer[s], result[s], chan2[s], caller[s]>>
  BY <1>1 DEF Send
<1>2. ASSUME NEW t \in Sends \ {s}, Writer(t)
      PROVE  UNCHANGED <<outmux, writer[s], result[s], chan2[s], caller[s]>>
  <2>1. CASE GetPort(t) \/ Build(t)
    BY <1>2, <2>1, GetPortStep DEF Build, Fail
  <2>2. CASE Lock(t)
    BY <1>2, <2>2 DEF Lock
  <2>3. CASE SetWriteDeadline(t) \/ Write(t)
    BY <1>2, <2>3 DEF SetWriteDeadline, Write, Fail
  <2>4. CASE Put(t)
    BY <1>2, <2>4 DEF Put
  <2> QED
    BY <1>2, <2>1, <2>2, <2>3, <2>4 DEF Writer
<1>3. ASSUME NEW t \in Sends \ {s}, Watcher(t) \/ Select(t)
      PROVE  UNCHANGED <<outmux, writer[s], result[s], chan2[s], caller[s]>>
  BY <1>3 DEF Watcher, WatcherDone, WatcherCtx, WatcherPut, Select
<1>4. ASSUME NEW b \in Blocks, Block(b) \/ BlockLock(b) \/ BlockEnd(b)
      PROVE  UNCHANGED <<outmux, writer[s], result[s], chan2[s], caller[s]>>
  BY <1>4 DEF Block, BlockLock, BlockEnd
<1>5. ASSUME NEW p \in Sends \cup Blocks, ContextEnds(p)
      PROVE  UNCHANGED <<outmux, writer[s], result[s], chan2[s], caller[s]>>
  BY <1>5 DEF ContextEnds
<1>6. CASE UNCHANGED vars
  BY <1>6 DEF vars
<1> QED
  BY <1>1, <1>2, <1>3, <1>4, <1>5, <1>6 DEF Next

\* The send that holds outmux goes from stage to stage.
LEMMA HolderStep ==
    ASSUME TypeOK, ConnInv, NEW s \in Sends, [Next]_vars
    PROVE  /\ SetsDeadline(s)   => (SetsDeadline(s) \/ Writes(s) \/ Reports(s))'
           /\ Writes(s)         => (Writes(s) \/ Reports(s))'
           /\ ReportsOk(s)      => (ReportsOk(s) \/ Free)'
           /\ ReportsError(s)   => (ReportsError(s) \/ WaitsForCaller(s) \/ CallerHasLeft(s) \/ Free)'
           /\ WaitsForCaller(s) => (WaitsForCaller(s) \/ CallerHasLeft(s) \/ Jam)'
           /\ CallerHasLeft(s)  => (CallerHasLeft(s) \/ Jam \/ Free)'
<1> SUFFICES ASSUME outmux = s
             PROVE  /\ SetsDeadline(s)   => (SetsDeadline(s) \/ Writes(s) \/ Reports(s))'
                    /\ Writes(s)         => (Writes(s) \/ Reports(s))'
                    /\ ReportsOk(s)      => (ReportsOk(s) \/ Free)'
                    /\ ReportsError(s)   => (ReportsError(s) \/ WaitsForCaller(s) \/ CallerHasLeft(s) \/ Free)'
                    /\ WaitsForCaller(s) => (WaitsForCaller(s) \/ CallerHasLeft(s) \/ Jam)'
                    /\ CallerHasLeft(s)  => (CallerHasLeft(s) \/ Jam \/ Free)'
  BY DEF SetsDeadline, Writes, ReportsOk, ReportsError, WaitsForCaller, CallerHasLeft
<1>0. TypeOK'
  BY TypeStep DEF ConnInv
<1>1. \/ Writer(s) \/ Watcher(s) \/ Select(s)
      \/ UNCHANGED <<outmux, writer[s], result[s], chan2[s], caller[s]>>
  BY OthersStep
<1> USE CallsAssumption, <1>0
    DEF TypeOK, ConnInv, MutexInv, SendInv, SetsDeadline, Writes, ReportsOk, ReportsError,
        WaitsForCaller, CallerHasLeft, Reports, Free, Jam, Stuck, Errors
<1>2. CASE Writer(s)
  <2>1. CASE GetPort(s) \/ Build(s) \/ Lock(s)
    BY <2>1, GetPortStep DEF Build, Lock
  <2>2. CASE SetWriteDeadline(s)
    BY <2>2 DEF SetWriteDeadline, Fail
  <2>3. CASE Write(s)
    BY <2>3 DEF Write
  <2>4. CASE Put(s)
    BY <2>4 DEF Put
  <2> QED
    BY <1>2, <2>1, <2>2, <2>3, <2>4 DEF Writer
<1>3. CASE Watcher(s)
  BY <1>3 DEF Watcher, WatcherDone, WatcherCtx, WatcherPut
<1>4. CASE Select(s)
  BY <1>4 DEF Select
<1>5. CASE UNCHANGED <<outmux, writer[s], result[s], chan2[s], caller[s]>>
  BY <1>5
<1> QED
  BY <1>1, <1>2, <1>3, <1>4, <1>5

\* ... and the block that holds it keeps it until it leaves.
LEMMA BlockerStep ==
    ASSUME TypeOK, ConnInv, NEW b \in Blocks, [Next]_vars
    PROVE  /\ Waits(b)  => (Waits(b) \/ Leaves(b))'
           /\ Leaves(b) => (Leaves(b) \/ Free)'
<1> USE CallsAssumption DEF TypeOK, ConnInv, MutexInv, SendInv, Waits, Leaves, Free
<1>1. ASSUME NEW t \in Sends, Send(t) \/ Watcher(t) \/ Select(t)
      PROVE  UNCHANGED <<outmux, ctx>>
  BY <1>1 DEF Send, Watcher, WatcherDone, WatcherCtx, WatcherPut, Select
<1>2. ASSUME NEW t \in Sends, Writer(t), outmux = b
      PROVE  UNCHANGED <<outmux, ctx>>
  BY <1>2, GetPortStep DEF Writer, Build, Lock, SetWriteDeadline, Write, Put
<1>3. ASSUME NEW c \in Blocks, Block(c) \/ BlockLock(c) \/ BlockEnd(c), outmux = b
      PROVE  ctx' = ctx /\ (outmux' = outmux \/ (b \in ctx /\ outmux' = Nobody))
  BY <1>3 DEF Block, BlockLock, BlockEnd
<1>4. ASSUME NEW p \in Sends \cup Blocks, ContextEnds(p)
      PROVE  outmux' = outmux /\ ctx \subseteq ctx'
  BY <1>4 DEF ContextEnds
<1>5. CASE UNCHANGED vars
  BY <1>5 DEF vars
<1> QED
  BY <1>1, <1>2, <1>3, <1>4, <1>5 DEF Next

\* Whoever holds outmux gives it back, except for a send that is stuck.
LEMMA SendReleases ==
    ASSUME NEW s \in Sends
    PROVE  FairSpec /\ []Guards => [](outmux = s => <>(Free \/ Jam))
<1>0. FairSpec => Spec /\ WF_vars(Writer(s)) /\ WF_vars(Select(s))
  <2>1. Fairness => SendFairness(s)
    BY DEF Fairness
  <2> QED
    BY <2>1, PTL DEF FairSpec, SendFairness
<1>1. FairSpec /\ []Guards => (SetsDeadline(s) ~> Writes(s) \/ Reports(s))
  <2>1. TypeOK /\ ConnInv /\ SetsDeadline(s) /\ [Next]_vars => (SetsDeadline(s) \/ Writes(s) \/ Reports(s))'
    BY HolderStep
  <2>2. TypeOK /\ ConnInv /\ SetsDeadline(s) /\ <<Writer(s)>>_vars => (Writes(s) \/ Reports(s))'
    <3>1. ASSUME TypeOK, ConnInv, SetsDeadline(s), Writer(s) PROVE Next /\ ~SetsDeadline(s)'
      BY <3>1, GetPortStep DEF Next, TypeOK, SetsDeadline, Writer, Build, Lock, SetWriteDeadline, Write, Put, Fail
    <3> QED
      BY <3>1, HolderStep
  <2>3. SetsDeadline(s) /\ Guards => ENABLED <<Writer(s)>>_vars
    BY DEF SetsDeadline, Guards, WriterGuard
  <2> QED
    BY <1>0, <2>1, <2>2, <2>3, Inductive, PTL DEF Spec
<1>2. FairSpec /\ []Guards => (Writes(s) ~> Reports(s))
  <2>1. TypeOK /\ ConnInv /\ Writes(s) /\ [Next]_vars => (Writes(s) \/ Reports(s))'
    BY HolderStep
  <2>2. TypeOK /\ ConnInv /\ Writes(s) /\ <<Writer(s)>>_vars => (Reports(s))'
    <3>1. ASSUME TypeOK, ConnInv, Writes(s), Writer(s) PROVE Next /\ ~Writes(s)'
      BY <3>1, GetPortStep DEF Next, TypeOK, Writes, Writer, Build, Lock, SetWriteDeadline, Write, Put, Fail
    <3> QED
      BY <3>1, HolderStep
  <2>3. Writes(s) /\ Guards => ENABLED <<Writer(s)>>_vars
    BY DEF Writes, Guards, WriterGuard
  <2> QED
    BY <1>0, <2>1, <2>2, <2>3, Inductive, PTL DEF Spec
<1>3. FairSpec /\ []Guards => (ReportsOk(s) ~> Free)
  <2>1. TypeOK /\ ConnInv /\ ReportsOk(s) /\ [Next]_vars => (ReportsOk(s) \/ Free)'
    BY HolderStep
  <2>2. TypeOK /\ ConnInv /\ ReportsOk(s) /\ <<Writer(s)>>_vars => (Free)'
    <3>1. ASSUME TypeOK, ConnInv, ReportsOk(s), Writer(s) PROVE Next /\ ~ReportsOk(s)'
      BY <3>1, GetPortStep DEF Next, TypeOK, ReportsOk, Writer, Build, Lock, SetWriteDeadline, Write, Put, Fail
    <3> QED
      BY <3>1, HolderStep
  <2>3. ReportsOk(s) /\ Guards => ENABLED <<Writer(s)>>_vars
    BY DEF ReportsOk, Guards, WriterGuard
  <2> QED
    BY <1>0, <2>1, <2>2, <2>3, Inductive, PTL DEF Spec
<1>4. FairSpec /\ []Guards => (ReportsError(s) ~> WaitsForCaller(s) \/ CallerHasLeft(s) \/ Free)
  <2>1. TypeOK /\ ConnInv /\ ReportsError(s) /\ [Next]_vars => (ReportsError(s) \/ WaitsForCaller(s) \/ CallerHasLeft(s) \/ Free)'
    BY HolderStep
  <2>2. TypeOK /\ ConnInv /\ ReportsError(s) /\ <<Writer(s)>>_vars => (WaitsForCaller(s) \/ CallerHasLeft(s) \/ Free)'
    <3>1. ASSUME TypeOK, ConnInv, ReportsError(s), Writer(s) PROVE Next /\ ~ReportsError(s)'
      BY <3>1, GetPortStep DEF Next, TypeOK, ReportsError, Writer, Build, Lock, SetWriteDeadline, Write, Put, Fail
    <3> QED
      BY <3>1, HolderStep
  <2>3. ReportsError(s) /\ Guards => ENABLED <<Writer(s)>>_vars
    BY DEF ReportsError, Guards, WriterGuard
  <2> QED
    BY <1>0, <2>1, <2>2, <2>3, Inductive, PTL DEF Spec
<1>5. FairSpec /\ []Guards => (WaitsForCaller(s) ~> CallerHasLeft(s) \/ Jam)
  <2>1. TypeOK /\ ConnInv /\ WaitsForCaller(s) /\ [Next]_vars => (WaitsForCaller(s) \/ CallerHasLeft(s) \/ Jam)'
    BY HolderStep
  <2>2. TypeOK /\ ConnInv /\ WaitsForCaller(s) /\ <<Select(s)>>_vars => (CallerHasLeft(s) \/ Jam)'
    <3>1. ASSUME TypeOK, ConnInv, WaitsForCaller(s), Select(s) PROVE Next /\ ~WaitsForCaller(s)'
      BY <3>1 DEF Next, TypeOK, WaitsForCaller, Select, ConnInv, SendInv
    <3> QED
      BY <3>1, HolderStep
  <2>3. WaitsForCaller(s) /\ Guards => ENABLED <<Select(s)>>_vars
    BY DEF WaitsForCaller, Guards, SelectGuard
  <2> QED
    BY <1>0, <2>1, <2>2, <2>3, Inductive, PTL DEF Spec
<1>6. FairSpec /\ []Guards => (CallerHasLeft(s) ~> Jam \/ Free)
  <2>1. TypeOK /\ ConnInv /\ CallerHasLeft(s) /\ [Next]_vars => (CallerHasLeft(s) \/ Jam \/ Free)'
    BY HolderStep
  <2>2. TypeOK /\ ConnInv /\ CallerHasLeft(s) /\ <<Writer(s)>>_vars => (Jam \/ Free)'
    <3>1. ASSUME TypeOK, ConnInv, CallerHasLeft(s), Writer(s) PROVE Next /\ ~CallerHasLeft(s)'
      BY <3>1, GetPortStep DEF Next, TypeOK, CallerHasLeft, Writer, Build, Lock, SetWriteDeadline, Write, Put, Fail
    <3> QED
      BY <3>1, HolderStep
  <2>3. CallerHasLeft(s) /\ Guards => ENABLED <<Writer(s)>>_vars
    BY DEF CallerHasLeft, Guards, WriterGuard
  <2> QED
    BY <1>0, <2>1, <2>2, <2>3, Inductive, PTL DEF Spec
<1>7. TypeOK /\ ConnInv /\ outmux = s => SetsDeadline(s) \/ Writes(s) \/ Reports(s)
  BY DEF TypeOK, ConnInv, MutexInv, SendInv, SetsDeadline, Writes, Reports, ReportsOk,
         ReportsError, WaitsForCaller, CallerHasLeft, Jam, Stuck, Errors
<1>8. Reports(s) => ReportsOk(s) \/ ReportsError(s) \/ WaitsForCaller(s) \/ CallerHasLeft(s) \/ Jam
  BY DEF Reports
<1> QED
  BY <1>0, <1>1, <1>2, <1>3, <1>4, <1>5, <1>6, <1>7, <1>8, Inductive, PTL

LEMMA BlockReleases ==
    ASSUME NEW b \in Blocks
    PROVE  FairSpec /\ []Guards => [](outmux = b => <>(Free \/ Jam))
<1>0. FairSpec => Spec /\ WF_vars(ContextEnds(b)) /\ WF_vars(BlockEnd(b))
  <2>1. Fairness => BlockFairness(b)
    BY DEF Fairness
  <2> QED
    BY <2>1, PTL DEF FairSpec, BlockFairness
<1>1. FairSpec /\ []Guards => (Waits(b) ~> Leaves(b))
  <2>1. TypeOK /\ ConnInv /\ Waits(b) /\ [Next]_vars => (Waits(b) \/ Leaves(b))'
    BY BlockerStep
  <2>2. TypeOK /\ ConnInv /\ Waits(b) /\ <<ContextEnds(b)>>_vars => Leaves(b)'
    BY DEF Waits, Leaves, ContextEnds
  <2>3. TypeOK /\ ConnInv /\ Waits(b) /\ Guards => ENABLED <<ContextEnds(b)>>_vars
    BY DEF Waits, Guards, ConnInv, MutexInv
  <2> QED
    BY <1>0, <2>1, <2>2, <2>3, Inductive, PTL DEF Spec
<1>2. FairSpec /\ []Guards => (Leaves(b) ~> Free)
  <2>1. TypeOK /\ ConnInv /\ Leaves(b) /\ [Next]_vars => (Leaves(b) \/ Free)'
    BY BlockerStep
  <2>2. TypeOK /\ ConnInv /\ Leaves(b) /\ <<BlockEnd(b)>>_vars => Free'
    BY DEF Free, BlockEnd
  <2>3. TypeOK /\ ConnInv /\ Leaves(b) /\ Guards => ENABLED <<BlockEnd(b)>>_vars
    BY DEF Leaves, Guards, ConnInv, MutexInv
  <2> QED
    BY <1>0, <2>1, <2>2, <2>3, Inductive, PTL DEF Spec
<1>3. outmux = b => Waits(b) \/ Leaves(b)
  BY DEF Waits, Leaves
<1> QED
  BY <1>1, <1>2, <1>3, PTL

\* So outmux is free again and again until a send is stuck with it.
LEMMA FreeAgain == FairSpec /\ []Guards => []<>(Free \/ Jam)
<1>1. FairSpec /\ []Guards => [](\A s \in Sends : outmux = s => <>(Free \/ Jam))
  BY SendReleases
<1>2. FairSpec /\ []Guards => [](\A b \in Blocks : outmux = b => <>(Free \/ Jam))
  BY BlockReleases
<1>3. TypeOK => Free \/ (\E s \in Sends : outmux = s) \/ (\E b \in Blocks : outmux = b)
  BY DEF TypeOK, Free
<1>4. (\A s \in Sends : outmux = s => <>(Free \/ Jam)) /\ (\E s \in Sends : outmux = s)
        => <>(Free \/ Jam)
  OBVIOUS
<1>5. (\A b \in Blocks : outmux = b => <>(Free \/ Jam)) /\ (\E b \in Blocks : outmux = b)
        => <>(Free \/ Jam)
  OBVIOUS
<1> QED
  BY <1>1, <1>2, <1>3, <1>4, <1>5, TypeCorrect, PTL DEF FairSpec

\* Block returns, whatever the other sends and blocks do, unless a send holds
\* outmux whose error nobody will take: the only thing to wait for is outmux,
\* which every other holder gives back, and sync.Mutex does not starve anybody.
\* (Guards says when steps can be taken; see there.)
THEOREM BlocksReturn == FairSpec /\ []Guards => BlockReturnsUnlessStuck
<1>1. ASSUME NEW b \in Blocks
      PROVE  FairSpec /\ []Guards =>
                (block[b] = "lock" ~> (block[b] # "lock" \/ \E s \in Sends : Stuck(s) /\ outmux = s))
  <2>0. FairSpec => Spec /\ SF_vars(BlockLock(b))
    <3>1. Fairness => BlockFairness(b)
      BY DEF Fairness
    <3> QED
      BY <3>1, PTL DEF FairSpec, BlockFairness
  <2>1. TypeOK /\ <<BlockLock(b)>>_vars => (block[b] # "lock")'
    BY DEF TypeOK, BlockLock
  <2>2. block[b] = "lock" /\ Free /\ Guards => ENABLED <<BlockLock(b)>>_vars
    BY DEF Free, Guards
  <2>3. block[b] = "lock" \/ block[b] # "lock"
    OBVIOUS
  <2>4. Jam => \E s \in Sends : Stuck(s) /\ outmux = s
    BY DEF Jam
  <2> QED
    BY <2>0, <2>1, <2>2, <2>3, <2>4, FreeAgain, TypeCorrect, PTL
<1> QED
  BY <1>1 DEF BlockReturnsUnlessStuck
=============================================================================
