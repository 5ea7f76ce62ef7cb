------------------------- MODULE PipelineControlProofs -------------------------
(***************************************************************************)
(* Who runs when: the fallback task and the mode, the writers and the pool;*)
(* then what becomes of the rows, their versions and the counters.         *)
(***************************************************************************)
EXTENDS MarketFeedProofs, FiniteSetTheorems, WellFoundedInduction

\* The tasks that have not finished, one by one.
LEMMA AliveIs ==
    /\ "primary" \in Alive <=> conn \notin {"none", "ended"}
    /\ "fallback" \in Alive <=> FbAlive
    /\ "consumer" \in Alive <=> cons \notin {"none", "ended"}
    /\ "flusher" \in Alive <=> flush \in {"sleep", "write"}
    /\ Alive \subseteq Tasks
  BY DEF Alive, Tasks

\* The same after a step.
LEMMA AliveIsNext ==
    /\ "primary" \in Alive' <=> conn' \notin {"none", "ended"}
    /\ "fallback" \in Alive' <=> FbAlive'
    /\ "consumer" \in Alive' <=> cons' \notin {"none", "ended"}
    /\ "flusher" \in Alive' <=> flush' \in {"sleep", "write"}
    /\ Alive' \subseteq Tasks
  BY DEF Alive, Tasks

\* A task that takes a step of its own, and not its cancellation, belongs to a
\* running process.
LEMMA RunsWhileRunning ==
    ASSUME TypeOK, LifePhases, NEW t \in Alive, CanRun(t)
    PROVE  life = "running"
  <1>1. life \in LifeStates
    BY DEF TypeOK
  <1>2. life \notin {"starting", "failed"}
    BY AliveIs DEF LifePhases, Unborn, FbAlive, Tasks
  <1>3. life \notin {"stopping", "draining", "stopped"}
    BY DEF LifePhases, CanRun
  <1> QED BY <1>1, <1>2, <1>3 DEF LifeStates

\* A cancellation reaches a task of a process that is being stopped, or the
\* fallback task while the consumer waits for it.
LEMMA CancelsWhile ==
    ASSUME TypeOK, LifePhases, NEW t \in cancel
    PROVE  \/ life = "stopping"
           \/ life = "running" /\ t = "fallback" /\ cons = "reap"
  <1>1. life \in LifeStates
    BY DEF TypeOK
  <1> QED BY <1>1 DEF LifePhases, LifeStates

\* Every step of deriv-stream keeps the agreements.
LEMMA ConnectorControl == TypeOK /\ ControlInv /\ ConnectorStep => ControlInv'
  <1> SUFFICES ASSUME TypeOK, ControlInv, ConnectorStep PROVE ControlInv'
    OBVIOUS
  <1> USE DEF ControlInv
  <1>1. UNCHANGED <<fb, job, cons, mode, flush, life>>
    BY DEF ConnectorStep, writerVars, consVars, lifeVars
  <1>2. CASE UNCHANGED cancel /\ "primary" \in Alive /\ CanRun("primary")
             /\ conn' \notin {"none", "ended"}
    <2>1. life = "running"
      BY <1>2, RunsWhileRunning
    <2>2. LifePhases'
      BY <1>1, <1>2, <2>1 DEF LifePhases, FbAlive
    <2>3. BatchesInUse' /\ FallbackQuietInPrimary'
      BY <1>1 DEF BatchesInUse, HasData, FallbackQuietInPrimary
    <2>4. DegradedHasFallback'
      BY <1>1, <1>2 DEF DegradedHasFallback, FbAlive
    <2> QED BY <2>2, <2>3, <2>4
  <1>3. CASE ConnectorCancelled
    <2>1. "primary" \in cancel /\ cancel' = cancel \ {"primary"} /\ conn' = "ended"
      BY <1>3 DEF ConnectorCancelled, Interrupt
    <2>2. life = "stopping"
      BY <2>1, CancelsWhile
    <2>3. Alive' = Alive \ {"primary"}
      BY <1>1, <2>1, AliveIs, AliveIsNext DEF FbAlive, Tasks
    <2>4. LifePhases'
      BY <1>1, <2>1, <2>2, <2>3 DEF LifePhases
    <2>5. BatchesInUse' /\ FallbackQuietInPrimary'
      BY <1>1 DEF BatchesInUse, HasData, FallbackQuietInPrimary
    <2>6. DegradedHasFallback'
      BY <1>1, <2>2 DEF DegradedHasFallback
    <2> QED BY <2>4, <2>5, <2>6
  <1>4. ConnectorCancelled
        \/ (UNCHANGED cancel /\ CanRun("primary") /\ conn \notin {"none", "ended"}
            /\ conn' \notin {"none", "ended"})
    BY DEF ConnectorStep, ConnectorNext, ConnectorReports, Connect, Subscribe, Receive,
           SessionFails, ReportError, ReportDown, DelayOver, queueVars
  <1> QED BY <1>2, <1>3, <1>4, AliveIs

\* Every step of fallback-stream keeps the agreements.
LEMMA FallbackControl == TypeOK /\ ControlInv /\ FallbackStep => ControlInv'
  <1> SUFFICES ASSUME TypeOK, ControlInv, FallbackStep PROVE ControlInv'
    OBVIOUS
  <1> USE DEF ControlInv
  <1>1. UNCHANGED <<conn, job, cons, mode, flush, life>>
    BY DEF FallbackStep, writerVars, consVars, lifeVars
  <1>2. BatchesInUse'
    BY <1>1 DEF BatchesInUse, HasData
  <1>3. CASE UNCHANGED cancel /\ FbAlive /\ FbAlive' /\ CanRun("fallback")
    <2>1. life = "running"
      BY <1>3, AliveIs, RunsWhileRunning
    <2>2. LifePhases'
      BY <1>1, <1>3, <2>1 DEF LifePhases, FbAlive
    <2>3. FallbackQuietInPrimary' /\ DegradedHasFallback'
      BY <1>1, <1>3 DEF FallbackQuietInPrimary, DegradedHasFallback, FbAlive
    <2> QED BY <1>2, <2>2, <2>3
  <1>4. CASE FbCancelled
    <2>1. "fallback" \in cancel /\ cancel' = cancel \ {"fallback"} /\ fb' = "ended"
      BY <1>4 DEF FbCancelled, Interrupt
    <2>2. CASE life = "stopping"
      <3>1. Alive' = Alive \ {"fallback"}
        BY <1>1, <2>1, AliveIs, AliveIsNext DEF FbAlive, Tasks
      <3>2. LifePhases'
        BY <1>1, <2>1, <2>2, <3>1 DEF LifePhases
      <3>3. FallbackQuietInPrimary' /\ DegradedHasFallback'
        BY <1>1, <2>2 DEF FallbackQuietInPrimary, DegradedHasFallback
      <3> QED BY <1>2, <3>2, <3>3
    <2>3. CASE life = "running" /\ cons = "reap"
      <3>1. LifePhases'
        BY <1>1, <2>1, <2>3 DEF LifePhases
      <3>2. FallbackQuietInPrimary' /\ DegradedHasFallback'
        BY <1>1, <2>1, <2>3 DEF FallbackQuietInPrimary, DegradedHasFallback
      <3> QED BY <1>2, <3>1, <3>2
    <2> QED BY <2>1, <2>2, <2>3, CancelsWhile
  <1>5. FbCancelled \/ (UNCHANGED cancel /\ FbAlive /\ FbAlive' /\ CanRun("fallback"))
    BY DEF FallbackStep, FbNext, FbAnnounce, FbTick, FbCandle, FbAlive
  <1> QED BY <1>3, <1>4, <1>5

\* The consumer handles an item: with a status it may create or cancel the
\* fallback task.
LEMMA HandleControl ==
    TypeOK /\ ControlInv /\ (HandleConnected \/ HandleDown \/ HandleFallback
                             \/ HandleMalformed \/ HandleRecord) => ControlInv'
  <1> SUFFICES ASSUME TypeOK, ControlInv,
                      HandleConnected \/ HandleDown \/ HandleFallback
                      \/ HandleMalformed \/ HandleRecord
               PROVE  ControlInv'
    OBVIOUS
  <1> USE DEF ControlInv
  <1>1. cons = "get" /\ CanRun("consumer") /\ UNCHANGED <<conn, job, flush, life>>
    BY DEF HandleConnected, HandleDown, HandleFallback, HandleMalformed, HandleRecord, Dequeue,
           writerVars, consVars, lifeVars
  <1>2. life = "running"
    BY <1>1, AliveIs, RunsWhileRunning
  <1>3. fb # "ended" /\ fb \in FbStates /\ cancel = {}
    BY <1>1, <1>2 DEF LifePhases, TypeOK
  <1>4. /\ cons' \in {"get", "publish", "reap"}
        /\ fb' = fb \/ (fb = "none" /\ fb' = "announce")
        /\ \/ cons' # "reap" /\ cancel' = cancel
           \/ cons' = "reap" /\ fb # "none" /\ fb' = fb /\ cancel' = cancel \cup {"fallback"}
    BY <1>1 DEF HandleConnected, HandleDown, HandleFallback, HandleMalformed, HandleRecord,
           CancelFallback, consVars
  <1>5. LifePhases'
    BY <1>1, <1>2, <1>3, <1>4 DEF LifePhases, FbAlive, FbStates
  <1>6. BatchesInUse'
    BY <1>1 DEF BatchesInUse, HasData
  <1>7. FallbackQuietInPrimary'
    <2>1. CASE HandleConnected
      BY <2>1 DEF HandleConnected, CancelFallback, FallbackQuietInPrimary
    <2>2. CASE HandleDown \/ HandleFallback
      BY <2>2 DEF HandleDown, HandleFallback, FallbackQuietInPrimary
    <2>3. CASE HandleMalformed \/ HandleRecord
      BY <1>1, <1>2, <2>3 DEF HandleMalformed, HandleRecord, consVars, FallbackQuietInPrimary
    <2> QED BY <2>1, <2>2, <2>3
  <1>8. DegradedHasFallback'
    <2>1. CASE HandleConnected \/ HandleFallback
      BY <2>1 DEF HandleConnected, HandleFallback, DegradedHasFallback
    <2>2. CASE HandleDown
      BY <1>3, <2>2 DEF HandleDown, DegradedHasFallback, FbAlive, FbStates
    <2>3. CASE HandleMalformed \/ HandleRecord
      BY <1>1, <2>3 DEF HandleMalformed, HandleRecord, consVars, DegradedHasFallback, FbAlive
    <2> QED BY <2>1, <2>2, <2>3
  <1> QED BY <1>5, <1>6, <1>7, <1>8

\* A write of w, or its end, changes the batch of w only.
LEMMA OwnBatch ==
    ASSUME TypeOK, NEW w \in Writers
    PROVE  /\ Write(w) \/ WriteAborted(w) => \A v \in Writers \ {w} : job'[v] = job[v]
           /\ WriteAborted(w) => ~HasData(job'[w])
           /\ \A batch : TakeBatch(w, batch) => \A v \in Writers \ {w} : job'[v] = job[v]
  <1>1. job \in [Writers -> Batches]
    BY DEF TypeOK
  <1>2. ~HasData(EmptyBatch)
    BY DEF HasData, EmptyBatch
  <1> QED BY <1>1, <1>2 DEF Write, WriteAborted, TakeBatch

\* The consumer goes on with what it has in hand, or takes its cancellation.
LEMMA ConsumerControl ==
    TypeOK /\ ControlInv /\ (Reap \/ PublishOk \/ PublishFails \/ ConsumerWrites
                             \/ ConsumerWriteFails \/ ConsumerCancelled) => ControlInv'
  <1> SUFFICES ASSUME TypeOK, ControlInv,
                      Reap \/ PublishOk \/ PublishFails \/ ConsumerWrites
                      \/ ConsumerWriteFails \/ ConsumerCancelled
               PROVE  ControlInv'
    OBVIOUS
  <1> USE DEF ControlInv
  <1>1. UNCHANGED <<conn, mode, flush, life>>
    BY DEF Reap, PublishOk, PublishFails, ConsumerWrites, ConsumerWriteFails, ConsumerCancelled,
           lifeVars
  <1>2. BatchesInUse'
    <2>1. "consumer" \in Writers /\ "flusher" \in Writers /\ "main" \in Writers
      BY DEF Writers
    <2>2. job'["flusher"] = job["flusher"] /\ job'["main"] = job["main"]
      BY <2>1, OwnBatch
         DEF Reap, PublishOk, PublishFails, ConsumerWrites, ConsumerWriteFails,
             ConsumerCancelled, writerVars
    <2>3. HasData(job'["consumer"]) => cons' = "flush"
      <3>1. CASE Reap \/ PublishFails \/ (ConsumerCancelled /\ cons # "flush")
        BY <3>1 DEF Reap, PublishFails, ConsumerCancelled, writerVars, BatchesInUse, HasData
      <3>2. CASE PublishOk
        BY <3>2 DEF PublishOk, BatchesInUse, HasData
      <3>3. CASE ConsumerWrites
        BY <3>3 DEF ConsumerWrites, HasData
      <3>4. CASE ConsumerWriteFails \/ (ConsumerCancelled /\ cons = "flush")
        BY <2>1, <3>4, OwnBatch DEF ConsumerWriteFails, ConsumerCancelled
      <3> QED BY <3>1, <3>2, <3>3, <3>4
    <2> QED BY <1>1, <2>2, <2>3 DEF BatchesInUse, HasData
  <1>3. CASE Reap
    <2>1. /\ cons = "reap" /\ fb = "ended" /\ CanRun("consumer")
          /\ cons' = "get" /\ fb' = "none" /\ cancel' = cancel
      BY <1>3 DEF Reap, DropReference
    <2>2. life = "running"
      BY <2>1, AliveIs, RunsWhileRunning
    <2>3. LifePhases'
      BY <1>1, <2>1, <2>2 DEF LifePhases, FbAlive
    <2>4. FallbackQuietInPrimary'
      BY <2>1 DEF FallbackQuietInPrimary
    <2>5. DegradedHasFallback'
      BY <1>1, <2>1, <2>2 DEF DegradedHasFallback, FbAlive
    <2> QED BY <1>2, <2>3, <2>4, <2>5
  <1>4. CASE PublishOk \/ PublishFails \/ ConsumerWrites \/ ConsumerWriteFails
    <2>1. /\ cons \in {"publish", "flush"} /\ CanRun("consumer")
          /\ cons' \in {"get", "flush"} /\ UNCHANGED <<fb, cancel>>
      BY <1>4 DEF PublishOk, PublishFails, ConsumerWrites, ConsumerWriteFails, Counted, Skipped
    <2>2. life = "running"
      BY <2>1, AliveIs, RunsWhileRunning
    <2>3. LifePhases'
      BY <1>1, <2>1, <2>2 DEF LifePhases, FbAlive
    <2>4. FallbackQuietInPrimary' /\ DegradedHasFallback'
      BY <1>1, <2>1 DEF FallbackQuietInPrimary, DegradedHasFallback, FbAlive
    <2> QED BY <1>2, <2>3, <2>4
  <1>5. CASE ConsumerCancelled
    <2>1. /\ "consumer" \in cancel /\ cancel' = cancel \ {"consumer"}
          /\ cons' = "ended" /\ fb' = fb
      BY <1>5 DEF ConsumerCancelled, Interrupt
    <2>2. life = "stopping"
      BY <2>1, CancelsWhile
    <2>3. Alive' = Alive \ {"consumer"}
      BY <1>1, <2>1, AliveIs, AliveIsNext DEF FbAlive, Tasks
    <2>4. LifePhases'
      BY <1>1, <2>1, <2>2, <2>3 DEF LifePhases
    <2>5. FallbackQuietInPrimary' /\ DegradedHasFallback'
      BY <1>1, <2>2 DEF FallbackQuietInPrimary, DegradedHasFallback
    <2> QED BY <1>2, <2>4, <2>5
  <1> QED BY <1>3, <1>4, <1>5

\* Every step of market-db-flush keeps the agreements.
LEMMA FlusherControl == TypeOK /\ ControlInv /\ FlusherStep => ControlInv'
  <1> SUFFICES ASSUME TypeOK, ControlInv, FlusherStep PROVE ControlInv'
    OBVIOUS
  <1> USE DEF ControlInv
  <1>1. UNCHANGED <<conn, fb, cons, mode, life>>
    BY DEF FlusherStep, FlusherWakes, FlusherWrites, FlusherWriteFails, FlusherCancelled,
           consVars, lifeVars
  <1>2. FallbackQuietInPrimary'
    BY <1>1 DEF FallbackQuietInPrimary
  <1>3. BatchesInUse'
    <2>1. "consumer" \in Writers /\ "flusher" \in Writers /\ "main" \in Writers
      BY DEF Writers
    <2>2. job'["consumer"] = job["consumer"] /\ job'["main"] = job["main"]
      BY <2>1, OwnBatch
         DEF FlusherStep, FlusherWakes, FlusherWrites, FlusherWriteFails, FlusherCancelled,
             writerVars
    <2>3. HasData(job'["flusher"]) => flush' = "write"
      <3>1. CASE FlusherWakes \/ FlusherWrites
        BY <3>1 DEF FlusherWakes, FlusherWrites
      <3>2. CASE FlusherWriteFails \/ (FlusherCancelled /\ flush = "write")
        BY <2>1, <3>2, OwnBatch DEF FlusherWriteFails, FlusherCancelled
      <3>3. CASE FlusherCancelled /\ flush # "write"
        BY <3>3 DEF FlusherCancelled, writerVars, BatchesInUse, HasData
      <3> QED BY <3>1, <3>2, <3>3 DEF FlusherStep
    <2> QED BY <1>1, <2>2, <2>3 DEF BatchesInUse, HasData
  <1>4. CASE FlusherWakes \/ FlusherWrites \/ FlusherWriteFails
    <2>1. /\ flush \in {"sleep", "write"} /\ flush' \in {"sleep", "write", "dead"}
          /\ CanRun("flusher") /\ cancel' = cancel
      BY <1>4 DEF FlusherWakes, FlusherWrites, FlusherWriteFails, queueVars
    <2>2. life = "running"
      BY <2>1, AliveIs, RunsWhileRunning
    <2>3. LifePhases'
      BY <1>1, <2>1, <2>2 DEF LifePhases, FbAlive
    <2>4. DegradedHasFallback'
      BY <1>1, <2>1 DEF DegradedHasFallback, FbAlive
    <2> QED BY <1>2, <1>3, <2>3, <2>4
  <1>5. CASE FlusherCancelled
    <2>1. "flusher" \in cancel /\ cancel' = cancel \ {"flusher"} /\ flush' = "ended"
      BY <1>5 DEF FlusherCancelled, Interrupt
    <2>2. life = "stopping"
      BY <2>1, CancelsWhile
    <2>3. Alive' = Alive \ {"flusher"}
      BY <1>1, <2>1, AliveIs, AliveIsNext DEF FbAlive, Tasks
    <2>4. LifePhases'
      BY <1>1, <2>1, <2>2, <2>3 DEF LifePhases
    <2>5. DegradedHasFallback'
      BY <1>1, <2>2 DEF DegradedHasFallback
    <2> QED BY <1>2, <1>3, <2>4, <2>5
  <1> QED BY <1>4, <1>5 DEF FlusherStep

\* start, stop, the final flush, and the process that ends or starts again.
LEMMA MainControl ==
    TypeOK /\ ControlInv /\ (MainStep \/ Stop \/ Restart \/ Terminated) => ControlInv'
  <1> SUFFICES ASSUME TypeOK, ControlInv, MainStep \/ Stop \/ Restart \/ Terminated
               PROVE  ControlInv'
    OBVIOUS
  <1> USE DEF ControlInv
  <1>1. CASE StartOk \/ StartFails
    <2>1. life = "starting" /\ Unborn /\ cancel = {} /\ mode = "starting"
      BY <1>1 DEF StartOk, StartFails, LifePhases
    <2>2. LifePhases'
      BY <1>1, <2>1 DEF StartOk, StartFails, LifePhases, Unborn, queueVars, consVars
    <2>3. BatchesInUse'
      BY <1>1, <2>1 DEF StartOk, StartFails, BatchesInUse, HasData, Unborn, writerVars
    <2>4. FallbackQuietInPrimary' /\ DegradedHasFallback'
      BY <1>1, <2>1 DEF StartOk, StartFails, FallbackQuietInPrimary, DegradedHasFallback, consVars
    <2> QED BY <2>2, <2>3, <2>4
  <1>2. CASE Stop
    <2>1. /\ life' = "stopping" /\ cancel' = Alive
          /\ UNCHANGED <<conn, fb, cons, flush, mode, job>>
      BY <1>2 DEF Stop, writerVars, consVars
    <2>2. Alive' = Alive
      BY <2>1 DEF Alive, FbAlive
    <2>3. LifePhases'
      BY <2>1, <2>2 DEF LifePhases
    <2>4. BatchesInUse'
      BY <1>2, <2>1 DEF Stop, BatchesInUse, HasData
    <2>5. FallbackQuietInPrimary' /\ DegradedHasFallback'
      BY <2>1 DEF FallbackQuietInPrimary, DegradedHasFallback
    <2> QED BY <2>3, <2>4, <2>5
  <1>3. CASE StopGathered \/ DrainWrites \/ DrainFails
    <2>1. UNCHANGED <<conn, fb, cons, flush, mode, cancel>>
      BY <1>3 DEF StopGathered, DrainWrites, DrainFails, queueVars, consVars
    <2>2. Alive = {} /\ cancel = {} /\ life' \in {"draining", "stopped"}
      BY <1>3 DEF StopGathered, DrainWrites, DrainFails, LifePhases
    <2>3. Alive' = {}
      BY <2>1, <2>2, AliveIs, AliveIsNext DEF FbAlive, Tasks
    <2>4. LifePhases'
      BY <2>1, <2>2, <2>3 DEF LifePhases
    <2>5. BatchesInUse'
      <3>1. "consumer" \in Writers /\ "flusher" \in Writers /\ "main" \in Writers
        BY DEF Writers
      <3>2. job'["consumer"] = job["consumer"] /\ job'["flusher"] = job["flusher"]
        BY <1>3, <3>1, OwnBatch DEF StopGathered, DrainWrites, DrainFails
      <3>3. HasData(job'["main"]) => life' = "draining"
        <4>1. CASE StopGathered
          BY <4>1 DEF StopGathered, BatchesInUse, HasData
        <4>2. CASE DrainWrites
          BY <4>2 DEF DrainWrites
        <4>3. CASE DrainFails
          BY <3>1, <4>3, OwnBatch DEF DrainFails
        <4> QED BY <1>3, <4>1, <4>2, <4>3
      <3> QED BY <2>1, <3>2, <3>3 DEF BatchesInUse, HasData
    <2>6. FallbackQuietInPrimary' /\ DegradedHasFallback'
      BY <2>1, <2>2 DEF FallbackQuietInPrimary, DegradedHasFallback
    <2> QED BY <2>4, <2>5, <2>6
  <1>4. CASE Restart
    <2>1. LifePhases'
      BY <1>4 DEF Restart, LifePhases, Unborn
    <2>2. BatchesInUse'
      BY <1>4 DEF Restart, BatchesInUse, HasData, EmptyBatch, Writers
    <2>3. FallbackQuietInPrimary' /\ DegradedHasFallback'
      BY <1>4 DEF Restart, FallbackQuietInPrimary, DegradedHasFallback
    <2> QED BY <2>1, <2>2, <2>3
  <1>5. CASE Terminated
    BY <1>5 DEF Terminated, vars, queueVars, writerVars, consVars, lifeVars, LifePhases, Unborn,
           Alive, FbAlive, BatchesInUse, HasData, FallbackQuietInPrimary, DegradedHasFallback
  <1> QED BY <1>1, <1>2, <1>3, <1>4, <1>5 DEF MainStep

\* Every step of the system keeps the agreements.
LEMMA ControlNext == TypeOK /\ ControlInv /\ [Next]_vars => ControlInv'
  <1>1. ControlInv /\ UNCHANGED vars => ControlInv'
    <2> SUFFICES ASSUME ControlInv, UNCHANGED vars PROVE ControlInv'
      OBVIOUS
    <2> USE DEF ControlInv, vars, queueVars, writerVars, consVars, lifeVars, FbAlive
    <2>1. LifePhases'
      BY ZenonT(30) DEF LifePhases, Unborn, Alive
    <2>2. BatchesInUse'
      BY ZenonT(30) DEF BatchesInUse, HasData
    <2>3. FallbackQuietInPrimary' /\ DegradedHasFallback'
      BY ZenonT(30) DEF FallbackQuietInPrimary, DegradedHasFallback
    <2> QED BY <2>1, <2>2, <2>3
  <1> QED
    BY <1>1, ConnectorControl, FallbackControl, HandleControl, ConsumerControl, FlusherControl,
       MainControl DEF Next, LifeNext, ConsumerStep

\* Nobody runs, and nothing is written, before the start.
LEMMA ControlInit == Init => ControlInv
  BY DEF Init, QueueInit, ConnInit, FbInit, WriterInit, ControlInv, LifePhases, Unborn,
         BatchesInUse, HasData, EmptyBatch, Writers, FallbackQuietInPrimary, DegradedHasFallback

\* In every phase of the process, tasks, cancellations and batches agree.
THEOREM Control == Spec => []ControlInv
  <1>1. TypeOK /\ ControlInv /\ [Next]_vars => ControlInv'
    BY ControlNext
  <1> QED BY <1>1, ControlInit, TypeCorrect, PTL DEF Spec

\* When Deriv is reported connected, the synthetic feed is gone or the consumer
\* waits for its end.
THEOREM FallbackIsQuiet == Spec => []FallbackQuietInPrimary
  <1>1. ControlInv => FallbackQuietInPrimary
    BY DEF ControlInv
  <1> QED BY <1>1, Control, PTL

\* While the mode is "degraded", a fallback task that nobody has cancelled is
\* about to take over.
THEOREM FallbackIsThere == Spec => []DegradedHasFallback
  <1>1. ControlInv => DegradedHasFallback
    BY DEF ControlInv
  <1> QED BY <1>1, Control, PTL

\* stop() closes the pool when no coroutine is writing and no task is left.
THEOREM PoolOutlivesWriters == Spec => []PoolOpenWhileWriting
  <1>1. TypeOK /\ ControlInv => PoolOpenWhileWriting
    <2> SUFFICES ASSUME TypeOK, ControlInv PROVE PoolOpenWhileWriting
      OBVIOUS
    <2>1. life \in LifeStates /\ LifePhases /\ BatchesInUse
      BY DEF TypeOK, ControlInv
    <2>2. ASSUME NEW w \in Writers, HasData(job[w])
          PROVE  life \in {"running", "stopping", "draining"}
      <3>1. CASE w = "main"
        BY <2>1, <2>2, <3>1 DEF BatchesInUse
      <3>2. CASE w = "consumer"
        <4>1. "consumer" \in Alive /\ cons # "none"
          BY <2>1, <2>2, <3>2, AliveIs DEF BatchesInUse
        <4> QED BY <2>1, <4>1 DEF LifePhases, Unborn, LifeStates
      <3>3. CASE w = "flusher"
        <4>1. "flusher" \in Alive /\ flush # "none"
          BY <2>1, <2>2, <3>3, AliveIs DEF BatchesInUse
        <4> QED BY <2>1, <4>1 DEF LifePhases, Unborn, LifeStates
      <3> QED BY <3>1, <3>2, <3>3 DEF Writers
    <2> QED BY <2>1, <2>2 DEF LifePhases, PoolOpenWhileWriting
  <1> QED BY <1>1, Control, TypeCorrect, PTL
-----------------------------------------------------------------------------
(* What becomes of a row between the stream and the tables.                *)

\* w writes, or loses its batch.
Flushes(w) == (Write(w) \/ (WriteAborted(w) /\ LosesBatch(w))) /\ UNCHANGED accepted

\* The whole step of the periodic flusher that touches the tables.
FlusherFlushes == FlusherWrites \/ FlusherWriteFails \/ FlusherCancelled

\* Nothing happens to rows, but that the consumer is cancelled in publish_event.
RowsKept == UNCHANGED writerVars /\ (UNCHANGED accepted \/ ConsumerCancelled)

\* What a step does to the rows, and who has nothing in hand when he takes the buffer,
\* or is running when he writes.
LEMMA RowSteps ==
    ASSUME TypeOK, ControlInv, [Next]_vars
    PROVE  \/ RowsKept
           \/ PublishOk /\ ~HasData(job["consumer"]) /\ life = "running"
           \/ \E w \in {"flusher", "main"} : Takes(w) /\ ~HasData(job[w]) /\ HasData(buffer)
           \/ Flushes("consumer") /\ cons = "flush"
           \/ Flushes("flusher") /\ flush = "write" /\ FlusherFlushes
           \/ Flushes("main") /\ life = "draining"
           \/ Restart
  <1> USE DEF RowsKept, writerVars
  <1>1. CASE UNCHANGED vars \/ ConnectorStep \/ FallbackStep
    BY <1>1 DEF vars, ConnectorStep, FallbackStep
  <1>2. CASE HandleConnected \/ HandleDown \/ HandleFallback \/ HandleMalformed
             \/ HandleRecord \/ Reap \/ PublishFails
    BY <1>2 DEF HandleConnected, HandleDown, HandleFallback, HandleMalformed, HandleRecord,
           Reap, PublishFails
  <1>3. CASE PublishOk
    <2>1. cons = "publish" /\ CanRun("consumer")
      BY <1>3 DEF PublishOk
    <2>2. life = "running"
      BY <2>1, AliveIs, RunsWhileRunning DEF ControlInv
    <2> QED BY <1>3, <2>1, <2>2 DEF ControlInv, BatchesInUse
  <1>4. CASE ConsumerWrites \/ ConsumerWriteFails
    BY <1>4 DEF ConsumerWrites, ConsumerWriteFails, Flushes, LosesBatch
  <1>5. CASE ConsumerCancelled
    <2>1. CASE cons = "flush"
      <3>1. WriteAborted("consumer") /\ UNCHANGED accepted
        BY <1>5, <2>1 DEF ConsumerCancelled
      <3> QED BY <1>5, <2>1, <3>1 DEF Flushes, LosesBatch
    <2>2. CASE cons # "flush"
      BY <1>5, <2>2 DEF ConsumerCancelled
    <2> QED BY <2>1, <2>2
  <1>6. CASE FlusherWakes
    BY <1>6 DEF FlusherWakes, Takes, ControlInv, BatchesInUse
  <1>7. CASE FlusherWrites \/ FlusherWriteFails
    BY <1>7 DEF FlusherWrites, FlusherWriteFails, Flushes, LosesBatch, FlusherFlushes
  <1>8. CASE FlusherCancelled
    <2>1. CASE flush = "write"
      <3>1. WriteAborted("flusher") /\ UNCHANGED accepted
        BY <1>8, <2>1 DEF FlusherCancelled
      <3> QED BY <1>8, <2>1, <3>1 DEF Flushes, LosesBatch, FlusherFlushes
    <2>2. CASE flush # "write"
      BY <1>8, <2>2 DEF FlusherCancelled
    <2> QED BY <2>1, <2>2
  <1>9. CASE StopGathered
    BY <1>9 DEF StopGathered, Takes, ControlInv, BatchesInUse
  <1>10. CASE DrainWrites \/ DrainFails
    BY <1>10 DEF DrainWrites, DrainFails, Flushes, LosesBatch
  <1>11. CASE StartOk \/ StartFails \/ Stop \/ Terminated
    BY <1>11 DEF StartOk, StartFails, Stop, Terminated, vars
  <1> QED
    BY <1>1, <1>2, <1>3, <1>4, <1>5, <1>6, <1>7, <1>8, <1>9, <1>10, <1>11
       DEF Next, LifeNext, ConsumerStep, FlusherStep, MainStep

\* A batch without data has no rows.
LEMMA NoDataNoRows ==
    ASSUME NEW batch, ~HasData(batch)
    PROVE  RowsOf(batch) = {} /\ Rows(batch.ticks) = {} /\ Rows(batch.candles) = {}
  BY EmptyRows DEF HasData, RowsOf

\* What a write stores, and what it leaves of the batch.
LEMMA WhatIsWritten ==
    ASSUME TypeOK, NEW w \in Writers, Write(w) \/ WriteAborted(w)
    PROVE  /\ \A v \in Writers \ {w} : job'[v] = job[v]
           /\ \A s \in Sources :
                 \/ dbCandles'[s] = dbCandles[s]
                 \/ \E r \in Rows(job[w].candles) : r.source = s /\ dbCandles'[s] = r.id
           /\ \/ job'[w].candles = <<>>
              \/ job'[w].candles = job[w].candles /\ UNCHANGED dbCandles
           /\ dbTicks \subseteq dbTicks' /\ buffer' = buffer
  <1>1. job \in [Writers -> Batches]
    BY DEF TypeOK
  <1>2. \A v \in Writers \ {w} : job'[v] = job[v]
    BY OwnBatch
  <1>3. ASSUME NEW s \in Sources
        PROVE  \/ dbCandles'[s] = dbCandles[s]
               \/ \E r \in Rows(job[w].candles) : r.source = s /\ dbCandles'[s] = r.id
    <2>1. CASE UpsertCandles(job[w].candles)
      BY <2>1 DEF UpsertCandles, Rows
    <2>2. CASE UNCHANGED dbCandles
      BY <2>2
    <2> QED BY <2>1, <2>2 DEF Write, WriteAborted, CommitTicks, CommitCandles
  <1>4. \/ job'[w].candles = <<>>
        \/ job'[w].candles = job[w].candles /\ UNCHANGED dbCandles
    <2>1. CASE WriteAborted(w)
      BY <1>1, <2>1, EmptyRows DEF WriteAborted
    <2>2. CASE CommitTicks(w) /\ job' = [job EXCEPT ![w].ticks = <<>>]
      BY <1>1, <2>2 DEF CommitTicks, Batches
    <2>3. CASE CommitCandles(w) /\ job' = [job EXCEPT ![w].candles = <<>>]
      BY <1>1, <2>3 DEF Batches
    <2> QED BY <2>1, <2>2, <2>3 DEF Write
  <1>5. dbTicks \subseteq dbTicks' /\ buffer' = buffer
    BY InsertedRows DEF Write, WriteAborted, CommitTicks, CommitCandles
  <1> QED BY <1>2, <1>3, <1>4, <1>5

\* Of the rows with one key the first is inserted, if the table had none: for every row
\* there is then one with its key.
LEMMA InsertedKeys ==
    ASSUME NEW rows \in Seq(Records), InsertTicks(rows), NEW k \in DOMAIN rows
    PROVE  \E row \in dbTicks' : TickKey(row) = TickKey(rows[k])
  <1> DEFINE same == {i \in DOMAIN rows : TickKey(rows[i]) = TickKey(rows[k])}
  <1>1. same \subseteq Nat /\ same # {} /\ DOMAIN rows \subseteq Nat
    OBVIOUS
  <1>2. PICK first \in same : \A j \in same : <<j, first>> \notin OpToRel(<, Nat)
    <2> HIDE DEF same
    <2> QED BY <1>1, NatLessThanWellFounded, WFMin
  <1>3. \A j \in same : ~(j < first)
    BY <1>1, <1>2 DEF OpToRel
  <1>4. \A j \in DOMAIN rows : j < first => TickKey(rows[j]) # TickKey(rows[first])
    BY <1>2, <1>3
  <1>5. CASE \A row \in dbTicks : TickKey(row) # TickKey(rows[first])
    <2>1. rows[first] \in dbTicks'
      BY <1>2, <1>4, <1>5 DEF InsertTicks
    <2> QED BY <1>2, <2>1
  <1>6. CASE \E row \in dbTicks : TickKey(row) = TickKey(rows[first])
    BY <1>2, <1>6, InsertedRows
  <1> QED BY <1>5, <1>6

\* A write that returns has stored what it takes out of its batch.
LEMMA WrittenIsStored ==
    ASSUME TypeOK, RowsWereAccepted, NEW w \in Writers, Write(w), NEW r \in RowsOf(job[w])
    PROVE  (r \in RowsOf(job[w]) \/ Stored(r))'
  <1>1. job \in [Writers -> Batches] /\ BatchAccepted(job[w])
    BY DEF TypeOK, RowsWereAccepted
  <1>2. CASE CommitTicks(w) /\ job' = [job EXCEPT ![w].ticks = <<>>]
    <2>1. /\ InsertTicks(job[w].ticks) /\ job'[w].candles = job[w].candles
          /\ job[w].ticks \in Seq(Records)
      BY <1>1, <1>2 DEF CommitTicks, Batches
    <2>2. CASE r \in Rows(job[w].candles)
      BY <2>1, <2>2 DEF RowsOf
    <2>3. CASE r \in Rows(job[w].ticks)
      <3>1. \E row \in dbTicks' : TickKey(row) = TickKey(r)
        BY <2>1, <2>3, InsertedKeys DEF Rows
      <3>2. r.kind = "tick"
        BY <1>1, <2>3 DEF BatchAccepted, AcceptedOf
      <3> QED BY <3>1, <3>2 DEF Stored, TickKey
    <2> QED BY <2>2, <2>3 DEF RowsOf
  <1>3. CASE CommitCandles(w) /\ job' = [job EXCEPT ![w].candles = <<>>]
    <2>1. job[w].ticks = <<>> /\ UpsertCandles(job[w].candles)
      BY <1>3 DEF CommitCandles
    <2>2. r \in Rows(job[w].candles)
      BY <2>1, EmptyRows DEF RowsOf
    <2>3. r.kind = "candle" /\ r \in Rows(accepted)
      BY <1>1, <2>2 DEF BatchAccepted, AcceptedOf
    <2>4. job[w].candles \in Seq(Records)
      BY <1>1 DEF Batches
    <2>5. PICK i \in DOMAIN job[w].candles : r = job[w].candles[i]
      BY <2>2 DEF Rows
    <2>6. r \in Records
      BY <2>4, <2>5
    <2>7. r.source \in Sources
      BY <2>6 DEF Records
    <2>8. PICK j \in DOMAIN job[w].candles : dbCandles'[r.source] = job[w].candles[j].id
      BY <2>1, <2>5, <2>7 DEF UpsertCandles
    <2>9. job[w].candles[j] \in Records
      BY <2>4, <2>8
    <2>10. dbCandles'[r.source] # 0
      BY <2>8, <2>9, QueueAssumption DEF Records
    <2> QED BY <2>3, <2>10 DEF Stored
  <1> QED BY <1>2, <1>3 DEF Write

\* The second part of LostOnlyByFailure for a step, and the third.
LEMMA NewIsInMemory ==
    ASSUME TypeOK, ControlInv, [Next]_vars, NEW r \in Rows(accepted') \ Rows(accepted)
    PROVE  InMemory(r)' \/ ConsumerCancelled
  <1>1. CASE PublishOk
    <2>1. cons = "publish" /\ accepted' = Append(accepted, cur)
      BY <1>1 DEF PublishOk
    <2>2. r = cur /\ cur \in Records /\ buffer \in Batches /\ job \in [Writers -> Batches]
      BY <2>1, AcceptedByAppend DEF TypeOK
    <2>3. cur \in RowsOf(WithRow(buffer, cur))
      BY <2>2, WithRowTyped
    <2>4. CASE TakeBatch("consumer", WithRow(buffer, cur))
      <3>1. "consumer" \in Writers /\ job'["consumer"] = WithRow(buffer, cur)
        BY <2>2, <2>4 DEF TakeBatch, Writers
      <3> QED BY <2>2, <2>3, <3>1 DEF InMemory
    <2>5. CASE buffer' = WithRow(buffer, cur)
      BY <2>2, <2>3, <2>5 DEF InMemory
    <2> QED BY <1>1, <2>4, <2>5 DEF PublishOk
  <1>2. CASE UNCHANGED accepted
    BY <1>2
  <1> QED BY <1>1, <1>2, RowSteps DEF RowsKept, Takes, Flushes, Restart

LEMMA KeptUntilStored ==
    ASSUME TypeOK, RowsWereAccepted, ControlInv, [Next]_vars,
           NEW r, InMemory(r), ~(InMemory(r) \/ Stored(r))'
    PROVE  Restart \/ \E w \in Writers : r \in RowsOf(job[w]) /\ LosesBatch(w)
  <1> USE DEF InMemory
  <1>1. job \in [Writers -> Batches] /\ buffer \in Batches
    BY DEF TypeOK
  <1>2. CASE RowsKept
    BY <1>2 DEF RowsKept, writerVars
  <1>3. CASE PublishOk /\ ~HasData(job["consumer"])
    <2>1. cur \in Records
      BY <1>3, ItemTypes DEF PublishOk
    <2>2. RowsOf(buffer) \subseteq RowsOf(WithRow(buffer, cur))
      BY <1>1, <2>1, WithRowTyped
    <2>3. CASE TakeBatch("consumer", WithRow(buffer, cur))
      <3>1. /\ "consumer" \in Writers /\ job'["consumer"] = WithRow(buffer, cur)
            /\ \A v \in Writers \ {"consumer"} : job'[v] = job[v]
        BY <1>1, <2>3 DEF TakeBatch, Writers
      <3> QED BY <1>3, <2>2, <3>1, NoDataNoRows
    <2>4. CASE buffer' = WithRow(buffer, cur) /\ UNCHANGED job
      BY <2>2, <2>4
    <2> QED BY <1>3, <2>3, <2>4 DEF PublishOk
  <1>4. ASSUME NEW w \in Writers, Takes(w), ~HasData(job[w]) PROVE FALSE
    <2>1. job'[w] = buffer /\ \A v \in Writers \ {w} : job'[v] = job[v]
      BY <1>1, <1>4 DEF Takes, TakeBatch
    <2> QED BY <1>4, <2>1, NoDataNoRows
  <1>5. ASSUME NEW w \in Writers, Flushes(w)
        PROVE  r \in RowsOf(job[w]) /\ LosesBatch(w)
    <2>1. buffer' = buffer /\ \A v \in Writers \ {w} : job'[v] = job[v]
      BY <1>5, WhatIsWritten DEF Flushes
    <2>2. r \in RowsOf(job[w])
      BY <2>1
    <2>3. ~Write(w)
      BY <2>2, WrittenIsStored
    <2> QED BY <1>5, <2>2, <2>3 DEF Flushes
  <1> QED BY <1>2, <1>3, <1>4, <1>5, RowSteps DEF Writers

\* What a put adds to the rows of the queue, and a get takes away.
LEMMA QueueRows ==
    ASSUME TypeOK
    PROVE  /\ \A x \in Records \cup Statuses : Rows(queue) \subseteq Rows(Append(queue, x))
           /\ queue # <<>> => Rows(queue) \subseteq Rows(Tail(queue)) \cup {Head(queue)}
  <1>1. queue \in Seq(Records \cup Statuses)
    BY DEF TypeOK
  <1>2. ASSUME NEW x \in Records \cup Statuses PROVE Rows(queue) \subseteq Rows(Append(queue, x))
    BY <1>1, AppendFacts
  <1>3. ASSUME queue # <<>>, NEW i \in DOMAIN queue
        PROVE  queue[i] \in Rows(Tail(queue)) \cup {Head(queue)}
    <2>1. CASE i = 1
      BY <1>1, <1>3, <2>1, TailFacts
    <2>2. CASE i # 1
      <3>1. i \in 1..Len(queue) /\ Len(queue) \in Nat
        BY <1>1, <1>3
      <3>2. i - 1 \in 1..Len(queue) - 1 /\ (i - 1) + 1 = i
        BY <2>2, <3>1
      <3>3. DOMAIN Tail(queue) = 1..Len(queue) - 1 /\ Tail(queue)[i - 1] = queue[(i - 1) + 1]
        BY <1>1, <1>3, <3>1, <3>2
      <3> QED BY <3>2, <3>3 DEF Rows
    <2> QED BY <2>1, <2>2
  <1> QED BY <1>2, <1>3 DEF Rows

\* Why a record is no longer on its way: the first part of LostOnlyByFailure for a step.
LEMMA LeavesForAReason ==
    ASSUME TypeOK, ControlInv, [Next]_vars, NEW r \in OnTheWay \ OnTheWay'
    PROVE  \/ r \in Rows(accepted') \/ Restart
           \/ HandleMalformed /\ r = Head(queue)
           \/ (PublishFails \/ ConsumerCancelled) /\ r = cur
  <1> USE DEF OnTheWay
  <1>1. CASE Rows(queue) \subseteq Rows(queue') /\ UNCHANGED <<cons, cur>>
    BY <1>1
  <1>2. CASE ConnectorStep \/ FallbackStep
    <2>1. UNCHANGED <<cons, cur>>
      BY <1>2 DEF ConnectorStep, FallbackStep, consVars
    <2>2. \/ UNCHANGED queue
          \/ \E x \in Records \cup Statuses : queue' = Append(queue, x)
      <3>1. ASSUME NEW p \in Sources, NEW s \in StatusKinds, PutStatus(p, s)
            PROVE  \E x \in Records \cup Statuses : queue' = Append(queue, x)
        BY <3>1 DEF PutStatus, Status, Statuses
      <3>2. ASSUME NEW p \in Sources, NEW k \in RecordKinds, PutRecord(p, k)
            PROVE  \E x \in Records \cup Statuses : queue' = Append(queue, x)
        <4>1. nextId \in 1..MaxRecords
          BY <3>2, QueueAssumption DEF PutRecord, TypeOK
        <4> QED BY <3>2, <4>1 DEF PutRecord, Records
      <3>3. CASE ConnectorStep
        BY <3>1, <3>2, <3>3 DEF ConnectorStep, ConnectorNext, ConnectorReports, Connect, Subscribe,
               Receive, SessionFails, ReportError, ReportDown, DelayOver, ConnectorCancelled,
               Interrupt, queueVars, Sources, StatusKinds
      <3>4. CASE FallbackStep
        BY <3>1, <3>2, <3>4 DEF FallbackStep, FbNext, FbAnnounce, FbTick, FbCandle, FbCancelled,
               Interrupt, Sources, StatusKinds, RecordKinds
      <3> QED BY <1>2, <3>3, <3>4
    <2> QED BY <1>1, <2>1, <2>2, QueueRows
  <1>3. ASSUME NEW kinds, Dequeue(kinds)
        PROVE  r = Head(queue) /\ Head(queue).kind \in kinds /\ IsRecord(r)
    <2>1. queue' = Tail(queue) /\ queue # <<>> /\ cons = "get" /\ Head(queue).kind \in kinds
      BY <1>3 DEF Dequeue
    <2> QED BY <2>1, QueueRows
  <1>4. CASE HandleConnected \/ HandleDown \/ HandleFallback
    BY <1>3, <1>4 DEF HandleConnected, HandleDown, HandleFallback, IsRecord, RecordKinds
  <1>5. CASE HandleMalformed
    BY <1>3, <1>5 DEF HandleMalformed
  <1>6. CASE HandleRecord
    BY <1>3, <1>6 DEF HandleRecord
  <1>7. CASE PublishOk
    <2>1. cons = "publish" /\ UNCHANGED queue /\ accepted' = Append(accepted, cur)
      BY <1>7 DEF PublishOk
    <2> QED BY <2>1, AcceptedByAppend, ItemTypes
  <1>8. CASE PublishFails \/ ConsumerCancelled
    BY <1>8 DEF PublishFails, ConsumerCancelled, Interrupt
  <1>9. CASE Reap \/ ConsumerWrites \/ ConsumerWriteFails
    BY <1>9 DEF Reap, ConsumerWrites, ConsumerWriteFails
  <1>10. CASE FlusherStep \/ StartFails \/ StopGathered \/ DrainWrites \/ DrainFails \/ Stop
              \/ Terminated \/ UNCHANGED vars
    BY <1>1, <1>10 DEF FlusherStep, FlusherWakes, FlusherWrites, FlusherWriteFails,
           FlusherCancelled, Interrupt, StartFails, StopGathered, DrainWrites, DrainFails, Stop,
           Terminated, vars, queueVars, consVars
  <1>11. CASE StartOk
    <2>1. cons = "none" /\ UNCHANGED queue
      BY <1>11 DEF StartOk, ControlInv, LifePhases, Unborn, queueVars
    <2> QED BY <2>1
  <1> QED
    BY <1>2, <1>4, <1>5, <1>6, <1>7, <1>8, <1>9, <1>10, <1>11 DEF Next, LifeNext, ConsumerStep, MainStep

\* Between its arrival and the tables a record is never forgotten: it leaves the queue
\* and the consumer's hands when it is accepted, refused or cancelled; once
\* accepted it is in memory, and stays there until it is stored or its batch goes down
\* with its writer: the consumer, the periodic flusher and stop() empty one buffer.
THEOREM OnlyFailuresLose == Spec => LostOnlyByFailure
  <1>1. TypeOK /\ RowsWereAccepted /\ ControlInv /\ [Next]_vars
        => [/\ \A r \in OnTheWay \ OnTheWay' :
                 \/ r \in Rows(accepted') \/ Restart
                 \/ HandleMalformed /\ r = Head(queue)
                 \/ (PublishFails \/ ConsumerCancelled) /\ r = cur
            /\ \A r \in Rows(accepted') \ Rows(accepted) : InMemory(r)' \/ ConsumerCancelled
            /\ \A r \in Rows(accepted) :
                 InMemory(r) /\ ~(InMemory(r) \/ Stored(r))' =>
                     Restart \/ \E w \in Writers : r \in RowsOf(job[w]) /\ LosesBatch(w)]_vars
    BY LeavesForAReason, NewIsInMemory, KeptUntilStored
  <1>2. IInv => TypeOK /\ RowsWereAccepted
    BY DEF IInv
  <1> QED BY <1>1, <1>2, Control, Strengthened, PTL DEF Spec, LostOnlyByFailure

-----------------------------------------------------------------------------
(* Which version of a candle is written over which.                        *)

Earlier(first, then) == \A q \in Rows(first), r \in Rows(then) : q.id < r.id
Newer(batch) == \A r \in Rows(batch.candles) : dbCandles[r.source] < r.id

\* The consumer and stop() leave nothing in the buffer, and nothing is added to it
\* while they write: what waits is newer than what the tables hold, and of the two
\* batches that can be under way, the flusher's is the older.
VersionOrder ==
    /\ HasData(job["consumer"]) \/ HasData(job["main"]) => ~HasData(buffer)
    /\ Earlier(job["flusher"].candles, job["consumer"].candles)
    /\ Earlier(job["flusher"].candles, buffer.candles)
    /\ Newer(buffer) /\ Newer(job["consumer"]) /\ Newer(job["main"])

\* Rows are numbered, and a table holds a number.
LEMMA RowNumbers ==
    ASSUME TypeOK
    PROVE  /\ \A r \in Records : r.id \in Int /\ r.id > 0 /\ r.source \in Sources
           /\ \A s \in Sources : dbCandles[s] \in Int
           /\ Rows(buffer.candles) \subseteq Records
           /\ \A w \in Writers : Rows(job[w].candles) \subseteq Records
  <1>1. MaxRecords \in Nat /\ dbCandles \in [Sources -> 0..MaxRecords]
    BY QueueAssumption DEF TypeOK
  <1>2. buffer.candles \in Seq(Records) /\ \A w \in Writers : job[w].candles \in Seq(Records)
    BY DEF TypeOK, Batches
  <1>3. \A r \in Records : r.id \in Int /\ r.id > 0 /\ r.source \in Sources
    BY <1>1 DEF Records
  <1>4. \A s \in Sources : dbCandles[s] \in Int
    BY <1>1
  <1>5. ASSUME NEW list \in Seq(Records) PROVE Rows(list) \subseteq Records
    BY DEF Rows
  <1> QED BY <1>2, <1>3, <1>4, <1>5

\* The record in hand is newer than all rows there are.
LEMMA InHandIsNewest ==
    ASSUME IInv, cons = "publish"
    PROVE  /\ cur \in Records
           /\ \A w \in Writers : \A r \in Rows(job[w].candles) : r.id < cur.id
           /\ \A s \in Sources : dbCandles[s] < cur.id
  <1>1. TypeOK /\ ArrivalOrder /\ RowsWereAccepted
    BY DEF IInv
  <1>2. cur \in Records /\ cur.id > 0
    BY <1>1, ItemTypes, RowNumbers
  <1>3. \A r \in Rows(accepted) : r.id < cur.id
    BY <1>1 DEF ArrivalOrder, Rows
  <1>4. \A w \in Writers : Rows(job[w].candles) \subseteq Rows(accepted)
    BY <1>1, MemoryWasAccepted DEF RowsOf
  <1>5. \A s \in Sources : dbCandles[s] = 0 \/ \E r \in Rows(accepted) : r.id = dbCandles[s]
    BY <1>1 DEF RowsWereAccepted, AcceptedOf
  <1> QED BY <1>2, <1>3, <1>4, <1>5

\* While a task may still write, stop() has nothing to write.
LEMMA MainWritesAlone ==
    ASSUME TypeOK, ControlInv, cons \notin {"none", "ended"} \/ flush = "write"
    PROVE  ~HasData(job["main"])
  <1>1. "consumer" \in Alive \/ "flusher" \in Alive
    BY AliveIs
  <1> QED BY <1>1 DEF ControlInv, LifePhases, BatchesInUse

\* When stop() writes, no other batch is under way.
LEMMA MainWritesLast ==
    ASSUME TypeOK, ControlInv, life = "draining"
    PROVE  ~HasData(job["consumer"]) /\ ~HasData(job["flusher"])
  <1>1. Alive = {}
    BY DEF ControlInv, LifePhases
  <1> QED BY <1>1, AliveIs DEF ControlInv, BatchesInUse

LEMMA VersionPublish ==
    ASSUME IInv, ControlInv, VersionOrder, PublishOk, ~HasData(job["consumer"])
    PROVE  VersionOrder' /\ UNCHANGED dbCandles
  <1> DEFINE batch == WithRow(buffer, cur)
  <1>1. TypeOK /\ cons = "publish" /\ UNCHANGED dbCandles
    BY DEF IInv, PublishOk
  <1>2. job \in [Writers -> Batches] /\ buffer \in Batches /\ {"consumer", "flusher", "main"} = Writers
    BY <1>1 DEF TypeOK, Writers
  <1>3. Rows(batch.candles) \subseteq Rows(buffer.candles) \cup {cur}
    BY <1>1, <1>2, InHandIsNewest, WithRowRows
  <1>4. ~HasData(job["main"])
    BY <1>1, MainWritesAlone
  <1>5. Earlier(job["flusher"].candles, batch.candles)
    <2>1. \A r \in Rows(job["flusher"].candles) : r.id < cur.id
      BY <1>1, <1>2, InHandIsNewest
    <2> QED BY <1>3, <2>1 DEF Earlier, VersionOrder
  <1>6. Newer(batch)
    <2>1. cur.source \in Sources
      BY <1>1, InHandIsNewest, RowNumbers
    <2>2. dbCandles[cur.source] < cur.id
      BY <1>1, <2>1, InHandIsNewest
    <2> QED BY <1>3, <2>2 DEF Newer, VersionOrder
  <1> HIDE DEF batch
  <1>7. CASE TakeBatch("consumer", batch)
    <2>1. /\ job'["consumer"] = batch /\ job'["flusher"] = job["flusher"]
          /\ job'["main"] = job["main"] /\ buffer' = EmptyBatch
      BY <1>2, <1>7 DEF TakeBatch
    <2>2. ~HasData(EmptyBatch) /\ Rows(EmptyBatch.candles) = {}
      BY EmptyRows DEF HasData
    <2> QED BY <1>1, <1>5, <1>6, <2>1, <2>2 DEF VersionOrder, Earlier, Newer, HasData
  <1>8. CASE buffer' = batch /\ UNCHANGED job
    <2>1. ~HasData(job["consumer"])' /\ ~HasData(job["main"])'
      BY <1>4, <1>8 DEF HasData
    <2> QED BY <1>1, <1>5, <1>6, <1>8, <2>1 DEF VersionOrder, Earlier, Newer
  <1> QED BY <1>1, <1>7, <1>8 DEF PublishOk, batch

LEMMA VersionTake ==
    ASSUME TypeOK, ControlInv, VersionOrder, NEW w \in {"flusher", "main"},
           Takes(w), ~HasData(job[w]), HasData(buffer)
    PROVE  VersionOrder' /\ UNCHANGED dbCandles
  <1>1. job \in [Writers -> Batches] /\ {"consumer", "flusher", "main"} = Writers
    BY DEF TypeOK, Writers
  <1>2. /\ job'[w] = buffer /\ \A v \in Writers \ {w} : job'[v] = job[v]
        /\ buffer' = EmptyBatch /\ UNCHANGED dbCandles
    BY <1>1 DEF Takes, TakeBatch
  <1>3. ~HasData(EmptyBatch) /\ Rows(EmptyBatch.candles) = {}
    BY EmptyRows DEF HasData
  <1>4. Rows(job["consumer"].candles) = {} /\ job'["consumer"] = job["consumer"]
    BY <1>1, <1>2, NoDataNoRows DEF VersionOrder
  <1>5. Newer(job["main"])' /\ Newer(job["consumer"])'
    BY <1>1, <1>2, <1>4 DEF VersionOrder, Newer
  <1> QED BY <1>2, <1>3, <1>4, <1>5 DEF VersionOrder, Earlier, Newer, HasData

\* A write of the consumer or of stop() brings the tables forward.
LEMMA VersionWrite ==
    ASSUME TypeOK, ControlInv, VersionOrder, NEW w \in {"consumer", "main"}, Flushes(w),
           w = "consumer" => cons = "flush", w = "main" => life = "draining"
    PROVE  VersionOrder' /\ \A s \in Sources : ~(dbCandles'[s] < dbCandles[s])
  <1>1. {"consumer", "flusher", "main"} = Writers /\ HasData(job[w])
    BY DEF Writers, Flushes, Write, WriteAborted, CommitTicks, CommitCandles, HasData
  <1>2. /\ \A v \in Writers \ {w} : job'[v] = job[v]
        /\ \A s \in Sources :
              \/ dbCandles'[s] = dbCandles[s]
              \/ \E r \in Rows(job[w].candles) : r.source = s /\ dbCandles'[s] = r.id
        /\ \/ job'[w].candles = <<>>
           \/ job'[w].candles = job[w].candles /\ UNCHANGED dbCandles
        /\ buffer' = buffer
    BY <1>1, WhatIsWritten DEF Flushes
  <1>3. ~HasData(buffer) /\ Rows(buffer.candles) = {}
    BY <1>1, NoDataNoRows DEF VersionOrder
  <1>4. ASSUME NEW v \in {"consumer", "main"} \ {w} PROVE Rows(job[v].candles) = {}
    BY MainWritesAlone, MainWritesLast, NoDataNoRows
  <1>5. Rows(job'[w].candles) \subseteq Rows(job[w].candles)
    BY <1>2, EmptyRows
  <1>6. ASSUME NEW v \in {"consumer", "main"} PROVE Newer(job[v])'
    <2>1. CASE v = w
      BY <1>2, <2>1, EmptyRows DEF Newer, VersionOrder
    <2>2. CASE v # w
      BY <1>1, <1>2, <1>4, <2>2 DEF Newer
    <2> QED BY <2>1, <2>2
  <1>7. Earlier(job["flusher"].candles, job["consumer"].candles)'
    BY <1>1, <1>2, <1>5 DEF Earlier, VersionOrder
  <1>8. VersionOrder'
    BY <1>1, <1>2, <1>3, <1>6, <1>7 DEF VersionOrder, Earlier, Newer, HasData
  <1>9. ASSUME NEW s \in Sources PROVE ~(dbCandles'[s] < dbCandles[s])
    <2>1. \A r \in Rows(job[w].candles) : r.id \in Int /\ dbCandles[r.source] < r.id
      BY <1>1, RowNumbers DEF VersionOrder, Newer
    <2>2. dbCandles[s] \in Int
      BY RowNumbers
    <2> QED BY <1>2, <2>1, <2>2
  <1> QED BY <1>8, <1>9

\* A write of the flusher may bring an older version back, but none that is newer
\* than what waits.
LEMMA VersionFlusher ==
    ASSUME TypeOK, ControlInv, VersionOrder, Flushes("flusher"), flush = "write"
    PROVE  VersionOrder'
  <1>1. {"consumer", "flusher", "main"} = Writers
    BY DEF Writers
  <1>2. /\ job'["consumer"] = job["consumer"] /\ job'["main"] = job["main"]
        /\ \A s \in Sources :
              \/ dbCandles'[s] = dbCandles[s]
              \/ \E r \in Rows(job["flusher"].candles) : r.source = s /\ dbCandles'[s] = r.id
        /\ job'["flusher"].candles = <<>> \/ job'["flusher"].candles = job["flusher"].candles
        /\ buffer' = buffer
    BY <1>1, WhatIsWritten DEF Flushes
  <1>3. Rows(job["main"].candles) = {}
    BY MainWritesAlone, NoDataNoRows
  <1>4. Newer(buffer)' /\ Newer(job["consumer"])'
    <2>1. ASSUME NEW list, Rows(list) \subseteq Records, Earlier(job["flusher"].candles, list),
                 \A r \in Rows(list) : dbCandles[r.source] < r.id
          PROVE  \A r \in Rows(list) : dbCandles'[r.source] < r.id
      BY <1>2, <2>1, RowNumbers DEF Earlier
    <2> QED BY <1>1, <1>2, <2>1, RowNumbers DEF VersionOrder, Newer
  <1>5. Rows(job'["flusher"].candles) \subseteq Rows(job["flusher"].candles)
    BY <1>2, EmptyRows
  <1> QED BY <1>2, <1>3, <1>4, <1>5 DEF VersionOrder, Earlier, Newer, HasData

LEMMA VersionNext ==
    ASSUME IInv, ControlInv, VersionOrder, [Next]_vars
    PROVE  /\ VersionOrder'
           /\ (\E s \in Sources : dbCandles'[s] < dbCandles[s]) => FlusherFlushes
  <1>1. TypeOK
    BY DEF IInv
  <1>2. ASSUME UNCHANGED dbCandles PROVE ~ \E s \in Sources : dbCandles'[s] < dbCandles[s]
    BY <1>1, <1>2, RowNumbers
  <1>3. CASE RowsKept
    BY <1>2, <1>3 DEF RowsKept, writerVars, VersionOrder, Earlier, Newer, HasData
  <1>4. CASE Restart
    <2>1. UNCHANGED dbCandles /\ buffer' = EmptyBatch /\ \A w \in Writers : job'[w] = EmptyBatch
      BY <1>4 DEF Restart
    <2>2. ~HasData(EmptyBatch) /\ Rows(EmptyBatch.candles) = {} /\ {"consumer", "flusher", "main"} = Writers
      BY EmptyRows DEF HasData, Writers
    <2> QED BY <1>2, <2>1, <2>2 DEF VersionOrder, Earlier, Newer, HasData
  <1> QED
    BY <1>1, <1>2, <1>3, <1>4, RowSteps, VersionPublish, VersionTake, VersionWrite, VersionFlusher

\* An older version of a candle replaces a newer one only through the periodic
\* flusher: the versions that the consumer and stop() write are always newer than
\* those the tables hold.
THEOREM FlusherAloneRegresses == Spec => OnlyFlusherRegresses
  <1>1. Init => VersionOrder
    BY EmptyRows DEF Init, WriterInit, VersionOrder, Earlier, Newer, HasData, EmptyBatch, Writers
  <1>2. IInv /\ ControlInv /\ VersionOrder /\ [Next]_vars => VersionOrder'
    BY VersionNext
  <1>3. IInv /\ ControlInv /\ VersionOrder /\ [Next]_vars
        => [(\E s \in Sources : dbCandles'[s] < dbCandles[s])
              => FlusherWrites \/ FlusherWriteFails \/ FlusherCancelled]_vars
    BY VersionNext DEF FlusherFlushes
  <1> QED BY <1>1, <1>2, <1>3, Control, Strengthened, PTL DEF Spec, OnlyFlusherRegresses

-----------------------------------------------------------------------------
(* The counters.                                                           *)

Handed(k) == {i \in DOMAIN accepted : accepted[i].kind = k}

\* The record whose flush the consumer waits for is not counted yet.
InFlush(k) == IF cons = "flush" /\ cur.kind = k THEN 1 ELSE 0

\* Nothing has happened that takes a record out of the count.
Counts == restarts = 0 /\ "db" \notin Faults

CountersInv ==
    life \in {"starting", "running"} =>
        \A k \in RecordKinds :
            /\ processed[k] <= Cardinality(Handed(k)) - InFlush(k)
            /\ Counts => processed[k] = Cardinality(Handed(k)) - InFlush(k)

LEMMA CountersKept ==
    ASSUME CountersInv, UNCHANGED <<accepted, processed>>,
           UNCHANGED <<cons, cur>> \/ (cons # "flush" /\ cons' # "flush"),
           life' \in {"starting", "running"} => life \in {"starting", "running"},
           UNCHANGED restarts
    PROVE  CountersInv'
  <1>1. \A k \in RecordKinds : Handed(k)' = Handed(k) /\ InFlush(k)' = InFlush(k)
    BY DEF Handed, InFlush
  <1> QED BY <1>1 DEF CountersInv, Counts

\* The events of a kind can be counted.
LEMMA HandedCount ==
    ASSUME TypeOK, NEW k
    PROVE  IsFiniteSet(Handed(k)) /\ Cardinality(Handed(k)) \in Nat
  <1>1. DOMAIN accepted = 1..Len(accepted) /\ Len(accepted) \in Nat
    BY ItemTypes
  <1>2. IsFiniteSet(1..Len(accepted)) /\ Handed(k) \in SUBSET (1..Len(accepted))
    BY <1>1, FS_Interval DEF Handed
  <1>3. IsFiniteSet(Handed(k))
    BY <1>2, FS_Subset
  <1> QED BY <1>3, FS_CardinalityType

\* One more event of its kind, and none of the other.
LEMMA HandedOneMore ==
    ASSUME TypeOK, cons = "publish", accepted' = Append(accepted, cur), NEW k \in RecordKinds
    PROVE  Cardinality(Handed(k))' = Cardinality(Handed(k)) + (IF cur.kind = k THEN 1 ELSE 0)
  <1> DEFINE last == Len(accepted) + 1
  <1>1. /\ DOMAIN accepted' = DOMAIN accepted \cup {last}
        /\ \A i \in DOMAIN accepted : i \in 1..Len(accepted) /\ accepted'[i] = accepted[i]
        /\ accepted'[last] = cur /\ Len(accepted) \in Nat
    BY ItemTypes, AppendFacts
  <1>2. last \notin DOMAIN accepted
    BY <1>1
  <1>3. Handed(k)' = IF cur.kind = k THEN Handed(k) \cup {last} ELSE Handed(k)
    BY <1>1, <1>2 DEF Handed
  <1>4. last \notin Handed(k)
    BY <1>2 DEF Handed
  <1>5. CASE cur.kind = k
    BY <1>3, <1>4, <1>5, HandedCount, FS_AddElement
  <1>6. CASE cur.kind # k
    BY <1>3, <1>6, HandedCount
  <1> QED BY <1>5, <1>6

\* The record in hand leaves the consumer: accepted, or refused, and counted or not.
LEMMA CountersPublish ==
    ASSUME TypeOK, CountersInv, life \in {"starting", "running"}, PublishOk
    PROVE  CountersInv'
  <1>1. /\ cons = "publish" /\ accepted' = Append(accepted, cur) /\ UNCHANGED restarts
        /\ cur \in Records /\ cur.kind \in RecordKinds
    BY ItemTypes DEF PublishOk, Records, lifeVars
  <1>2. processed \in [RecordKinds -> Nat]
    BY DEF TypeOK
  <1>3. ASSUME NEW k \in RecordKinds
        PROVE  /\ processed'[k] <= Cardinality(Handed(k))' - InFlush(k)'
               /\ Counts => processed'[k] = Cardinality(Handed(k))' - InFlush(k)'
    <2>1. /\ Cardinality(Handed(k))' = Cardinality(Handed(k)) + (IF cur.kind = k THEN 1 ELSE 0)
          /\ processed[k] <= Cardinality(Handed(k)) /\ processed[k] \in Nat
          /\ Counts => processed[k] = Cardinality(Handed(k))
          /\ Cardinality(Handed(k)) \in Nat
      BY <1>1, <1>2, HandedOneMore, HandedCount DEF CountersInv, InFlush
    <2>2. CASE cons' = "flush" /\ UNCHANGED <<cur, processed>>
      BY <2>1, <2>2 DEF InFlush
    <2>3. CASE Counted
      <3>1. processed'[k] = processed[k] + (IF cur.kind = k THEN 1 ELSE 0) /\ cons' = "get"
        BY <1>1, <1>2, <2>1, <2>3 DEF Counted
      <3>2. InFlush(k)' = 0
        BY <3>1 DEF InFlush
      <3> QED BY <2>1, <3>1, <3>2
    <2> QED BY <2>2, <2>3 DEF PublishOk
  <1> QED BY <1>1, <1>3 DEF CountersInv, Counts

\* The flush is over: the record that caused it is counted, unless a write failed.
LEMMA CountersWrites ==
    ASSUME TypeOK, CountersInv, life \in {"starting", "running"},
           ConsumerWrites \/ ConsumerWriteFails
    PROVE  CountersInv'
  <1>1. /\ cons = "flush" /\ cur \in Records /\ cur.kind \in RecordKinds
        /\ UNCHANGED <<accepted, life, restarts>>
    BY DEF ConsumerWrites, ConsumerWriteFails, TypeOK, Records, lifeVars
  <1>2. processed \in [RecordKinds -> Nat]
    BY DEF TypeOK
  <1>3. CASE UNCHANGED <<cons, cur, processed>>
    BY <1>1, <1>3, CountersKept
  <1>4. CASE Counted \/ ConsumerWriteFails
    <2> SUFFICES ASSUME NEW k \in RecordKinds
                 PROVE  /\ processed'[k] <= Cardinality(Handed(k))' - InFlush(k)'
                        /\ Counts => processed'[k] = Cardinality(Handed(k))' - InFlush(k)'
      BY <1>1 DEF CountersInv, Counts
    <2> DEFINE one == IF cur.kind = k THEN 1 ELSE 0
    <2>1. /\ processed[k] <= Cardinality(Handed(k)) - one
          /\ Counts => processed[k] = Cardinality(Handed(k)) - one
          /\ Cardinality(Handed(k)) \in Nat /\ one \in {0, 1} /\ processed[k] \in Nat
      BY <1>1, <1>2, HandedCount DEF CountersInv, InFlush
    <2>2. cons' = "get"
      BY <1>4 DEF Counted, ConsumerWriteFails, Skipped
    <2>3. Handed(k)' = Handed(k) /\ InFlush(k)' = 0
      BY <1>1, <2>2 DEF Handed, InFlush
    <2>4. CASE Counted
      <3>1. processed'[k] = processed[k] + one
        BY <1>1, <1>2, <2>4 DEF Counted
      <3> QED BY <2>1, <2>3, <3>1
    <2>5. CASE ConsumerWriteFails
      <3>1. processed' = processed /\ ~Counts
        BY <2>5 DEF ConsumerWriteFails, Skipped, Counts
      <3> QED BY <2>1, <2>3, <3>1
    <2> QED BY <1>4, <2>4, <2>5
  <1> QED BY <1>3, <1>4 DEF ConsumerWrites

\* Another process starts to count from zero, and the stream goes on.
LEMMA CountersRestart ==
    ASSUME TypeOK, Restart
    PROVE  CountersInv'
  <1>1. ASSUME NEW k \in RecordKinds
        PROVE  processed'[k] <= Cardinality(Handed(k))' - InFlush(k)'
    <2>1. processed'[k] = 0 /\ InFlush(k)' = 0 /\ Handed(k)' = Handed(k)
      BY DEF Restart, InFlush, Handed
    <2> QED BY <2>1, HandedCount
  <1>2. ~Counts'
    BY DEF Restart, TypeOK, Counts
  <1> QED BY <1>1, <1>2 DEF CountersInv

LEMMA CountersNext ==
    ASSUME TypeOK, ControlInv, CountersInv, [Next]_vars
    PROVE  CountersInv'
  <1> USE CountersKept DEF consVars, lifeVars
  <1>1. CASE life' \notin {"starting", "running"}
    BY <1>1 DEF CountersInv
  <1>2. CASE UNCHANGED vars \/ ConnectorStep \/ FallbackStep \/ FlusherStep
    BY <1>2 DEF vars, ConnectorStep, FallbackStep, FlusherStep, FlusherWakes, FlusherWrites,
           FlusherWriteFails, FlusherCancelled
  <1>3. CASE HandleConnected \/ HandleDown \/ HandleFallback \/ HandleRecord \/ Reap
    BY <1>3 DEF HandleConnected, HandleDown, HandleFallback, HandleRecord, Reap, Dequeue, CancelFallback
  <1>4. CASE HandleMalformed \/ PublishFails
    BY <1>4 DEF HandleMalformed, PublishFails, Dequeue, Skipped
  <1>5. CASE PublishOk \/ ConsumerWrites \/ ConsumerWriteFails
    <2>1. "consumer" \in Alive /\ CanRun("consumer")
      BY <1>5, AliveIs DEF PublishOk, ConsumerWrites, ConsumerWriteFails
    <2>2. life = "running"
      BY <2>1, RunsWhileRunning DEF ControlInv
    <2> QED BY <1>5, <2>2, CountersPublish, CountersWrites
  <1>6. CASE ConsumerCancelled
    <2>1. "consumer" \in cancel /\ life' = life
      BY <1>6 DEF ConsumerCancelled, Interrupt
    <2>2. life = "stopping"
      BY <2>1, CancelsWhile DEF ControlInv
    <2> QED BY <1>1, <2>1, <2>2
  <1>7. CASE StartOk
    <2>1. life = "starting" /\ cons' = "get" /\ UNCHANGED <<accepted, processed, restarts>>
      BY <1>7 DEF StartOk
    <2>2. cons = "none"
      BY <2>1 DEF ControlInv, LifePhases, Unborn
    <2> QED BY <2>1, <2>2
  <1>8. CASE StartFails \/ StopGathered \/ DrainWrites \/ DrainFails \/ Stop
    BY <1>1, <1>8 DEF StartFails, StopGathered, DrainWrites, DrainFails, Stop
  <1>9. CASE Terminated
    BY <1>9 DEF Terminated, vars
  <1> QED
    BY <1>2, <1>3, <1>4, <1>5, <1>6, <1>7, <1>8, <1>9, CountersRestart
       DEF Next, LifeNext, ConsumerStep, MainStep

\* Whatever fails, /market/status never reports more than was accepted; and as long as
\* the process is the first one and no write of the consumer can fail it reports
\* exactly that, but for the record whose flush is under way.
THEOREM CountersStayExact == Spec => []CountersAreExact
  <1>1. Init => CountersInv
    <2> SUFFICES ASSUME Init, NEW k \in RecordKinds
                 PROVE  processed[k] = 0 /\ Cardinality(Handed(k)) = 0 /\ InFlush(k) = 0
      BY DEF CountersInv
    <2>1. Handed(k) = {} /\ InFlush(k) = 0 /\ processed[k] = 0
      BY DEF Init, Handed, InFlush
    <2> QED BY <2>1, FS_EmptySet
  <1>2. TypeOK /\ ControlInv /\ CountersInv /\ [Next]_vars => CountersInv'
    BY CountersNext
  <1>3. CountersInv => CountersAreExact
    BY DEF CountersInv, CountersAreExact, Handed, InFlush, Counts
  <1> QED BY <1>1, <1>2, <1>3, Control, TypeCorrect, PTL DEF Spec

-----------------------------------------------------------------------------
(* Who waits for whom, and how stop() ends.                                *)

\* Every step keeps the agreements about the event loop.
LEMMA LoopKept ==
    ASSUME LoopInUse, UNCHANGED <<queueVars, conn, fb, cons>>
    PROVE  LoopInUse'
  BY DEF LoopInUse, queueVars, Full

LEMMA ConnectorLoop == TypeOK /\ LoopInUse /\ ConnectorStep => LoopInUse'
  <1> SUFFICES ASSUME TypeOK, LoopInUse, ConnectorStep PROVE LoopInUse'
    OBVIOUS
  <1>0. loop' # "idle" /\ HoldForPut("primary") => ~Full'
    <2>1. Len(queue') \in Int /\ QueueSize \in Int
      BY ConnectorTyped, QueueAssumption DEF TypeOK
    <2> QED BY <2>1 DEF HoldForPut, Full
  <1> USE DEF LoopInUse, ConnectorStep, consVars
  <1>1. CASE Connect \/ Subscribe \/ \E kind \in RecordKinds : Receive(kind)
    BY <1>1 DEF Connect, Subscribe, Receive, Suspend, TypeOK, Tasks
  <1>2. CASE SessionFails \/ ReportError
    <2>1. /\ {"primary", "idle"} \cap cancel = {} /\ UNCHANGED <<cancel, cons, fb>>
          /\ \/ loop' = "idle"
             \/ loop' = "primary" /\ conn' = "reportDown" /\ HoldForPut("primary")
      BY <1>2 DEF SessionFails, ReportError, HoldForPut, Suspend, CanRun, TypeOK, Tasks
    <2> QED BY <1>0, <2>1
  <1>3. CASE ReportDown
    BY <1>3 DEF ReportDown, Suspend, TypeOK, Tasks
  <1>4. CASE DelayOver
    BY <1>4 DEF DelayOver, queueVars, Full, CanRun
  <1>5. CASE ConnectorCancelled
    BY <1>5 DEF ConnectorCancelled, Interrupt, TypeOK, Tasks
  <1> QED BY <1>1, <1>2, <1>3, <1>4, <1>5 DEF ConnectorNext, ConnectorReports

LEMMA FallbackLoop == TypeOK /\ LoopInUse /\ FallbackStep => LoopInUse'
  <1> SUFFICES ASSUME TypeOK, LoopInUse, FallbackStep PROVE LoopInUse'
    OBVIOUS
  <1>0. loop' # "idle" /\ HoldForRecord("fallback") => ~Full'
    <2>1. Len(queue') \in Int /\ QueueSize \in Int
      BY FallbackTyped, QueueAssumption DEF TypeOK
    <2> QED BY <2>1 DEF HoldForRecord, Full
  <1> USE DEF LoopInUse, FallbackStep, consVars
  <1>1. CASE FbAnnounce \/ FbTick \/ FbCandle
    <2>1. /\ {"fallback", "idle"} \cap cancel = {} /\ UNCHANGED <<cancel, cons>> /\ fb # "ended"
          /\ fb' \in {"tick", "candle"}
          /\ \/ loop' = "idle"
             \/ loop' = "fallback" /\ HoldForRecord("fallback")
      BY <1>1 DEF FbAnnounce, FbTick, FbCandle, HoldForRecord, Suspend, CanRun, TypeOK, Tasks
    <2> QED BY <1>0, <2>1
  <1>2. CASE FbCancelled
    BY <1>2 DEF FbCancelled, Interrupt, TypeOK, Tasks
  <1> QED BY <1>1, <1>2 DEF FbNext

LEMMA ConsumerLoop == TypeOK /\ LifePhases /\ LoopInUse /\ ConsumerStep => LoopInUse'
  <1> SUFFICES ASSUME TypeOK, LifePhases, LoopInUse, ConsumerStep PROVE LoopInUse'
    OBVIOUS
  <1> USE DEF LoopInUse
  <1>1. CASE HandleDown \/ HandleFallback \/ HandleMalformed \/ HandleRecord
    BY <1>1 DEF HandleDown, HandleFallback, HandleMalformed, HandleRecord, Dequeue, CanRun,
           HoldForGet, consVars, TypeOK, Tasks
  <1>2. CASE HandleConnected
    BY <1>2 DEF HandleConnected, CancelFallback, Dequeue, CanRun, HoldForGet, Suspend, TypeOK, Tasks
  <1>3. CASE Reap \/ PublishFails
    BY <1>3 DEF Reap, PublishFails, Skipped, CanRun, HoldForGet, TypeOK, Tasks
  <1>4. CASE PublishOk
    BY <1>4 DEF PublishOk, Counted, CanRun, HoldForGet, Suspend, TypeOK, Tasks
  <1>5. CASE ConsumerWrites \/ ConsumerWriteFails
    BY <1>5 DEF ConsumerWrites, ConsumerWriteFails, Counted, Skipped, CanRun, HoldForGet, Suspend,
           TypeOK, Tasks
  <1>6. CASE ConsumerCancelled
    BY <1>6 DEF ConsumerCancelled, Interrupt, TypeOK, Tasks
  <1> QED BY <1>1, <1>2, <1>3, <1>4, <1>5, <1>6 DEF ConsumerStep

LEMMA LoopNext == TypeOK /\ ControlInv /\ LoopInUse /\ [Next]_vars => LoopInUse'
  <1> SUFFICES ASSUME TypeOK, ControlInv, LoopInUse, [Next]_vars PROVE LoopInUse'
    OBVIOUS
  <1>1. CASE UNCHANGED vars \/ Terminated
    BY <1>1, LoopKept DEF vars, Terminated, consVars
  <1>2. CASE FlusherStep
    <2>1. CASE FlusherCancelled
      BY <2>1 DEF LoopInUse, FlusherCancelled, Interrupt, consVars, TypeOK, Tasks
    <2> QED BY <1>2, <2>1, LoopKept DEF FlusherStep, FlusherWakes, FlusherWrites, FlusherWriteFails,
               consVars
  <1>3. CASE StartOk
    <2>1. Unborn
      BY <1>3 DEF StartOk, ControlInv, LifePhases
    <2> QED BY <1>3, <2>1 DEF StartOk, Unborn, LoopInUse, queueVars
  <1>4. CASE StartFails \/ StopGathered \/ DrainWrites \/ DrainFails
    BY <1>4, LoopKept DEF StartFails, StopGathered, DrainWrites, DrainFails, consVars
  <1>5. CASE Stop
    BY <1>5, AliveIs DEF Stop, LoopInUse, consVars, ControlInv, LifePhases, Tasks
  <1>6. CASE Restart
    BY <1>6 DEF Restart, LoopInUse
  <1> QED BY <1>1, <1>2, <1>3, <1>4, <1>5, <1>6, ConnectorLoop, FallbackLoop, ConsumerLoop
          DEF Next, LifeNext, MainStep, ControlInv

LEMMA LoopAlways == Spec => []LoopInUse
  <1>1. Init => LoopInUse
    BY DEF Init, QueueInit, ConnInit, FbInit, LoopInUse
  <1>2. TypeOK /\ ControlInv /\ LoopInUse /\ [Next]_vars => LoopInUse'
    BY LoopNext
  <1> QED BY <1>1, <1>2, Control, TypeCorrect, PTL DEF Spec

\* A task that has not been cancelled belongs to a running process.
LEMMA UncancelledRuns ==
    ASSUME TypeOK, LifePhases, NEW t \in Alive, t \notin cancel
    PROVE  life = "running"
  <1>1. life \in LifeStates
    BY DEF TypeOK
  <1>2. life \notin {"starting", "failed"}
    BY AliveIs DEF LifePhases, Unborn, FbAlive, Tasks
  <1>3. life \notin {"stopping", "draining", "stopped"}
    BY DEF LifePhases
  <1> QED BY <1>1, <1>2, <1>3 DEF LifeStates

LEMMA NoCircle == TypeOK /\ ControlInv /\ LoopInUse => NobodyWaitsInACircle
  <1> SUFFICES ASSUME TypeOK, ControlInv, LoopInUse PROVE NobodyWaitsInACircle
    OBVIOUS
  <1> USE DEF ControlInv, LoopInUse
  <1>1. loop \in Tasks \cup {"idle"} /\ "idle" \notin Tasks
    BY DEF TypeOK, Tasks
  <1>2. loop # "idle" => loop \in Alive
    BY <1>1, AliveIs DEF Tasks, FbAlive
  <1>3. ASSUME NEW t \in Alive, AwaitsRoom(t) PROVE "consumer" \in Alive /\ loop # t
    <2>1. life = "running"
      BY <1>3, UncancelledRuns DEF AwaitsRoom
    <2>2. "consumer" \in Alive
      BY <2>1, AliveIs DEF LifePhases
    <2> QED BY <1>3, <2>2 DEF AwaitsRoom
  <1>4. ASSUME cons = "reap", fb # "ended"
        PROVE  "fallback" \in Alive /\ ~AwaitsRoom("fallback") /\ loop # "consumer"
    <2>1. "fallback" \in cancel
      BY <1>4
    <2>2. life = "stopping" \/ life = "running"
      BY <2>1, CancelsWhile
    <2>3. "fallback" \in Alive
      BY <2>1, <2>2, AliveIs DEF LifePhases
    <2> QED BY <1>4, <2>1, <2>3 DEF AwaitsRoom
  <1>5. ~AwaitsRoom("consumer")
    BY DEF AwaitsRoom
  <1>6. \A t \in Alive : WaitsFor(t) \subseteq Alive
    BY <1>2, <1>3, <1>4 DEF WaitsFor
  <1>7. ASSUME NEW S \in SUBSET Alive, S # {} PROVE \E t \in S : WaitsFor(t) \cap S = {}
    <2>1. CASE loop \in S
      <3>1. WaitsFor(loop) = {}
        BY <1>2, <1>3, <1>4, <2>1 DEF WaitsFor
      <3> QED BY <2>1, <3>1
    <2>2. CASE loop \notin S /\ cons = "reap" /\ fb # "ended" /\ "fallback" \in S
      <3>1. WaitsFor("fallback") \subseteq {loop}
        BY <1>4, <2>2 DEF WaitsFor
      <3> QED BY <2>2, <3>1
    <2>3. CASE loop \notin S /\ ~(cons = "reap" /\ fb # "ended" /\ "fallback" \in S) /\ "consumer" \in S
      <3>1. WaitsFor("consumer") \cap S = {}
        BY <1>5, <2>3 DEF WaitsFor
      <3> QED BY <2>3, <3>1
    <2>4. CASE loop \notin S /\ "consumer" \notin S
      <3>1. PICK t \in S : TRUE
        BY <1>7
      <3>2. WaitsFor(t) \cap S = {}
        BY <2>4, <3>1 DEF WaitsFor
      <3> QED BY <3>1, <3>2
    <2> QED BY <2>1, <2>2, <2>3, <2>4
  <1>8. life = "stopping" => Alive = cancel
    BY DEF LifePhases
  <1> QED BY <1>6, <1>7, <1>8 DEF NobodyWaitsInACircle

\* For a queue of any size and any number of records, nobody waits in a circle: the
\* producers for room, the consumer for the task that it has cancelled, all of them for
\* the event loop.
THEOREM NoDeadlock == Spec => []NobodyWaitsInACircle
  BY NoCircle, LoopAlways, Control, TypeCorrect, PTL

\* Tasks and tables can be counted.
LEMMA SmallSets ==
    /\ \A S \in SUBSET Tasks : IsFiniteSet(S) /\ Cardinality(S) \in Nat
    /\ \A S \in SUBSET {"ticks", "candles"} : IsFiniteSet(S) /\ Cardinality(S) \in 0..2
  <1> DEFINE tables == {"ticks", "candles"}
  <1>1. IsFiniteSet({}) /\ Cardinality({}) = 0
    BY FS_EmptySet
  <1>2. \A S, x : IsFiniteSet(S) => IsFiniteSet(S \cup {x})
    BY FS_AddElement
  <1>3. Tasks = ((({} \cup {"primary"}) \cup {"fallback"}) \cup {"consumer"}) \cup {"flusher"}
    BY DEF Tasks
  <1>4. IsFiniteSet(Tasks)
    BY <1>1, <1>2, <1>3
  <1>5. IsFiniteSet(tables) /\ Cardinality(tables) = 2
    <2>1. tables = ({} \cup {"ticks"}) \cup {"candles"}
      OBVIOUS
    <2>2. /\ IsFiniteSet({} \cup {"ticks"}) /\ Cardinality({} \cup {"ticks"}) = 0 + 1
          /\ "candles" \notin {} \cup {"ticks"}
      BY <1>1, FS_AddElement
    <2>3. IsFiniteSet(tables) /\ Cardinality(tables) = (0 + 1) + 1
      BY <2>1, <2>2, FS_AddElement, ZenonT(30)
    <2> QED BY <2>3
  <1> HIDE DEF tables
  <1>6. ASSUME NEW S \in SUBSET tables PROVE IsFiniteSet(S) /\ Cardinality(S) \in 0..2
    <2>1. IsFiniteSet(S) /\ Cardinality(S) <= Cardinality(tables)
      BY <1>5, FS_Subset
    <2> QED BY <1>5, <2>1, FS_CardinalityType
  <1> QED BY <1>4, <1>6, FS_Subset, FS_CardinalityType DEF tables

\* While the process is being stopped no task takes a step of its own.
LEMMA NobodyRuns ==
    ASSUME TypeOK, LifePhases, life \in {"stopping", "draining"}
    PROVE  \A t \in Alive : ~CanRun(t)
  BY RunsWhileRunning

\* A task has finished: one less to wait for.
LEMMA OneTaskLess ==
    ASSUME LifePhases, life \in {"stopping", "draining"}, life' = life,
           NEW t \in Alive, Alive' = Alive \ {t}
    PROVE  StepsToStop' < StepsToStop
  <1>1. life = "stopping"
    BY DEF LifePhases
  <1>2. IsFiniteSet(Alive) /\ Cardinality(Alive) \in Nat
    BY AliveIs, SmallSets
  <1>3. Cardinality(Alive \ {t}) = Cardinality(Alive) - 1
    BY <1>2, FS_RemoveElement
  <1> QED BY <1>1, <1>2, <1>3 DEF StepsToStop

\* stop() looks at the buffer and writes what is left of it, table by table.
LEMMA DrainAdvances ==
    ASSUME TypeOK, ControlInv, StopGathered \/ DrainWrites \/ DrainFails
    PROVE  StepsToStop' < StepsToStop
  <1> DEFINE Left == {k \in {"ticks", "candles"} : job["main"][k] # <<>>}
  <1>1. /\ Left \in SUBSET {"ticks", "candles"} /\ Left' \in SUBSET {"ticks", "candles"}
        /\ Cardinality(Left) \in 0..2 /\ Cardinality(Left') \in 0..2
        /\ IsFiniteSet(Left)
    BY SmallSets
  <1>2. life = "draining" => StepsToStop = Cardinality(Left)
    BY DEF StepsToStop
  <1>3. life' = "draining" => StepsToStop' = Cardinality(Left')
    BY DEF StepsToStop
  <1>4. life' = "stopped" => StepsToStop' = 0
    BY DEF StepsToStop
  <1>5. job \in [Writers -> Batches] /\ "main" \in Writers
    BY DEF TypeOK, Writers
  <1>6. CASE StopGathered
    <2>1. StepsToStop = 3 + 0
      BY <1>6, FS_EmptySet DEF StopGathered, StepsToStop
    <2> HIDE DEF Left
    <2> QED BY <1>1, <1>3, <1>4, <1>6, <2>1 DEF StopGathered
  <1>7. CASE DrainWrites
    <2>1. PICK k \in Left : Left' = Left \ {k}
      <3>1. CASE CommitTicks("main") /\ job' = [job EXCEPT !["main"].ticks = <<>>]
        <4>1. /\ "ticks" \in Left /\ job'["main"].ticks = <<>>
              /\ job'["main"].candles = job["main"].candles
          BY <1>5, <3>1 DEF CommitTicks, Batches
        <4> QED BY <4>1
      <3>2. CASE CommitCandles("main") /\ job' = [job EXCEPT !["main"].candles = <<>>]
        <4>1. /\ "candles" \in Left /\ job'["main"].candles = <<>>
              /\ job'["main"].ticks = job["main"].ticks
          BY <1>5, <3>2 DEF CommitCandles, Batches
        <4> QED BY <4>1
      <3> QED BY <1>7, <3>1, <3>2 DEF DrainWrites, Write
    <2>2. life = "draining" /\ life' \in {"draining", "stopped"}
      BY <1>7 DEF DrainWrites
    <2> HIDE DEF Left
    <2>3. Cardinality(Left') = Cardinality(Left) - 1
      BY <1>1, <2>1, FS_RemoveElement
    <2> QED BY <1>1, <1>2, <1>3, <1>4, <2>2, <2>3
  <1>8. CASE DrainFails
    <2>1. Left # {} /\ life = "draining" /\ life' = "stopped"
      BY <1>8 DEF DrainFails, WriteAborted, HasData
    <2> HIDE DEF Left
    <2>2. Cardinality(Left) # 0
      BY <1>1, <2>1, FS_EmptySet
    <2> QED BY <1>1, <1>2, <1>4, <2>1, <2>2
  <1> QED BY <1>6, <1>7, <1>8

LEMMA StopStep ==
    ASSUME TypeOK, ControlInv, [Next]_vars, life \in {"stopping", "draining"}
    PROVE  UNCHANGED vars \/ Restart \/ StepsToStop' < StepsToStop
  <1>1. \A t \in Alive : ~CanRun(t)
    BY NobodyRuns DEF ControlInv
  <1>2. ASSUME NEW t \in Alive, Alive' = Alive \ {t}, life' = life
        PROVE  StepsToStop' < StepsToStop
    BY <1>2, OneTaskLess DEF ControlInv
  <1>3. ASSUME NEW t \in cancel PROVE t \in Alive
    BY <1>3, CancelsWhile DEF ControlInv, LifePhases
  <1>4. CASE ConnectorStep
    <2>1. ConnectorCancelled
      <3>1. ConnectorCancelled \/ (CanRun("primary") /\ conn \notin {"none", "ended"})
        BY <1>4 DEF ConnectorStep, ConnectorNext, ConnectorReports, Connect, Subscribe, Receive,
               SessionFails, ReportError, ReportDown, DelayOver
      <3> QED BY <1>1, <3>1, AliveIs
    <2>2. "primary" \in Alive /\ conn' = "ended" /\ UNCHANGED <<fb, cons, flush, life>>
      BY <1>3, <1>4, <2>1 DEF ConnectorStep, ConnectorCancelled, Interrupt, consVars, lifeVars
    <2>3. Alive' = Alive \ {"primary"}
      BY <2>2, AliveIs, AliveIsNext DEF FbAlive, Tasks
    <2> QED BY <1>2, <2>2, <2>3
  <1>5. CASE FallbackStep
    <2>1. FbCancelled
      <3>1. FbCancelled \/ (CanRun("fallback") /\ FbAlive)
        BY <1>5 DEF FallbackStep, FbNext, FbAnnounce, FbTick, FbCandle, FbAlive
      <3> QED BY <1>1, <3>1, AliveIs
    <2>2. "fallback" \in Alive /\ fb' = "ended" /\ UNCHANGED <<conn, cons, flush, life>>
      BY <1>3, <1>5, <2>1 DEF FallbackStep, FbCancelled, Interrupt, consVars, lifeVars
    <2>3. Alive' = Alive \ {"fallback"}
      BY <2>2, AliveIs, AliveIsNext DEF FbAlive, Tasks
    <2> QED BY <1>2, <2>2, <2>3
  <1>6. CASE ConsumerStep
    <2>1. ConsumerCancelled
      <3>1. ConsumerCancelled \/ (CanRun("consumer") /\ cons \notin {"none", "ended"})
        BY <1>6 DEF ConsumerStep, HandleConnected, Reap, HandleDown, HandleFallback,
               HandleMalformed, HandleRecord, Dequeue, PublishOk, PublishFails, ConsumerWrites,
               ConsumerWriteFails
      <3> QED BY <1>1, <3>1, AliveIs
    <2>2. "consumer" \in Alive /\ cons' = "ended" /\ UNCHANGED <<conn, fb, flush, life>>
      BY <1>3, <2>1 DEF ConsumerCancelled, Interrupt, lifeVars
    <2>3. Alive' = Alive \ {"consumer"}
      BY <2>2, AliveIs, AliveIsNext DEF FbAlive, Tasks
    <2> QED BY <1>2, <2>2, <2>3
  <1>7. CASE FlusherStep
    <2>1. FlusherCancelled
      <3>1. FlusherCancelled \/ (CanRun("flusher") /\ flush \in {"sleep", "write"})
        BY <1>7 DEF FlusherStep, FlusherWakes, FlusherWrites, FlusherWriteFails
      <3> QED BY <1>1, <3>1, AliveIs
    <2>2. "flusher" \in Alive /\ flush' = "ended" /\ UNCHANGED <<conn, fb, cons, life>>
      BY <1>3, <2>1 DEF FlusherCancelled, Interrupt, consVars, lifeVars
    <2>3. Alive' = Alive \ {"flusher"}
      BY <2>2, AliveIs, AliveIsNext DEF FbAlive, Tasks
    <2> QED BY <1>2, <2>2, <2>3
  <1>8. CASE StartOk \/ StartFails \/ Stop \/ Terminated
    BY <1>8 DEF StartOk, StartFails, Stop, Terminated
  <1> QED BY <1>4, <1>5, <1>6, <1>7, <1>8, DrainAdvances DEF Next, LifeNext, MainStep

\* For any number of items and rows, stop() is at most seven steps from its end as soon
\* as it has cancelled the tasks, and every step that the process takes then is one of them.
THEOREM StopComesNearer == Spec => StopAdvances
  <1>1. TypeOK /\ ControlInv /\ [Next]_vars
        => [(life \in {"stopping", "draining"}) => Restart \/ StepsToStop' < StepsToStop]_vars
    BY StopStep
  <1> QED BY <1>1, Control, TypeCorrect, PTL DEF Spec, StopAdvances

-----------------------------------------------------------------------------
(* What may wait for the database.                                         *)

Within(batch, size) == Len(batch.ticks) <= size /\ Len(batch.candles) <= size

\* One record makes a batch longer by one; a batch that is not full has room for it.
LEMMA RowFits ==
    ASSUME NEW batch \in Batches, ~BatchFull(batch), NEW row \in Records
    PROVE  Within(batch, BatchSize) /\ Within(WithRow(batch, row), BatchSize)
  <1>1. batch.ticks \in Seq(Records) /\ batch.candles \in Seq(Records) /\ BatchSize \in Nat
    BY PipelineAssumption DEF Batches
  <1>2. /\ Len(batch.ticks) \in Nat /\ Len(batch.candles) \in Nat
        /\ Len(Append(batch.ticks, row)) = Len(batch.ticks) + 1
        /\ Len(Append(batch.candles, row)) = Len(batch.candles) + 1
    BY <1>1, AppendFacts
  <1>3. Len(batch.ticks) < BatchSize /\ Len(batch.candles) < BatchSize
    BY <1>1, <1>2 DEF BatchFull
  <1>4. CASE row.kind = "tick"
    <2>1. /\ WithRow(batch, row).ticks = Append(batch.ticks, row)
          /\ WithRow(batch, row).candles = batch.candles
      BY <1>4 DEF WithRow, Batches
    <2> QED BY <1>1, <1>2, <1>3, <2>1 DEF Within
  <1>5. CASE row.kind # "tick"
    <2>1. /\ WithRow(batch, row).ticks = batch.ticks
          /\ WithRow(batch, row).candles = Append(batch.candles, row)
      BY <1>5 DEF WithRow, Batches
    <2> QED BY <1>1, <1>2, <1>3, <2>1 DEF Within
  <1> QED BY <1>4, <1>5

\* An empty batch is within every bound.
LEMMA EmptyFits == ~BatchFull(EmptyBatch) /\ Within(EmptyBatch, BatchSize)
  BY PipelineAssumption DEF BatchFull, Within, EmptyBatch

\* A write shortens the batch of its writer, or leaves it.
LEMMA WritesShorten ==
    ASSUME TypeOK, NEW w \in Writers, Write(w) \/ WriteAborted(w), Within(job[w], BatchSize)
    PROVE  Within(job'[w], BatchSize)
  <1>1. job \in [Writers -> Batches]
    BY DEF TypeOK
  <1>2. CASE WriteAborted(w)
    BY <1>1, <1>2, EmptyFits DEF WriteAborted
  <1>3. CASE job' = [job EXCEPT ![w].ticks = <<>>]
    <2>1. job'[w].ticks = <<>> /\ job'[w].candles = job[w].candles
      BY <1>1, <1>3 DEF Batches
    <2> QED BY <2>1, PipelineAssumption DEF Within
  <1>4. CASE job' = [job EXCEPT ![w].candles = <<>>]
    <2>1. job'[w].candles = <<>> /\ job'[w].ticks = job[w].ticks
      BY <1>1, <1>4 DEF Batches
    <2> QED BY <2>1, PipelineAssumption DEF Within
  <1> QED BY <1>2, <1>3, <1>4 DEF Write

LEMMA BoundedNext ==
    ASSUME TypeOK, ControlInv, BufferIsBounded, [Next]_vars
    PROVE  BufferIsBounded'
  <1>1. job \in [Writers -> Batches] /\ buffer \in Batches
    BY DEF TypeOK
  <1>2. \A w \in Writers : Within(job[w], BatchSize)
    BY DEF BufferIsBounded, Within
  <1>3. ASSUME ~BatchFull(buffer'), \A w \in Writers : Within(job'[w], BatchSize)
        PROVE  BufferIsBounded'
    BY <1>3 DEF BufferIsBounded, Within, BatchFull
  <1>4. CASE RowsKept
    BY <1>4 DEF RowsKept, writerVars, BufferIsBounded, BatchFull
  <1>5. CASE PublishOk
    <2> DEFINE batch == WithRow(buffer, cur)
    <2>1. Within(batch, BatchSize)
      BY <1>1, <1>5, ItemTypes, RowFits DEF PublishOk, BufferIsBounded
    <2>2. CASE TakeBatch("consumer", batch)
      BY <1>1, <1>2, <1>3, <2>1, <2>2, EmptyFits DEF TakeBatch
    <2>3. CASE ~BatchFull(batch) /\ buffer' = batch /\ UNCHANGED job
      BY <1>2, <1>3, <2>3
    <2> QED BY <1>5, <2>2, <2>3 DEF PublishOk
  <1>6. ASSUME NEW w \in Writers, Takes(w) PROVE BufferIsBounded'
    <2>1. Within(buffer, BatchSize)
      <3>1. Len(buffer.ticks) \in Nat /\ Len(buffer.candles) \in Nat /\ BatchSize \in Nat
        BY <1>1, PipelineAssumption DEF Batches
      <3> QED BY <3>1 DEF BufferIsBounded, BatchFull, Within
    <2> QED BY <1>1, <1>2, <1>3, <1>6, <2>1, EmptyFits DEF Takes, TakeBatch
  <1>7. ASSUME NEW w \in Writers, Flushes(w) PROVE BufferIsBounded'
    <2>1. buffer' = buffer /\ \A v \in Writers \ {w} : job'[v] = job[v]
      BY <1>7, WhatIsWritten DEF Flushes
    <2>2. Within(job'[w], BatchSize)
      BY <1>2, <1>7, WritesShorten DEF Flushes
    <2> QED BY <1>2, <1>3, <2>1, <2>2 DEF BufferIsBounded
  <1>8. CASE Restart
    BY <1>3, <1>8, EmptyFits DEF Restart
  <1> QED BY <1>4, <1>5, <1>6, <1>7, <1>8, RowSteps DEF Writers

\* However slow the database is, and however many records come in meanwhile, the
\* buffer stays under MARKET_BATCH_FLUSH_SIZE rows a table and each writer holds one batch.
THEOREM MemoryIsBounded == Spec => []BufferIsBounded
  <1>1. Init => BufferIsBounded
    BY EmptyFits DEF Init, WriterInit, BufferIsBounded, Within
  <1>2. TypeOK /\ ControlInv /\ BufferIsBounded /\ [Next]_vars => BufferIsBounded'
    BY BoundedNext
  <1> QED BY <1>1, <1>2, Control, TypeCorrect, PTL DEF Spec

-----------------------------------------------------------------------------
(* No arrival number is missing.                                           *)

\* What arrives is numbered next and enters the queue.
LEMMA NumberedOnArrival ==
    ASSUME TypeOK, [Next]_vars
    PROVE  \/ UNCHANGED nextId
           \/ nextId' = nextId + 1 /\ \E r \in OnTheWay' : r.id = nextId
  <1>1. ASSUME NEW source \in Sources, NEW kind \in RecordKinds, PutRecord(source, kind)
        PROVE  nextId' = nextId + 1 /\ \E r \in OnTheWay' : r.id = nextId
    <2> DEFINE new == [kind |-> kind, source |-> source, id |-> nextId]
    <2>1. nextId' = nextId + 1 /\ nextId \in 1..MaxRecords /\ queue' = Append(queue, new)
      BY <1>1, QueueAssumption DEF PutRecord, TypeOK
    <2>2. new \in Records \cup Statuses /\ IsRecord(new) /\ new.id = nextId
      BY <2>1 DEF Records, IsRecord
    <2> HIDE DEF new
    <2>3. new \in Rows(queue')
      BY <2>1, <2>2, ItemTypes, AppendFacts
    <2>4. new \in OnTheWay'
      BY <2>2, <2>3 DEF OnTheWay
    <2> QED BY <2>1, <2>2, <2>4
  <1>2. CASE ConnectorStep \/ FallbackStep
    BY <1>1, <1>2
       DEF ConnectorStep, ConnectorNext, ConnectorReports, Connect, Subscribe, Receive,
           SessionFails, ReportError, ReportDown, DelayOver, ConnectorCancelled, FallbackStep,
           FbNext, FbAnnounce, FbTick, FbCandle, FbCancelled, PutStatus, Interrupt, queueVars,
           Sources, RecordKinds
  <1>3. CASE ConsumerStep
    BY <1>3 DEF ConsumerStep, HandleConnected, Reap, HandleDown, HandleFallback, HandleMalformed,
           HandleRecord, Dequeue, PublishOk, PublishFails, ConsumerWrites, ConsumerWriteFails,
           ConsumerCancelled, Interrupt
  <1>4. CASE FlusherStep \/ MainStep \/ Stop \/ Restart \/ Terminated \/ UNCHANGED vars
    BY <1>4 DEF FlusherStep, FlusherWakes, FlusherWrites, FlusherWriteFails, FlusherCancelled,
           Interrupt, MainStep, StartOk, StartFails, StopGathered, DrainWrites, DrainFails, Stop,
           Restart, Terminated, vars, queueVars
  <1> QED BY <1>2, <1>3, <1>4 DEF Next, LifeNext

\* The stream only grows.
LEMMA StreamGrows ==
    ASSUME TypeOK, ControlInv, [Next]_vars
    PROVE  Rows(accepted) \subseteq Rows(accepted')
  <1>1. ASSUME accepted' = Append(accepted, cur), cons = "publish"
        PROVE  Rows(accepted) \subseteq Rows(accepted')
    BY <1>1, AcceptedByAppend, ItemTypes
  <1>2. CASE PublishOk \/ ConsumerCancelled
    BY <1>1, <1>2 DEF PublishOk, ConsumerCancelled
  <1> QED BY <1>2, RowSteps DEF RowsKept, Takes, Flushes, Restart

NoneMissing ==
    life \in {"starting", "running"} /\ restarts = 0 /\ Faults \subseteq {"db"} =>
        \A n \in 1..nextId - 1 : \E r \in OnTheWay \cup Rows(accepted) : r.id = n

LEMMA NoneMissingNext ==
    ASSUME TypeOK, ControlInv, NoneMissing, [Next]_vars
    PROVE  NoneMissing'
  <1> SUFFICES ASSUME life' \in {"starting", "running"}, restarts' = 0, Faults \subseteq {"db"},
                      NEW n \in 1..nextId' - 1
               PROVE  \E r \in OnTheWay' \cup Rows(accepted') : r.id = n
    BY DEF NoneMissing
  <1>1. ~Restart
    BY DEF Restart, TypeOK
  <1>2. restarts = 0 /\ life \in {"starting", "running"}
    <2>1. CASE UNCHANGED lifeVars
      BY <2>1 DEF lifeVars
    <2>2. CASE MainStep \/ Stop
      BY <2>2 DEF MainStep, StartOk, StartFails, StopGathered, DrainWrites, DrainFails, Stop
    <2>3. UNCHANGED lifeVars \/ MainStep \/ Stop
      BY <1>1 DEF Next, LifeNext, ConnectorStep, FallbackStep, ConsumerStep, HandleConnected, Reap,
             HandleDown, HandleFallback, HandleMalformed, HandleRecord, PublishOk, PublishFails,
             ConsumerWrites, ConsumerWriteFails, ConsumerCancelled, FlusherStep, FlusherWakes,
             FlusherWrites, FlusherWriteFails, FlusherCancelled, Terminated, vars
    <2> QED BY <2>1, <2>2, <2>3
  <1>3. ~HandleMalformed /\ ~PublishFails
    BY DEF HandleMalformed, PublishFails
  <1>4. ~ConsumerCancelled
    <2>1. ASSUME ConsumerCancelled PROVE FALSE
      <3>1. "consumer" \in cancel
        BY <2>1 DEF ConsumerCancelled, Interrupt
      <3> QED BY <1>2, <3>1, CancelsWhile DEF ControlInv
    <2> QED BY <2>1
  <1>5. OnTheWay \cup Rows(accepted) \subseteq OnTheWay' \cup Rows(accepted')
    BY <1>1, <1>3, <1>4, LeavesForAReason, StreamGrows
  <1>6. CASE n \in 1..nextId - 1
    BY <1>2, <1>5, <1>6 DEF NoneMissing
  <1>7. CASE n \notin 1..nextId - 1
    BY <1>7, NumberedOnArrival, ItemTypes
  <1> QED BY <1>6, <1>7

\* With a database that fails at will but a NATS and a Deriv that do not, every tick and
\* candle that ever entered the queue of a running process is in the queue, in hand or
\* accepted: the two producers, the consumer and the mode changes between them lose none.
THEOREM NoneIsForgotten == Spec => []NothingIsForgotten
  <1>1. Init => NoneMissing
    BY DEF Init, QueueInit, NoneMissing
  <1>2. TypeOK /\ ControlInv /\ NoneMissing /\ [Next]_vars => NoneMissing'
    BY NoneMissingNext
  <1>3. NoneMissing => NothingIsForgotten
    BY DEF NoneMissing, NothingIsForgotten
  <1> QED BY <1>1, <1>2, <1>3, Control, TypeCorrect, PTL DEF Spec
=============================================================================
