------------------------- MODULE MarketPipelineProofs -------------------------
EXTENDS MarketPipeline, TLAPS

(***************************************************************************)
(* Sequences                                                               *)
(***************************************************************************)

\* What Append does to the length, the domain, the elements and the rows.
LEMMA AppendFacts ==
    ASSUME NEW S, NEW s \in Seq(S), NEW x \in S
    PROVE  /\ Append(s, x) \in Seq(S)
           /\ DOMAIN Append(s, x) = DOMAIN s \cup {Len(s) + 1}
           /\ Len(Append(s, x)) = Len(s) + 1
           /\ \A i \in DOMAIN s : i \in 1..Len(s) /\ Append(s, x)[i] = s[i]
           /\ Append(s, x)[Len(s) + 1] = x
           /\ Rows(Append(s, x)) = Rows(s) \cup {x}
  <1> DEFINE t == Append(s, x)
  <1>1. t \in Seq(S) /\ Len(t) = Len(s) + 1
    OBVIOUS
  <1>2. DOMAIN s = 1..Len(s) /\ DOMAIN t = 1..Len(s) + 1 /\ Len(s) \in Nat
    BY <1>1
  <1>3. \A i \in 1..Len(s) : t[i] = s[i]
    OBVIOUS
  <1>4. t[Len(s) + 1] = x
    OBVIOUS
  <1>5. DOMAIN t = DOMAIN s \cup {Len(s) + 1}
    BY <1>2
  <1>6. Rows(t) = Rows(s) \cup {x}
    <2> HIDE DEF t
    <2>1. \A y : y \in Rows(t) => y \in Rows(s) \cup {x}
      BY <1>2, <1>3, <1>4, <1>5 DEF Rows
    <2>2. \A y : y \in Rows(s) \cup {x} => y \in Rows(t)
      BY <1>2, <1>3, <1>4, <1>5 DEF Rows
    <2> QED BY <2>1, <2>2
  <1> QED BY <1>1, <1>2, <1>3, <1>4, <1>5, <1>6

\* What Head and Tail return for a queue with an item in it.
LEMMA TailFacts ==
    ASSUME NEW S, NEW s \in Seq(S), s # <<>>
    PROVE  /\ Tail(s) \in Seq(S)
           /\ Len(Tail(s)) = Len(s) - 1
           /\ Head(s) = s[1] /\ 1 \in DOMAIN s /\ Head(s) \in S
           /\ \A i \in DOMAIN Tail(s) : i + 1 \in DOMAIN s /\ Tail(s)[i] = s[i + 1]
  OBVIOUS

\* Adding a row to a batch (add_tick, add_candle) gives a batch with one row more.
LEMMA WithRowTyped ==
    ASSUME NEW batch \in Batches, NEW row \in Records
    PROVE  /\ WithRow(batch, row) \in Batches
           /\ RowsOf(WithRow(batch, row)) = RowsOf(batch) \cup {row}
  <1> DEFINE more == WithRow(batch, row)
  <1>1. batch.ticks \in Seq(Records) /\ batch.candles \in Seq(Records)
    BY DEF Batches
  <1>2. CASE row.kind = "tick"
    <2>1. more = [ticks |-> Append(batch.ticks, row), candles |-> batch.candles]
      BY <1>2 DEF WithRow, Batches
    <2>2. /\ Append(batch.ticks, row) \in Seq(Records)
          /\ Rows(Append(batch.ticks, row)) = Rows(batch.ticks) \cup {row}
      BY <1>1, AppendFacts
    <2> QED BY <1>1, <2>1, <2>2 DEF Batches, RowsOf
  <1>3. CASE row.kind # "tick"
    <2>1. more = [ticks |-> batch.ticks, candles |-> Append(batch.candles, row)]
      BY <1>3 DEF WithRow, Batches
    <2>2. /\ Append(batch.candles, row) \in Seq(Records)
          /\ Rows(Append(batch.candles, row)) = Rows(batch.candles) \cup {row}
      BY <1>1, AppendFacts
    <2> QED BY <1>1, <2>1, <2>2 DEF Batches, RowsOf
  <1> QED BY <1>2, <1>3

(***************************************************************************)
(* Type correctness                                                        *)
(***************************************************************************)

\* The part of TypeOK about the queue and the event loop, and the rest of it.
QueueOK == /\ queue \in Seq(Records \cup Statuses) /\ Len(queue) <= QueueSize
           /\ nextId \in 1..MaxRecords + 1

LoopOK == loop \in Tasks \cup {"idle"} /\ cancel \subseteq Tasks

StoreOK == /\ buffer \in Batches
           /\ job \in [Writers -> Batches]
           /\ dbTicks \subseteq Records
           /\ dbCandles \in [Sources -> 0..MaxRecords]

ConsOK == /\ cons \in ConsStates
          /\ cur \in IF cons \in {"publish", "flush"} THEN Records ELSE {NoItem}
          /\ mode \in Modes
          /\ processed \in [RecordKinds -> Nat]

PlaceOK == /\ conn \in ConnStates /\ fb \in FbStates /\ flush \in FlushStates
           /\ accepted \in Seq(Records)
           /\ life \in LifeStates
           /\ restarts \in 0..MaxRestarts

\* The type invariant, cut into the parts that the steps disturb separately.
LEMMA TypeParts == TypeOK <=> QueueOK /\ LoopOK /\ StoreOK /\ ConsOK /\ PlaceOK
  BY DEF TypeOK, QueueOK, LoopOK, StoreOK, ConsOK, PlaceOK

\* Putting a status keeps the queue typed and within its size.
LEMMA PutStatusTyped ==
    ASSUME NEW provider \in Sources, NEW status \in StatusKinds,
           QueueOK, PutStatus(provider, status)
    PROVE  QueueOK'
  <1>1. Status(provider, status) \in Records \cup Statuses
    BY DEF Status, Statuses
  <1> QED BY <1>1, AppendFacts, QueueAssumption DEF PutStatus, QueueOK, Full

\* Putting a record keeps the queue typed and within its size.
LEMMA PutRecordTyped ==
    ASSUME NEW source \in Sources, NEW kind \in RecordKinds,
           QueueOK, PutRecord(source, kind)
    PROVE  QueueOK'
  <1>1. [kind |-> kind, source |-> source, id |-> nextId] \in Records \cup Statuses
    BY QueueAssumption DEF PutRecord, QueueOK, Records
  <1> QED BY <1>1, AppendFacts, QueueAssumption DEF PutRecord, QueueOK, Full

\* What get returns is an item, and a record if its kind says so.
LEMMA DequeueTyped ==
    ASSUME NEW kinds, QueueOK, Dequeue(kinds)
    PROVE  /\ QueueOK'
           /\ Head(queue) \in Records \cup Statuses
           /\ Head(queue).kind \in RecordKinds => Head(queue) \in Records
  BY TailFacts, QueueAssumption
     DEF Dequeue, QueueOK, Records, Statuses, RecordKinds, StatusKinds

\* The insertion of ticks adds rows of the batch and removes none.
LEMMA InsertedRows ==
    ASSUME NEW rows, InsertTicks(rows)
    PROVE  dbTicks \subseteq dbTicks' /\ dbTicks' \subseteq dbTicks \cup Rows(rows)
  BY DEF InsertTicks, Rows

\* A write that returns or is aborted keeps the batches and the tables typed.
LEMMA WriteTyped ==
    ASSUME NEW w \in Writers, StoreOK, Write(w) \/ WriteAborted(w)
    PROVE  StoreOK'
  <1>1. <<>> \in Seq(Records)
    OBVIOUS
  <1>2. Rows(job[w].ticks) \subseteq Records
    BY DEF StoreOK, Batches, Rows
  <1>3. (dbTicks' \subseteq Records) /\ (dbCandles' \in [Sources -> 0..MaxRecords])
    BY <1>2, InsertedRows DEF StoreOK, Write, WriteAborted, CommitTicks, CommitCandles,
                UpsertCandles
  <1>4. [job[w] EXCEPT !.ticks = <<>>] \in Batches /\ [job[w] EXCEPT !.candles = <<>>] \in Batches
    BY <1>1 DEF StoreOK, Batches
  <1>5. EmptyBatch \in Batches
    BY <1>1 DEF EmptyBatch, Batches
  <1>6. \/ job' = [job EXCEPT ![w] = [job[w] EXCEPT !.ticks = <<>>]]
        \/ job' = [job EXCEPT ![w] = [job[w] EXCEPT !.candles = <<>>]]
        \/ job' = [job EXCEPT ![w] = EmptyBatch]
    BY DEF Write, WriteAborted
  <1>7. job' \in [Writers -> Batches]
    BY <1>4, <1>5, <1>6 DEF StoreOK
  <1>8. buffer' \in Batches
    BY DEF StoreOK, Write, WriteAborted
  <1> QED BY <1>3, <1>7, <1>8 DEF StoreOK

\* Copying and clearing the buffer keeps the batches typed.
LEMMA TakeTyped ==
    ASSUME NEW w \in Writers, NEW batch \in Batches, StoreOK, TakeBatch(w, batch),
           UNCHANGED <<dbTicks, dbCandles>>
    PROVE  StoreOK'
  <1>1. EmptyBatch \in Batches
    BY DEF EmptyBatch, Batches
  <1> QED BY <1>1 DEF StoreOK, TakeBatch

\* The empty batch is a batch.
LEMMA EmptyTyped == EmptyBatch \in Batches
  BY DEF EmptyBatch, Batches

\* Every step of deriv-stream keeps the type invariant.
LEMMA ConnectorTyped == TypeOK /\ ConnectorStep => TypeOK'
  <1> SUFFICES ASSUME TypeOK, ConnectorStep PROVE TypeOK'
    OBVIOUS
  <1>1. QueueOK /\ LoopOK /\ StoreOK /\ ConsOK /\ PlaceOK
    BY TypeParts
  <1>2. StoreOK' /\ ConsOK'
    BY <1>1 DEF ConnectorStep, StoreOK, ConsOK, writerVars, consVars
  <1>3. QueueOK'
    <2>1. /\ "deriv" \in Sources
          /\ {"connected", "error", "disconnected"} \subseteq StatusKinds
      BY DEF Sources, StatusKinds
    <2>2. CASE UNCHANGED <<queue, nextId>>
      BY <1>1, <2>2 DEF QueueOK
    <2>3. CASE \E status \in StatusKinds : PutStatus("deriv", status)
      BY <1>1, <2>1, <2>3, PutStatusTyped
    <2>4. CASE \E kind \in RecordKinds : PutRecord("deriv", kind)
      BY <1>1, <2>1, <2>4, PutRecordTyped
    <2> QED
      BY <2>1, <2>2, <2>3, <2>4
         DEF ConnectorStep, ConnectorNext, ConnectorReports, Connect, Subscribe, Receive,
             SessionFails, ReportError, ReportDown, DelayOver, ConnectorCancelled,
             Interrupt, queueVars
  <1>4. LoopOK' /\ conn' \in ConnStates
    BY <1>1 DEF LoopOK, PlaceOK, Tasks, ConnStates, HoldForPut, Suspend, ConnectorStep,
             ConnectorNext, ConnectorReports, Connect, Subscribe, Receive,
             SessionFails, ReportError, ReportDown, DelayOver, ConnectorCancelled,
             Interrupt, queueVars
  <1> QED BY <1>1, <1>2, <1>3, <1>4, TypeParts DEF ConnectorStep, PlaceOK, TypeOK, lifeVars, QueueOK,
      LoopOK, StoreOK, ConsOK

\* Every step of fallback-stream keeps the type invariant.
LEMMA FallbackTyped == TypeOK /\ FallbackStep => TypeOK'
  <1> SUFFICES ASSUME TypeOK, FallbackStep PROVE TypeOK'
    OBVIOUS
  <1>1. QueueOK /\ LoopOK /\ StoreOK /\ ConsOK /\ PlaceOK
    BY TypeParts
  <1>2. StoreOK' /\ ConsOK'
    BY <1>1 DEF FallbackStep, StoreOK, ConsOK, writerVars, consVars
  <1>3. QueueOK'
    <2>1. "fallback" \in Sources /\ "fallback" \in StatusKinds
      BY DEF Sources, StatusKinds
    <2>2. CASE UNCHANGED <<queue, nextId>>
      BY <1>1, <2>2 DEF QueueOK
    <2>3. CASE PutStatus("fallback", "fallback")
      BY <1>1, <2>1, <2>3, PutStatusTyped
    <2>4. CASE \E kind \in RecordKinds : PutRecord("fallback", kind)
      BY <1>1, <2>1, <2>4, PutRecordTyped
    <2> QED
      BY <2>2, <2>3, <2>4
         DEF FallbackStep, FbNext, FbAnnounce, FbTick, FbCandle, FbCancelled, Interrupt,
             RecordKinds
  <1>4. LoopOK' /\ fb' \in FbStates
    BY <1>1 DEF LoopOK, PlaceOK, Tasks, FbStates, HoldForRecord, Suspend, FallbackStep, FbNext,
             FbAnnounce, FbTick, FbCandle, FbCancelled, Interrupt
  <1> QED BY <1>1, <1>2, <1>3, <1>4 DEF FallbackStep, PlaceOK, TypeOK, lifeVars, QueueOK,
      LoopOK, StoreOK, ConsOK

\* The consumer takes an item: what Handle* have in common.
LEMMA HandleTyped ==
    TypeOK /\ (HandleConnected \/ HandleDown \/ HandleFallback \/ HandleMalformed
               \/ HandleRecord) => TypeOK'
  <1> SUFFICES ASSUME TypeOK,
                      HandleConnected \/ HandleDown \/ HandleFallback
                      \/ HandleMalformed \/ HandleRecord
               PROVE  TypeOK'
    OBVIOUS
  <1>1. QueueOK /\ LoopOK /\ StoreOK /\ ConsOK /\ PlaceOK
    BY TypeParts
  <1>2. PICK kinds : Dequeue(kinds) /\ (HandleRecord => kinds = RecordKinds)
    BY DEF HandleConnected, HandleDown, HandleFallback, HandleMalformed, HandleRecord
  <1>3. QueueOK' /\ (HandleRecord => Head(queue) \in Records)
    BY <1>1, <1>2, DequeueTyped DEF Dequeue
  <1>4. LoopOK'
    BY <1>1 DEF LoopOK, HandleConnected, HandleDown, HandleFallback, HandleMalformed,
           HandleRecord, CancelFallback, HoldForGet, Suspend, Tasks
  <1>5. StoreOK'
    BY <1>1 DEF StoreOK, HandleConnected, HandleDown, HandleFallback, HandleMalformed,
           HandleRecord, writerVars
  <1>6. ConsOK'
    <2>1. cons = "get"
      BY <1>2 DEF Dequeue
    <2> QED
      BY <1>1, <1>3, <2>1 DEF ConsOK, HandleConnected, HandleDown, HandleFallback,
           HandleMalformed, HandleRecord, CancelFallback, consVars, ConsStates, Modes
  <1>7. PlaceOK'
    BY <1>1 DEF PlaceOK, HandleConnected, HandleDown, HandleFallback, HandleMalformed,
           HandleRecord, lifeVars, FbStates
  <1> QED BY <1>3, <1>4, <1>5, <1>6, <1>7 DEF TypeOK, QueueOK, LoopOK, StoreOK, ConsOK, PlaceOK

\* The consumer goes on without touching the queue.
LEMMA ConsumerTyped ==
    TypeOK /\ (Reap \/ PublishOk \/ PublishFails \/ ConsumerWrites \/ ConsumerWriteFails
               \/ ConsumerCancelled) => TypeOK'
  <1> SUFFICES ASSUME TypeOK,
                      Reap \/ PublishOk \/ PublishFails \/ ConsumerWrites
                      \/ ConsumerWriteFails \/ ConsumerCancelled
               PROVE  TypeOK'
    OBVIOUS
  <1> USE DEF lifeVars, writerVars, consVars
  <1>1. QueueOK /\ LoopOK /\ StoreOK /\ ConsOK /\ PlaceOK
    BY TypeParts
  <1>2. QueueOK'
    BY <1>1 DEF QueueOK, Reap, PublishOk, PublishFails, ConsumerWrites, ConsumerWriteFails,
           ConsumerCancelled, Interrupt
  <1>3. LoopOK'
    BY <1>1 DEF LoopOK, Reap, PublishOk, PublishFails, ConsumerWrites, ConsumerWriteFails,
           ConsumerCancelled, Interrupt, Counted, Skipped, HoldForGet, Suspend, Tasks
  <1>4. ASSUME NEW k, processed' = [processed EXCEPT ![k] = @ + 1]
        PROVE  processed' \in [RecordKinds -> Nat]
    <2>1. processed \in [RecordKinds -> Nat]
      BY <1>1 DEF ConsOK
    <2>2. CASE k \in RecordKinds
      BY <1>4, <2>1, <2>2
    <2>3. CASE k \notin RecordKinds
      BY <1>4, <2>1, <2>3
    <2> QED BY <2>2, <2>3
  <1>5. ConsOK'
    BY <1>1, <1>4 DEF ConsOK, Reap, PublishOk, PublishFails, ConsumerWrites,
           ConsumerWriteFails, ConsumerCancelled, Counted, Skipped, ConsStates
  <1>6. CASE PublishOk \/ (ConsumerCancelled /\ cons = "publish")
    <2>1. cur \in Records
      BY <1>1, <1>6 DEF PublishOk, ConsOK
    <2>2. Append(accepted, cur) \in Seq(Records)
      BY <1>1, <2>1, AppendFacts DEF PlaceOK
    <2>3. PlaceOK'
      BY <1>1, <1>6, <2>2 DEF PlaceOK, PublishOk, ConsumerCancelled
    <2>4. StoreOK'
      <3>1. CASE PublishOk
        <4> DEFINE batch == WithRow(buffer, cur)
        <4>1. batch \in Batches
          BY <1>1, <2>1, WithRowTyped DEF StoreOK
        <4>2. CASE TakeBatch("consumer", batch)
          BY <1>1, <3>1, <4>1, <4>2, TakeTyped DEF PublishOk, Writers
        <4>3. CASE buffer' = batch /\ UNCHANGED job
          BY <1>1, <3>1, <4>1, <4>3 DEF PublishOk, StoreOK
        <4> QED BY <3>1, <4>2, <4>3 DEF PublishOk
      <3>2. CASE (ConsumerCancelled /\ cons = "publish")
        BY <1>1, <3>2 DEF ConsumerCancelled, StoreOK
      <3> QED BY <1>6, <3>1, <3>2
    <2> QED BY <1>2, <1>3, <1>5, <2>3, <2>4 DEF TypeOK, QueueOK, LoopOK, StoreOK, ConsOK, PlaceOK
  <1>7. CASE ConsumerWrites \/ ConsumerWriteFails \/ (ConsumerCancelled /\ cons = "flush")
    <2>1. StoreOK'
      BY <1>1, <1>7, WriteTyped
         DEF ConsumerWrites, ConsumerWriteFails, ConsumerCancelled, Writers
    <2>2. PlaceOK'
      BY <1>1, <1>7 DEF PlaceOK, ConsumerWrites, ConsumerWriteFails, ConsumerCancelled
    <2> QED BY <1>2, <1>3, <1>5, <2>1, <2>2 DEF TypeOK, QueueOK, LoopOK, StoreOK, ConsOK, PlaceOK
  <1>8. CASE Reap \/ PublishFails \/ (ConsumerCancelled /\ cons \in {"get", "reap"})
    <2>1. StoreOK'
      BY <1>1, <1>8 DEF StoreOK, Reap, PublishFails, ConsumerCancelled
    <2>2. PlaceOK'
      BY <1>1, <1>8 DEF PlaceOK, Reap, PublishFails, ConsumerCancelled, DropReference, FbStates
    <2> QED BY <1>2, <1>3, <1>5, <2>1, <2>2 DEF TypeOK, QueueOK, LoopOK, StoreOK, ConsOK, PlaceOK
  <1> QED BY <1>6, <1>7, <1>8 DEF ConsumerCancelled

\* Every step of market-db-flush keeps the type invariant.
LEMMA FlusherTyped == TypeOK /\ FlusherStep => TypeOK'
  <1> SUFFICES ASSUME TypeOK, FlusherStep PROVE TypeOK'
    OBVIOUS
  <1> USE DEF lifeVars, writerVars, consVars, queueVars
  <1>1. QueueOK /\ LoopOK /\ StoreOK /\ ConsOK /\ PlaceOK
    BY TypeParts
  <1>2. QueueOK' /\ LoopOK' /\ ConsOK' /\ PlaceOK'
    BY <1>1 DEF FlusherStep, FlusherWakes, FlusherWrites, FlusherWriteFails, FlusherCancelled,
           Interrupt, QueueOK, LoopOK, ConsOK, PlaceOK, FlushStates
  <1>3. StoreOK'
    <2>1. CASE FlusherWakes
      BY <1>1, <2>1, TakeTyped DEF FlusherWakes, Writers, StoreOK
    <2>2. CASE FlusherWrites \/ FlusherWriteFails \/ (FlusherCancelled /\ flush = "write")
      BY <1>1, <2>2, WriteTyped
         DEF FlusherWrites, FlusherWriteFails, FlusherCancelled, Writers
    <2>3. CASE (FlusherCancelled /\ flush = "sleep")
      BY <1>1, <2>3 DEF FlusherCancelled, StoreOK
    <2> QED BY <2>1, <2>2, <2>3 DEF FlusherStep, FlusherCancelled
  <1> QED BY <1>2, <1>3 DEF TypeOK, QueueOK, LoopOK, StoreOK, ConsOK, PlaceOK

\* start, stop, the final flush and a restart keep the type invariant.
LEMMA MainTyped == TypeOK /\ (MainStep \/ Stop \/ Restart \/ Terminated) => TypeOK'
  <1> SUFFICES ASSUME TypeOK, MainStep \/ Stop \/ Restart \/ Terminated PROVE TypeOK'
    OBVIOUS
  <1> USE DEF lifeVars, writerVars, consVars, queueVars
  <1>1. QueueOK /\ LoopOK /\ StoreOK /\ ConsOK /\ PlaceOK
    BY TypeParts
  <1>2. CASE Terminated
    BY <1>2 DEF Terminated, vars, TypeOK
  <1>3. CASE MainStep \/ Stop
    <2>1. QueueOK' /\ LoopOK' /\ ConsOK' /\ PlaceOK'
      <3>1. Alive \subseteq Tasks
        BY DEF Alive
      <3> QED
        BY <1>1, <1>3, <3>1
         DEF MainStep, StartOk, StartFails, StopGathered, DrainWrites, DrainFails,
             Stop, QueueOK, LoopOK, ConsOK, PlaceOK, ConnStates, ConsStates,
             FlushStates, LifeStates
    <2>2. StoreOK'
      <3>1. CASE DrainWrites \/ DrainFails
        BY <1>1, <3>1, WriteTyped DEF DrainWrites, DrainFails, Writers
      <3>2. CASE StopGathered
        BY <1>1, <3>2, TakeTyped DEF StopGathered, Writers, StoreOK
      <3>3. CASE StartOk \/ StartFails \/ Stop
        BY <1>1, <3>3 DEF StartOk, StartFails, Stop, StoreOK
      <3> QED BY <1>3, <3>1, <3>2, <3>3 DEF MainStep
    <2> QED BY <2>1, <2>2 DEF TypeOK, QueueOK, LoopOK, StoreOK, ConsOK, PlaceOK
  <1>4. CASE Restart
    BY <1>1, <1>4, EmptyTyped, QueueAssumption, PipelineAssumption
       DEF Restart, TypeOK, QueueOK, StoreOK, ConsOK, PlaceOK, ConnStates, FbStates, Tasks,
           ConsStates, FlushStates, LifeStates, Modes
  <1> QED BY <1>2, <1>3, <1>4

\* The pipeline is constructed with the type invariant.
LEMMA InitTyped == Init => TypeOK
  BY EmptyTyped, QueueAssumption, PipelineAssumption
     DEF Init, QueueInit, ConnInit, FbInit, WriterInit, TypeOK, ConnStates, FbStates, Tasks,
         ConsStates, FlushStates, LifeStates, Modes

\* Every step of the system keeps the type invariant.
LEMMA NextTyped == TypeOK /\ [Next]_vars => TypeOK'
  <1>1. TypeOK /\ UNCHANGED vars => TypeOK'
    BY DEF TypeOK, vars, queueVars, writerVars, consVars, lifeVars
  <1> QED
    BY <1>1, ConnectorTyped, FallbackTyped, HandleTyped, ConsumerTyped, FlusherTyped, MainTyped
       DEF Next, LifeNext, ConsumerStep

\* The type invariant holds in every reachable state, for queues and batches of
\* any size and any number of records and restarts.
THEOREM TypeCorrect == Spec => []TypeOK
  BY InitTyped, NextTyped, PTL DEF Spec

(***************************************************************************)
(* The order of arrival                                                    *)
(***************************************************************************)

\* What the arithmetic of the order needs to know: arrival numbers are integers.
LEMMA ItemTypes ==
    ASSUME TypeOK
    PROVE  /\ nextId \in Int
           /\ queue \in Seq(Records \cup Statuses) /\ accepted \in Seq(Records)
           /\ \A i \in DOMAIN queue : queue[i].id \in Int
           /\ \A j \in DOMAIN accepted : accepted[j].id \in Int
           /\ cons = "publish" => cur \in Records /\ cur.id \in Int
  <1>1. \A r \in Records \cup Statuses : r.id \in Int
    BY QueueAssumption DEF Records, Statuses
  <1>2. queue \in Seq(Records \cup Statuses) /\ accepted \in Seq(Records) /\ nextId \in Int
    BY QueueAssumption DEF TypeOK
  <1>3. /\ \A i \in DOMAIN queue : queue[i] \in Records \cup Statuses
        /\ \A j \in DOMAIN accepted : accepted[j] \in Records
    BY <1>2
  <1>4. cons = "publish" => cur \in Records
    BY DEF TypeOK
  <1> QED BY <1>1, <1>2, <1>3, <1>4

\* A step that touches neither the queue, nor the record in hand, nor the stream.
LEMMA OrderKept ==
    ASSUME ArrivalOrder, UNCHANGED <<queue, nextId, accepted>>,
           UNCHANGED <<cons, cur>> \/ cons' # "publish"
    PROVE  ArrivalOrder'
  BY DEF ArrivalOrder, AcceptedInArrivalOrder, IsRecord

\* A status that enters the queue does not disturb the order of the records.
LEMMA OrderPutStatus ==
    ASSUME TypeOK, ArrivalOrder, NEW provider \in Sources, NEW status \in StatusKinds,
           PutStatus(provider, status), UNCHANGED <<accepted, cons, cur>>
    PROVE  ArrivalOrder'
  <1> DEFINE item == Status(provider, status)
  <1>1. item \in Records \cup Statuses /\ ~IsRecord(item)
    BY DEF Status, Statuses, IsRecord, StatusKinds, RecordKinds
  <1> HIDE DEF item
  <1>2. queue' = Append(queue, item) /\ nextId' = nextId
    BY DEF PutStatus, item
  <1>3. /\ DOMAIN queue' = DOMAIN queue \cup {Len(queue) + 1}
        /\ \A i \in DOMAIN queue : i \in 1..Len(queue) /\ queue'[i] = queue[i]
        /\ queue'[Len(queue) + 1] = item
    BY <1>1, <1>2, ItemTypes, AppendFacts
  <1> QED BY <1>1, <1>2, <1>3 DEF ArrivalOrder, AcceptedInArrivalOrder, IsRecord

\* A record enters the queue with a number above all that arrived before it.
LEMMA OrderPutRecord ==
    ASSUME TypeOK, ArrivalOrder, NEW source \in Sources, NEW kind \in RecordKinds,
           PutRecord(source, kind), UNCHANGED <<accepted, cons, cur>>
    PROVE  ArrivalOrder'
  <1> DEFINE item == [kind |-> kind, source |-> source, id |-> nextId]
  <1>1. item \in Records \cup Statuses /\ item.id = nextId
    BY QueueAssumption DEF TypeOK, PutRecord, Records
  <1> HIDE DEF item
  <1>2. queue' = Append(queue, item) /\ nextId' = nextId + 1
    BY DEF PutRecord, item
  <1>3. /\ DOMAIN queue' = DOMAIN queue \cup {Len(queue) + 1}
        /\ \A i \in DOMAIN queue : i \in 1..Len(queue) /\ queue'[i] = queue[i]
        /\ queue'[Len(queue) + 1] = item
        /\ Len(queue) \in Nat
    BY <1>1, <1>2, ItemTypes, AppendFacts
  <1>4. AcceptedInArrivalOrder'
    BY DEF ArrivalOrder, AcceptedInArrivalOrder
  <1>5. (\A j \in DOMAIN accepted : accepted[j].id < nextId)'
    BY <1>2, ItemTypes DEF ArrivalOrder
  <1>6. (\A i \in DOMAIN queue : IsRecord(queue[i]) =>
            /\ queue[i].id < nextId
            /\ \A j \in DOMAIN accepted : accepted[j].id < queue[i].id)'
    BY <1>1, <1>2, <1>3, ItemTypes DEF ArrivalOrder, IsRecord
  <1>7. (\A h, i \in DOMAIN queue :
            h < i /\ IsRecord(queue[h]) /\ IsRecord(queue[i]) => queue[h].id < queue[i].id)'
    BY <1>1, <1>2, <1>3, ItemTypes DEF ArrivalOrder, IsRecord
  <1>8. (cons = "publish" =>
            /\ cur.id < nextId
            /\ \A j \in DOMAIN accepted : accepted[j].id < cur.id
            /\ \A i \in DOMAIN queue : IsRecord(queue[i]) => cur.id < queue[i].id)'
    BY <1>1, <1>2, <1>3, ItemTypes DEF ArrivalOrder, IsRecord
  <1> QED BY <1>4, <1>5, <1>6, <1>7, <1>8 DEF ArrivalOrder

\* The consumer takes the first item: if a record, the earliest that waits.
LEMMA OrderDequeue ==
    ASSUME TypeOK, ArrivalOrder, NEW kinds, Dequeue(kinds), UNCHANGED accepted,
           cons' # "publish" \/ (cur' = Head(queue) /\ kinds = RecordKinds)
    PROVE  ArrivalOrder'
  <1>1. /\ queue' = Tail(queue) /\ nextId' = nextId
        /\ Head(queue) = queue[1] /\ 1 \in DOMAIN queue
        /\ \A i \in DOMAIN queue' : i + 1 \in DOMAIN queue /\ queue'[i] = queue[i + 1]
    BY ItemTypes, TailFacts DEF Dequeue
  <1>2. \A i \in DOMAIN queue' : i \in Int /\ i > 0
    BY <1>1, ItemTypes
  <1>3. (\A i \in DOMAIN queue : IsRecord(queue[i]) =>
            /\ queue[i].id < nextId
            /\ \A j \in DOMAIN accepted : accepted[j].id < queue[i].id)'
    BY <1>1 DEF ArrivalOrder, IsRecord
  <1>4. (\A h, i \in DOMAIN queue :
            h < i /\ IsRecord(queue[h]) /\ IsRecord(queue[i]) => queue[h].id < queue[i].id)'
    BY <1>1, <1>2 DEF ArrivalOrder, IsRecord
  <1>5. (cons = "publish" =>
            /\ cur.id < nextId
            /\ \A j \in DOMAIN accepted : accepted[j].id < cur.id
            /\ \A i \in DOMAIN queue : IsRecord(queue[i]) => cur.id < queue[i].id)'
    <2>1. CASE cons' = "publish"
      <3>1. cur' = queue[1] /\ IsRecord(queue[1])
        BY <1>1, <2>1 DEF Dequeue, IsRecord
      <3>2. \A i \in DOMAIN queue' : 1 < i + 1
        BY <1>2
      <3> QED BY <1>1, <3>1, <3>2 DEF ArrivalOrder, IsRecord
    <2> QED BY <2>1
  <1> QED BY <1>1, <1>3, <1>4, <1>5 DEF ArrivalOrder, AcceptedInArrivalOrder

\* publish_event takes the record in hand: it is later than all events, earlier than
\* all that wait.
LEMMA OrderPublish ==
    ASSUME TypeOK, ArrivalOrder, cons = "publish", cons' # "publish",
           accepted' = Append(accepted, cur), UNCHANGED <<queue, nextId>>
    PROVE  ArrivalOrder'
  <1>1. /\ DOMAIN accepted' = DOMAIN accepted \cup {Len(accepted) + 1}
        /\ \A j \in DOMAIN accepted : j \in 1..Len(accepted) /\ accepted'[j] = accepted[j]
        /\ accepted'[Len(accepted) + 1] = cur
        /\ Len(accepted) \in Nat
    BY ItemTypes, AppendFacts
  <1>2. AcceptedInArrivalOrder'
    BY <1>1, ItemTypes DEF ArrivalOrder, AcceptedInArrivalOrder
  <1> QED BY <1>1, <1>2, ItemTypes DEF ArrivalOrder, IsRecord

\* A restart forgets the queue, not the numbers that were given out.
LEMMA OrderReset ==
    ASSUME TypeOK, ArrivalOrder, queue' = <<>>, cons' # "publish", UNCHANGED <<nextId, accepted>>
    PROVE  ArrivalOrder'
  BY DEF ArrivalOrder, AcceptedInArrivalOrder, IsRecord

\* Every step of the system keeps the order of arrival.
LEMMA OrderNext == TypeOK /\ ArrivalOrder /\ [Next]_vars => ArrivalOrder'
  <1> SUFFICES ASSUME TypeOK, ArrivalOrder, [Next]_vars PROVE ArrivalOrder'
    OBVIOUS
  <1> USE DEF lifeVars, writerVars, consVars, queueVars
  <1>1. CASE UNCHANGED vars
    BY <1>1, OrderKept DEF vars
  <1>2. CASE ConnectorStep
    <2>1. /\ "deriv" \in Sources
          /\ {"connected", "error", "disconnected"} \subseteq StatusKinds
      BY DEF Sources, StatusKinds
    <2>2. UNCHANGED <<accepted, cons, cur>>
      BY <1>2 DEF ConnectorStep
    <2>3. \/ UNCHANGED <<queue, nextId>>
          \/ \E status \in StatusKinds : PutStatus("deriv", status)
          \/ \E kind \in RecordKinds : PutRecord("deriv", kind)
      BY <1>2, <2>1
         DEF ConnectorStep, ConnectorNext, ConnectorReports, Connect, Subscribe, Receive,
             SessionFails, ReportError, ReportDown, DelayOver, ConnectorCancelled, Interrupt
    <2> QED BY <2>1, <2>2, <2>3, OrderKept, OrderPutStatus, OrderPutRecord
  <1>3. CASE FallbackStep
    <2>1. "fallback" \in Sources /\ "fallback" \in StatusKinds
      BY DEF Sources, StatusKinds
    <2>2. UNCHANGED <<accepted, cons, cur>>
      BY <1>3 DEF FallbackStep
    <2>3. \/ UNCHANGED <<queue, nextId>>
          \/ PutStatus("fallback", "fallback")
          \/ \E kind \in RecordKinds : PutRecord("fallback", kind)
      BY <1>3
         DEF FallbackStep, FbNext, FbAnnounce, FbTick, FbCandle, FbCancelled, Interrupt,
             RecordKinds
    <2> QED BY <2>1, <2>2, <2>3, OrderKept, OrderPutStatus, OrderPutRecord
  <1>4. CASE HandleConnected \/ HandleDown \/ HandleFallback \/ HandleMalformed
    <2>1. UNCHANGED accepted
      BY <1>4 DEF HandleConnected, HandleDown, HandleFallback, HandleMalformed
    <2>2. \E kinds : Dequeue(kinds)
      BY <1>4 DEF HandleConnected, HandleDown, HandleFallback, HandleMalformed
    <2>3. cons' # "publish"
      BY <1>4
         DEF HandleConnected, HandleDown, HandleFallback, HandleMalformed, CancelFallback, Dequeue
    <2> QED BY <2>1, <2>2, <2>3, OrderDequeue
  <1>5. CASE HandleRecord
    BY <1>5, OrderDequeue DEF HandleRecord
  <1>6. CASE PublishOk
    BY <1>6, OrderPublish DEF PublishOk, Counted
  <1>7. CASE Reap \/ PublishFails \/ ConsumerWrites \/ ConsumerWriteFails
    BY <1>7, OrderKept
       DEF Reap, PublishFails, ConsumerWrites, ConsumerWriteFails, Skipped, Counted
  <1>8. CASE ConsumerCancelled
    <2>1. cons' # "publish" /\ UNCHANGED <<queue, nextId>>
      BY <1>8 DEF ConsumerCancelled, Interrupt
    <2>2. \/ UNCHANGED accepted
          \/ cons = "publish" /\ accepted' = Append(accepted, cur)
      BY <1>8 DEF ConsumerCancelled
    <2> QED BY <2>1, <2>2, OrderKept, OrderPublish
  <1>9. CASE FlusherStep
    BY <1>9, OrderKept
       DEF FlusherStep, FlusherWakes, FlusherWrites, FlusherWriteFails, FlusherCancelled, Interrupt
  <1>10. CASE MainStep \/ Stop \/ Terminated
    BY <1>10, OrderKept
       DEF MainStep, StartOk, StartFails, StopGathered, DrainWrites, DrainFails, Stop,
           Terminated, vars
  <1>11. CASE Restart
    BY <1>11, OrderReset DEF Restart
  <1> QED
    BY <1>1, <1>2, <1>3, <1>4, <1>5, <1>6, <1>7, <1>8, <1>9, <1>10, <1>11 DEF Next, LifeNext, ConsumerStep

\* Nothing has arrived at first.
LEMMA OrderInit == Init => ArrivalOrder
  BY DEF Init, QueueInit, ArrivalOrder, AcceptedInArrivalOrder, IsRecord

\* The NATS client is given the events in the order in which their records entered the
\* queue, whatever fails, whichever provider is active and however often the process
\* restarts.
THEOREM AcceptedInOrder == Spec => []AcceptedInArrivalOrder
  <1>1. Init => TypeOK /\ ArrivalOrder
    BY InitTyped, OrderInit
  <1>2. TypeOK /\ ArrivalOrder /\ [Next]_vars => (TypeOK /\ ArrivalOrder)'
    BY NextTyped, OrderNext
  <1>3. TypeOK /\ ArrivalOrder => AcceptedInArrivalOrder
    BY DEF ArrivalOrder
  <1> QED BY <1>1, <1>2, <1>3, PTL DEF Spec

=============================================================================
