---------------------------- MODULE MarketFeedProofs ----------------------------
(***************************************************************************)
(* What the pipeline does with the rows and their events: the tables hold  *)
(* only what publish_event has taken, no row is in two flushes; and with   *)
(* the NATS client, no event is sent twice, out of order or forgotten, and *)
(* the whole implements the abstract feed.                                 *)
(***************************************************************************)
EXTENDS MarketPipelineProofs, MarketDelivery, SequenceTheorems

(***************************************************************************)
(* Rows and batches                                                        *)
(***************************************************************************)

\* The empty batch has no rows.
LEMMA EmptyRows ==
    /\ Rows(<<>>) = {} /\ RowsOf(EmptyBatch) = {}
    /\ EmptyBatch.ticks = <<>> /\ EmptyBatch.candles = <<>>
  BY DEF Rows, RowsOf, EmptyBatch

\* add_tick and add_candle put the row where its kind belongs.
LEMMA WithRowRows ==
    ASSUME NEW batch \in Batches, NEW row \in Records
    PROVE  /\ row.kind = "tick" =>
                /\ Rows(WithRow(batch, row).ticks) = Rows(batch.ticks) \cup {row}
                /\ WithRow(batch, row).candles = batch.candles
           /\ row.kind # "tick" =>
                /\ WithRow(batch, row).ticks = batch.ticks
                /\ Rows(WithRow(batch, row).candles) = Rows(batch.candles) \cup {row}
  <1>1. batch.ticks \in Seq(Records) /\ batch.candles \in Seq(Records)
    BY DEF Batches
  <1>2. CASE row.kind = "tick"
    <2>1. WithRow(batch, row) = [ticks |-> Append(batch.ticks, row), candles |-> batch.candles]
      BY <1>2 DEF WithRow, Batches
    <2>2. Rows(Append(batch.ticks, row)) = Rows(batch.ticks) \cup {row}
      BY <1>1, AppendFacts
    <2> QED BY <1>2, <2>1, <2>2
  <1>3. CASE row.kind # "tick"
    <2>1. WithRow(batch, row) = [ticks |-> batch.ticks, candles |-> Append(batch.candles, row)]
      BY <1>3 DEF WithRow, Batches
    <2>2. Rows(Append(batch.candles, row)) = Rows(batch.candles) \cup {row}
      BY <1>1, AppendFacts
    <2> QED BY <1>3, <2>1, <2>2
  <1> QED BY <1>2, <1>3

\* What a step does to the store.  The store is left alone; w takes the buffer;
\* w writes, or its write is aborted; or a record is accepted and buffered.
StoreKept == UNCHANGED <<writerVars, accepted>>

Takes(w) == TakeBatch(w, buffer) /\ UNCHANGED <<dbTicks, dbCandles, accepted>>

Writes(w) == (Write(w) \/ WriteAborted(w)) /\ UNCHANGED accepted

Buffers ==
    /\ cons = "publish"
    /\ accepted' = Append(accepted, cur)
    /\ UNCHANGED <<dbTicks, dbCandles>>
    /\ \/ TakeBatch("consumer", WithRow(buffer, cur))
       \/ buffer' = WithRow(buffer, cur) /\ UNCHANGED job
       \/ UNCHANGED <<buffer, job>>

Clears ==
    /\ buffer' = EmptyBatch
    /\ job' = [w \in Writers |-> EmptyBatch]
    /\ UNCHANGED <<dbTicks, dbCandles, accepted>>

\* Every step of the system does one of these to the store.
LEMMA StoreSteps ==
    [Next]_vars => \/ StoreKept \/ Buffers \/ Clears
                   \/ \E w \in Writers : Takes(w) \/ Writes(w)
  <1> SUFFICES ASSUME [Next]_vars
               PROVE  \/ StoreKept \/ Buffers \/ Clears
                      \/ \E w \in Writers : Takes(w) \/ Writes(w)
    OBVIOUS
  <1> USE DEF StoreKept, writerVars
  <1>1. CASE UNCHANGED vars
    BY <1>1 DEF vars
  <1>2. CASE ConnectorStep \/ FallbackStep
    BY <1>2 DEF ConnectorStep, FallbackStep
  <1>3. CASE HandleConnected \/ HandleDown \/ HandleFallback \/ HandleMalformed
             \/ HandleRecord \/ Reap \/ PublishFails
    BY <1>3 DEF HandleConnected, HandleDown, HandleFallback, HandleMalformed, HandleRecord,
           Reap, PublishFails
  <1>4. CASE PublishOk
    BY <1>4 DEF PublishOk, Buffers
  <1>5. CASE ConsumerWrites \/ ConsumerWriteFails
    BY <1>5 DEF ConsumerWrites, ConsumerWriteFails, Writes, Writers
  <1>6. CASE ConsumerCancelled
    BY <1>6 DEF ConsumerCancelled, Buffers, Writes, Writers
  <1>7. CASE FlusherStep
    BY <1>7 DEF FlusherStep, FlusherWakes, FlusherWrites, FlusherWriteFails, FlusherCancelled,
           Takes, Writes, Writers
  <1>8. CASE MainStep \/ Stop \/ Terminated
    BY <1>8 DEF MainStep, StartOk, StartFails, StopGathered, DrainWrites, DrainFails, Stop,
           Terminated, vars, Takes, Writes, Writers
  <1>9. CASE Restart
    BY <1>9 DEF Restart, Clears
  <1> QED
    BY <1>1, <1>2, <1>3, <1>4, <1>5, <1>6, <1>7, <1>8, <1>9 DEF Next, LifeNext, ConsumerStep

(***************************************************************************)
(* The tables hold what has been accepted                                  *)
(***************************************************************************)

\* A record that is accepted joins those that were, and no other is added.
LEMMA AcceptedByAppend ==
    ASSUME TypeOK, cons = "publish", accepted' = Append(accepted, cur)
    PROVE  /\ Rows(accepted)' = Rows(accepted) \cup {cur}
           /\ cur \in Records
           /\ AcceptedOf("tick") \subseteq AcceptedOf("tick")'
           /\ AcceptedOf("candle") \subseteq AcceptedOf("candle")'
           /\ cur.kind = "tick" => cur \in AcceptedOf("tick")'
           /\ cur.kind # "tick" => cur \in AcceptedOf("candle")'
  <1>1. cur \in Records /\ accepted \in Seq(Records)
    BY ItemTypes
  <1>2. Rows(accepted') = Rows(accepted) \cup {cur}
    BY <1>1, AppendFacts
  <1>3. cur.kind = "tick" \/ cur.kind = "candle"
    BY <1>1 DEF Records, RecordKinds
  <1> QED BY <1>1, <1>2, <1>3 DEF AcceptedOf

\* Everything in the store stays accepted when the history only grows.
LEMMA AcceptedKept ==
    ASSUME RowsWereAccepted, UNCHANGED <<dbTicks, dbCandles>>,
           AcceptedOf("tick") \subseteq AcceptedOf("tick")',
           AcceptedOf("candle") \subseteq AcceptedOf("candle")',
           BatchAccepted(buffer)', \A w \in Writers : BatchAccepted(job[w])'
    PROVE  RowsWereAccepted'
  BY DEF RowsWereAccepted

\* A write that returns or is aborted leaves a part of each batch.
LEMMA BatchesShrink ==
    ASSUME job \in [Writers -> Batches], NEW w \in Writers, Writes(w), NEW v \in Writers
    PROVE  /\ job'[v].ticks = job[v].ticks \/ job'[v].ticks = <<>>
           /\ job'[v].candles = job[v].candles \/ job'[v].candles = <<>>
  <1>1. \/ job' = [job EXCEPT ![w].ticks = <<>>]
        \/ job' = [job EXCEPT ![w].candles = <<>>]
        \/ job' = [job EXCEPT ![w] = EmptyBatch]
    BY DEF Writes, Write, WriteAborted
  <1> QED BY <1>1, EmptyRows, ZenonT(30) DEF Batches

\* A write stores rows of the batch, or none, and leaves the rest of the batch.
LEMMA AcceptedWrites ==
    ASSUME TypeOK, RowsWereAccepted, NEW w \in Writers, Writes(w)
    PROVE  RowsWereAccepted'
  <1>1. /\ AcceptedOf("tick")' = AcceptedOf("tick") /\ AcceptedOf("candle")' = AcceptedOf("candle")
        /\ buffer' = buffer
    BY DEF Writes, Write, WriteAborted, AcceptedOf
  <1>2. BatchAccepted(job[w]) /\ job \in [Writers -> Batches]
    BY DEF RowsWereAccepted, TypeOK
  <1>3. dbTicks' \subseteq AcceptedOf("tick")
    BY <1>2, InsertedRows DEF Writes, Write, WriteAborted, CommitTicks, CommitCandles,
           RowsWereAccepted, BatchAccepted
  <1>4. ASSUME NEW s \in Sources, dbCandles'[s] # 0
        PROVE  \E r \in AcceptedOf("candle") : r.source = s /\ r.id = dbCandles'[s]
    <2>1. CASE dbCandles'[s] = dbCandles[s]
      BY <1>4, <2>1 DEF RowsWereAccepted
    <2>2. CASE dbCandles'[s] # dbCandles[s]
      <3>1. UpsertCandles(job[w].candles)
        BY <2>2 DEF Writes, Write, WriteAborted, CommitTicks, CommitCandles
      <3>2. PICK i \in DOMAIN job[w].candles :
                job[w].candles[i].source = s /\ dbCandles'[s] = job[w].candles[i].id
        BY <2>2, <3>1 DEF UpsertCandles
      <3>3. job[w].candles[i] \in AcceptedOf("candle")
        BY <1>2, <3>2 DEF BatchAccepted, Rows
      <3> QED BY <3>2, <3>3
    <2> QED BY <2>1, <2>2
  <1>5. ASSUME NEW v \in Writers
        PROVE  BatchAccepted(job'[v])
    <2>1. /\ job'[v].ticks = job[v].ticks \/ job'[v].ticks = <<>>
          /\ job'[v].candles = job[v].candles \/ job'[v].candles = <<>>
      BY <1>2, BatchesShrink
    <2>2. BatchAccepted(job[v])
      BY DEF RowsWereAccepted
    <2> QED BY <2>1, <2>2, EmptyRows DEF BatchAccepted
  <1> QED BY <1>1, <1>3, <1>4, <1>5 DEF RowsWereAccepted, BatchAccepted

\* The buffer becomes the batch of a flush.
LEMMA AcceptedTakes ==
    ASSUME TypeOK, RowsWereAccepted, NEW w \in Writers, Takes(w)
    PROVE  RowsWereAccepted'
  <1>1. AcceptedOf("tick")' = AcceptedOf("tick") /\ AcceptedOf("candle")' = AcceptedOf("candle")
    BY DEF Takes, AcceptedOf
  <1>2. BatchAccepted(buffer) /\ job \in [Writers -> Batches]
    BY DEF RowsWereAccepted, TypeOK
  <1>3. BatchAccepted(buffer)'
    BY EmptyRows DEF Takes, TakeBatch, BatchAccepted
  <1>4. \A v \in Writers : BatchAccepted(job[v])'
    BY <1>1, <1>2 DEF Takes, TakeBatch, RowsWereAccepted, BatchAccepted
  <1> QED BY <1>1, <1>3, <1>4, AcceptedKept DEF Takes

\* The accepted record is buffered, flushed with the buffer, or dropped.
LEMMA AcceptedBuffers ==
    ASSUME TypeOK, RowsWereAccepted, Buffers
    PROVE  RowsWereAccepted'
  <1> DEFINE batch == WithRow(buffer, cur)
  <1>1. /\ cur \in Records
        /\ AcceptedOf("tick") \subseteq AcceptedOf("tick")'
        /\ AcceptedOf("candle") \subseteq AcceptedOf("candle")'
        /\ cur.kind = "tick" => cur \in AcceptedOf("tick")'
        /\ cur.kind # "tick" => cur \in AcceptedOf("candle")'
    BY AcceptedByAppend DEF Buffers
  <1>2. BatchAccepted(buffer) /\ buffer \in Batches /\ job \in [Writers -> Batches]
    BY DEF RowsWereAccepted, TypeOK
  <1>3. /\ Rows(batch.ticks) \subseteq AcceptedOf("tick")'
        /\ Rows(batch.candles) \subseteq AcceptedOf("candle")'
    BY <1>1, <1>2, WithRowRows DEF BatchAccepted
  <1> HIDE DEF batch
  <1>4. buffer' \in {batch, EmptyBatch, buffer}
    BY DEF Buffers, TakeBatch, batch
  <1>5. \A v \in Writers : job'[v] \in {job[v], batch}
    BY <1>2 DEF Buffers, TakeBatch, batch
  <1>6. BatchAccepted(buffer)'
    BY <1>1, <1>2, <1>3, <1>4, EmptyRows DEF BatchAccepted
  <1>7. \A v \in Writers : BatchAccepted(job[v])'
    BY <1>1, <1>3, <1>5 DEF BatchAccepted, RowsWereAccepted
  <1> QED BY <1>1, <1>6, <1>7, AcceptedKept DEF Buffers

\* Every step keeps RowsWereAccepted.
LEMMA AcceptedNext == TypeOK /\ RowsWereAccepted /\ [Next]_vars => RowsWereAccepted'
  <1> SUFFICES ASSUME TypeOK, RowsWereAccepted, [Next]_vars PROVE RowsWereAccepted'
    OBVIOUS
  <1>1. CASE StoreKept
    BY <1>1 DEF StoreKept, writerVars, RowsWereAccepted, BatchAccepted, AcceptedOf
  <1>2. CASE Clears
    <2>1. AcceptedOf("tick")' = AcceptedOf("tick") /\ AcceptedOf("candle")' = AcceptedOf("candle")
      BY <1>2 DEF Clears, AcceptedOf
    <2>2. BatchAccepted(buffer)' /\ \A w \in Writers : BatchAccepted(job[w])'
      BY <1>2, EmptyRows DEF Clears, BatchAccepted
    <2> QED BY <1>2, <2>1, <2>2, AcceptedKept DEF Clears
  <1>3. CASE Buffers
    BY <1>3, AcceptedBuffers
  <1>4. CASE \E w \in Writers : Takes(w) \/ Writes(w)
    BY <1>4, AcceptedTakes, AcceptedWrites
  <1> QED BY <1>1, <1>2, <1>3, <1>4, StoreSteps

\* Nothing is in memory or in the tables at first.
LEMMA AcceptedInit == Init => RowsWereAccepted
  BY EmptyRows DEF Init, WriterInit, RowsWereAccepted, BatchAccepted

\* The strengthened invariant of the pipeline: typed, in order, and accepted before
\* it is stored.
THEOREM Strengthened == Spec => []IInv
  <1>1. Init => IInv
    BY InitTyped, OrderInit, AcceptedInit DEF IInv
  <1>2. IInv /\ [Next]_vars => IInv'
    BY NextTyped, OrderNext, AcceptedNext DEF IInv
  <1> QED BY <1>1, <1>2, PTL DEF Spec

\* Whatever the tables hold, the NATS client was given before, through failures of NATS
\* and of the database, lost answers, crashes and restarts.
THEOREM PersistedAfterAccepted == Spec => []PersistedWereAccepted
  <1>1. IInv => PersistedWereAccepted
    BY DEF IInv, RowsWereAccepted, PersistedWereAccepted, AcceptedOf
  <1> QED BY <1>1, Strengthened, PTL

(***************************************************************************)
(* No row is in two flushes                                                *)
(***************************************************************************)

\* Everything in memory has been accepted.
LEMMA MemoryWasAccepted ==
    ASSUME RowsWereAccepted
    PROVE  /\ RowsOf(buffer) \subseteq Rows(accepted)
           /\ \A w \in Writers : RowsOf(job[w]) \subseteq Rows(accepted)
  BY DEF RowsWereAccepted, BatchAccepted, AcceptedOf, RowsOf

\* The record in the consumer's hands has not been accepted.
LEMMA InHandIsNew ==
    ASSUME TypeOK, ArrivalOrder, cons = "publish"
    PROVE  cur \notin Rows(accepted)
  BY ItemTypes DEF ArrivalOrder, Rows

\* Every step keeps the flushes apart.
LEMMA DisjointNext == IInv /\ FlushesAreDisjoint /\ [Next]_vars => FlushesAreDisjoint'
  <1> SUFFICES ASSUME IInv, FlushesAreDisjoint, [Next]_vars PROVE FlushesAreDisjoint'
    OBVIOUS
  <1>1. TypeOK /\ ArrivalOrder /\ RowsWereAccepted /\ job \in [Writers -> Batches] /\ buffer \in Batches
    BY DEF IInv, TypeOK
  <1>2. CASE StoreKept
    BY <1>2 DEF StoreKept, writerVars, FlushesAreDisjoint
  <1>3. CASE Clears
    BY <1>3, EmptyRows DEF Clears, FlushesAreDisjoint
  <1>4. CASE Buffers
    <2> DEFINE batch == WithRow(buffer, cur)
    <2>1. /\ cur \in Records
          /\ RowsOf(batch) = RowsOf(buffer) \cup {cur}
      BY <1>1, <1>4, ItemTypes, WithRowTyped DEF Buffers
    <2>2. \A w \in Writers : cur \notin RowsOf(job[w])
      BY <1>1, <1>4, MemoryWasAccepted, InHandIsNew DEF Buffers
    <2>3. \A w \in Writers : RowsOf(batch) \cap RowsOf(job[w]) = {}
      BY <2>1, <2>2 DEF FlushesAreDisjoint
    <2> HIDE DEF batch
    <2>4. CASE TakeBatch("consumer", batch)
      <3>1. job' = [job EXCEPT !["consumer"] = batch] /\ buffer' = EmptyBatch
        BY <2>4 DEF TakeBatch
      <3> QED BY <1>1, <2>3, <3>1, EmptyRows DEF FlushesAreDisjoint
    <2>5. CASE buffer' \in {batch, buffer} /\ UNCHANGED job
      BY <2>3, <2>5 DEF FlushesAreDisjoint
    <2> QED BY <1>4, <2>4, <2>5 DEF Buffers, batch
  <1>5. ASSUME NEW w \in Writers, Takes(w)
        PROVE  FlushesAreDisjoint'
    <2>1. job' = [job EXCEPT ![w] = buffer] /\ buffer' = EmptyBatch
      BY <1>5 DEF Takes, TakeBatch
    <2> QED BY <1>1, <2>1, EmptyRows DEF FlushesAreDisjoint
  <1>6. ASSUME NEW w \in Writers, Writes(w)
        PROVE  FlushesAreDisjoint'
    <2>1. \A v \in Writers : RowsOf(job'[v]) \subseteq RowsOf(job[v])
      BY <1>1, <1>6, BatchesShrink, EmptyRows DEF RowsOf
    <2>2. buffer' = buffer
      BY <1>6 DEF Writes, Write, WriteAborted
    <2> QED BY <2>1, <2>2 DEF FlushesAreDisjoint
  <1> QED BY <1>2, <1>3, <1>4, <1>5, <1>6, StoreSteps

\* Two coroutines copy and clear one buffer, and stop() a third time: no row is
\* ever in two of these flushes, or in a flush and still in the buffer.
THEOREM OneFlushPerRow == Spec => []FlushesAreDisjoint
  <1>1. Init => FlushesAreDisjoint
    BY EmptyRows DEF Init, WriterInit, FlushesAreDisjoint
  <1> QED BY <1>1, DisjointNext, Strengthened, PTL DEF Spec

(***************************************************************************)
(* The events on their way: the NATS client                                *)
(***************************************************************************)

\* A step with the client in it is a step of the pipeline, or none.
LEMMA ProcessSteps == [DNext]_dvars => [Next]_vars
  BY DEF DNext, ProcessStep, RestartClient, ClientStep, Next, LifeNext, dvars

\* What happens to the pipeline is what happens without the client in the model.
LEMMA DeliveryIsPipeline == DSpec => Spec
  <1>1. DInit => Init
    BY DEF DInit
  <1> QED BY <1>1, ProcessSteps, PTL DEF DSpec, Spec

\* An event is given to the client in one kind of step only.
Entrusts == Buffers /\ outbox' = Append(outbox, cur) /\ UNCHANGED <<link, published, lost>>

\* The client loses events, with the process or with its connection, and nothing
\* happens to the tables.
Loses(n) ==
    /\ Lost(n)
    /\ UNCHANGED <<accepted, dbTicks, dbCandles>>
    /\ Restart \/ (link' # link /\ link' \in {"lost", "closed"})

\* Every step does one of these to the events.
LEMMA EventSteps ==
    ASSUME [DNext]_dvars, outbox \in Seq(Records)
    PROVE  \/ UNCHANGED <<accepted, outbox, published, lost>>
           \/ Entrusts
           \/ Transmit /\ UNCHANGED vars
           \/ \E n \in 0..Len(outbox) : Loses(n)
  <1> USE DEF clientVars
  <1>1. CASE UNCHANGED dvars
    BY <1>1 DEF dvars, vars
  <1>2. CASE ProcessStep
    <2>1. CASE accepted' = accepted
      BY <1>2, <2>1 DEF ProcessStep, Entrusted
    <2>2. CASE accepted' # accepted
      <3>1. Buffers
        BY <1>2, <2>2, ProcessSteps, StoreSteps
           DEF DNext, StoreKept, Takes, Writes, Clears
      <3> QED BY <1>2, <2>2, <3>1 DEF ProcessStep, Entrusted, Entrusts
    <2> QED BY <2>1, <2>2
  <1>3. CASE RestartClient
    <2>1. Len(outbox) \in 0..Len(outbox)
      OBVIOUS
    <2> QED BY <1>3, <2>1 DEF RestartClient, Restart, Loses
  <1>4. CASE ClientStep
    <2>1. Len(outbox) \in 0..Len(outbox)
      OBVIOUS
    <2>2. UNCHANGED <<accepted, dbTicks, dbCandles>>
      BY <1>4 DEF ClientStep, vars, writerVars
    <2>3. CASE Break
      BY <2>2, <2>3 DEF Break, Loses
    <2>4. CASE GiveUp
      BY <2>1, <2>2, <2>4 DEF GiveUp, Loses
    <2> QED BY <1>4, <2>2, <2>3, <2>4 DEF ClientStep, Reconnect, Close
  <1> QED BY <1>1, <1>2, <1>3, <1>4 DEF DNext

\* What the client keeps of its memory when it loses the first n events.
LEMMA KeptFacts ==
    ASSUME outbox \in Seq(Records), NEW n \in 0..Len(outbox), Lost(n)
    PROVE  /\ outbox' \in Seq(Records)
           /\ \A i \in DOMAIN outbox' : i + n \in DOMAIN outbox /\ outbox'[i] = outbox[i + n]
           /\ Rows(outbox) = {outbox[i] : i \in 1..n} \cup Rows(outbox')
           /\ {outbox[i] : i \in 1..n} \subseteq Records
  <1>1. outbox' = SubSeq(outbox, n + 1, Len(outbox))
    BY DEF Lost
  <1>2. /\ outbox' \in Seq(Records)
        /\ Len(outbox') = Len(outbox) - n
        /\ \A i \in 1..Len(outbox) - n : outbox'[i] = outbox[i + n]
    <2>1. \A i \in n + 1..Len(outbox) : outbox[i] \in Records
      OBVIOUS
    <2>2. n + 1 \in Int /\ Len(outbox) \in Int /\ Len(outbox) - (n + 1) + 1 = Len(outbox) - n
      OBVIOUS
    <2>3. /\ SubSeq(outbox, n + 1, Len(outbox)) \in Seq(Records)
          /\ Len(SubSeq(outbox, n + 1, Len(outbox)))
                = IF n + 1 <= Len(outbox) THEN Len(outbox) - (n + 1) + 1 ELSE 0
          /\ \A i \in 1..Len(outbox) - (n + 1) + 1 :
                SubSeq(outbox, n + 1, Len(outbox))[i] = outbox[n + 1 + i - 1]
      BY <2>1, <2>2, SubSeqProperties
    <2> QED BY <1>1, <2>3
  <1>3. \A i \in DOMAIN outbox' : i + n \in DOMAIN outbox /\ outbox'[i] = outbox[i + n]
    BY <1>2
  <1>4. \A i \in DOMAIN outbox : i \in 1..n \/ (i - n \in DOMAIN outbox' /\ outbox'[i - n] = outbox[i])
    BY <1>2
  <1>5. \A i \in 1..n : i \in DOMAIN outbox /\ outbox[i] \in Records
    OBVIOUS
  <1>6. Rows(outbox) \subseteq {outbox[i] : i \in 1..n} \cup Rows(outbox')
    BY <1>4 DEF Rows
  <1>7. {outbox[i] : i \in 1..n} \cup Rows(outbox') \subseteq Rows(outbox)
    BY <1>3, <1>5 DEF Rows
  <1> QED BY <1>2, <1>3, <1>5, <1>6, <1>7

\* The first event of the memory, and what is left of it.
LEMMA TransmitFacts ==
    ASSUME outbox \in Seq(Records), published \in Seq(Records), Transmit
    PROVE  /\ outbox' \in Seq(Records) /\ published' \in Seq(Records)
           /\ \A i \in DOMAIN outbox' : i + 1 \in DOMAIN outbox /\ outbox'[i] = outbox[i + 1]
           /\ 1 \in DOMAIN outbox
           /\ DOMAIN published' = DOMAIN published \cup {Len(published) + 1}
           /\ \A i \in DOMAIN published : published'[i] = published[i]
           /\ published'[Len(published) + 1] = outbox[1]
           /\ Rows(published') = Rows(published) \cup {outbox[1]}
           /\ Rows(outbox) = {outbox[1]} \cup Rows(outbox')
  <1>1. /\ Head(outbox) = outbox[1] /\ 1 \in DOMAIN outbox /\ outbox[1] \in Records
        /\ outbox' \in Seq(Records) /\ Len(outbox') = Len(outbox) - 1
        /\ \A i \in DOMAIN outbox' : i + 1 \in DOMAIN outbox /\ outbox'[i] = outbox[i + 1]
    BY TailFacts DEF Transmit
  <1>2. published' = Append(published, outbox[1])
    BY <1>1 DEF Transmit
  <1>3. \A i \in DOMAIN outbox : i = 1 \/ (i - 1 \in DOMAIN outbox' /\ outbox'[i - 1] = outbox[i])
    BY <1>1
  <1>4. Rows(outbox) = {outbox[1]} \cup Rows(outbox')
    <2>1. Rows(outbox) \subseteq {outbox[1]} \cup Rows(outbox')
      BY <1>3 DEF Rows
    <2>2. {outbox[1]} \cup Rows(outbox') \subseteq Rows(outbox)
      BY <1>1 DEF Rows
    <2> QED BY <2>1, <2>2
  <1> QED BY <1>1, <1>2, <1>4, AppendFacts

\* Every event the client holds or has sent is one it was given.
LEMMA GivenBefore ==
    ASSUME DInv
    PROVE  /\ \A i \in DOMAIN outbox : outbox[i] \in Rows(accepted)
           /\ \A i \in DOMAIN published : published[i] \in Rows(accepted)
  BY DEF DInv, Accounted, Rows

\* Arrival numbers of events are integers, and the record in hand is later than all.
LEMMA EventNumbers ==
    ASSUME TypeOK, ArrivalOrder, DInv
    PROVE  /\ \A i \in DOMAIN outbox : outbox[i].id \in Int
           /\ \A i \in DOMAIN published : published[i].id \in Int
           /\ cons = "publish" =>
                /\ cur \in Records /\ cur.id \in Int
                /\ \A r \in Rows(accepted) : r.id < cur.id
                /\ \A i \in DOMAIN outbox : outbox[i].id < cur.id
                /\ \A i \in DOMAIN published : published[i].id < cur.id
  <1>1. /\ \A i \in DOMAIN outbox : outbox[i] \in Records
        /\ \A i \in DOMAIN published : published[i] \in Records
    BY DEF DInv, DTypeOK
  <1>2. \A r \in Records : r.id \in Int
    BY QueueAssumption DEF Records
  <1>3. cons = "publish" => \A r \in Rows(accepted) : r.id < cur.id
    BY DEF ArrivalOrder, Rows
  <1> QED BY <1>1, <1>2, <1>3, ItemTypes, GivenBefore

\* An event that the client is given goes to the end of its memory.
LEMMA EntrustKeeps ==
    ASSUME TypeOK, ArrivalOrder, DInv, Entrusts
    PROVE  DInv'
  <1>1. /\ cur \in Records /\ cur.id \in Int
        /\ \A i \in DOMAIN outbox : outbox[i].id < cur.id /\ outbox[i].id \in Int
        /\ \A i \in DOMAIN published : published[i].id < cur.id
    BY EventNumbers DEF Entrusts, Buffers
  <1>2. outbox \in Seq(Records) /\ outbox' = Append(outbox, cur)
    BY DEF DInv, DTypeOK, Entrusts
  <1>3. /\ outbox' \in Seq(Records)
        /\ DOMAIN outbox' = DOMAIN outbox \cup {Len(outbox) + 1}
        /\ \A i \in DOMAIN outbox : i \in 1..Len(outbox) /\ outbox'[i] = outbox[i]
        /\ outbox'[Len(outbox) + 1] = cur
        /\ Rows(outbox') = Rows(outbox) \cup {cur}
        /\ Len(outbox) \in Nat
    BY <1>1, <1>2, AppendFacts
  <1>4. published' = published /\ lost' = lost /\ link' = link
    BY DEF Entrusts
  <1>5. Rows(accepted') = Rows(accepted) \cup {cur}
    BY AcceptedByAppend DEF Entrusts, Buffers
  <1>6. DTypeOK'
    BY <1>3, <1>4 DEF DInv, DTypeOK
  <1>7. Accounted'
    BY <1>3, <1>4, <1>5 DEF DInv, Accounted
  <1>8. OneOrder'
    <2>1. PublishedInArrivalOrder'
      BY <1>4 DEF DInv, OneOrder, PublishedInArrivalOrder
    <2>2. \A i, j \in DOMAIN outbox' : i < j => outbox'[i].id < outbox'[j].id
      BY <1>1, <1>3 DEF DInv, OneOrder
    <2>3. \A i \in DOMAIN published, j \in DOMAIN outbox' : published[i].id < outbox'[j].id
      BY <1>1, <1>3 DEF DInv, OneOrder
    <2> QED BY <1>4, <2>1, <2>2, <2>3 DEF OneOrder
  <1> QED BY <1>6, <1>7, <1>8 DEF DInv

\* The event that is written is the next one, and no other is written with it.
LEMMA TransmitKeeps ==
    ASSUME TypeOK, ArrivalOrder, DInv, Transmit, UNCHANGED vars
    PROVE  DInv'
  <1>1. outbox \in Seq(Records) /\ published \in Seq(Records) /\ lost \subseteq Records
    BY DEF DInv, DTypeOK
  <1>2. UNCHANGED <<link, lost, accepted>>
    BY DEF Transmit, vars
  <1>3. DTypeOK'
    BY <1>1, <1>2, TransmitFacts DEF DInv, DTypeOK
  <1>4. Accounted'
    BY <1>1, <1>2, TransmitFacts DEF DInv, Accounted
  <1>5. /\ \A i \in DOMAIN outbox' : i + 1 \in DOMAIN outbox /\ outbox'[i] = outbox[i + 1] /\ i \in Int /\ i > 0
        /\ 1 \in DOMAIN outbox
        /\ DOMAIN published' = DOMAIN published \cup {Len(published) + 1}
        /\ \A i \in DOMAIN published : published'[i] = published[i] /\ i \in 1..Len(published)
        /\ published'[Len(published) + 1] = outbox[1] /\ Len(published) \in Nat
    <2>1. \A i \in DOMAIN outbox' : i \in Int /\ i > 0
      BY <1>1, TransmitFacts
    <2>2. Len(published) \in Nat /\ \A i \in DOMAIN published : i \in 1..Len(published)
      BY <1>1
    <2> QED BY <1>1, <2>1, <2>2, TransmitFacts
  <1>6. PublishedInArrivalOrder'
    BY <1>5 DEF DInv, OneOrder, PublishedInArrivalOrder
  <1>7. \A i, j \in DOMAIN outbox' : i < j => outbox'[i].id < outbox'[j].id
    BY <1>5 DEF DInv, OneOrder
  <1>8. \A i \in DOMAIN published', j \in DOMAIN outbox' : published'[i].id < outbox'[j].id
    <2>1. \A j \in DOMAIN outbox' : outbox[1].id < outbox'[j].id
      BY <1>5 DEF DInv, OneOrder
    <2> QED BY <1>5, <2>1 DEF DInv, OneOrder
  <1> QED BY <1>3, <1>4, <1>6, <1>7, <1>8 DEF DInv, OneOrder

\* What the client loses is the beginning of its memory.
LEMMA LossKeeps ==
    ASSUME DInv, NEW n \in 0..Len(outbox), Loses(n), link' \in LinkStates
    PROVE  DInv'
  <1>1. outbox \in Seq(Records) /\ Lost(n) /\ UNCHANGED <<accepted, published>>
    BY DEF DInv, DTypeOK, Loses, Lost
  <1>2. lost' = lost \cup {outbox[i] : i \in 1..n}
    BY <1>1 DEF Lost
  <1>3. DTypeOK'
    BY <1>1, <1>2, KeptFacts DEF DInv, DTypeOK
  <1>4. Accounted'
    BY <1>1, <1>2, KeptFacts DEF DInv, Accounted
  <1>5. \A i \in DOMAIN outbox' :
            i + n \in DOMAIN outbox /\ outbox'[i] = outbox[i + n] /\ i \in Int /\ n \in Int
    <2>1. \A i \in DOMAIN outbox' : i \in Int
      BY <1>1, KeptFacts
    <2> QED BY <1>1, <2>1, KeptFacts
  <1>6. \A i, j \in DOMAIN outbox' : i < j => outbox'[i].id < outbox'[j].id
    BY <1>5 DEF DInv, OneOrder
  <1>7. \A i \in DOMAIN published, j \in DOMAIN outbox' : published[i].id < outbox'[j].id
    BY <1>5 DEF DInv, OneOrder
  <1> QED BY <1>1, <1>3, <1>4, <1>6, <1>7 DEF DInv, OneOrder, PublishedInArrivalOrder

\* The connection is in one of its states.
LEMMA LinkTyped == link \in LinkStates /\ [DNext]_dvars => link' \in LinkStates
  BY DEF DNext, ProcessStep, Entrusted, RestartClient, ClientStep, Transmit, Break,
         Reconnect, GiveUp, Close, LinkStates, dvars, clientVars

\* Every step keeps the account of the events and their order.
LEMMA DeliveryNext == TypeOK /\ ArrivalOrder /\ DInv /\ [DNext]_dvars => DInv'
  <1> SUFFICES ASSUME TypeOK, ArrivalOrder, DInv, [DNext]_dvars PROVE DInv'
    OBVIOUS
  <1>1. outbox \in Seq(Records) /\ link' \in LinkStates
    BY LinkTyped DEF DInv, DTypeOK
  <1>2. CASE UNCHANGED <<accepted, outbox, published, lost>>
    BY <1>1, <1>2 DEF DInv, DTypeOK, Accounted, OneOrder, PublishedInArrivalOrder
  <1> QED BY <1>1, <1>2, EventSteps, EntrustKeeps, TransmitKeeps, LossKeeps

\* The pipeline and its client, strengthened.
LEMMA DeliveryStrengthened == DSpec => [](IInv /\ DInv)
  <1>1. DInit => DInv
    BY DEF DInit, Init, DInv, DTypeOK, Accounted, OneOrder, PublishedInArrivalOrder, Rows,
           LinkStates
  <1>2. IInv /\ DInv /\ [DNext]_dvars => DInv'
    BY DeliveryNext DEF IInv
  <1> QED BY <1>1, <1>2, Strengthened, DeliveryIsPipeline, PTL DEF DSpec

\* What the server receives is in the order of arrival, and nothing twice, whatever the
\* faults, the reconnections and the restarts.
THEOREM PublishedInOrder == DSpec => []PublishedInArrivalOrder
  <1>1. DInv => PublishedInArrivalOrder
    BY DEF DInv, OneOrder
  <1> QED BY <1>1, DeliveryStrengthened, PTL

\* The events of the rows are events that the client was given.
LEMMA StoredWereAccepted ==
    ASSUME TypeOK, RowsWereAccepted
    PROVE  StoredEvents \subseteq Rows(accepted)
  <1>1. dbTicks \subseteq Rows(accepted)
    BY DEF RowsWereAccepted, AcceptedOf
  <1>2. ASSUME NEW r \in Records, r.kind = "candle", dbCandles[r.source] = r.id
        PROVE  r \in Rows(accepted)
    <2>1. r.source \in Sources /\ dbCandles[r.source] # 0
      BY <1>2, QueueAssumption DEF Records
    <2>2. PICK q \in AcceptedOf("candle") : q.source = r.source /\ q.id = dbCandles[r.source]
      BY <2>1 DEF RowsWereAccepted
    <2>3. \A i \in DOMAIN accepted : accepted[i] \in Records
      BY ItemTypes
    <2>4. q \in Records /\ q.kind = "candle" /\ q \in Rows(accepted)
      BY <2>2, <2>3 DEF AcceptedOf, Rows
    <2>5. q = r
      BY <1>2, <2>2, <2>4 DEF Records
    <2> QED BY <2>4, <2>5
  <1> QED BY <1>1, <1>2 DEF StoredEvents

\* An event leaves the memory of the client for the server, or is lost for a reason.
LEMMA LeavesMemory ==
    ASSUME DInv, [DNext]_dvars, NEW r \in Rows(outbox)
    PROVE  \/ Sent(r)' \/ Waiting(r)' \/ Restart
           \/ link' # link /\ link' \in {"lost", "closed"}
  <1>1. outbox \in Seq(Records) /\ published \in Seq(Records)
    BY DEF DInv, DTypeOK
  <1>2. CASE outbox' = outbox
    BY <1>2 DEF Waiting
  <1>3. CASE Entrusts
    <2>1. cur \in {outbox'[Len(outbox) + 1]} /\ \A i \in DOMAIN outbox :
              i \in DOMAIN outbox' /\ outbox'[i] = outbox[i]
      BY <1>1, <1>3 DEF Entrusts
    <2> QED BY <2>1 DEF Waiting, Rows
  <1>4. CASE Transmit
    BY <1>1, <1>4, TransmitFacts DEF Sent, Waiting
  <1>5. CASE \E n \in 0..Len(outbox) : Loses(n)
    BY <1>5 DEF Loses
  <1> QED BY <1>1, <1>2, <1>3, <1>4, <1>5, EventSteps

\* A row in the tables has its event on the stream, or in the memory of the client, or
\* among those that were lost when the client ceased to be connected, gave up or went
\* down with the process.
THEOREM PersistedAfterPublished == DSpec => PersistedWerePublished
  <1> DEFINE Known == StoredEvents \subseteq Rows(accepted)
  <1>0. IInv => Known
    BY StoredWereAccepted DEF IInv
  <1>1. ASSUME Known', DInv, DInv', [DNext]_dvars
        PROVE  /\ \A r \in StoredEvents' : (Sent(r) \/ Waiting(r))' \/ r \in lost'
               /\ \A r \in Rows(outbox) :
                     \/ Sent(r)' \/ Waiting(r)' \/ Restart
                     \/ link' # link /\ link' \in {"lost", "closed"}
    <2>1. Rows(accepted)' = Rows(published)' \cup Rows(outbox)' \cup lost'
      BY <1>1 DEF DInv, Accounted
    <2> QED BY <1>1, <2>1, LeavesMemory DEF Sent, Waiting
  <1> HIDE DEF Known
  <1> QED BY <1>0, <1>1, DeliveryStrengthened, PTL DEF DSpec, PersistedWerePublished

(***************************************************************************)
(* The pipeline and its client implement the feed                          *)
(***************************************************************************)

\* What has been accepted, in the words of the feed.
LEMMA AcceptedIsFeedAccepted ==
    ASSUME DInv
    PROVE  /\ Feed!Accepted = Rows(accepted)
           /\ \A kind : Feed!Known(kind) = AcceptedOf(kind)
  <1>1. Feed!Accepted = Rows(accepted)
    BY DEF DInv, Accounted, Rows, Feed!Accepted
  <1> QED BY <1>1 DEF Feed!Known, AcceptedOf

\* The pipeline starts as the feed does.
LEMMA FeedInit == DInit => Feed!Init
  BY DEF DInit, Init, WriterInit, Feed!Init

\* What publish_event takes is a later record.
LEMMA FeedAccepts == IInv /\ DInv /\ Entrusts => Feed!Accept
  <1> SUFFICES ASSUME IInv, DInv, Entrusts PROVE Feed!Accept
    OBVIOUS
  <1>1. cur \in Records /\ \A r \in Rows(accepted) : r.id < cur.id
    BY EventNumbers DEF IInv, Entrusts, Buffers
  <1>2. \A e \in Feed!Accepted : e.id < cur.id
    BY <1>1, AcceptedIsFeedAccepted
  <1> QED BY <1>1, <1>2 DEF Feed!Accept, Feed!tableVars, Entrusts, Buffers

\* A loss of the client is one of the feed, or loses nothing.
LEMMA FeedLoses ==
    ASSUME DInv, NEW n \in 0..Len(outbox), Loses(n)
    PROVE  Feed!Lose \/ UNCHANGED Feed!feedVars
  <1>1. Lost(n) /\ UNCHANGED <<dbTicks, dbCandles>> /\ outbox \in Seq(Records)
    BY DEF Loses, DInv, DTypeOK
  <1>2. CASE n \in 1..Len(outbox)
    BY <1>1, <1>2 DEF Lost, Feed!Lose, Feed!tableVars
  <1>3. CASE n = 0
    <2>1. outbox' = SubSeq(outbox, 1, Len(outbox)) /\ lost' = lost /\ published' = published
      BY <1>1, <1>3 DEF Lost
    <2>2. outbox' = outbox
      BY <1>1, <2>1, SubSeqFull
    <2> QED BY <1>1, <2>1, <2>2 DEF Feed!feedVars, Feed!eventVars, Feed!tableVars
  <1> QED BY <1>2, <1>3

\* A write stores ticks that were accepted, or versions of candles that were, or
\* nothing.
LEMMA FeedStores ==
    ASSUME IInv, DInv, NEW w \in Writers, Writes(w), UNCHANGED <<outbox, published, lost>>
    PROVE  Feed!StoreTicks \/ Feed!StoreCandles \/ UNCHANGED Feed!feedVars
  <1> USE DEF Feed!eventVars, Feed!tableVars
  <1>1. BatchAccepted(job[w]) /\ \A kind : Feed!Known(kind) = AcceptedOf(kind)
    BY AcceptedIsFeedAccepted DEF IInv, RowsWereAccepted
  <1>2. CASE CommitTicks(w)
    <2>1. PICK new : new \subseteq Rows(job[w].ticks) /\ dbTicks' = dbTicks \cup new
      <3>1. dbTicks \subseteq dbTicks' /\ dbTicks' \subseteq dbTicks \cup Rows(job[w].ticks)
        BY <1>2, InsertedRows DEF CommitTicks
      <3> WITNESS dbTicks' \cap Rows(job[w].ticks)
      <3> QED BY <3>1
    <2>2. new \in SUBSET Feed!Known("tick")
      BY <1>1, <2>1 DEF BatchAccepted
    <2> QED BY <1>2, <2>1, <2>2 DEF CommitTicks, Writes, Feed!StoreTicks
  <1>3. CASE CommitCandles(w)
    <2>1. DOMAIN dbCandles' = Sources
      BY <1>3 DEF CommitCandles, UpsertCandles
    <2>2. \A i \in DOMAIN job[w].candles : job[w].candles[i] \in Feed!Known("candle")
      BY <1>1 DEF BatchAccepted, Rows
    <2>3. \A s \in Sources :
             \/ dbCandles'[s] = dbCandles[s]
             \/ \E r \in Feed!Known("candle") : r.source = s /\ dbCandles'[s] = r.id
      BY <1>3, <2>2 DEF CommitCandles, UpsertCandles
    <2> QED BY <1>3, <2>1, <2>3 DEF CommitCandles, Writes, Feed!StoreCandles
  <1>4. CASE UNCHANGED <<dbTicks, dbCandles>>
    BY <1>4 DEF Writes, Feed!feedVars
  <1> QED BY <1>2, <1>3, <1>4 DEF Writes, Write, WriteAborted

\* A step that leaves the events alone stores something or nothing.
LEMMA FeedTables ==
    ASSUME IInv, DInv, [DNext]_dvars, UNCHANGED <<accepted, outbox, published, lost>>
    PROVE  Feed!StoreTicks \/ Feed!StoreCandles \/ UNCHANGED Feed!feedVars
  <1>1. CASE UNCHANGED <<dbTicks, dbCandles>>
    BY <1>1 DEF Feed!feedVars, Feed!eventVars, Feed!tableVars
  <1>2. CASE \E w \in Writers : Writes(w)
    BY <1>2, FeedStores
  <1>3. UNCHANGED <<dbTicks, dbCandles>> \/ \E w \in Writers : Writes(w)
    BY ProcessSteps, StoreSteps DEF StoreKept, writerVars, Buffers, Clears, Takes
  <1> QED BY <1>1, <1>2, <1>3

\* A step of the pipeline or its client is a step of the feed, or leaves it alone.
LEMMA FeedNext == IInv /\ DInv /\ [DNext]_dvars => [Feed!Next]_Feed!feedVars
  <1> SUFFICES ASSUME IInv, DInv, [DNext]_dvars PROVE Feed!Next \/ UNCHANGED Feed!feedVars
    OBVIOUS
  <1>1. outbox \in Seq(Records)
    BY DEF DInv, DTypeOK
  <1>2. CASE UNCHANGED <<accepted, outbox, published, lost>>
    BY <1>2, FeedTables DEF Feed!Next
  <1>3. CASE Entrusts
    BY <1>3, FeedAccepts DEF Feed!Next
  <1>4. CASE Transmit /\ UNCHANGED vars
    BY <1>4 DEF Transmit, vars, writerVars, Feed!Next, Feed!Publish, Feed!tableVars
  <1>5. CASE \E n \in 0..Len(outbox) : Loses(n)
    BY <1>5, FeedLoses DEF Feed!Next
  <1> QED BY <1>1, <1>2, <1>3, <1>4, <1>5, EventSteps

\* The pipeline with its NATS client implements the abstract feed, whatever the sizes
\* and the faults.
THEOREM ImplementsFeed == DSpec => FeedSpec
  BY FeedInit, FeedNext, DeliveryStrengthened, PTL DEF DSpec, FeedSpec, Feed!Spec
=============================================================================
