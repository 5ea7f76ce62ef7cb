---------------------------- MODULE MarketPipeline ----------------------------
(***************************************************************************)
(* market-service: the connector and the fallback provider feed one queue; *)
(* the consumer takes the items, follows the provider's status (it creates *)
(* and cancels the fallback task), publishes every tick and candle and     *)
(* buffers it for the database; the consumer (full batch), the periodic    *)
(* flusher and stop() write the buffer to TimescaleDB.                     *)
(*                                                                         *)
(* publish_event returns when the NATS client has taken the event: it      *)
(* neither flushes nor waits for an acknowledgement.  `accepted` is the    *)
(* history of what the client has taken, over all lives of the process;    *)
(* what becomes of these events is in MarketDelivery.  The two tables, in  *)
(* TimescaleDB, survive the process.                                       *)
(***************************************************************************)
EXTENDS DerivConnector, FallbackProvider, TimescaleWriter, FiniteSets

CONSTANTS BatchSize,         \* MARKET_BATCH_FLUSH_SIZE
          FallbackEnabled,   \* MARKET_FALLBACK_ENABLED
          Faults,            \* what may go wrong: "db", "nats", "malformed"
          MaxRestarts        \* bound: how often the process is started again

ASSUME PipelineAssumption ==
    /\ BatchSize \in Nat \ {0}
    /\ FallbackEnabled \in BOOLEAN
    /\ Faults \subseteq {"db", "nats", "malformed"}
    /\ MaxRestarts \in Nat

VARIABLES cons,        \* where market-consumer is
          cur,         \* the record it is handling, or NoItem
          mode,        \* provider_mode
          processed,   \* processed_ticks and processed_candles
          flush,       \* where market-db-flush is
          accepted,    \* history: what publish_event has taken, in order
          life,        \* where the process is in its lifespan
          restarts     \* how often it was started again

consVars == <<cons, cur, mode, processed>>
lifeVars == <<life, restarts>>
vars == <<queueVars, conn, fb, writerVars, consVars, flush, accepted, lifeVars>>

NoItem == [kind |-> "none", source |-> "deriv", id |-> 0]

\* What /health and /market/status can answer, and where each task can be.
Modes       == {"starting", "primary", "degraded", "fallback"}
ConsStates  == {"none", "get", "publish", "reap", "flush", "ended"}
FlushStates == {"none", "sleep", "write", "dead", "ended"}
LifeStates  == {"starting", "running", "stopping", "draining", "stopped", "failed"}

Init ==
    /\ QueueInit /\ ConnInit /\ FbInit /\ WriterInit
    /\ cons = "none" /\ cur = NoItem
    /\ mode = "starting"
    /\ processed = [k \in RecordKinds |-> 0]
    /\ flush = "none"
    /\ accepted = <<>>
    /\ life = "starting" /\ restarts = 0

-----------------------------------------------------------------------------
(* The consumer.                                                           *)

Dequeue(kinds) ==
    /\ cons = "get"
    /\ CanRun("consumer")
    /\ queue # <<>>
    /\ Head(queue).kind \in kinds
    /\ queue' = Tail(queue)
    /\ UNCHANGED nextId

\* Mutants: the fallback task is left alone, or awaited without a cancel.
KeepFallback == HoldForGet /\ UNCHANGED <<cons, cancel>>

AwaitFallback ==
    \/ fb = "none" /\ HoldForGet /\ UNCHANGED <<cons, cancel>>
    \/ fb # "none" /\ Suspend /\ cons' = "reap" /\ UNCHANGED cancel

\* The fallback task, if any, is cancelled, and the consumer waits in gather
\* until it has ended.
CancelFallback ==
    \/ fb = "none" /\ HoldForGet /\ UNCHANGED <<cons, cancel>>
    \/ fb # "none" /\ Suspend /\ cons' = "reap" /\ cancel' = cancel \cup {"fallback"}

\* "connected": primary again, without the fallback task.
HandleConnected ==
    /\ Dequeue({"connected"})
    /\ mode' = "primary"
    /\ CancelFallback
    /\ UNCHANGED <<conn, fb, writerVars, cur, processed, flush, accepted, lifeVars>>

\* Mutant: _fallback_task goes on referring to the finished task.
KeepReference == fb' = "ended"

\* _fallback_task = None.
DropReference == fb' = "none"

\* gather has returned: the cancelled fallback task has ended.
Reap ==
    /\ cons = "reap"
    /\ CanRun("consumer")
    /\ UNCHANGED <<queue, nextId>>
    /\ fb = "ended"
    /\ DropReference
    /\ cons' = "get"
    /\ HoldForGet
    /\ UNCHANGED <<cancel, conn, writerVars, cur, mode, processed,
                   flush, accepted, lifeVars>>

\* "error" or "disconnected": degraded, and the fallback task is created
\* unless there is one.
HandleDown ==
    /\ Dequeue({"error", "disconnected"})
    /\ mode' = "degraded"
    /\ fb' = IF FallbackEnabled /\ fb = "none" THEN "announce" ELSE fb
    /\ HoldForGet
    /\ UNCHANGED <<cancel, conn, writerVars, cons, cur, processed, flush,
                   accepted, lifeVars>>

HandleFallback ==
    /\ Dequeue({"fallback"})
    /\ mode' = "fallback"
    /\ HoldForGet
    /\ UNCHANGED <<cancel, conn, fb, writerVars, cons, cur, processed, flush,
                   accepted, lifeVars>>

\* Normalization raises on a payload of Deriv: the record is skipped.
HandleMalformed ==
    /\ "malformed" \in Faults
    /\ Dequeue(RecordKinds)
    /\ Head(queue).source = "deriv"
    /\ HoldForGet
    /\ UNCHANGED <<cancel, conn, fb, writerVars, consVars, flush, accepted, lifeVars>>

\* A normalized record goes to publish_event, which may suspend or not.
HandleRecord ==
    /\ Dequeue(RecordKinds)
    /\ cur' = Head(queue)
    /\ cons' = "publish"
    /\ loop' \in {"idle", "consumer"}
    /\ UNCHANGED <<cancel, conn, fb, writerVars, mode, processed, flush,
                   accepted, lifeVars>>

\* Mutant: every record counts as a tick.
CountedAsTick ==
    /\ processed' = [processed EXCEPT !["tick"] = @ + 1]
    /\ cons' = "get"
    /\ cur' = NoItem
    /\ HoldForGet

\* The record is done with: counted, and on to the next item.
Counted ==
    /\ processed' = [processed EXCEPT ![cur.kind] = @ + 1]
    /\ cons' = "get"
    /\ cur' = NoItem
    /\ HoldForGet

\* An exception of publish_event or of a write: logged, not counted.
Skipped ==
    /\ cons' = "get"
    /\ cur' = NoItem
    /\ HoldForGet
    /\ UNCHANGED processed

BatchFull(batch) == Len(batch.ticks) >= BatchSize \/ Len(batch.candles) >= BatchSize

\* publish_event returns: the client has the event.  The row is buffered, and a
\* full buffer is flushed.
PublishOk ==
    /\ cons = "publish"
    /\ CanRun("consumer")
    /\ UNCHANGED <<queue, nextId>>
    /\ accepted' = Append(accepted, cur)
    /\ LET batch == WithRow(buffer, cur) IN
         \/ /\ BatchFull(batch)
            /\ TakeBatch("consumer", batch)
            /\ cons' = "flush"
            /\ Suspend
            /\ UNCHANGED <<cur, processed>>
         \/ /\ ~BatchFull(batch)
            /\ buffer' = batch
            /\ Counted
            /\ UNCHANGED job
    /\ UNCHANGED <<cancel, conn, fb, dbTicks, dbCandles, mode, flush, lifeVars>>

\* Mutants: the row is buffered although its event was refused; the record goes
\* back to the queue; an event that was taken is published again.
PublishFailsBuffered ==
    /\ "nats" \in Faults
    /\ cons = "publish"
    /\ CanRun("consumer")
    /\ UNCHANGED <<queue, nextId>>
    /\ Skipped
    /\ buffer' = WithRow(buffer, cur)
    /\ UNCHANGED <<cancel, conn, fb, job, dbTicks, dbCandles, mode, flush, accepted, lifeVars>>

PublishFailsRequeued ==
    /\ "nats" \in Faults
    /\ cons = "publish"
    /\ CanRun("consumer")
    /\ ~Full
    /\ queue' = Append(queue, cur)
    /\ Skipped
    /\ UNCHANGED <<nextId, cancel, conn, fb, writerVars, mode, flush, accepted, lifeVars>>

PublishFailsRetried ==
    /\ "nats" \in Faults
    /\ cons = "publish"
    /\ CanRun("consumer")
    /\ accepted' = Append(accepted, cur)
    /\ Suspend
    /\ UNCHANGED <<queue, nextId, cancel, conn, fb, writerVars, consVars, flush, lifeVars>>

PublishFails ==
    /\ "nats" \in Faults
    /\ cons = "publish"
    /\ CanRun("consumer")
    /\ UNCHANGED <<queue, nextId>>
    /\ Skipped
    /\ UNCHANGED <<cancel, conn, fb, writerVars, mode, flush,
                   accepted, lifeVars>>

\* The consumer's flush: one table, then the other, then the next item.
ConsumerWrites ==
    /\ cons = "flush"
    /\ CanRun("consumer")
    /\ UNCHANGED <<queue, nextId>>
    /\ Write("consumer")
    /\ \/ HasData(job'["consumer"]) /\ Suspend /\ UNCHANGED <<cons, cur, processed>>
       \/ ~HasData(job'["consumer"]) /\ Counted
    /\ UNCHANGED <<cancel, conn, fb, mode, flush, accepted, lifeVars>>

ConsumerWriteFails ==
    /\ "db" \in Faults
    /\ cons = "flush"
    /\ CanRun("consumer")
    /\ UNCHANGED <<queue, nextId>>
    /\ WriteAborted("consumer")
    /\ Skipped
    /\ UNCHANGED <<cancel, conn, fb, mode, flush, accepted, lifeVars>>

\* CancelledError in the consumer: in get, in publish_event (the client may have
\* taken the event), in a write, or in gather, which still waits for the fallback
\* task.
ConsumerCancelled ==
    /\ Interrupt("consumer")
    /\ cons' = "ended"
    /\ cur' = NoItem
    /\ \/ cons = "get" /\ UNCHANGED <<writerVars, accepted>>
       \/ /\ cons = "publish"
          /\ accepted' \in {accepted, Append(accepted, cur)}
          /\ UNCHANGED writerVars
       \/ cons = "flush" /\ WriteAborted("consumer") /\ UNCHANGED accepted
       \/ cons = "reap" /\ fb = "ended" /\ UNCHANGED <<writerVars, accepted>>
    /\ UNCHANGED <<conn, fb, mode, processed, flush, lifeVars>>

-----------------------------------------------------------------------------
(* periodic_flush.                                                         *)

\* Mutant: only a full batch is flushed.
FlusherWakesIfFull ==
    /\ flush = "sleep"
    /\ CanRun("flusher")
    /\ BatchFull(buffer)
    /\ TakeBatch("flusher", buffer)
    /\ flush' = "write"
    /\ UNCHANGED <<queueVars, conn, fb, dbTicks, dbCandles, consVars, accepted, lifeVars>>

\* The sleep is over; an empty buffer sends it back to sleep.
FlusherWakes ==
    /\ flush = "sleep"
    /\ CanRun("flusher")
    /\ HasData(buffer)
    /\ TakeBatch("flusher", buffer)
    /\ flush' = "write"
    /\ UNCHANGED <<queueVars, conn, fb, dbTicks, dbCandles, consVars, accepted, lifeVars>>

\* Mutant: the buffer is cleared when the batch has been written.
FlusherWritesThenClears ==
    /\ flush = "write"
    /\ CanRun("flusher")
    /\ \/ CommitTicks("flusher")   /\ job' = [job EXCEPT !["flusher"].ticks = <<>>]
       \/ CommitCandles("flusher") /\ job' = [job EXCEPT !["flusher"].candles = <<>>]
    /\ flush' = IF HasData(job'["flusher"]) THEN "write" ELSE "sleep"
    /\ buffer' = IF HasData(job'["flusher"]) THEN buffer ELSE EmptyBatch
    /\ UNCHANGED <<queueVars, conn, fb, consVars, accepted, lifeVars>>

FlusherWrites ==
    /\ flush = "write"
    /\ CanRun("flusher")
    /\ Write("flusher")
    /\ flush' = IF HasData(job'["flusher"]) THEN "write" ELSE "sleep"
    /\ UNCHANGED <<queueVars, conn, fb, consVars, accepted, lifeVars>>

\* Nothing catches the exception: the task is finished.
FlusherWriteFails ==
    /\ "db" \in Faults
    /\ flush = "write"
    /\ CanRun("flusher")
    /\ WriteAborted("flusher")
    /\ flush' = "dead"
    /\ UNCHANGED <<queueVars, conn, fb, consVars, accepted, lifeVars>>

FlusherCancelled ==
    /\ Interrupt("flusher")
    /\ flush' = "ended"
    /\ \/ flush = "sleep" /\ UNCHANGED writerVars
       \/ flush = "write" /\ WriteAborted("flusher")
    /\ UNCHANGED <<conn, fb, consVars, accepted, lifeVars>>

-----------------------------------------------------------------------------
(* start, stop, and the process.                                           *)

\* The pool is open: the tasks are created.
StartOk ==
    /\ life = "starting"
    /\ life' = "running"
    /\ conn' = "connecting" /\ cons' = "get" /\ flush' = "sleep"
    /\ cur' = NoItem
    /\ UNCHANGED <<queueVars, fb, writerVars, mode, processed, accepted, restarts>>

StartFails ==
    /\ "db" \in Faults
    /\ life = "starting"
    /\ life' = "failed"
    /\ UNCHANGED <<queueVars, conn, fb, writerVars, consVars, flush, accepted, restarts>>

\* Mutant: the flusher is forgotten.
AliveButFlusher == {t \in {"primary", "fallback", "consumer"} :
            CASE t = "primary"  -> conn \notin {"none", "ended"}
              [] t = "fallback" -> FbAlive
              [] t = "consumer" -> cons \notin {"none", "ended"}}

\* The tasks that have not finished.
Alive == {t \in Tasks :
            CASE t = "primary"  -> conn \notin {"none", "ended"}
              [] t = "fallback" -> FbAlive
              [] t = "consumer" -> cons \notin {"none", "ended"}
              [] t = "flusher"  -> flush \in {"sleep", "write"}}

\* stop: the event is set and every task is cancelled, without a suspension.
Stop ==
    /\ life = "running"
    /\ loop = "idle"
    /\ life' = "stopping"
    /\ cancel' = Alive
    /\ UNCHANGED <<queue, nextId, loop, conn, fb, writerVars, consVars, flush,
                   accepted, restarts>>

\* gather returns when all of them have finished: what is left is flushed.
StopGathered ==
    /\ life = "stopping"
    /\ Alive = {}
    /\ \/ HasData(buffer) /\ TakeBatch("main", buffer) /\ life' = "draining"
       \/ ~HasData(buffer) /\ life' = "stopped" /\ UNCHANGED <<buffer, job>>
    /\ UNCHANGED <<queueVars, conn, fb, dbTicks, dbCandles, consVars, flush,
                   accepted, restarts>>

\* _flush_remaining, then the pool is closed, whether it went well or not.
DrainWrites ==
    /\ life = "draining"
    /\ Write("main")
    /\ life' = IF HasData(job'["main"]) THEN "draining" ELSE "stopped"
    /\ UNCHANGED <<queueVars, conn, fb, consVars, flush, accepted, restarts>>

DrainFails ==
    /\ "db" \in Faults
    /\ life = "draining"
    /\ WriteAborted("main")
    /\ life' = "stopped"
    /\ UNCHANGED <<queueVars, conn, fb, consVars, flush, accepted, restarts>>

\* The process is started again, after a stop, a failed start or a crash at
\* any moment.  A transaction that committed before the crash is the same as
\* one whose writer went on and crashed then.
Restart ==
    /\ restarts < MaxRestarts
    /\ life # "starting"
    /\ restarts' = restarts + 1
    /\ life' = "starting"
    /\ queue' = <<>> /\ loop' = "idle" /\ cancel' = {}
    /\ conn' = "none" /\ fb' = "none" /\ cons' = "none" /\ flush' = "none"
    /\ buffer' = EmptyBatch
    /\ job' = [w \in Writers |-> EmptyBatch]
    /\ cur' = NoItem /\ mode' = "starting"
    /\ processed' = [k \in RecordKinds |-> 0]
    /\ UNCHANGED <<nextId, dbTicks, dbCandles, accepted>>

-----------------------------------------------------------------------------
\* A created fallback task waits for its turn, or the consumer for its own: the
\* turn comes before a delay can end.
Ready == (fb = "announce" /\ ~Full) \/ (cons = "get" /\ queue # <<>>)

ConnectorStep ==
    /\ ConnectorNext
    /\ conn = "delay" /\ conn' = "connecting" => ~Ready
    /\ UNCHANGED <<fb, writerVars, consVars, flush, accepted, lifeVars>>

FallbackStep ==
    /\ FbNext
    /\ UNCHANGED <<conn, writerVars, consVars, flush, accepted, lifeVars>>

ConsumerStep ==
    \/ HandleConnected \/ Reap \/ HandleDown \/ HandleFallback
    \/ HandleMalformed \/ HandleRecord
    \/ PublishOk \/ PublishFails \/ ConsumerWrites \/ ConsumerWriteFails
    \/ ConsumerCancelled

FlusherStep == FlusherWakes \/ FlusherWrites \/ FlusherWriteFails \/ FlusherCancelled

MainStep == StartOk \/ StartFails \/ StopGathered \/ DrainWrites \/ DrainFails

\* The process is gone and nobody starts it again.
Terminated == life \in {"stopped", "failed"} /\ UNCHANGED vars

\* One life of the process, and all of them.
LifeNext == ConnectorStep \/ FallbackStep \/ ConsumerStep \/ FlusherStep \/ MainStep
            \/ Stop \/ Terminated
Next == LifeNext \/ Restart

LifeSpec == Init /\ [][LifeNext]_vars
Spec == Init /\ [][Next]_vars

\* The event loop resumes a ready task before long (its ready queue is a FIFO,
\* and so are the waiters of the queue), and every await on NATS, on the
\* database or on a timer ends.  Nothing obliges Deriv to answer, to send or to
\* fail, nor the operator to stop the service.
Fairness ==
    /\ SF_vars(ConnectorStep /\ (ConnectorReports \/ ConnectorCancelled))
    /\ SF_vars(FallbackStep)
    /\ SF_vars(ConsumerStep)
    /\ SF_vars(FlusherStep)
    /\ WF_vars(MainStep)

\* A process that does not crash.
FairSpec == LifeSpec /\ Fairness

-----------------------------------------------------------------------------
(* What every step keeps.                                                  *)

\* The type invariant.
TypeOK ==
    /\ queue \in Seq(Records \cup Statuses) /\ Len(queue) <= QueueSize
    /\ nextId \in 1..MaxRecords + 1
    /\ loop \in Tasks \cup {"idle"}
    /\ cancel \subseteq Tasks
    /\ conn \in ConnStates
    /\ fb \in FbStates
    /\ buffer \in Batches
    /\ job \in [Writers -> Batches]
    /\ dbTicks \subseteq Records
    /\ dbCandles \in [Sources -> 0..MaxRecords]
    /\ cons \in ConsStates
    /\ cur \in IF cons \in {"publish", "flush"} THEN Records ELSE {NoItem}
    /\ mode \in Modes
    /\ processed \in [RecordKinds -> Nat]
    /\ flush \in FlushStates
    /\ accepted \in Seq(Records)
    /\ life \in LifeStates
    /\ restarts \in 0..MaxRestarts

\* Whatever the database holds, the NATS client was given before: a row never gets
\* ahead of publish_event (_handle_event publishes, then buffers).
PersistedWereAccepted ==
    /\ dbTicks \subseteq Rows(accepted)
    /\ \A s \in Sources : dbCandles[s] # 0 =>
          \E r \in Rows(accepted) : r.kind = "candle" /\ r.source = s /\ r.id = dbCandles[s]

\* The client is given the events in the order in which the queue admitted their
\* records, through failures of NATS, switches of the provider and restarts.
AcceptedInArrivalOrder ==
    \A i, j \in DOMAIN accepted : i < j => accepted[i].id < accepted[j].id

\* A row is in one place at most: in the buffer or in one flush under way,
\* although two coroutines copy and clear the same buffer.
RowsOf(batch) == Rows(batch.ticks) \cup Rows(batch.candles)

FlushesAreDisjoint ==
    /\ \A w \in Writers : RowsOf(buffer) \cap RowsOf(job[w]) = {}
    /\ \A v, w \in Writers : v # w => RowsOf(job[v]) \cap RowsOf(job[w]) = {}

\* Synthetic data stops with the return of Deriv: in mode "primary" there is no
\* fallback task, or the consumer is waiting for its end.
FallbackQuietInPrimary ==
    mode = "primary" => fb = "none" \/ cons = "reap" \/ life \in {"stopping", "draining", "stopped"}

\* Mode "degraded" is never the last word: a fallback task that nobody has
\* cancelled is there to take over.
DegradedHasFallback ==
    FallbackEnabled /\ life = "running" /\ mode = "degraded"
        => FbAlive /\ "fallback" \notin cancel

\* No flush outlives the pool: stop() closes it when every task has finished.
PoolOpenWhileWriting ==
    /\ \A w \in Writers : HasData(job[w]) => life \in {"running", "stopping", "draining"}
    /\ life \in {"draining", "stopped"} => Alive = {} /\ cancel = {}

\* What a task waits for, besides timers, Deriv, NATS and the database: that the one
\* who holds the event loop gives it up, room that the consumer makes, the end of
\* the fallback task.  A cancelled task waits for the event loop alone.
AwaitsRoom(t) ==
    /\ Full /\ t \notin cancel
    /\ \/ t = "primary" /\ conn \in {"connecting", "opening", "reading", "reportError", "reportDown"}
       \/ t = "fallback" /\ FbAlive

WaitsFor(t) ==
    ({loop} \ {"idle", t})
        \cup {c \in {"consumer"} : AwaitsRoom(t)}
        \cup {f \in {"fallback"} : t = "consumer" /\ cons = "reap" /\ fb # "ended"}

\* Producers wait for the consumer, the consumer for the fallback task, everybody
\* for the event loop, and never in a circle: among any tasks there is one that
\* waits for none of them.  Nobody waits for a task that has finished; who holds the
\* event loop has something to do; and stop() waits for no task that it has not cancelled.
NobodyWaitsInACircle ==
    /\ \A t \in Alive : WaitsFor(t) \subseteq Alive
    /\ \A S \in SUBSET Alive : S # {} => \E t \in S : WaitsFor(t) \cap S = {}
    /\ loop = "consumer" => cons = "publish" \/ (cons = "get" /\ queue # <<>>)
    /\ loop \notin cancel
    /\ life = "stopping" => Alive = cancel

\* What is left to do for stop(): the tasks that have not finished, the look at the
\* buffer, the two writes of what is in it.
StepsToStop ==
    CASE life = "stopping" -> 3 + Cardinality(Alive)
      [] life = "draining" -> Cardinality({k \in {"ticks", "candles"} : job["main"][k] # <<>>})
      [] OTHER -> 0

\* Once stop() has been called, every step of the process brings its end nearer: no
\* cancelled task does anything but finish, and none starts another.
StopAdvances ==
    [][(life \in {"stopping", "draining"}) => Restart \/ StepsToStop' < StepsToStop]_vars

-----------------------------------------------------------------------------
(* The inductive strengthening that the proofs use.                        *)

IsRecord(item) == item.kind \in RecordKinds

\* The order of arrival, along the way of a record: the queue, the consumer's
\* hands, the stream of events.
ArrivalOrder ==
    /\ AcceptedInArrivalOrder
    /\ \A j \in DOMAIN accepted : accepted[j].id < nextId
    /\ \A i \in DOMAIN queue : IsRecord(queue[i]) =>
          /\ queue[i].id < nextId
          /\ \A j \in DOMAIN accepted : accepted[j].id < queue[i].id
    /\ \A h, i \in DOMAIN queue :
          h < i /\ IsRecord(queue[h]) /\ IsRecord(queue[i]) => queue[h].id < queue[i].id
    /\ cons = "publish" =>
          /\ cur.id < nextId
          /\ \A j \in DOMAIN accepted : accepted[j].id < cur.id
          /\ \A i \in DOMAIN queue : IsRecord(queue[i]) => cur.id < queue[i].id

\* What is buffered, being written or stored has been accepted.
AcceptedOf(kind) == {r \in Rows(accepted) : r.kind = kind}
BatchAccepted(batch) ==
    Rows(batch.ticks) \subseteq AcceptedOf("tick") /\ Rows(batch.candles) \subseteq AcceptedOf("candle")

RowsWereAccepted ==
    /\ BatchAccepted(buffer)
    /\ \A w \in Writers : BatchAccepted(job[w])
    /\ dbTicks \subseteq AcceptedOf("tick")
    /\ \A s \in Sources : dbCandles[s] # 0 =>
          \E r \in AcceptedOf("candle") : r.source = s /\ r.id = dbCandles[s]

IInv == TypeOK /\ ArrivalOrder /\ RowsWereAccepted

\* Who runs, and who has been cancelled, in each phase of the process.
Unborn == conn = "none" /\ fb = "none" /\ cons = "none" /\ flush = "none"

LifePhases ==
    /\ life \in {"starting", "failed"} => Unborn /\ cancel = {} /\ mode = "starting"
    /\ life = "running" =>
          /\ conn \notin {"none", "ended"} /\ cons \notin {"none", "ended"}
          /\ flush \notin {"none", "ended"}
          /\ cancel \subseteq {"fallback"}
          /\ cancel # {} => FbAlive /\ cons = "reap"
          /\ fb = "ended" => cons = "reap"
    /\ life = "stopping" => Alive = cancel
    /\ life \in {"draining", "stopped"} => Alive = {} /\ cancel = {}

\* A batch under way belongs to a coroutine that is writing.
BatchesInUse ==
    /\ HasData(job["consumer"]) => cons = "flush"
    /\ HasData(job["flusher"]) => flush = "write"
    /\ HasData(job["main"]) => life = "draining"

\* Who holds the event loop has more to do, and the consumer waits for a fallback
\* task that it has cancelled.
LoopInUse ==
    /\ loop = "primary" => conn = "reportDown" /\ ~Full
    /\ loop = "fallback" => fb \in {"tick", "candle"} /\ ~Full
    /\ loop = "consumer" => cons = "publish" \/ (cons = "get" /\ queue # <<>>)
    /\ loop \notin cancel \cup {"flusher"}
    /\ cons = "reap" => fb = "ended" \/ "fallback" \in cancel

ControlInv ==
    LifePhases /\ BatchesInUse /\ FallbackQuietInPrimary /\ DegradedHasFallback

-----------------------------------------------------------------------------
(* What becomes of the accepted rows, the counters and the candles.        *)

OnTheWay == {item \in Rows(queue) : IsRecord(item)} \cup {r \in {cur} : cons = "publish"}
InMemory(r) == r \in RowsOf(buffer) \/ \E w \in Writers : r \in RowsOf(job[w])
Stored(r) ==
    \/ r.kind = "tick" /\ \E row \in dbTicks : TickKey(row) = TickKey(r)
    \/ r.kind = "candle" /\ dbCandles[r.source] # 0

\* A batch goes down with its writer: a write fails, the writer is cancelled in
\* the middle of it, or the process ends.
LosesBatch(w) ==
    \/ w = "consumer" /\ (ConsumerWriteFails \/ ConsumerCancelled)
    \/ w = "flusher"  /\ (FlusherWriteFails \/ FlusherCancelled)
    \/ w = "main"     /\ DrainFails

\* From its arrival to the tables a record is always somewhere.  It leaves the queue
\* and the consumer's hands when it is accepted, or because normalization or NATS
\* refuses that very record, or the consumer is cancelled with it.  As soon as it is
\* accepted (but for that cancellation) its row is in memory, and it stays there until it
\* is stored (of a tick: a row with its key; of a candle: any version), unless the batch it
\* is in is lost: the two coroutines that empty one buffer forget nothing between them.
LostOnlyByFailure ==
    [][/\ \A r \in OnTheWay \ OnTheWay' :
            \/ r \in Rows(accepted') \/ Restart
            \/ HandleMalformed /\ r = Head(queue)
            \/ (PublishFails \/ ConsumerCancelled) /\ r = cur
       /\ \A r \in Rows(accepted') \ Rows(accepted) : InMemory(r)' \/ ConsumerCancelled
       /\ \A r \in Rows(accepted) :
            InMemory(r) /\ ~(InMemory(r) \/ Stored(r))' =>
                Restart \/ \E w \in Writers : r \in RowsOf(job[w]) /\ LosesBatch(w)]_vars

\* As long as normalization and NATS refuse nothing and the process is the first one, no
\* arrival number is missing: what has entered the queue waits there, is in the consumer's
\* hands or has been accepted.
NothingIsForgotten ==
    life = "running" /\ restarts = 0 /\ Faults \subseteq {"db"} =>
        \A n \in 1..nextId - 1 : \E r \in OnTheWay \cup Rows(accepted) : r.id = n

\* The counters of /market/status never run ahead of the stream, and they are the
\* accepted records, but for the one whose flush the consumer still waits for, as long
\* as the process has not been started again and no write of the consumer can fail.
CountersAreExact ==
    life = "running" => \A k \in RecordKinds :
        LET handled == Cardinality({i \in DOMAIN accepted : accepted[i].kind = k})
                           - (IF cons = "flush" /\ cur.kind = k THEN 1 ELSE 0)
        IN /\ processed[k] <= handled
           /\ restarts = 0 /\ "db" \notin Faults => processed[k] = handled

\* What waits for the database is bounded, however slow it is and whatever fails: less
\* than a batch in the buffer, and a batch at most in the hands of each writer.
BufferIsBounded ==
    /\ ~BatchFull(buffer)
    /\ \A w \in Writers : Len(job[w].ticks) <= BatchSize /\ Len(job[w].candles) <= BatchSize

\* Two coroutines write candles, and an older version can be committed after a newer
\* one.  It is always the periodic flusher that does so, with a batch it took before
\* the consumer's: neither the consumer nor stop() ever brings an older version back.
OnlyFlusherRegresses ==
    [][(\E s \in Sources : dbCandles'[s] < dbCandles[s])
          => FlusherWrites \/ FlusherWriteFails \/ FlusherCancelled]_vars

-----------------------------------------------------------------------------
(* What eventually happens.                                                *)

\* stop() returns: every task takes its cancellation, wherever it waits, and
\* the consumer that waits for the fallback task does not wait for ever.
StopCompletes == life = "stopping" ~> life = "stopped"

\* What has entered the queue is published (publish_event returns for it), unless the
\* service is stopped.
EveryRecordPublished ==
    \A n \in 1..MaxRecords :
        (life = "running" /\ nextId > n)
            ~> (life # "running" \/ \E r \in Rows(accepted) : r.id = n)

\* A row does not stay in memory for ever, however little data follows it.
BufferIsFlushed ==
    (life = "running" /\ HasData(buffer)) ~> (life # "running" \/ ~HasData(buffer))

\* A failed session is followed by another attempt, although the connector first
\* needs room in the queue for three statuses, and so a consumer that goes on.
AlwaysReconnects ==
    (life = "running" /\ conn \in {"reportError", "reportDown", "delay", "connecting"})
        ~> (life # "running" \/ conn = "opening")

-----------------------------------------------------------------------------
(* What the documentation says and the code does not keep.                 *)

\* docs/market-service.md: falls back to a synthetic provider when Deriv
\* disconnects or errors.  Then, while attempt after attempt fails, the
\* synthetic feed goes on.
OutageIsCovered ==
    <>[](life = "running" /\ conn # "reading") /\ []<>(conn = "delay") => <>[]FbAlive
=============================================================================
