----------------------------- MODULE StreamQueue -----------------------------
(***************************************************************************)
(* The bounded asyncio.Queue through which the two market data providers   *)
(* feed the pipeline of market-service, and the single-threaded event loop *)
(* that its producers and its consumer share.                              *)
(*                                                                         *)
(* A coroutine keeps the event loop until it awaits something that is not  *)
(* ready.  Queue.put suspends only when the queue is full and Queue.get    *)
(* only when it is empty, so a task may do several puts or gets in a row   *)
(* that no other task can interrupt: `loop` names the task that is in such *)
(* a row.  `cancel` is the set of tasks with a CancelledError under way;   *)
(* the error reaches a task where it is suspended, and a cancelled put or  *)
(* get leaves the queue as it was.                                         *)
(***************************************************************************)
EXTENDS Integers, Sequences

CONSTANTS QueueSize,     \* maxsize of the queue (MARKET_STREAM_QUEUE_SIZE)
          MaxRecords     \* bound: how many ticks and candles ever arrive

ASSUME QueueAssumption == QueueSize \in Nat \ {0} /\ MaxRecords \in Nat

VARIABLES queue,         \* the items waiting in the queue
          nextId,        \* arrival number of the next tick or candle
          loop,          \* the task that holds the event loop, or "idle"
          cancel         \* tasks with a CancelledError under way

queueVars == <<queue, nextId, loop, cancel>>

Tasks       == {"primary", "fallback", "consumer", "flusher"}
Sources     == {"deriv", "fallback"}
RecordKinds == {"tick", "candle"}
StatusKinds == {"connected", "error", "disconnected", "fallback"}

\* StreamTick and StreamCandle: the payload is abstracted to the number of
\* its arrival, which tells any two of them apart.
Records == [kind : RecordKinds, source : Sources, id : 1..MaxRecords]

\* ProviderStatus: its `status` is the kind of the item, `provider` its source.
Statuses == [kind : StatusKinds, source : Sources, id : {0}]
Status(provider, status) == [kind |-> status, source |-> provider, id |-> 0]

\* Mutant: one item too many is admitted.
FullOffByOne == Len(queue) > QueueSize

Full == Len(queue) >= QueueSize

QueueInit == queue = <<>> /\ nextId = 1 /\ loop = "idle" /\ cancel = {}

-----------------------------------------------------------------------------
\* Task t may run now: no other task holds the loop, and t itself is not
\* about to be resumed with a CancelledError instead.
CanRun(t) == loop \in {"idle", t} /\ t \notin cancel

\* `await out_queue.put(...)`, which returns once there is room.
PutStatus(provider, status) ==
    /\ ~Full
    /\ queue' = Append(queue, Status(provider, status))
    /\ UNCHANGED nextId

\* Mutant: the newest record overtakes what is waiting.
PutRecordFirst(source, kind) ==
    /\ ~Full
    /\ nextId <= MaxRecords
    /\ queue' = <<[kind |-> kind, source |-> source, id |-> nextId]>> \o queue
    /\ nextId' = nextId + 1

PutRecord(source, kind) ==
    /\ ~Full
    /\ nextId <= MaxRecords
    /\ queue' = Append(queue, [kind |-> kind, source |-> source, id |-> nextId])
    /\ nextId' = nextId + 1

\* t goes on to another put: it keeps the loop unless the queue is full now.
HoldForPut(t) == loop' = IF Len(queue') < QueueSize THEN t ELSE "idle"

\* The same when what t puts next is a record, which the bound may not admit.
HoldForRecord(t) ==
    loop' = IF Len(queue') < QueueSize /\ nextId' <= MaxRecords THEN t ELSE "idle"

\* The consumer goes back to get: it keeps the loop if an item is waiting.
HoldForGet == loop' = IF queue' # <<>> THEN "consumer" ELSE "idle"

\* The caller awaits something outside the queue.
Suspend == loop' = "idle"

\* The CancelledError under way reaches t at the await where it is suspended.
Interrupt(t) ==
    /\ loop = "idle"
    /\ t \in cancel
    /\ cancel' = cancel \ {t}
    /\ UNCHANGED <<queue, nextId, loop>>
=============================================================================
