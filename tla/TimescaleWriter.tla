---------------------------- MODULE TimescaleWriter ----------------------------
(***************************************************************************)
(* The in-memory BatchBuffer, the batches that have been taken out of it   *)
(* and are being written, and the two tables they are written to.          *)
(*                                                                         *)
(* A coroutine that flushes copies the buffer and clears it in one go, then*)
(* awaits one executemany per table.  executemany is one transaction.  A   *)
(* call that ends with an exception or a cancellation may or may not have  *)
(* committed: the answer, not the transaction, is what got lost.           *)
(***************************************************************************)
EXTENDS StreamQueue

CONSTANT TickTime        \* exchange_timestamp (and symbol) of a tick, by its number

ASSUME TickAssumption == TickTime \in [1..MaxRecords -> Nat]

VARIABLES buffer,        \* BatchBuffer
          job,           \* what each coroutine that flushes still has to write
          dbTicks,       \* rows of table ticks
          dbCandles      \* for each source, the version its candle row holds

writerVars == <<buffer, job, dbTicks, dbCandles>>

\* The coroutines that call write_ticks and write_candles: the consumer (batch
\* is full), periodic_flush, and stop (what is left).
Writers == {"consumer", "flusher", "main"}

Batches    == [ticks : Seq(Records), candles : Seq(Records)]
EmptyBatch == [ticks |-> <<>>, candles |-> <<>>]

\* BatchBuffer.has_data; of a job, that it is not finished.
HasData(batch) == batch.ticks # <<>> \/ batch.candles # <<>>

WriterInit ==
    /\ buffer = EmptyBatch
    /\ job = [w \in Writers |-> EmptyBatch]
    /\ dbTicks = {}
    /\ dbCandles = [s \in Sources |-> 0]

Rows(seq) == {seq[i] : i \in DOMAIN seq}

\* BatchBuffer.add_tick and add_candle.
WithRow(batch, row) ==
    IF row.kind = "tick"
    THEN [batch EXCEPT !.ticks = Append(@, row)]
    ELSE [batch EXCEPT !.candles = Append(@, row)]

\* Mutant: the buffer is not cleared.
CopyBatch(w, batch) ==
    /\ job' = [job EXCEPT ![w] = batch]
    /\ buffer' = batch

\* w copies batch, the buffer with all it holds, and clears it.
TakeBatch(w, batch) ==
    /\ job' = [job EXCEPT ![w] = batch]
    /\ buffer' = EmptyBatch

\* The primary key of table ticks.
TickKey(tick) == <<TickTime[tick.id], tick.source>>

\* INSERT ... ON CONFLICT DO NOTHING, row after row: of the rows with one key the
\* first stays, and the later ones are dropped without an error.
InsertTicks(rows) ==
    dbTicks' = dbTicks \cup
        {rows[i] : i \in {i \in DOMAIN rows :
            /\ \A row \in dbTicks : TickKey(row) # TickKey(rows[i])
            /\ \A j \in DOMAIN rows : j < i => TickKey(rows[j]) # TickKey(rows[i])}}

\* INSERT ... ON CONFLICT DO UPDATE, row after row: the last row for a key
\* stays.  All candles of a source have one key here: they are the updates of
\* one candle, the case in which rows overwrite each other.
UpsertCandles(rows) ==
    /\ dbCandles' \in [Sources -> 0..MaxRecords]
    /\ \A s \in Sources :
         \/ /\ \A i \in DOMAIN rows : rows[i].source # s
            /\ dbCandles'[s] = dbCandles[s]
         \/ \E i \in DOMAIN rows :
               /\ rows[i].source = s
               /\ \A j \in DOMAIN rows : j > i => rows[j].source # s
               /\ dbCandles'[s] = rows[i].id

\* The database commits what w is writing: ticks first, then candles.
CommitTicks(w) ==
    /\ job[w].ticks # <<>>
    /\ InsertTicks(job[w].ticks)
    /\ UNCHANGED dbCandles

CommitCandles(w) ==
    /\ job[w].ticks = <<>>
    /\ job[w].candles # <<>>
    /\ UpsertCandles(job[w].candles)
    /\ UNCHANGED dbTicks

\* write_ticks or write_candles returns.
Write(w) ==
    /\ \/ CommitTicks(w)   /\ job' = [job EXCEPT ![w].ticks = <<>>]
       \/ CommitCandles(w) /\ job' = [job EXCEPT ![w].candles = <<>>]
    /\ UNCHANGED buffer

\* The call ends with an exception or is cancelled: w drops its whole batch.
WriteAborted(w) ==
    /\ HasData(job[w])
    /\ CommitTicks(w) \/ CommitCandles(w) \/ UNCHANGED <<dbTicks, dbCandles>>
    /\ job' = [job EXCEPT ![w] = EmptyBatch]
    /\ UNCHANGED buffer
=============================================================================
