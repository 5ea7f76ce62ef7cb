------------------------------ MODULE MarketFeed ------------------------------
(***************************************************************************)
(* What market-service promises, whatever its tasks do.  An event that is  *)
(* accepted waits for its turn; the subscribers are sent the events in the *)
(* order of their arrival and none of them twice; those that wait may be   *)
(* lost, the earlier ones first, and then are gone for good.  The tables   *)
(* hold only rows whose event had been accepted.                           *)
(***************************************************************************)
EXTENDS Integers, Sequences

CONSTANTS Records,       \* ticks and candles, numbered by their arrival
          Sources        \* the providers they come from

VARIABLES waiting,       \* the events accepted and not sent, in order
          published,     \* the events the server has been sent, in order
          lost,          \* the events that were accepted and will never be sent
          dbTicks,       \* the rows of table ticks
          dbCandles      \* for each source, the version its candle row holds

eventVars == <<waiting, published, lost>>
tableVars == <<dbTicks, dbCandles>>
feedVars == <<eventVars, tableVars>>

Init ==
    /\ waiting = <<>> /\ published = <<>> /\ lost = {}
    /\ dbTicks = {}
    /\ dbCandles = [s \in Sources |-> 0]

Accepted ==
    {waiting[i] : i \in DOMAIN waiting} \cup {published[i] : i \in DOMAIN published} \cup lost

\* A later record than all before it; any of them may have been skipped.
Accept ==
    \E r \in Records :
        /\ \A e \in Accepted : e.id < r.id
        /\ waiting' = Append(waiting, r)
        /\ UNCHANGED <<published, lost, tableVars>>

Publish ==
    /\ waiting # <<>>
    /\ published' = Append(published, Head(waiting))
    /\ waiting' = Tail(waiting)
    /\ UNCHANGED <<lost, tableVars>>

Lose ==
    \E n \in 1..Len(waiting) :
        /\ lost' = lost \cup {waiting[i] : i \in 1..n}
        /\ waiting' = SubSeq(waiting, n + 1, Len(waiting))
        /\ UNCHANGED <<published, tableVars>>

Known(kind) == {r \in Accepted : r.kind = kind}

StoreTicks ==
    /\ UNCHANGED <<eventVars, dbCandles>>
    /\ \E rows \in SUBSET Known("tick") : dbTicks' = dbTicks \cup rows

StoreCandles ==
    /\ DOMAIN dbCandles' = Sources
    /\ \A s \in Sources :
          \/ dbCandles'[s] = dbCandles[s]
          \/ \E r \in Known("candle") : r.source = s /\ dbCandles'[s] = r.id
    /\ UNCHANGED <<eventVars, dbTicks>>

Next == StoreTicks \/ StoreCandles \/ Publish \/ Lose \/ Accept

Spec == Init /\ [][Next]_feedVars
=============================================================================
