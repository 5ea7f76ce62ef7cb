------------------------------ MODULE MarketData ------------------------------
(***************************************************************************)
(* What becomes of market data between the message of a provider and the   *)
(* answer of the gateway: the symbols a session subscribes, normalization, *)
(* the keys and conflicts of the tables, and the queries of the gateway.   *)
(* How a record gets from the queue into the tables is MarketPipeline;     *)
(* here a row that is on its way may be stored next or be dropped, whatever*)
(* its place: every order in which two writers commit and every loss that  *)
(* MarketPipeline shows is among these.  A row carries the number of the   *)
(* message it comes from (for its prices) and what that message was about. *)
(***************************************************************************)
EXTENDS Integers, Sequences, TLC

CONSTANTS Active,          \* what Deriv lists: records of a symbol and its market
          Allowlists,      \* the values of symbol_allowlist, {} for none
          Markets,         \* deriv_symbol_filter_markets
          Granularities,   \* candle_granularities
          FallbackSymbols, \* fallback_symbols
          UpperCase,       \* str.upper() on symbols and timeframes
          MaxTime,         \* bound on the epochs
          MaxMessages      \* bound on the messages of both providers

ASSUME MarketDataAssumption ==
    /\ Granularities \subseteq Nat \ {0}
    /\ \E first \in Granularities : \A g \in Granularities : first <= g
    /\ MaxTime \in Nat /\ MaxMessages \in Nat

VARIABLES allowlist,     \* the setting of this process
          session,       \* the symbols subscribed, {} without a session
          ticks,         \* the rows of the table ticks
          candles,       \* the rows of the table candles
          newTicks,      \* the ticks on their way from the queue into the table
          newCandles,    \* the candles on their way
          received,      \* the number of messages so far
          arrived,       \* of each candle, the latest update that arrived
          missed,        \* the candles whose latest update is not in the table for good:
                         \* dropped on its way, overwritten by an older one that was
                         \* stored after it, or removed by the retention policy
          pool           \* whether the gateway has connected to the database

feed == <<allowlist, session>>
tables == <<ticks, candles>>
way == <<newTicks, newCandles>>
updates == <<arrived, missed>>
vars == <<feed, tables, way, received, updates, pool>>

Times == 1..MaxTime
ActiveSymbols == {item.symbol : item \in Active}
DerivSymbols == ActiveSymbols \cup UNION Allowlists
Sources == {"deriv", "fallback"}
Timeframe(granularity) == ToString(granularity) \o "s"

Init ==
    /\ allowlist \in Allowlists
    /\ session = {} /\ ticks = {} /\ candles = {}
    /\ newTicks = {} /\ newCandles = {}
    /\ received = 0 /\ arrived = [k \in {} |-> 0] /\ missed = {}
    /\ pool \in BOOLEAN

-----------------------------------------------------------------------------
(* Normalization.  Absent stands for a field that a message does not have. *)

Absent == "absent"
Unknown == "UNKNOWN"

\* The first of two fields that is there; or with its operands in Python.
Or(field, other) == IF field = Absent THEN other ELSE field

NormalizeTick(msg) ==
    [time |-> msg.epoch, symbol |-> Or(msg.symbol, Or(msg.echo, Unknown)),
     source |-> msg.source, last |-> msg.id, about |-> msg.about]

\* Mutants: a candle without a symbol is taken for one of the last subscription; a
\* candle without a granularity is not given a timeframe.
CandleSymbolGuessed(msg) == Or(msg.symbol, CHOOSE s \in DerivSymbols : TRUE)
CandleTimeframeBare(msg) == Timeframe(msg.granularity)

\* A granularity of 0 stands for one that is absent.
CandleSymbol(msg) == Or(msg.symbol, Unknown)
CandleTimeframe(msg) == Timeframe(IF msg.granularity = 0 THEN 60 ELSE msg.granularity)

NormalizeCandle(msg) ==
    [time |-> msg.start, symbol |-> CandleSymbol(msg), timeframe |-> CandleTimeframe(msg),
     source |-> msg.source, close |-> msg.id, about |-> msg.about]

-----------------------------------------------------------------------------
(* The tables, as the statements of the writer change them, and the way    *)
(* there: the queue, the publication and the buffers.                      *)

TickKey(row) == <<row.time, row.symbol, row.source>>
CandleKey(row) == <<row.time, row.symbol, row.timeframe, row.source>>

\* ON CONFLICT DO NOTHING
WriteTick(row) ==
    ticks' = IF \E r \in ticks : TickKey(r) = TickKey(row) THEN ticks ELSE ticks \cup {row}

\* Mutant: a conflict leaves the row as it is.
InsertCandle(row) ==
    candles' = IF \E r \in candles : CandleKey(r) = CandleKey(row)
               THEN candles ELSE candles \cup {row}

\* ON CONFLICT DO UPDATE
WriteCandle(row) ==
    candles' = {r \in candles : CandleKey(r) # CandleKey(row)} \cup {row}

StoreTick(row) ==
    /\ row \in newTicks
    /\ WriteTick(row)
    /\ newTicks' = newTicks \ {row}
    /\ UNCHANGED <<feed, candles, newCandles, received, updates, pool>>

\* A publication or a batch fails, or the process ends.
DropTick(row) ==
    /\ row \in newTicks
    /\ newTicks' = newTicks \ {row}
    /\ UNCHANGED <<feed, tables, newCandles, received, updates, pool>>

\* The rows that Deriv's updates become, the candle that one is about, and whether the
\* latest update of a candle is on its way.
Named(rows) == {r \in rows : r.source = "deriv" /\ r.symbol # Unknown}
CandleOf(row) == <<row.about[1], row.about[2], row.time>>
OnTheWay(k) == \E r \in Named(newCandles) : CandleOf(r) = k /\ r.close = arrived[k]

\* An older update that is stored when the latest has been takes its place.
StoreCandle(row) ==
    /\ row \in newCandles
    /\ WriteCandle(row)
    /\ newCandles' = newCandles \ {row}
    /\ missed' = missed \cup {k \in DOMAIN arrived : \E r \in Named({row}) :
                      CandleOf(r) = k /\ r.close < arrived[k] /\ ~OnTheWay(k)}
    /\ UNCHANGED <<feed, ticks, newTicks, received, arrived, pool>>

DropCandle(row) ==
    /\ row \in newCandles
    /\ newCandles' = newCandles \ {row}
    /\ missed' = missed \cup {k \in DOMAIN arrived : \E r \in Named({row}) :
                      CandleOf(r) = k /\ r.close = arrived[k]}
    /\ UNCHANGED <<feed, tables, newTicks, received, arrived, pool>>

-----------------------------------------------------------------------------
(* The session of the connector.                                           *)

\* Mutant: the market is not looked at.
LoadAllSymbols(listed) ==
    IF allowlist # {} THEN allowlist ELSE {item.symbol : item \in listed}

\* _load_symbols, given the answer to active_symbols.
LoadSymbols(listed) ==
    IF allowlist # {} THEN allowlist
    ELSE {item.symbol : item \in {i \in listed : i.market \in Markets}}

\* A session without symbols ends with an error before it subscribes.
OpenSession ==
    /\ session = {}
    /\ \E listed \in SUBSET Active :
        /\ LoadSymbols(listed) # {}
        /\ session' = LoadSymbols(listed)
    /\ UNCHANGED <<allowlist, tables, way, received, updates, pool>>

CloseSession ==
    /\ session # {}
    /\ session' = {}
    /\ UNCHANGED <<allowlist, tables, way, received, updates, pool>>

Arrives ==
    /\ received < MaxMessages
    /\ received' = received + 1

\* A message "tick", which names the symbol itself or in the request it echoes.
ReceiveTick(s, time) ==
    /\ s \in session /\ Arrives
    /\ \E symbol \in {s, Absent} :
        newTicks' = newTicks \cup
            {NormalizeTick([epoch |-> time, symbol |-> symbol, echo |-> s,
                            source |-> "deriv", id |-> received', about |-> s])}
    /\ UNCHANGED <<feed, tables, newCandles, updates, pool>>

\* A message "ohlc": an update of the candle that is open.
ReceiveOhlc(s, g, start) ==
    /\ s \in session /\ Arrives
    /\ newCandles' = newCandles \cup
           {NormalizeCandle([start |-> start, symbol |-> s, granularity |-> g,
                             source |-> "deriv", id |-> received', about |-> <<s, g>>])}
    /\ arrived' = [k \in DOMAIN arrived \cup {<<s, g, start>>} |->
                     IF k = <<s, g, start>> THEN received' ELSE arrived[k]]
    /\ missed' = missed \ {<<s, g, start>>}
    /\ UNCHANGED <<feed, tables, newTicks, pool>>

\* A message "candles", the first answer to a subscription.  The connector
\* forwards the candles alone; symbol and granularity are in the request that
\* the message echoes.
ReceiveHistory(s, g, start) ==
    /\ s \in session /\ Arrives
    /\ newCandles' = newCandles \cup
           {NormalizeCandle([start |-> start, symbol |-> Absent, granularity |-> 0,
                             source |-> "deriv", id |-> received', about |-> <<s, g>>])}
    /\ UNCHANGED <<feed, tables, newTicks, updates, pool>>

\* A tick and a candle of the fallback provider; it makes candles of the first,
\* which is the least, granularity.
FallbackRound(s, time) ==
    LET g == CHOOSE h \in Granularities : \A k \in Granularities : h <= k IN
    /\ Arrives
    /\ newTicks' = newTicks \cup
           {NormalizeTick([epoch |-> time, symbol |-> s, echo |-> Absent,
                           source |-> "fallback", id |-> received', about |-> s])}
    /\ newCandles' = newCandles \cup
           {NormalizeCandle([start |-> time, symbol |-> s, granularity |-> g,
                             source |-> "fallback", id |-> received', about |-> <<s, g>>])}
    /\ UNCHANGED <<feed, tables, updates, pool>>

\* The retention policies drop the oldest rows.
RetainTicks(time) ==
    /\ ticks' = {r \in ticks : r.time > time}
    /\ UNCHANGED <<feed, candles, way, received, updates, pool>>

RetainCandles(time) ==
    /\ candles' = {r \in candles : r.time > time}
    /\ missed' = missed \cup {k \in DOMAIN arrived : k[3] <= time /\ ~OnTheWay(k)}
    /\ UNCHANGED <<feed, ticks, way, received, arrived, pool>>

-----------------------------------------------------------------------------
(* The gateway.                                                            *)

\* The lifespan connects once; without a connection it goes on without a pool.
StartGateway ==
    /\ pool' \in BOOLEAN
    /\ UNCHANGED <<feed, tables, way, received, updates>>

TIMEFRAME_MAP == [M1 |-> "60s", M5 |-> "300s", M15 |-> "900s", M30 |-> "1800s",
                  H1 |-> "3600s", H4 |-> "14400s", D1 |-> "86400s"]
DEFAULT_SYMBOLS == {"EURUSD", "GBPUSD", "USDJPY", "AUDUSD", "USDCAD",
                    "R_100", "R_50", "volatility_10", "volatility_25"}

\* A name is looked up in upper case, and passed on as it is when there is none.
Translated(timeframe) ==
    LET name == UpperCase[timeframe]
    IN IF name \in DOMAIN TIMEFRAME_MAP THEN TIMEFRAME_MAP[name] ELSE timeframe

\* GET /market/candles and /market/ticks, without their limits.
GetCandles(symbol, timeframe) ==
    {r \in candles : pool /\ r.symbol = UpperCase[symbol] /\ r.timeframe = Translated(timeframe)}
GetTicks(symbol) == {r \in ticks : pool /\ r.symbol = UpperCase[symbol]}

\* GET /symbols
GetSymbols == IF pool /\ candles # {} THEN {r.symbol : r \in candles} ELSE DEFAULT_SYMBOLS

\* GET /api/v1/market/candles and /api/v1/market/ticks.
GetPrefixedCandles(symbol, timeframe) ==
    {r \in candles : pool /\ r.symbol = symbol /\ r.timeframe = timeframe}
GetPrefixedTicks(symbol) == {r \in ticks : pool /\ r.symbol = symbol}

-----------------------------------------------------------------------------
Next ==
    \/ OpenSession \/ CloseSession \/ StartGateway
    \/ \E row \in newTicks : StoreTick(row) \/ DropTick(row)
    \/ \E row \in newCandles : StoreCandle(row) \/ DropCandle(row)
    \/ \E time \in Times :
        \/ RetainTicks(time) \/ RetainCandles(time)
        \/ \E s \in FallbackSymbols : FallbackRound(s, time)
        \/ \E s \in DerivSymbols :
            \/ ReceiveTick(s, time)
            \/ \E g \in Granularities : ReceiveOhlc(s, g, time) \/ ReceiveHistory(s, g, time)

Spec == Init /\ [][Next]_vars

-----------------------------------------------------------------------------
AllSymbols == DerivSymbols \cup FallbackSymbols
Timeframes == {Timeframe(g) : g \in Granularities \cup {60}}

\* No symbol is called like what stands for none, two granularities never have the
\* same decimal numeral, and no timeframe of the tables is a name like M5 in upper case.
ASSUME NamesAssumption ==
    /\ {Absent, Unknown} \cap AllSymbols = {}
    /\ \A g, h \in Granularities : Timeframe(g) = Timeframe(h) => g = h
    /\ {UpperCase[tf] : tf \in Timeframes} \cap DOMAIN TIMEFRAME_MAP = {}

Ticks == [time : Times, symbol : AllSymbols, source : Sources,
          last : 1..MaxMessages, about : AllSymbols]
Candles == [time : Times, symbol : AllSymbols \cup {Unknown}, timeframe : Timeframes,
            source : Sources, close : 1..MaxMessages, about : AllSymbols \X Granularities]

\* The type invariant.
TypeOK ==
    /\ allowlist \in Allowlists /\ session \subseteq DerivSymbols
    /\ ticks \cup newTicks \subseteq Ticks
    /\ candles \cup newCandles \subseteq Candles
    /\ received \in 0..MaxMessages
    /\ DOMAIN arrived \subseteq DerivSymbols \X Granularities \X Times
    /\ arrived \in [DOMAIN arrived -> 1..received]
    /\ missed \subseteq DOMAIN arrived
    /\ pool \in BOOLEAN

\* A row under a symbol is about that symbol, and a candle about that timeframe:
\* what the messages leave out is never guessed wrong.
NamedRowsAreTrue ==
    /\ \A r \in ticks : r.symbol = r.about
    /\ \A r \in candles : r.symbol # Unknown =>
        r.symbol = r.about[1] /\ r.timeframe = Timeframe(r.about[2])

\* A candle of Deriv has one row at most, which holds an update of it that arrived.  It
\* is the last one, unless that is on its way still or was missed: neither an earlier
\* update nor the history answer of a subscription nor the fallback provider takes its
\* key.
CandlesAreUpToDate ==
    /\ \A r \in Named(candles) :
           CandleOf(r) \in DOMAIN arrived /\ r.close <= arrived[CandleOf(r)]
    /\ \A q, r \in Named(candles) : CandleOf(q) = CandleOf(r) => q = r
    /\ \A k \in DOMAIN arrived \ missed :
           OnTheWay(k) \/ \E r \in Named(candles) : CandleOf(r) = k /\ r.close = arrived[k]

\* The symbols a session asks for: those of the allowlist, or of the markets.
Requested ==
    IF allowlist # {} THEN allowlist
    ELSE {item.symbol : item \in {i \in Active : i.market \in Markets}}

\* Nothing else gets into the tables: a row of Deriv is about a symbol that was asked
\* for, whatever Deriv lists, and one of the fallback provider about its symbols.
OnlyRequestedMarkets ==
    LET expected(source) == IF source = "deriv" THEN Requested ELSE FallbackSymbols
    IN /\ \A r \in ticks : r.about \in expected(r.source)
       /\ \A r \in candles : r.about[1] \in expected(r.source)

\* What a client may call a granularity: as the tables do, or by a name of
\* TIMEFRAME_MAP in any case.
NamesOf(g) ==
    {Timeframe(g)} \cup {name \in DOMAIN UpperCase :
        /\ UpperCase[name] \in DOMAIN TIMEFRAME_MAP
        /\ TIMEFRAME_MAP[UpperCase[name]] = Timeframe(g)}

\* What a client is told of a symbol and a granularity is what Deriv said.  Of each candle
\* of the subscription whose last update is not on its way and was not missed, it is told
\* that update and no other; of any candle, one that arrived; and, of Deriv or of the
\* fallback provider, nothing about another symbol or another granularity.  If the symbol
\* is in upper case, both paths of the gateway say so, by every name of the granularity.
AnswersAreUpToDate ==
    pool => \A s \in AllSymbols, g \in Granularities :
        LET rows == GetPrefixedCandles(s, Timeframe(g))
            said(k) == {r.close : r \in {r \in rows : r.source = "deriv" /\ r.time = k[3]}}
        IN /\ \A r \in rows : r.about = <<s, g>>
           /\ \A r \in rows : r.source = "deriv" =>
                  <<s, g, r.time>> \in DOMAIN arrived /\ r.close <= arrived[<<s, g, r.time>>]
           /\ \A k \in DOMAIN arrived \ missed :
                  k[1] = s /\ k[2] = g /\ ~OnTheWay(k) => said(k) = {arrived[k]}
           /\ UpperCase[s] = s =>
                /\ GetTicks(s) = GetPrefixedTicks(s)
                /\ \A name \in NamesOf(g) : GetCandles(s, name) = rows

\* Stated by the documents: the gateway serves market queries, for every symbol
\* that it lists from the table.
ListedIsServed ==
    pool /\ candles # {} => \A s \in GetSymbols : \E tf \in Timeframes : GetCandles(s, tf) # {}

\* Stated by the documents: the candles of a subscription are those of the
\* specified symbol and granularity.
CandlesKeepTheirSubscription ==
    \A r \in candles : r.symbol = r.about[1] /\ r.timeframe = Timeframe(r.about[2])
=============================================================================
