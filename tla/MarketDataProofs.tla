--------------------------- MODULE MarketDataProofs ----------------------------
(***************************************************************************)
(* What the tables hold, for any symbols, granularities and messages.      *)
(***************************************************************************)
EXTENDS MarketData, TLAPS

USE NamesAssumption, MarketDataAssumption

\* The row of a candle message that names its subscription.
CandleRow(s, g, start, source, id) ==
    [time |-> start, symbol |-> s, timeframe |-> Timeframe(g), source |-> source,
     close |-> id, about |-> <<s, g>>]

\* A message that names its candle becomes the row of that candle.
LEMMA NormalizedNamed ==
    ASSUME NEW s \in AllSymbols, NEW g \in Granularities, NEW start, NEW source, NEW id
    PROVE  NormalizeCandle([start |-> start, symbol |-> s, granularity |-> g,
                            source |-> source, id |-> id, about |-> <<s, g>>])
             = CandleRow(s, g, start, source, id)
  <1>1. s # Absent /\ g # 0
    OBVIOUS
  <1> QED BY <1>1 DEF NormalizeCandle, CandleSymbol, CandleTimeframe, Or, CandleRow

\* One that does not name it becomes a row of nobody.
LEMMA NormalizedBare ==
    ASSUME NEW s, NEW g, NEW start, NEW id
    PROVE  NormalizeCandle([start |-> start, symbol |-> Absent, granularity |-> 0,
                            source |-> "deriv", id |-> id, about |-> <<s, g>>])
             = [CandleRow(Unknown, 60, start, "deriv", id) EXCEPT !.about = <<s, g>>]
  BY DEF NormalizeCandle, CandleSymbol, CandleTimeframe, Or, CandleRow

\* A tick is stored under the symbol it is about.
TickRow(s, time, source, id) ==
    [time |-> time, symbol |-> s, source |-> source, last |-> id, about |-> s]

LEMMA NormalizedTick ==
    ASSUME NEW s \in AllSymbols, NEW time, NEW source, NEW id,
           NEW symbol \in {s, Absent}, NEW echo \in {s, Absent},
           symbol = s \/ echo = s
    PROVE  NormalizeTick([epoch |-> time, symbol |-> symbol, echo |-> echo,
                          source |-> source, id |-> id, about |-> s])
             = TickRow(s, time, source, id)
  <1>1. s # Absent
    OBVIOUS
  <1> QED BY <1>1 DEF NormalizeTick, Or, TickRow
-----------------------------------------------------------------------------
(* The parts of the invariant, of the tables and of the way there.         *)

\* The symbols that rows of a source are about.
Expected(source) == IF source = "deriv" THEN Requested ELSE FallbackSymbols

GoodTicks == {r \in Ticks : r.symbol = r.about /\ r.about \in Expected(r.source)}

GoodCandles == {r \in Candles :
    /\ r.symbol # Unknown => r.symbol = r.about[1] /\ r.timeframe = Timeframe(r.about[2])
    /\ r.about[1] \in Expected(r.source)}

\* Whatever the list of symbols Deriv answers with, a session subscribes symbols
\* that exist and were asked for.
RestTrue ==
    /\ allowlist \in Allowlists /\ session \subseteq DerivSymbols /\ session \subseteq Requested
    /\ received \in 0..MaxMessages
    /\ DOMAIN arrived \subseteq DerivSymbols \X Granularities \X Times
    /\ arrived \in [DOMAIN arrived -> 1..received]
    /\ pool \in BOOLEAN

RowsInv ==
    /\ ticks \cup newTicks \subseteq GoodTicks
    /\ candles \cup newCandles \subseteq GoodCandles
    /\ RestTrue

LEMMA RowsInvImplies ==
    RowsInv => /\ missed \subseteq DOMAIN arrived => TypeOK
               /\ NamedRowsAreTrue /\ OnlyRequestedMarkets
  <1> SUFFICES ASSUME RowsInv PROVE /\ missed \subseteq DOMAIN arrived => TypeOK
                                    /\ NamedRowsAreTrue /\ OnlyRequestedMarkets
    OBVIOUS
  <1>1. missed \subseteq DOMAIN arrived => TypeOK
    BY DEF RowsInv, RestTrue, GoodTicks, GoodCandles, TypeOK
  <1>2. NamedRowsAreTrue
    BY DEF RowsInv, GoodTicks, GoodCandles, NamedRowsAreTrue
  <1>3. OnlyRequestedMarkets
    BY DEF RowsInv, GoodTicks, GoodCandles, Expected, OnlyRequestedMarkets
  <1> QED BY <1>1, <1>2, <1>3

\* A step that adds good rows only, to the way or from there to the tables.
LEMMA RowsStayGood ==
    ASSUME RowsInv, RestTrue', UNCHANGED allowlist,
           ticks' \cup newTicks' \subseteq ticks \cup newTicks \cup GoodTicks,
           candles' \cup newCandles' \subseteq candles \cup newCandles \cup GoodCandles
    PROVE  RowsInv'
  <1>1. Requested' = Requested
    BY DEF Requested
  <1>2. GoodTicks' = GoodTicks /\ GoodCandles' = GoodCandles
    BY <1>1 DEF GoodTicks, GoodCandles, Expected
  <1> QED BY <1>2 DEF RowsInv

\* The rows of messages that arrive are good.
LEMMA TickIsGood ==
    ASSUME NEW s \in AllSymbols, NEW time \in Times, NEW source \in Sources,
           NEW id \in 1..MaxMessages, s \in Expected(source)
    PROVE  TickRow(s, time, source, id) \in GoodTicks
  BY DEF TickRow, GoodTicks, Ticks

LEMMA CandleIsGood ==
    ASSUME NEW s \in AllSymbols, NEW g \in Granularities, NEW start \in Times,
           NEW source \in Sources, NEW id \in 1..MaxMessages, s \in Expected(source)
    PROVE  /\ CandleRow(s, g, start, source, id) \in GoodCandles
           /\ [CandleRow(Unknown, 60, start, source, id) EXCEPT !.about = <<s, g>>] \in GoodCandles
  BY DEF CandleRow, GoodCandles, Candles, Timeframes

\* A symbol that a session subscribes.
LEMMA SubscribedMayBe ==
    ASSUME RestTrue, NEW s \in session
    PROVE  s \in AllSymbols /\ s \in DerivSymbols /\ s \in Expected("deriv")
  BY DEF RestTrue, AllSymbols, Expected

\* The number of a message that arrives.
LEMMA ArrivesNumbered ==
    ASSUME RestTrue, Arrives
    PROVE  /\ received' \in 1..MaxMessages /\ received' = received + 1
           /\ received \in Nat
  BY DEF RestTrue, Arrives

\* What a message that arrives leaves in place of the rest.
LEMMA RestAfterArrival ==
    ASSUME RestTrue, Arrives, UNCHANGED <<feed, updates, pool>>
    PROVE  RestTrue'
  <1>1. \A k \in DOMAIN arrived : arrived[k] \in 1..received'
    BY ArrivesNumbered DEF RestTrue
  <1> QED BY <1>1, ArrivesNumbered DEF RestTrue, feed, updates, Requested
-----------------------------------------------------------------------------
(* The steps.                                                              *)

\* Sessions that come and go, and the gateway.
LEMMA SessionSteps == RowsInv /\ (OpenSession \/ CloseSession \/ StartGateway) => RowsInv'
  <1> SUFFICES ASSUME RowsInv, OpenSession \/ CloseSession \/ StartGateway PROVE RowsInv'
    OBVIOUS
  <1>1. UNCHANGED <<allowlist, ticks, candles, newTicks, newCandles, received, arrived, missed>>
    BY DEF OpenSession, CloseSession, StartGateway, tables, feed, way, updates
  <1>2. pool' \in BOOLEAN
    BY DEF RowsInv, RestTrue, OpenSession, CloseSession, StartGateway
  <1>3. session' \subseteq DerivSymbols /\ session' \subseteq Requested
    <2>1. CASE OpenSession
      <3>1. PICK listed \in SUBSET Active : session' = LoadSymbols(listed)
        BY <2>1 DEF OpenSession
      <3>2. CASE allowlist = {}
        BY <3>1, <3>2 DEF LoadSymbols, Requested, DerivSymbols, ActiveSymbols
      <3>3. CASE allowlist # {}
        BY <3>1, <3>3 DEF LoadSymbols, Requested, DerivSymbols, RowsInv, RestTrue
      <3> QED BY <3>2, <3>3
    <2>2. CASE CloseSession \/ StartGateway
      BY <2>2 DEF CloseSession, StartGateway, feed, RowsInv, RestTrue
    <2> QED BY <2>1, <2>2
  <1>4. RestTrue'
    BY <1>1, <1>2, <1>3 DEF RowsInv, RestTrue, Requested
  <1> QED BY <1>1, <1>4, RowsStayGood

\* The messages of Deriv.
LEMMA TickStep ==
    ASSUME RowsInv, NEW s \in DerivSymbols, NEW time \in Times, ReceiveTick(s, time)
    PROVE  RowsInv'
  <1>1. s \in session /\ Arrives /\ UNCHANGED <<feed, tables, newCandles, updates, pool>>
    BY DEF ReceiveTick
  <1>2. s \in AllSymbols /\ s \in Expected("deriv")
    BY <1>1, SubscribedMayBe DEF RowsInv
  <1>3. newTicks' = newTicks \cup {TickRow(s, time, "deriv", received')}
    <2>1. PICK symbol \in {s, Absent} : newTicks' = newTicks \cup
             {NormalizeTick([epoch |-> time, symbol |-> symbol, echo |-> s,
                             source |-> "deriv", id |-> received', about |-> s])}
      BY DEF ReceiveTick
    <2>2. NormalizeTick([epoch |-> time, symbol |-> symbol, echo |-> s, source |-> "deriv",
                         id |-> received', about |-> s]) = TickRow(s, time, "deriv", received')
      <3>1. symbol = s \/ symbol = Absent
        BY <2>1
      <3>2. s # Absent
        BY <1>2
      <3> QED BY <3>1, <3>2 DEF NormalizeTick, Or, TickRow
    <2> QED BY <2>1, <2>2
  <1>4. TickRow(s, time, "deriv", received') \in GoodTicks
    BY <1>1, <1>2, TickIsGood, ArrivesNumbered DEF RowsInv, Sources
  <1> QED BY <1>1, <1>3, <1>4, RestAfterArrival, RowsStayGood DEF RowsInv, feed, tables

LEMMA OhlcStep ==
    ASSUME RowsInv, NEW s \in DerivSymbols, NEW g \in Granularities, NEW start \in Times,
           ReceiveOhlc(s, g, start)
    PROVE  /\ RowsInv'
           /\ newCandles' = newCandles \cup {CandleRow(s, g, start, "deriv", received')}
           /\ s \in AllSymbols
  <1>1. s \in session /\ Arrives /\ UNCHANGED <<feed, tables, newTicks, pool>>
    BY DEF ReceiveOhlc
  <1>2. s \in AllSymbols /\ s \in Expected("deriv") /\ received' \in 1..MaxMessages
        /\ received' = received + 1 /\ received \in Nat
    BY <1>1, SubscribedMayBe, ArrivesNumbered DEF RowsInv
  <1>3. newCandles' = newCandles \cup {CandleRow(s, g, start, "deriv", received')}
    BY <1>2, NormalizedNamed DEF ReceiveOhlc
  <1>4. CandleRow(s, g, start, "deriv", received') \in GoodCandles
    BY <1>2, CandleIsGood DEF Sources
  <1>5. RestTrue'
    <2> DEFINE key == <<s, g, start>>
    <2>1. /\ arrived' = [k \in DOMAIN arrived \cup {key} |->
                           IF k = key THEN received' ELSE arrived[k]]
          /\ missed' = missed \ {key}
      BY DEF ReceiveOhlc
    <2>2. key \in DerivSymbols \X Granularities \X Times
      OBVIOUS
    <2> HIDE DEF key
    <2>3. \A k \in DOMAIN arrived : arrived[k] \in 1..received'
      BY <1>2 DEF RowsInv, RestTrue
    <2>4. /\ DOMAIN arrived' = DOMAIN arrived \cup {key}
          /\ arrived' \in [DOMAIN arrived' -> 1..received']
      BY <1>2, <2>1, <2>3
    <2> QED BY <1>1, <1>2, <2>1, <2>2, <2>4 DEF RowsInv, RestTrue, feed, Requested
  <1>6. RowsInv'
    BY <1>1, <1>3, <1>4, <1>5, RowsStayGood DEF feed, tables
  <1> QED BY <1>2, <1>3, <1>6

LEMMA HistoryStep ==
    ASSUME RowsInv, NEW s \in DerivSymbols, NEW g \in Granularities, NEW start \in Times,
           ReceiveHistory(s, g, start)
    PROVE  RowsInv' /\ Named(newCandles') = Named(newCandles)
  <1> DEFINE row == [CandleRow(Unknown, 60, start, "deriv", received') EXCEPT !.about = <<s, g>>]
  <1>1. s \in session /\ Arrives /\ UNCHANGED <<feed, tables, newTicks, updates, pool>>
    BY DEF ReceiveHistory
  <1>2. s \in AllSymbols /\ s \in Expected("deriv") /\ received' \in 1..MaxMessages
    BY <1>1, SubscribedMayBe, ArrivesNumbered DEF RowsInv
  <1>3. newCandles' = newCandles \cup {row}
    BY NormalizedBare DEF ReceiveHistory
  <1>4. row \in GoodCandles
    BY <1>2, CandleIsGood DEF Sources
  <1>5. row.symbol = Unknown
    BY DEF CandleRow
  <1> HIDE DEF row
  <1>6. RowsInv'
    BY <1>1, <1>3, <1>4, RestAfterArrival, RowsStayGood DEF RowsInv, feed, tables
  <1> QED BY <1>3, <1>5, <1>6 DEF Named

\* There is a least granularity.
LEMMA LeastGranularity ==
    (CHOOSE h \in Granularities : \A k \in Granularities : h <= k) \in Granularities
  <1>1. \E h \in Granularities : \A k \in Granularities : h <= k
    BY MarketDataAssumption DEF MarketDataAssumption
  <1> QED BY <1>1

\* The fallback provider makes candles of the least granularity.
LEMMA FallbackStep ==
    ASSUME RowsInv, NEW s \in FallbackSymbols, NEW time \in Times, FallbackRound(s, time)
    PROVE  RowsInv' /\ Named(newCandles') = Named(newCandles)
  <1> DEFINE g == CHOOSE h \in Granularities : \A k \in Granularities : h <= k
             row == CandleRow(s, g, time, "fallback", received')
  <1>1. g \in Granularities
    BY LeastGranularity
  <1>2. Arrives /\ UNCHANGED <<feed, tables, updates, pool>>
    BY DEF FallbackRound
  <1>3. s \in AllSymbols /\ s \in Expected("fallback") /\ received' \in 1..MaxMessages
    BY <1>2, ArrivesNumbered DEF AllSymbols, Expected, RowsInv
  <1>4. newTicks' = newTicks \cup {TickRow(s, time, "fallback", received')}
    <2>1. NormalizeTick([epoch |-> time, symbol |-> s, echo |-> Absent, source |-> "fallback",
                         id |-> received', about |-> s]) = TickRow(s, time, "fallback", received')
      BY <1>3, NormalizedTick, ZenonT(30)
    <2> QED BY <2>1 DEF FallbackRound
  <1>5. newCandles' = newCandles \cup {row}
    <2> HIDE DEF g
    <2>1. NormalizeCandle([start |-> time, symbol |-> s, granularity |-> g, source |-> "fallback",
                           id |-> received', about |-> <<s, g>>]) = row
      BY <1>1, <1>3, NormalizedNamed
    <2>2. newCandles' = newCandles \cup
            {NormalizeCandle([start |-> time, symbol |-> s, granularity |-> g,
                              source |-> "fallback", id |-> received', about |-> <<s, g>>])}
      BY DEF FallbackRound, g
    <2> QED BY <2>1, <2>2
  <1>6. row.source = "fallback"
    BY DEF CandleRow
  <1>7. TickRow(s, time, "fallback", received') \in GoodTicks /\ row \in GoodCandles
    BY <1>1, <1>3, TickIsGood, CandleIsGood DEF Sources
  <1> HIDE DEF row
  <1>8. RowsInv'
    BY <1>2, <1>4, <1>5, <1>7, RestAfterArrival, RowsStayGood DEF RowsInv, feed, tables
  <1> QED BY <1>5, <1>6, <1>8 DEF Named

\* The way into the tables, and what the retention policies remove.
LEMMA WaySteps ==
    ASSUME RowsInv,
           \/ \E row \in newTicks : StoreTick(row) \/ DropTick(row)
           \/ \E row \in newCandles : StoreCandle(row) \/ DropCandle(row)
           \/ \E time \in Times : RetainTicks(time) \/ RetainCandles(time)
    PROVE  RowsInv'
  <1>1. /\ UNCHANGED <<allowlist, session, received, arrived, pool>>
        /\ ticks' \cup newTicks' \subseteq ticks \cup newTicks
        /\ candles' \cup newCandles' \subseteq candles \cup newCandles
    BY DEF StoreTick, DropTick, StoreCandle, DropCandle, RetainTicks, RetainCandles,
           WriteTick, WriteCandle, feed, tables, way, updates
  <1>3. RestTrue'
    BY <1>1 DEF RowsInv, RestTrue, Requested
  <1> QED BY <1>1, <1>3, RowsStayGood

LEMMA RowsStep == RowsInv /\ [Next]_vars => RowsInv'
  <1> SUFFICES ASSUME RowsInv, [Next]_vars PROVE RowsInv'
    OBVIOUS
  <1>1. CASE OpenSession \/ CloseSession \/ StartGateway
    BY <1>1, SessionSteps
  <1>2. CASE \/ \E row \in newTicks : StoreTick(row) \/ DropTick(row)
             \/ \E row \in newCandles : StoreCandle(row) \/ DropCandle(row)
             \/ \E time \in Times : RetainTicks(time) \/ RetainCandles(time)
    BY <1>2, WaySteps
  <1>3. CASE \E time \in Times, s \in FallbackSymbols : FallbackRound(s, time)
    BY <1>3, FallbackStep
  <1>4. CASE \E time \in Times, s \in DerivSymbols : ReceiveTick(s, time)
    BY <1>4, TickStep
  <1>5. CASE \E time \in Times, s \in DerivSymbols, g \in Granularities :
                 ReceiveOhlc(s, g, time) \/ ReceiveHistory(s, g, time)
    BY <1>5, OhlcStep, HistoryStep
  <1>6. CASE UNCHANGED vars
    <2>1. RestTrue'
      BY <1>6 DEF vars, feed, updates, RowsInv, RestTrue, Requested
    <2> QED BY <1>6, <2>1, RowsStayGood DEF vars, feed, tables, way
  <1> QED BY <1>1, <1>2, <1>3, <1>4, <1>5, <1>6 DEF Next

LEMMA RowsInit == Init => RowsInv
  BY DEF Init, RowsInv, RestTrue

LEMMA RowsAlways == Spec => []RowsInv
  BY RowsInit, RowsStep, PTL DEF Spec

\* Rows of normalize_deriv_tick and normalize_deriv_candle are stored under the
\* symbol and the timeframe they are about, whatever the messages leave out.
THEOREM RowsAreTrue == Spec => []NamedRowsAreTrue
  <1>1. RowsInv => NamedRowsAreTrue
    BY RowsInvImplies
  <1> QED BY RowsAlways, <1>1, PTL

\* A row of Deriv is about a symbol of the allowlist or, without one, of the markets that
\* _load_symbols selects from whatever Deriv lists; every other row is about a symbol of
\* the fallback provider.
THEOREM MarketsAreRequested == Spec => []OnlyRequestedMarkets
  <1>1. RowsInv => OnlyRequestedMarkets
    BY RowsInvImplies
  <1> QED BY RowsAlways, <1>1, PTL

-----------------------------------------------------------------------------
(* The candles.                                                            *)

\* The updates on their way arrived, too, and only of a candle that has any can one be
\* missed.
CandlesInv ==
    /\ CandlesAreUpToDate
    /\ \A r \in Named(newCandles) :
           CandleOf(r) \in DOMAIN arrived /\ r.close <= arrived[CandleOf(r)]
    /\ missed \subseteq DOMAIN arrived

\* Updates have the same key when they are about the same candle, and nothing else has it.
LEMMA KeysOfUpdates ==
    ASSUME RowsInv, NEW q \in candles \cup newCandles, NEW r \in Named(candles \cup newCandles)
    PROVE  CandleKey(q) = CandleKey(r)
             <=> q \in Named(candles \cup newCandles) /\ CandleOf(q) = CandleOf(r)
  <1>1. /\ r \in GoodCandles /\ r.source = "deriv" /\ r.symbol # Unknown
        /\ r.about \in AllSymbols \X Granularities
        /\ r.symbol = r.about[1] /\ r.timeframe = Timeframe(r.about[2])
    BY DEF RowsInv, Named, GoodCandles, Candles
  <1>2. CASE q \in Named(candles \cup newCandles)
    <2>1. /\ q.source = "deriv" /\ q.about \in AllSymbols \X Granularities
          /\ q.symbol = q.about[1] /\ q.timeframe = Timeframe(q.about[2])
      BY <1>2 DEF RowsInv, Named, GoodCandles, Candles
    <2>2. q.timeframe = r.timeframe <=> q.about[2] = r.about[2]
      BY <1>1, <2>1, NamesAssumption
    <2> QED BY <1>1, <1>2, <2>1, <2>2 DEF CandleKey, CandleOf
  <1>3. CASE q \notin Named(candles \cup newCandles)
    <2>1. q.source # "deriv" \/ q.symbol = Unknown
      BY <1>3 DEF Named
    <2> QED BY <1>1, <1>3, <2>1 DEF CandleKey
  <1> QED BY <1>2, <1>3

\* What comes on the way without being an update disturbs no candle.
LEMMA OthersStay ==
    ASSUME CandlesInv, UNCHANGED <<candles, updates>>, Named(newCandles') = Named(newCandles)
    PROVE  CandlesInv'
  BY DEF CandlesInv, CandlesAreUpToDate, OnTheWay, CandleOf, updates

\* An update that arrives is the latest of its candle, and on its way.
LEMMA UpdateArrives ==
    ASSUME RowsInv, CandlesInv, NEW s \in DerivSymbols, NEW g \in Granularities,
           NEW start \in Times, ReceiveOhlc(s, g, start)
    PROVE  CandlesInv'
  <1> DEFINE key == <<s, g, start>>
             row == CandleRow(s, g, start, "deriv", received')
  <1>1. newCandles' = newCandles \cup {row} /\ UNCHANGED candles
    BY OhlcStep DEF ReceiveOhlc, tables
  <1>2. CandleOf(row) = key /\ row.close = received' /\ row.source = "deriv" /\ row.symbol # Unknown
    BY OhlcStep DEF CandleRow, CandleOf
  <1>3. /\ arrived' = [k \in DOMAIN arrived \cup {key} |->
                         IF k = key THEN received' ELSE arrived[k]]
        /\ missed' = missed \ {key}
    BY DEF ReceiveOhlc
  <1> HIDE DEF key, row
  <1>4. /\ DOMAIN arrived' = DOMAIN arrived \cup {key} /\ arrived'[key] = received'
        /\ \A k \in DOMAIN arrived : k # key => arrived'[k] = arrived[k]
        /\ \A k \in DOMAIN arrived : arrived[k] <= arrived'[k] /\ arrived[k] \in Nat
                                     /\ arrived'[k] \in Nat
    <2>1. received \in Nat /\ received' = received + 1 /\ arrived \in [DOMAIN arrived -> 1..received]
      BY ArrivesNumbered DEF RowsInv, RestTrue, ReceiveOhlc
    <2> QED BY <1>3, <2>1
  <1>5. Named(newCandles') = Named(newCandles) \cup {row}
    BY <1>1, <1>2 DEF Named
  <1>6. \A r \in Named(candles) \cup Named(newCandles) : r.close \in Nat
    BY DEF RowsInv, GoodCandles, Candles, Named
  <1>7. \A r \in Named(candles) \cup Named(newCandles) :
            CandleOf(r) \in DOMAIN arrived' /\ r.close <= arrived'[CandleOf(r)]
    BY <1>4, <1>6 DEF CandlesInv, CandlesAreUpToDate
  <1>8. CandleOf(row) \in DOMAIN arrived' /\ row.close <= arrived'[CandleOf(row)]
    BY <1>2, <1>4, ArrivesNumbered DEF RowsInv, ReceiveOhlc
  <1>9. ASSUME NEW k \in DOMAIN arrived' \ missed'
        PROVE  \/ \E r \in Named(newCandles') : CandleOf(r) = k /\ r.close = arrived'[k]
               \/ \E r \in Named(candles) : CandleOf(r) = k /\ r.close = arrived'[k]
    <2>1. CASE k = key
      BY <1>2, <1>4, <1>5, <2>1
    <2>2. CASE k # key
      BY <1>3, <1>4, <1>5, <2>2 DEF CandlesInv, CandlesAreUpToDate, OnTheWay
    <2> QED BY <2>1, <2>2
  <1>10. missed' \subseteq DOMAIN arrived'
    BY <1>3, <1>4 DEF CandlesInv
  <1> QED BY <1>1, <1>5, <1>7, <1>8, <1>9, <1>10 DEF CandlesInv, CandlesAreUpToDate, OnTheWay, CandleOf

\* An update that is stored takes the place of the row of its candle, and what else is
\* stored takes the place of none.
LEMMA UpdateReplaces ==
    ASSUME RowsInv, NEW row \in newCandles, WriteCandle(row)
    PROVE  /\ row \in Named({row}) =>
                Named(candles') = {r \in Named(candles) : CandleOf(r) # CandleOf(row)} \cup {row}
           /\ row \notin Named({row}) => Named(candles') = Named(candles)
  <1>1. candles' = {r \in candles : CandleKey(r) # CandleKey(row)} \cup {row}
    BY DEF WriteCandle
  <1>2. \A r \in Named(candles) : r \in candles /\ r \in Named(candles \cup newCandles)
    BY DEF Named
  <1>3. row \in Named({row}) <=> row \in Named(candles \cup newCandles)
    BY DEF Named
  <1>4. \A r \in Named(candles) :
            CandleKey(r) = CandleKey(row) <=> row \in Named({row}) /\ CandleOf(r) = CandleOf(row)
    BY <1>2, <1>3, KeysOfUpdates
  <1>5. CASE row \in Named({row})
    <2>1. Named(candles') = {r \in Named(candles) : CandleKey(r) # CandleKey(row)} \cup {row}
      BY <1>1, <1>5 DEF Named
    <2> QED BY <1>4, <1>5, <2>1
  <1>6. CASE row \notin Named({row})
    <2>1. Named(candles') = {r \in Named(candles) : CandleKey(r) # CandleKey(row)}
      BY <1>1, <1>6 DEF Named
    <2> QED BY <1>4, <1>6, <2>1
  <1> QED BY <1>5, <1>6

LEMMA CandleIsStored ==
    ASSUME RowsInv, CandlesInv, NEW row \in newCandles, StoreCandle(row)
    PROVE  CandlesInv'
  <1> DEFINE key == CandleOf(row)
  <1>1. WriteCandle(row) /\ newCandles' = newCandles \ {row} /\ UNCHANGED arrived
    BY DEF StoreCandle
  <1>2. missed' = missed \cup {k \in DOMAIN arrived : \E r \in Named({row}) :
                      CandleOf(r) = k /\ r.close < arrived[k] /\ ~OnTheWay(k)}
    BY DEF StoreCandle
  <1>3. Named(newCandles') = Named(newCandles) \ {row}
    BY <1>1 DEF Named
  <1>4. CASE row \notin Named({row})
    <2>1. Named(candles') = Named(candles)
      BY <1>1, <1>4, UpdateReplaces
    <2>2. missed' = missed /\ Named(newCandles') = Named(newCandles)
      BY <1>2, <1>3, <1>4 DEF Named
    <2> QED BY <1>1, <2>1, <2>2 DEF CandlesInv, CandlesAreUpToDate, OnTheWay, CandleOf
  <1>5. CASE row \in Named({row})
    <2>1. Named(candles') = {r \in Named(candles) : CandleOf(r) # key} \cup {row}
      BY <1>1, <1>5, UpdateReplaces
    <2>2. row \in Named(newCandles)
      BY <1>5 DEF Named
    <2>3. key \in DOMAIN arrived /\ row.close <= arrived[key]
          /\ row.close \in Nat /\ arrived[key] \in Nat
      BY <2>2 DEF CandlesInv, RowsInv, RestTrue, GoodCandles, Candles, Named
    <2>4. missed \subseteq missed' /\ missed' \subseteq missed \cup {key}
          /\ (row.close < arrived[key] /\ ~OnTheWay(key) => key \in missed')
      BY <1>2, <1>5, <2>3 DEF Named
    <2> HIDE DEF key
    <2>5. \A r \in Named(candles') :
              CandleOf(r) \in DOMAIN arrived /\ r.close <= arrived[CandleOf(r)]
      BY <2>1, <2>3 DEF CandlesInv, CandlesAreUpToDate, key
    <2>6. \A q, r \in Named(candles') : CandleOf(q) = CandleOf(r) => q = r
      BY <2>1 DEF CandlesInv, CandlesAreUpToDate, key
    <2>7. ASSUME NEW k \in DOMAIN arrived \ missed'
          PROVE  \/ \E r \in Named(newCandles') : CandleOf(r) = k /\ r.close = arrived[k]
                 \/ \E r \in Named(candles') : CandleOf(r) = k /\ r.close = arrived[k]
      <3>1. k \notin missed
        BY <2>4
      <3>2. CASE k # key
        <4>1. \A r \in Named(newCandles) : CandleOf(r) = k => r \in Named(newCandles')
          BY <1>3, <3>2 DEF key
        <4>2. \A r \in Named(candles) : CandleOf(r) = k => r \in Named(candles')
          BY <2>1, <3>2
        <4> QED BY <3>1, <4>1, <4>2 DEF CandlesInv, CandlesAreUpToDate, OnTheWay
      <3>3. CASE k = key /\ row.close = arrived[key]
        BY <2>1, <3>3 DEF key
      <3>4. CASE k = key /\ row.close # arrived[key]
        <4>1. row.close < arrived[key]
          BY <2>3, <3>4
        <4>2. OnTheWay(key)
          BY <2>4, <3>4, <4>1
        <4> QED BY <1>3, <3>4, <4>2 DEF OnTheWay
      <3> QED BY <3>2, <3>3, <3>4
    <2>8. \A r \in Named(newCandles') :
              CandleOf(r) \in DOMAIN arrived /\ r.close <= arrived[CandleOf(r)]
      BY <1>3 DEF CandlesInv
    <2>9. missed' \subseteq DOMAIN arrived
      BY <2>3, <2>4 DEF CandlesInv
    <2> QED BY <1>1, <2>5, <2>6, <2>7, <2>8, <2>9 DEF CandlesInv, CandlesAreUpToDate, OnTheWay, CandleOf
  <1> QED BY <1>4, <1>5

\* A candle whose latest update is dropped is missed.
LEMMA CandleIsDropped ==
    ASSUME RowsInv, CandlesInv, NEW row \in newCandles, DropCandle(row)
    PROVE  CandlesInv'
  <1>1. newCandles' = newCandles \ {row} /\ UNCHANGED <<candles, arrived>>
    BY DEF DropCandle, tables
  <1>2. missed' = missed \cup {k \in DOMAIN arrived : \E r \in Named({row}) :
                      CandleOf(r) = k /\ r.close = arrived[k]}
    BY DEF DropCandle
  <1>3. Named(newCandles') = Named(newCandles) \ {row}
    BY <1>1 DEF Named
  <1>4. ASSUME NEW k \in DOMAIN arrived \ missed', OnTheWay(k)
        PROVE  \E r \in Named(newCandles') : CandleOf(r) = k /\ r.close = arrived[k]
    <2>1. PICK r \in Named(newCandles) : CandleOf(r) = k /\ r.close = arrived[k]
      BY <1>4 DEF OnTheWay
    <2>2. r # row
      <3>1. ASSUME r = row PROVE k \in missed'
        <4>1. row \in Named({row})
          BY <2>1, <3>1 DEF Named
        <4> QED BY <1>2, <2>1, <3>1, <4>1
      <3> QED BY <1>4, <3>1
    <2> QED BY <1>3, <2>1, <2>2
  <1>5. \A k \in DOMAIN arrived \ missed' : k \notin missed
    BY <1>2
  <1>6. missed' \subseteq DOMAIN arrived
    BY <1>2 DEF CandlesInv
  <1>7. \A k \in DOMAIN arrived \ missed' :
           \/ \E r \in Named(newCandles') : CandleOf(r) = k /\ r.close = arrived[k]
           \/ \E r \in Named(candles) : CandleOf(r) = k /\ r.close = arrived[k]
    BY <1>4, <1>5 DEF CandlesInv, CandlesAreUpToDate
  <1> QED BY <1>1, <1>3, <1>6, <1>7 DEF CandlesInv, CandlesAreUpToDate, OnTheWay, CandleOf

\* So is one whose row the retention policy removes, unless a later update comes.
LEMMA CandlesAreRetained ==
    ASSUME RowsInv, CandlesInv, NEW time \in Times, RetainCandles(time)
    PROVE  CandlesInv'
  <1>1. Named(candles') = {r \in Named(candles) : r.time > time} /\ UNCHANGED <<newCandles, arrived>>
    BY DEF RetainCandles, Named, way
  <1>2. missed' = missed \cup {k \in DOMAIN arrived : k[3] <= time /\ ~OnTheWay(k)}
    BY DEF RetainCandles
  <1>3. ASSUME NEW k \in DOMAIN arrived \ missed', ~OnTheWay(k)
        PROVE  \E r \in Named(candles') : CandleOf(r) = k /\ r.close = arrived[k]
    <2>1. k \notin missed /\ ~(k[3] <= time)
      BY <1>2, <1>3
    <2>2. PICK r \in Named(candles) : CandleOf(r) = k /\ r.close = arrived[k]
      BY <1>3, <2>1 DEF CandlesInv, CandlesAreUpToDate
    <2>3. r.time = k[3] /\ r.time \in Nat /\ time \in Nat
      BY <2>2 DEF CandleOf, RowsInv, Named, GoodCandles, Candles, Times
    <2> QED BY <1>1, <2>1, <2>2, <2>3
  <1>4. missed' \subseteq DOMAIN arrived
    BY <1>2 DEF CandlesInv
  <1>5. \A r \in Named(candles') : r \in Named(candles)
    BY <1>1
  <1> QED BY <1>1, <1>3, <1>4, <1>5 DEF CandlesInv, CandlesAreUpToDate, OnTheWay, CandleOf

LEMMA CandlesStep == RowsInv /\ CandlesInv /\ [Next]_vars => CandlesInv'
  <1> SUFFICES ASSUME RowsInv, CandlesInv, [Next]_vars PROVE CandlesInv'
    OBVIOUS
  <1>1. CASE UNCHANGED <<candles, newCandles, updates>>
    BY <1>1, OthersStay
  <1>2. CASE OpenSession \/ CloseSession \/ StartGateway
    BY <1>1, <1>2 DEF OpenSession, CloseSession, StartGateway, tables, way
  <1>3. CASE \E time \in Times : RetainTicks(time) \/ RetainCandles(time)
    BY <1>1, <1>3, CandlesAreRetained DEF RetainTicks, way
  <1>4. CASE \E time \in Times, s \in FallbackSymbols : FallbackRound(s, time)
    BY <1>4, FallbackStep, OthersStay DEF FallbackRound, tables
  <1>5. CASE \E time \in Times, s \in DerivSymbols : ReceiveTick(s, time)
    BY <1>1, <1>5 DEF ReceiveTick, tables
  <1>6. CASE \E time \in Times, s \in DerivSymbols, g \in Granularities : ReceiveOhlc(s, g, time)
    BY <1>6, UpdateArrives
  <1>7. CASE \E time \in Times, s \in DerivSymbols, g \in Granularities : ReceiveHistory(s, g, time)
    BY <1>7, HistoryStep, OthersStay DEF ReceiveHistory, tables
  <1>8. CASE \E row \in newTicks : StoreTick(row) \/ DropTick(row)
    BY <1>1, <1>8 DEF StoreTick, DropTick, tables
  <1>9. CASE \E row \in newCandles : StoreCandle(row) \/ DropCandle(row)
    BY <1>9, CandleIsStored, CandleIsDropped
  <1>10. CASE UNCHANGED vars
    BY <1>1, <1>10 DEF vars, tables, way
  <1> QED BY <1>2, <1>3, <1>4, <1>5, <1>6, <1>7, <1>8, <1>9, <1>10 DEF Next

LEMMA CandlesAlways == Spec => []CandlesInv
  <1>1. Init => CandlesInv
    BY DEF Init, CandlesInv, CandlesAreUpToDate, Named
  <1> QED BY RowsAlways, <1>1, CandlesStep, PTL DEF Spec

\* The types, for tables, sessions and messages of any number.
THEOREM TypeCorrect == Spec => []TypeOK
  <1>1. RowsInv /\ CandlesInv => TypeOK
    BY RowsInvImplies DEF CandlesInv
  <1> QED BY RowsAlways, CandlesAlways, <1>1, PTL

-----------------------------------------------------------------------------
(* What the gateway answers.                                               *)

\* The two paths read the same rows of a symbol in upper case.
LEMMA PathsAgree ==
    ASSUME NEW s \in AllSymbols, NEW g \in Granularities, UpperCase[s] = s
    PROVE  /\ GetTicks(s) = GetPrefixedTicks(s)
           /\ \A name \in NamesOf(g) : GetCandles(s, name) = GetPrefixedCandles(s, Timeframe(g))
  <1>1. UpperCase[Timeframe(g)] \notin DOMAIN TIMEFRAME_MAP
    BY NamesAssumption DEF Timeframes
  <1>2. \A name \in NamesOf(g) : Translated(name) = Timeframe(g)
    BY <1>1 DEF NamesOf, Translated
  <1> QED BY <1>2 DEF GetTicks, GetPrefixedTicks, GetCandles, GetPrefixedCandles

LEMMA AnswersFollow ==
    TypeOK /\ NamedRowsAreTrue /\ CandlesAreUpToDate => AnswersAreUpToDate
  <1> SUFFICES ASSUME TypeOK, NamedRowsAreTrue, CandlesAreUpToDate, pool,
                      NEW s \in AllSymbols, NEW g \in Granularities
               PROVE  LET rows == GetPrefixedCandles(s, Timeframe(g))
                          said(k) == {r.close : r \in {r \in rows :
                                                         r.source = "deriv" /\ r.time = k[3]}}
                      IN /\ \A r \in rows : r.about = <<s, g>>
                         /\ \A r \in rows : r.source = "deriv" =>
                                <<s, g, r.time>> \in DOMAIN arrived
                                /\ r.close <= arrived[<<s, g, r.time>>]
                         /\ \A k \in DOMAIN arrived \ missed :
                                k[1] = s /\ k[2] = g /\ ~OnTheWay(k) => said(k) = {arrived[k]}
    BY PathsAgree DEF AnswersAreUpToDate
  <1> DEFINE rows == GetPrefixedCandles(s, Timeframe(g))
             said(k) == {r.close : r \in {r \in rows : r.source = "deriv" /\ r.time = k[3]}}
  <1>1. s # Unknown /\ \A h \in Granularities : Timeframe(g) = Timeframe(h) => g = h
    BY NamesAssumption
  <1>2. \A r : r \in rows <=> r \in candles /\ r.symbol = s /\ r.timeframe = Timeframe(g)
    BY DEF GetPrefixedCandles
  <1> HIDE DEF rows
  <1>3. ASSUME NEW r \in rows PROVE r.about = <<s, g>>
    <2>1. r.about \in AllSymbols \X Granularities
      BY <1>2 DEF TypeOK, Candles
    <2>2. r.about[1] = s /\ Timeframe(r.about[2]) = Timeframe(g)
      BY <1>1, <1>2 DEF NamedRowsAreTrue
    <2>3. r.about[2] = g
      BY <1>1, <2>1, <2>2
    <2> QED BY <2>1, <2>2, <2>3
  <1>4. ASSUME NEW r \in rows, r.source = "deriv"
        PROVE  r \in Named(candles) /\ CandleOf(r) = <<s, g, r.time>>
    BY <1>1, <1>2, <1>3, <1>4 DEF Named, CandleOf
  <1>5. \A r \in rows : r.source = "deriv" =>
            <<s, g, r.time>> \in DOMAIN arrived /\ r.close <= arrived[<<s, g, r.time>>]
    BY <1>4 DEF CandlesAreUpToDate
  <1>6. ASSUME NEW k \in DOMAIN arrived \ missed, k[1] = s, k[2] = g, ~OnTheWay(k)
        PROVE  said(k) = {arrived[k]}
    <2>1. PICK q \in Named(candles) : CandleOf(q) = k /\ q.close = arrived[k]
      BY <1>6 DEF CandlesAreUpToDate
    <2>2. q.about[1] = s /\ q.about[2] = g /\ q.time = k[3]
      BY <1>6, <2>1 DEF CandleOf
    <2>3. q \in rows /\ q.source = "deriv" /\ q.time = k[3]
      BY <1>2, <2>2 DEF Named, NamedRowsAreTrue
    <2>4. k = <<s, g, k[3]>>
      BY <2>1, <2>2 DEF CandleOf
    <2>5. \A r \in rows : r.source = "deriv" /\ r.time = k[3] => r = q
      BY <1>4, <2>1, <2>4 DEF CandlesAreUpToDate
    <2> QED BY <2>1, <2>3, <2>5
  <1> QED BY <1>3, <1>5, <1>6 DEF rows

\* From the message of Deriv to the answer of the gateway, for any symbols, granularities and
\* messages, for every order in which they are stored and every loss on the way: a client is
\* told nothing that Deriv did not say of the candle, and the last update of it, unless
\* that is still on its way, was dropped there, overwritten by an older one that the other
\* of the two writers stored after it, or removed by the retention policy.
THEOREM AnswersAreTheLatest == Spec => []AnswersAreUpToDate
  <1>1. CandlesInv => CandlesAreUpToDate
    BY DEF CandlesInv
  <1> QED BY AnswersFollow, TypeCorrect, RowsAreTrue, CandlesAlways, <1>1, PTL
=============================================================================
