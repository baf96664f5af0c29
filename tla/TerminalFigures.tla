-------------------------- MODULE TerminalFigures ---------------------------
(***************************************************************************)
(* What web/src/App.tsx shows of one symbol: the bars of WebBars and the   *)
(* figures of BarMath computed from them, with the trades of the symbol.   *)
(* The figures are computed again at every render, so that they are        *)
(* functions of the bars; the properties relate figures that come from     *)
(* different parts of the store.                                           *)
(***************************************************************************)
EXTENDS WebBars, BarMath

CONSTANTS Symbol,        \* selectedTicker
          DailyIntervals,           \* dailyIntervals, as lengths
          Base,          \* hard-coded price and 52-week range of the symbol
          Open, Close,   \* 9:30 and 16:00, in a day
          Fast, Slow, Signal,       \* 12, 26 and 9
          MaPeriod,      \* 50 for the SMA; 9 and 21 for the EMAs
          RsiPeriod,     \* 14
          Trades,        \* the trades that can be reported
          MaxStored      \* bound: trades in the BFF's list

\* Prices in cents, times and quantities are numbers.
ASSUME TradesAssumption ==
    /\ \A t \in Trades : t.time \in Int /\ t.price \in Int /\ t.qty \in Int
    /\ MaxStored \in Nat

\* The figures read the day and the year; the table of base prices has a price
\* and a range for every symbol.  An RSI over one price would forget the past.
ASSUME FiguresAssumption ==
    /\ {"1d", "1y"} \subseteq Granularities
    /\ Base.price \in Nat \ {0} /\ Base.wHigh \in Int /\ Base.wLow \in Int
    /\ Open \in Int /\ Close \in Int
    /\ {Fast, Slow, Signal, MaPeriod} \subseteq Nat \ {0}
    /\ RsiPeriod \in Nat /\ RsiPeriod >= 2

VARIABLE trades

vars == <<barVars, trades>>

Init == BarsInit /\ trades = <<>>

\* A trade_execution message, or the answer to executeSimulatedTrade: the
\* newest trade comes first.
TradeArrives(t) ==
    /\ Event
    /\ trades' = <<t>> \o trades
    /\ UNCHANGED <<now, ticks, candles, vols, loaded, late>>

\* The answer of fetchTrades replaces the trades by the BFF's list, which may
\* lack the newest of them, and the simulated ones.
fetchTrades(stored) ==
    /\ Event
    /\ trades' = stored
    /\ UNCHANGED <<now, ticks, candles, vols, loaded, late>>

clearSimulatedTrades ==
    /\ trades # <<>>
    /\ trades' = <<>>
    /\ UNCHANGED barVars

Next == \/ BarsNext /\ UNCHANGED trades
        \/ \E t \in Trades : TradeArrives(t)
        \/ \E stored \in UNION {[1..n -> Trades] : n \in 0..MaxStored} : fetchTrades(stored)
        \/ clearSimulatedTrades

Spec == Init /\ [][Next]_vars

-----------------------------------------------------------------------------
(***************************************************************************)
(* Bars for the indicators, and the detail of a bar                        *)
(***************************************************************************)
ChartTypes == {"line", "candlestick"}

ClosePoints(bars) == [i \in 1..Len(bars) |-> [time |-> bars[i].time, value |-> bars[i].close]]
shownBars(g, chartType) ==
    IF chartType = "line" THEN ticks[g] ELSE ClosePoints(candles[g])

checkIsDailyOrHigher(g, interval) == g \notin {"1d", "1w"} \/ interval \in DailyIntervals

\* The year's daily bars, or all of them if the year was never loaded.
dailyBars ==
    CASE "1y" \in loaded -> candles["1y"]
      [] "1y" \notin loaded /\ "all" \in loaded -> candles["all"]
      [] OTHER -> <<>>

\* MUTANT: bars of the year that are newer than the first bar shown are kept.
warmupBars_NotShown(current) ==
    Picked(dailyBars, {i \in 1..Len(dailyBars) : dailyBars[i].time \notin TimesOf(current)})
\* The daily bars before the first bar shown.
warmupBars(current) ==
    Picked(dailyBars, {i \in 1..Len(dailyBars) :
                          /\ dailyBars[i].time \notin TimesOf(current)
                          /\ current = <<>> \/ dailyBars[i].time < current[1].time})

\* The bars shown, preceded by older daily bars when there are more of those.
\* The code sorts the two together; the daily bars kept are all older.
getFullPriceBarsForIndicators(g, interval, chartType) ==
    LET current == shownBars(g, chartType)
    IN  IF checkIsDailyOrHigher(g, interval) /\ Len(dailyBars) > Len(current)
        THEN ClosePoints(warmupBars(current)) \o current
        ELSE current

\* The bar with time t, or the first of the closest ones.
closest(bars, t) ==
    LET diff(i) == IF bars[i].time >= t THEN bars[i].time - t ELSE t - bars[i].time
    IN  CHOOSE i \in 1..Len(bars) :
            \A j \in 1..Len(bars) : diff(i) < diff(j) \/ (diff(i) = diff(j) /\ i <= j)

\* The value of a series at a time, as a set: it is empty where the code has null.
valueAt(s, t) == IF t \in TimesOf(s) THEN {At(s, t).value} ELSE {}

\* The card of the bar at time t: the candle, else the point; the volume bar at
\* t, else the one at the candle's index; and the indicators.
getBarDetailAtTime(g, interval, chartType, t) ==
    LET bars == candles[g]
        points == ticks[g]
        c == closest(bars, t)
        p == closest(points, t)
        close == CASE bars # <<>> -> bars[c].close
                   [] bars = <<>> /\ points # <<>> -> points[p].value
                   [] OTHER -> 0
        prevClose == CASE bars # <<>> /\ c > 1 -> bars[c - 1].close
                       [] bars # <<>> /\ c = 1 -> bars[c].open
                       [] bars = <<>> /\ points # <<>> /\ p > 1 -> points[p - 1].value
                       [] OTHER -> close
        matched == IF bars # <<>> THEN bars[c].time ELSE t
        full == getFullPriceBarsForIndicators(g, interval, chartType)
        macd == calculateMACD(full, Fast, Slow, Signal)
    IN  [time |-> t,
         close |-> close,
         change |-> close - prevClose,
         volumeOf |-> CASE t \in TimesOf(vols[g]) -> {t}
                        [] t \notin TimesOf(vols[g]) /\ bars # <<>> /\ c <= Len(vols[g])
                             -> {vols[g][c].time}
                        [] OTHER -> {},
         ema |-> valueAt(calculateEMA(full, MaPeriod), matched),
         sma |-> valueAt(calculateSMA(full, MaPeriod, TRUE), matched),
         dif |-> valueAt(macd.dif, matched),
         dea |-> valueAt(macd.dea, matched),
         hist |-> valueAt(macd.hist, matched)]

\* The card shown when nothing is hovered over: that of the last bar.
getLatestBarDetail(g, interval, chartType) ==
    getBarDetailAtTime(g, interval, chartType,
        CASE candles[g] # <<>> -> LastOf(candles[g]).time
          [] candles[g] = <<>> /\ ticks[g] # <<>> -> LastOf(ticks[g]).time
          [] OTHER -> now)

-----------------------------------------------------------------------------
(***************************************************************************)
(* The header and the key statistics                                       *)
(***************************************************************************)
getPeriodChangeInfo(g) ==
    LET bars == IF candles["1d"] # <<>> THEN candles["1d"] ELSE candles[g]
        session == getMarketSessionPrices(bars, candles["1y"], Day, Open, Close)
        currentPrice ==
            CASE session.latestPrice > 0 -> session.latestPrice
              [] session.latestPrice = 0 /\ ticks["1d"] # <<>> -> LastOf(ticks["1d"]).value
              [] session.latestPrice = 0 /\ ticks["1d"] = <<>> /\ ticks[g] # <<>>
                   -> LastOf(ticks[g]).value
              [] OTHER -> 0
        closePrice == OrElse(session.regularClose, currentPrice)
        openPrice == OrElse(session.regularOpen, currentPrice)
        startPrice ==
            CASE g = "1d" -> OrElse(openPrice, currentPrice)
              [] g # "1d" /\ candles[g] # <<>> -> candles[g][1].open
              [] g # "1d" /\ candles[g] = <<>> /\ ticks[g] # <<>> -> ticks[g][1].value
              [] g # "1d" /\ candles[g] = <<>> /\ ticks[g] = <<>> /\ candles["1d"] # <<>>
                   -> candles["1d"][1].open
              [] OTHER -> currentPrice
    IN  [currentPrice |-> currentPrice,
         startPrice |-> startPrice,
         change |-> OrElse(currentPrice, closePrice) - startPrice,
         closeChange |-> closePrice - openPrice,
         offHoursChange |-> currentPrice - closePrice]

\* MUTANT: the live price is left out of the 52-week range.
fiftyTwoWeeks_NoLive(stats, today, currentPrice) ==
    [wHigh |-> Max({stats.wHigh, today.high}),
     wLow |-> IF currentPrice > 0 /\ today.low > 0
              THEN Min({stats.wLow, today.low}) ELSE stats.wLow]
fiftyTwoWeeks(stats, today, currentPrice) ==
    [wHigh |-> Max({stats.wHigh, currentPrice, today.high}),
     wLow |-> IF currentPrice > 0 /\ today.low > 0
              THEN Min({stats.wLow, currentPrice, today.low}) ELSE stats.wLow]

keyStats(g, isMock) ==
    LET stats == getStockStats(Base, IF g \in loaded THEN candles[g] ELSE candles["1d"],
                               candles["1y"])
        today == getTodayStats(candles["1d"], Day, Open, Close)
        fallback(price) == IF isMock THEN price ELSE 0
        shown == [open |-> OrElse(today.open, fallback(stats.open)),
                  high |-> OrElse(today.high, fallback(stats.high)),
                  low |-> OrElse(today.low, fallback(stats.low))]
        price == getPeriodChangeInfo(g).currentPrice
        year == fiftyTwoWeeks(stats, shown, price)
    IN  [currentPrice |-> price, open |-> shown.open, high |-> shown.high, low |-> shown.low,
         wHigh |-> year.wHigh, wLow |-> year.wLow]

-----------------------------------------------------------------------------
(***************************************************************************)
(* Properties                                                              *)
(***************************************************************************)

\* A card with the close of its bar and a value of every indicator.
CardComplete(card, bar) ==
    /\ card.close = bar.close
    /\ {} \notin {card.ema, card.sma, card.dif, card.dea, card.hist}
    /\ card.hist = {2 * (x - y) : x \in card.dif, y \in card.dea}

\* Every bar on the candlestick chart has its card: its own close, and a value
\* of every indicator although the bars that the indicators are computed from
\* reach further back than the chart.  Those bars are in time order, so that
\* the joins by time lose and mix up nothing.
DetailsComplete ==
    \A g \in Granularities, interval \in Intervals, chartType \in ChartTypes :
        /\ Ordered(getFullPriceBarsForIndicators(g, interval, chartType))
        /\ chartType = "candlestick" =>
              \A i \in 1..Len(candles[g]) :
                  CardComplete(getBarDetailAtTime(g, interval, chartType, candles[g][i].time),
                               candles[g][i])

PricesOf(points) == [i \in 1..Len(points) |-> points[i].value]
PricesUpTo(points, k) == {points[i].value : i \in 1..k}

\* The running sum of the SMA is the sum of its window at every bar, also where
\* the first bars are averaged over what there is; and an EMA stays between the
\* lowest and the highest price so far.
AveragesExact(points) ==
    LET n == Len(points)
        sma == calculateSMA(points, MaPeriod, TRUE)
        ema == calculateEMA(points, MaPeriod)
    IN  /\ \A k \in 1..n :
              LET window == Greater(1, k - MaPeriod + 1)..k IN
              /\ sma[k].value = Round(Total(PricesOf(points), window), Cardinality(window))
              /\ Min(PricesUpTo(points, k)) <= ema[k].value
              /\ ema[k].value <= Max(PricesUpTo(points, k))
        /\ calculateSMA(points, MaPeriod, FALSE)
              = IF n < MaPeriod THEN <<>> ELSE SubSeq(sma, MaPeriod, n)

\* Prices turned upside down, at half of the given level.
Mirrored(prices, level) == [i \in 1..Len(prices) |-> level - prices[i]]

\* Prices mirrored between their high and low have the complementary RSI, unless
\* they never moved (the code then shows 100).
RSIComplementary(points) ==
    LET n == Len(points)
        values == PricesUpTo(points, n)
        prices == PricesOf(points)
        mirror == Mirrored(prices, Max(values) + Min(values))
        rsi == calculateRSI(prices, RsiPeriod)
    IN  /\ n >= RsiPeriod /\ Cardinality(values) = 1 => rsi = 10000
        /\ Cardinality(values) > 1 => rsi + calculateRSI(mirror, RsiPeriod) \in {10000, 10001}

\* The indicators of the line chart's points are what their definitions say,
\* although they are computed by running sums and recurrences.
IndicatorsExact ==
    \A g \in Granularities : AveragesExact(ticks[g]) /\ RSIComplementary(ticks[g])

\* What the markers of a list of trades account for, with the given bars.
Conserved(list, bars) ==
    LET markers == aggregateTradeMarkers(list, Symbol, bars)
        own == ownTrades(list, Symbol)
        prices(action) == {list[i].price : i \in {j \in own : list[j].action = action}}
    IN  /\ Total([m \in markers |-> m.count], markers) = Cardinality(own)
        /\ Total([m \in markers |-> m.totalQty], markers) = Quantities(list, own)
        /\ \A m \in markers :
              /\ bars # <<>> => m.time \in TimesOf(bars)
              /\ prices(m.action) # {}
              /\ m.totalVal >= Min(prices(m.action)) * m.totalQty
              /\ m.totalVal <= Max(prices(m.action)) * m.totalQty
              /\ \A n \in markers : n.time = m.time /\ n.action = m.action => n = m

\* Markers account for every trade of the symbol once, whatever bars are
\* loaded: counts and quantities add up, a bar has at most one marker per
\* action, a marker sits on a bar that is shown, and its average price lies
\* between the prices of the trades of that action.
MarkersConserve == \A g \in Granularities : Conserved(trades, candles[g])

\* The price in the header lies in the 52-week range shown beside it, although
\* the two come from different keys of the store that are loaded at different
\* times; the day's range lies in it too; and on the one-day chart the change of
\* the session and the change after hours add up to the change of the day.
\* (The exception is a year whose candles an empty prefetch has removed: its
\* price then comes from points that no range takes in.)
HeadlineConsistent ==
    \A g \in {k \in Granularities : ticks[k] # <<>> => candles[k] # <<>>}, isMock \in BOOLEAN :
        LET stats == keyStats(g, isMock)
            info == getPeriodChangeInfo(g)
        IN  /\ info.currentPrice > 0 =>
                  stats.wLow <= info.currentPrice /\ info.currentPrice <= stats.wHigh
            /\ stats.low > 0 => /\ stats.low <= stats.high
                                /\ stats.high <= stats.wHigh
                                /\ info.currentPrice > 0 => stats.wLow <= stats.low
            /\ g = "1d" => info.change = info.closeChange + info.offHoursChange
=============================================================================
