------------------------------ MODULE BarMath -------------------------------
(***************************************************************************)
(* The figures that web/src/App.tsx computes from bars and trades: moving  *)
(* averages, MACD, RSI, trade markers, and the statistics of a symbol.     *)
(*                                                                         *)
(* Prices are whole cents.  The code computes in floating point and rounds *)
(* to two decimals; here an average is an exact quotient of integers that  *)
(* Round brings to the nearest cent.  A point is a time and a value, a bar *)
(* has the four prices, and a price of 0 is one that is not known.         *)
(***************************************************************************)
EXTENDS Integers, Sequences, FiniteSets, SequencesExt, Sums

\* Number(x.toFixed(2)) of the quotient n / d.
Round(n, d) == IF n >= 0 THEN (2 * n + d) \div (2 * d) ELSE -((d - 2 * n) \div (2 * d))

\* s.filter: the elements at the places I, in their order.
Picked(s, I) ==
    LET picked[n \in 0..Len(s)] ==
            CASE n = 0 -> <<>>
              [] n # 0 /\ n \in I -> Append(picked[n - 1], s[n])
              [] OTHER -> picked[n - 1]
    IN  picked[Len(s)]

TimesOf(s) == {s[i].time : i \in 1..Len(s)}
At(s, t) == s[CHOOSE i \in 1..Len(s) : s[i].time = t]
OrElse(price, other) == IF price # 0 THEN price ELSE other

-----------------------------------------------------------------------------
(***************************************************************************)
(* Moving averages and oscillators                                         *)
(***************************************************************************)

\* MUTANT: the value that leaves the window is subtracted one bar late.
RunningSum_LateDrop(data, period) ==
    LET sum[i \in 0..Len(data)] ==
            IF i = 0 THEN 0
            ELSE sum[i - 1] + data[i].value
                   - (IF i > period + 1 THEN data[i - period].value ELSE 0)
    IN  sum
RunningSum(data, period) ==
    LET sum[i \in 0..Len(data)] ==
            IF i = 0 THEN 0
            ELSE sum[i - 1] + data[i].value
                   - (IF i > period THEN data[i - period].value ELSE 0)
    IN  sum

\* With `progressive', the first bars are averaged over what there is.
calculateSMA(data, period, progressive) ==
    LET sum == RunningSum(data, period)
        first == IF progressive THEN 1 ELSE period
    IN  IF period <= 0 \/ (~progressive /\ Len(data) < period) THEN <<>>
        ELSE [i \in 1..Len(data) - first + 1 |->
                LET k == i + first - 1
                IN  [time |-> data[k].time, value |-> Round(sum[k], Min({k, period}))]]

\* ema[i] = k * value[i] + (1 - k) * ema[i - 1] with k = 2 / (period + 1), as a
\* quotient.
Smoothed(data, period) ==
    LET ema[i \in 1..Len(data)] ==
            IF i = 1 THEN [num |-> data[1].value, den |-> 1]
            ELSE LET last == ema[i - 1]
                 IN  [num |-> 2 * data[i].value * last.den + (period - 1) * last.num,
                      den |-> (period + 1) * last.den]
    IN  ema
calculateEMA(data, period) ==
    LET ema == Smoothed(data, period)
    IN  IF period <= 0 THEN <<>>
        ELSE [i \in 1..Len(data) |->
                [time |-> data[i].time, value |-> Round(ema[i].num, ema[i].den)]]

\* DIF, DEA and the histogram, joined by the time of the bar.
calculateMACD(data, fastPeriod, slowPeriod, signalPeriod) ==
    LET fast == calculateEMA(data, fastPeriod)
        slow == calculateEMA(data, slowPeriod)
        common == Picked(fast, {i \in 1..Len(fast) : fast[i].time \in TimesOf(slow)})
        dif == [i \in 1..Len(common) |->
                  [time |-> common[i].time,
                   value |-> common[i].value - At(slow, common[i].time).value]]
        dea == calculateEMA(dif, signalPeriod)
    IN  [dif |-> dif,
         dea |-> dea,
         hist |-> [i \in 1..Len(dif) |->
                     [time |-> dif[i].time,
                      value |-> 2 * (dif[i].value - At(dea, dif[i].time).value)]]]

\* The averages of gains and losses over `period' prices, as numerators over
\* the same denominator, after every price from the first whole period on.  The
\* first one sums period - 1 differences.
SmoothedMoves(prices, period) ==
    LET up == [i \in 2..Len(prices) |-> Max({prices[i] - prices[i - 1], 0})]
        down == [i \in 2..Len(prices) |-> Max({prices[i - 1] - prices[i], 0})]
        avg[i \in period..Len(prices)] ==
            IF i = period
            THEN [gain |-> Total(up, 2..period), loss |-> Total(down, 2..period), den |-> period]
            ELSE LET last == avg[i - 1]
                 IN  [gain |-> last.gain * (period - 1) + up[i] * last.den,
                      loss |-> last.loss * (period - 1) + down[i] * last.den,
                      den |-> last.den * period]
    IN  avg

\* In hundredths: 100 - 100 / (1 + gain / loss).
calculateRSI(prices, period) ==
    IF Len(prices) < period THEN 5000
    ELSE LET avg == SmoothedMoves(prices, period)[Len(prices)]
         IN  IF avg.loss = 0 THEN 10000
             ELSE Round(10000 * avg.gain, avg.gain + avg.loss)

-----------------------------------------------------------------------------
(***************************************************************************)
(* Trade markers                                                           *)
(***************************************************************************)

\* The bar that a trade is drawn at: the last one that is not newer, the first
\* one if all are newer, its own time if there are no bars.
mappedTime(trade, bars) ==
    LET before == {t \in TimesOf(bars) : t <= trade.time}
    IN  CASE bars = <<>> -> trade.time
          [] bars # <<>> /\ before = {} -> bars[1].time
          [] OTHER -> Max(before)

\* MUTANT: trades are grouped by bar alone.
groupKey_BarOnly(trade, bars) == <<mappedTime(trade, bars), "BUY">>
groupKey(trade, bars) == <<mappedTime(trade, bars), trade.action>>

\* A trade without a quantity counts as DefaultQty.
DefaultQty == 100
qtyOf(trade) == IF trade.qty > 0 THEN trade.qty ELSE DefaultQty

ownTrades(trades, symbol) == {i \in 1..Len(trades) : trades[i].symbol = symbol}
Quantities(trades, group) == Total([i \in group |-> qtyOf(trades[i])], group)
Values(trades, group) == Total([i \in group |-> trades[i].price * qtyOf(trades[i])], group)

\* A BUY is drawn at the low of its bar and a SELL at the high; without bars,
\* at the average price.
markerAt(trades, group, bars, key) ==
    [time |-> key[1],
     action |-> key[2],
     count |-> Cardinality(group),
     totalQty |-> Quantities(trades, group),
     totalVal |-> Values(trades, group),
     price |-> CASE bars = <<>> -> Round(Values(trades, group), Quantities(trades, group))
                 [] bars # <<>> /\ key[2] = "BUY" -> At(bars, key[1]).low
                 [] OTHER -> At(bars, key[1]).high]

\* One marker per bar and action, as a set (the code sorts them by time).
aggregateTradeMarkers(trades, symbol, bars) ==
    LET own == ownTrades(trades, symbol)
        group(key) == {i \in own : groupKey(trades[i], bars) = key}
    IN  {markerAt(trades, group(key), bars, key) : key \in {groupKey(trades[i], bars) : i \in own}}

-----------------------------------------------------------------------------
(***************************************************************************)
(* Statistics of a symbol                                                  *)
(***************************************************************************)
Highs(bars) == {bars[i].high : i \in 1..Len(bars)}
Lows(bars) == {bars[i].low : i \in 1..Len(bars)}

\* base: the hard-coded price and 52-week range of the symbol.
getStockStats(base, candleRaw, candles1Y) ==
    LET wHigh == Max(Highs(candles1Y) \cup {base.wHigh})
        wLow == Min(Lows(candles1Y) \cup {base.wLow})
    IN  IF candleRaw = <<>>
        THEN [currentPrice |-> base.price, open |-> base.price, high |-> base.price,
              low |-> base.price, wHigh |-> wHigh, wLow |-> wLow]
        ELSE [currentPrice |-> candleRaw[Len(candleRaw)].close,
              open |-> candleRaw[1].open,
              high |-> Max(Highs(candleRaw)),
              low |-> Min(Lows(candleRaw)),
              wHigh |-> Max(Highs(candleRaw) \cup {wHigh}),
              wLow |-> Min(Lows(candleRaw) \cup {wLow})]

\* The places of the bars between the opening and the closing minute of their
\* day.
Regular(bars, day, open, close) ==
    {i \in 1..Len(bars) : bars[i].time % day \in open..close}

\* Open, high and low of the day of the last bar, from its regular session if
\* it has one.
getTodayStats(bars, day, open, close) ==
    LET lastDay == bars[Len(bars)].time \div day
        today == {i \in 1..Len(bars) : bars[i].time \div day = lastDay}
        regular == today \cap Regular(bars, day, open, close)
        target == Picked(bars, IF regular # {} THEN regular ELSE today)
    IN  IF bars = <<>> THEN [open |-> 0, high |-> 0, low |-> 0]
        ELSE [open |-> target[1].open, high |-> Max(Highs(target)), low |-> Min(Lows(target))]

\* The latest price, and open and close of the regular session: those of the
\* last daily bar, else of the bars of regular hours, else of all bars.
getMarketSessionPrices(bars, daily, day, open, close) ==
    LET latestPrice == CASE bars # <<>> -> bars[Len(bars)].close
                         [] bars = <<>> /\ daily # <<>> -> daily[Len(daily)].close
                         [] OTHER -> 0
        regular == Regular(bars, day, open, close)
        hours == IF regular # {} THEN regular ELSE 1..Len(bars)
        first == IF daily # <<>> THEN daily[Len(daily)] ELSE bars[Min(hours)]
        last == IF daily # <<>> THEN daily[Len(daily)] ELSE bars[Max(hours)]
    IN  IF bars = <<>> /\ daily = <<>>
        THEN [regularOpen |-> 0, regularClose |-> 0, latestPrice |-> 0]
        ELSE [regularOpen |-> first.open, regularClose |-> last.close, latestPrice |-> latestPrice]
=============================================================================
