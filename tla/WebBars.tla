------------------------------ MODULE WebBars -------------------------------
(***************************************************************************)
(* The price bars the web terminal keeps of one symbol (tickData,          *)
(* candleData and volumeData of web/src/App.tsx): per granularity, a       *)
(* sequence of points for the line chart, one of candles and one of volume *)
(* bars.  An answer of /api/mdg/history replaces them, a failed request    *)
(* empties them, and the ticks that a WebSocket delivers are folded into   *)
(* them one by one.                                                        *)
(*                                                                         *)
(* A tick is filed under the granularity, and quantised by the interval,   *)
(* that the handler of the socket captured when it was made; the selection *)
(* may have moved on since.  Which requests are made, and in which order   *)
(* they are answered, is the subject of WebMarket; here any answer may     *)
(* come at any time.                                                       *)
(*                                                                         *)
(* Times are positions on a small clock, prices are positive integers, and *)
(* the bars of an answer are in time order, as the gateway returns them.   *)
(***************************************************************************)
EXTENDS Integers, Sequences, FiniteSets

CONSTANTS Granularities,   \* keys of the store; "1d", "1w", "1y", "ytd" and "all" are told apart
          Intervals,       \* lengths of a bar that can be selected (getIntervalSeconds)
          Prices,
          Answers,         \* the bar sequences that the history service may return
          Window,          \* the span that a granularity other than those shows
          Day, Year,       \* lengths of the day and of the year
          Cap,             \* points kept by a live tick: 500
          LiveSpan, LiveFill,       \* gap that a live tick fills: 12 hours, 50 bars
          HistorySpan, HistoryFill, \* gap that an answer fills: 18 hours, 120 bars
          MaxTime,         \* bound: the clock
          MaxEvents        \* bound: answers, failures and ticks

ASSUME WebBarsAssumption ==
    /\ Intervals \subseteq Nat \ {0}
    /\ Prices \subseteq Nat \ {0}
    /\ Window \in [Granularities -> Nat]
    /\ Day \in Nat \ {0} /\ Year \in Nat \ {0} /\ Cap \in Nat \ {0}
    /\ LiveSpan \in Nat /\ LiveFill \in Nat
    /\ HistorySpan \in Nat /\ HistoryFill \in Nat
    /\ MaxTime \in Nat /\ MaxEvents \in Nat

VARIABLES now,       \* Date.now(), in seconds
          ticks,     \* tickData: points of the line chart, per granularity
          candles,   \* candleData
          vols,      \* volumeData: a time and whether the bar rose
          loaded,    \* granularities that candleData has an entry for
          late,      \* history: the last tick filed was older than the last candle
          events     \* number of events so far

barVars == <<now, ticks, candles, vols, loaded, late, events>>

Times == 0..MaxTime
Bar == [time : Nat, open : Prices, high : Prices, low : Prices, close : Prices]
Point == [time : Nat, value : Prices]
Volume == [time : Nat, up : BOOLEAN]

Flat(t, p) == [time |-> t, open |-> p, high |-> p, low |-> p, close |-> p]
LastOf(s) == s[Len(s)]
Ordered(s) == \A i, j \in 1..Len(s) : i < j => s[i].time < s[j].time
Shaped(b) == /\ b.low <= b.open /\ b.open <= b.high
             /\ b.low <= b.close /\ b.close <= b.high
Lesser(a, b) == IF a <= b THEN a ELSE b
Greater(a, b) == IF a >= b THEN a ELSE b

BarsTypeOK ==
    /\ now \in Times
    /\ ticks \in [Granularities -> Seq(Point)]
    /\ candles \in [Granularities -> Seq(Bar)]
    /\ vols \in [Granularities -> Seq(Volume)]
    /\ loaded \in SUBSET Granularities
    /\ late \in [Granularities -> BOOLEAN]
    /\ events \in 0..MaxEvents

BarsInit ==
    /\ now \in Times
    /\ ticks = [g \in Granularities |-> <<>>]
    /\ candles = [g \in Granularities |-> <<>>]
    /\ vols = [g \in Granularities |-> <<>>]
    /\ loaded = {}
    /\ late = [g \in Granularities |-> FALSE]
    /\ events = 0

Event == events < MaxEvents /\ events' = events + 1

\* Of the history service: bars in time order, well formed.
ASSUME AnswersAssumption ==
    \A bars \in Answers :
        /\ bars \in Seq(Bar)
        /\ Ordered(bars)
        /\ \A i \in 1..Len(bars) : Shaped(bars[i])

\* The clock of the browser.
Elapse ==
    /\ now < MaxTime
    /\ now' = now + 1
    /\ UNCHANGED <<ticks, candles, vols, loaded, late, events>>

-----------------------------------------------------------------------------
(***************************************************************************)
(* Folding in a live tick                                                  *)
(***************************************************************************)
quantized(t, step) == (t \div step) * step

\* The flat bars at bar.time + step, bar.time + 2 step, ... before `until',
\* at most `most' of them.
fillCount(bar, step, until, most) == Lesser(most, (until - bar.time - 1) \div step)
filled(bar, step, until, most) ==
    [i \in 1..fillCount(bar, step, until, most) |-> Flat(bar.time + i * step, bar.close)]

capped(s) == IF Len(s) > Cap THEN SubSeq(s, Len(s) - Cap + 1, Len(s)) ELSE s

\* A tick within an interval of the last point replaces its value, even when
\* it is older than that point.
foldTick(s, t, p, step) ==
    capped(IF s # <<>> /\ t - LastOf(s).time < step
           THEN [s EXCEPT ![Len(s)].value = p]
           ELSE Append(s, [time |-> t, value |-> p]))

updated(bar, p) ==
    [bar EXCEPT !.high = Greater(bar.high, p), !.low = Lesser(bar.low, p), !.close = p]

\* MUTANT: the gap is filled up to and including the new bar's time.
gapFill_Through(s, q, step) ==
    IF s # <<>> /\ q - LastOf(s).time > step /\ q - LastOf(s).time <= LiveSpan
    THEN filled(LastOf(s), step, q + 1, LiveFill)
    ELSE <<>>
gapFill(s, q, step) ==
    IF s # <<>> /\ q - LastOf(s).time > step /\ q - LastOf(s).time <= LiveSpan
    THEN filled(LastOf(s), step, q, LiveFill)
    ELSE <<>>

foldCandle(s, t, p, step) ==
    LET q == quantized(t, step) IN
    capped(CASE s # <<>> /\ q = LastOf(s).time -> [s EXCEPT ![Len(s)] = updated(LastOf(s), p)]
             [] s = <<>> \/ q > LastOf(s).time -> s \o gapFill(s, q, step) \o <<Flat(q, p)>>
             [] OTHER -> s)

\* onmessage of a tick, in a handler that captured granularity g and an
\* interval of `step'.
LiveTick(g, step, t, p) ==
    /\ Event
    /\ ticks' = [ticks EXCEPT ![g] = foldTick(@, t, p, step)]
    /\ candles' = [candles EXCEPT ![g] = foldCandle(@, t, p, step)]
    /\ late' = [late EXCEPT ![g] =
                   candles[g] # <<>> /\ quantized(t, step) < LastOf(candles[g]).time]
    /\ loaded' = loaded \cup {g}
    /\ UNCHANGED <<now, vols>>

-----------------------------------------------------------------------------
(***************************************************************************)
(* The end of fetchHistoricalData                                          *)
(***************************************************************************)
InScope(t, latest, g) ==
    CASE g = "1d" -> t \div Day = latest \div Day
      [] g = "ytd" -> t \div Year = latest \div Year
      [] g = "all" -> TRUE
      [] OTHER -> t >= latest - Window[g]

\* The bars in scope of the latest one.  Bars in time order that are in scope
\* are the last ones.
filterTimeframeBars(bars, g) ==
    LET kept == Cardinality({i \in 1..Len(bars) : InScope(bars[i].time, LastOf(bars).time, g)})
    IN  SubSeq(bars, Len(bars) - kept + 1, Len(bars))

padded(bars, g, step) ==
    LET until == quantized(now, step)
    IN  IF /\ bars # <<>>
           /\ g \in {"1d", "1w"}
           /\ until > LastOf(bars).time + step
           /\ until - LastOf(bars).time <= HistorySpan
        THEN bars \o filled(LastOf(bars), step, until, HistoryFill)
        ELSE bars

LinePoints(bars) == [i \in 1..Len(bars) |-> [time |-> bars[i].time, value |-> bars[i].close]]
VolumeBars(bars) == [i \in 1..Len(bars) |-> [time |-> bars[i].time, up |-> bars[i].close >= bars[i].open]]

\* An answer to a request for granularity g and an interval of `step'.
HistoryArrives(g, step, bars) ==
    /\ Event
    /\ LET processed == padded(filterTimeframeBars(bars, g), g, step) IN
         /\ ticks' = [ticks EXCEPT ![g] = LinePoints(processed)]
         /\ candles' = [candles EXCEPT ![g] = processed]
         /\ vols' = [vols EXCEPT ![g] = VolumeBars(processed)]
    /\ late' = [late EXCEPT ![g] = FALSE]
    /\ loaded' = loaded \cup {g}
    /\ UNCHANGED now

\* MUTANT: only the candles are emptied.
HistoryFails_CandlesOnly(g) ==
    /\ Event
    /\ candles' = [candles EXCEPT ![g] = <<>>]
    /\ late' = [late EXCEPT ![g] = FALSE]
    /\ loaded' = loaded \cup {g}
    /\ UNCHANGED <<now, ticks, vols>>
\* A request that fails while the real feed is selected: points and candles
\* are emptied, the volume bars stay.  In mock mode nothing changes.
HistoryFails(g) ==
    /\ Event
    /\ ticks' = [ticks EXCEPT ![g] = <<>>]
    /\ candles' = [candles EXCEPT ![g] = <<>>]
    /\ late' = [late EXCEPT ![g] = FALSE]
    /\ loaded' = loaded \cup {g}
    /\ UNCHANGED <<now, vols>>

\* The request for a year of daily bars in the background of another one
\* brings candles only, neither filtered nor filled.
PrefetchArrives(bars) ==
    /\ Event
    /\ "1y" \in Granularities
    /\ candles' = [candles EXCEPT !["1y"] = bars]
    /\ loaded' = loaded \cup {"1y"}
    /\ UNCHANGED <<now, ticks, vols, late>>

-----------------------------------------------------------------------------
BarsNext ==
    \/ Elapse
    \/ \E g \in Granularities, step \in Intervals, t \in Times, p \in Prices :
          LiveTick(g, step, t, p)
    \/ \E g \in Granularities, step \in Intervals, bars \in Answers :
          HistoryArrives(g, step, bars)
    \/ \E g \in Granularities : HistoryFails(g)
    \/ \E bars \in Answers : PrefetchArrives(bars)

BarsSpec == BarsInit /\ [][BarsNext]_barVars

-----------------------------------------------------------------------------
(***************************************************************************)
(* Properties                                                              *)
(***************************************************************************)

\* What the chart library accepts: the times of the points and of the candles
\* of every granularity increase strictly, whatever intervals the sockets
\* captured and however answers and ticks are mixed, and a candle's open and
\* close lie between its low and its high.
BarsWellFormed ==
    \A g \in Granularities :
        /\ Ordered(ticks[g])
        /\ Ordered(candles[g])
        /\ \A i \in 1..Len(candles[g]) : Shaped(candles[g][i])

\* The line chart and the candles end at the same price, unless the last tick
\* was older than the last candle: the points take its price, the candles
\* ignore it.  (The year's candles can also come alone, from a prefetch.)
LastPricesAgree ==
    \A g \in Granularities \ {"1y"} :
        /\ (ticks[g] = <<>>) <=> (candles[g] = <<>>)
        /\ ticks[g] # <<>> /\ ~late[g] => LastOf(ticks[g]).value = LastOf(candles[g]).close
=============================================================================
