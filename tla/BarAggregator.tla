---------------------------- MODULE BarAggregator ---------------------------
(***************************************************************************)
(* The bar aggregator (cmd/bar_aggregator): one goroutine receives ticks   *)
(* and routes them to a bounded channel per symbol; one goroutine per      *)
(* symbol folds them into bars by event time.                              *)
(*                                                                         *)
(* Ticks arrive in any order: the gateway publishes every websocket        *)
(* message from a goroutine of its own.                                    *)
(***************************************************************************)
EXTENDS Sequences, Sums

CONSTANTS Symbols,
          Times, Prices, Sizes,  \* what a tick may carry
          WindowSize,            \* windowSizeMS
          Watermark,             \* watermarkMS
          Capacity,              \* of tickChan (1000)
          MaxTicks,              \* bound: ticks received
          MaxSendFailures,       \* bound: bars the PUB socket fails to send
          NoTick, NoBar

Tick == [symbol : Symbols, time : Times, price : Prices, size : Sizes]
Bar == [symbol : Symbols, open : Int, high : Int, low : Int, close : Int,
        volume : Int, start : Int, last : Int]

ASSUME AggregatorAssumption ==
    /\ Times \subseteq Nat
    /\ Prices \subseteq Int
    /\ Sizes \subseteq Int
    /\ WindowSize \in Nat \ {0}
    /\ Watermark \in 0..WindowSize
    /\ Capacity \in Nat \ {0}
    /\ MaxTicks \in Nat
    /\ MaxSendFailures \in Nat
    /\ NoTick \notin Tick
    /\ NoBar \notin Bar

VARIABLES running,       \* FALSE once the context is cancelled
          routing,       \* the tick the router holds
          tickChan,      \* per symbol
          currentBar,    \* per symbol, NoBar before the first tick
          previousBar,   \* per symbol, kept for late ticks
          published,     \* the bars sent, in order
          received,      \* ticks received so far
          unsent,        \* history: bars that failed to be sent
          counted,       \* history: the ticks folded into bars, in order
          arrived,       \* history: per symbol, how many ticks were received
          discarded      \* history: per symbol, the times of the ticks thrown away and
                         \* the start of the current bar at that moment

vars == <<running, routing, tickChan, currentBar, previousBar, published, received,
          unsent, counted, arrived, discarded>>

-----------------------------------------------------------------------------
\* tickTime - (tickTime % windowSizeMS)
windowStart(time) == time - (time % WindowSize)

NewBar(tick) ==
    [symbol |-> tick.symbol, open |-> tick.price, high |-> tick.price,
     low |-> tick.price, close |-> tick.price, volume |-> tick.size,
     start |-> windowStart(tick.time), last |-> tick.time]

\* A tick of the bar's window: only a tick not older than the last one moves
\* the close.
Fold(bar, tick) ==
    [bar EXCEPT !.volume = @ + tick.size,
                !.high = IF tick.price > @ THEN tick.price ELSE @,
                !.low = IF tick.price < @ THEN tick.price ELSE @,
                !.close = IF tick.time >= bar.last THEN tick.price ELSE @,
                !.last = IF tick.time >= bar.last THEN tick.time ELSE @]

\* May a late tick still correct the previous bar?
Correctable(bar, previous, tick) ==
    /\ tick.time >= bar.start - Watermark
    /\ previous # NoBar
    /\ windowStart(tick.time) = previous.start

-----------------------------------------------------------------------------
\* publishBar: a bar the socket fails to send is dropped.
publishBar(bar) ==
    \/ /\ published' = Append(published, bar)
       /\ UNCHANGED unsent
    \/ /\ Cardinality(unsent) < MaxSendFailures
       /\ unsent' = unsent \cup {bar}
       /\ UNCHANGED published

Count(tick) == counted' = Append(counted, tick)

Discard(s, tick) ==
    discarded' = [discarded EXCEPT
                     ![s] = Append(@, [time |-> tick.time, start |-> currentBar[s].start])]

(***************************************************************************)
(* The router: runProcessingLoop, getOrCreateAggregator                    *)
(***************************************************************************)
Receive(tick) ==
    /\ running
    /\ routing = NoTick
    /\ received < MaxTicks
    /\ received' = received + 1
    /\ arrived' = [arrived EXCEPT ![tick.symbol] = @ + 1]
    /\ routing' = tick
    /\ UNCHANGED <<running, tickChan, currentBar, previousBar, published, unsent,
                   counted, discarded>>

\* MUTANT: a tick that finds the channel full is dropped.
Route_Drops ==
    /\ running
    /\ routing # NoTick
    /\ tickChan' = IF Len(tickChan[routing.symbol]) < Capacity
                   THEN [tickChan EXCEPT ![routing.symbol] = Append(@, routing)]
                   ELSE tickChan
    /\ routing' = NoTick
    /\ UNCHANGED <<running, currentBar, previousBar, published, received, unsent, counted,
                   arrived, discarded>>

\* A full channel blocks the router, and with it every other symbol.
Route ==
    /\ running
    /\ routing # NoTick
    /\ Len(tickChan[routing.symbol]) < Capacity
    /\ tickChan' = [tickChan EXCEPT ![routing.symbol] = Append(@, routing)]
    /\ routing' = NoTick
    /\ UNCHANGED <<running, currentBar, previousBar, published, received, unsent, counted,
                   arrived, discarded>>

(***************************************************************************)
(* processTick                                                             *)
(***************************************************************************)
FirstTick(s, tick) ==
    /\ currentBar[s] = NoBar
    /\ currentBar' = [currentBar EXCEPT ![s] = NewBar(tick)]
    /\ Count(tick)
    /\ UNCHANGED <<previousBar, published, unsent, discarded>>

CurrentWindow(s, tick) ==
    /\ currentBar[s] # NoBar
    /\ windowStart(tick.time) = currentBar[s].start
    /\ currentBar' = [currentBar EXCEPT ![s] = Fold(@, tick)]
    /\ Count(tick)
    /\ UNCHANGED <<previousBar, published, unsent, discarded>>

\* MUTANT: every tick of another window opens it.
NextWindow_AnyOther(s, tick) ==
    /\ currentBar[s] # NoBar
    /\ windowStart(tick.time) # currentBar[s].start
    /\ publishBar(currentBar[s])
    /\ previousBar' = [previousBar EXCEPT ![s] = currentBar[s]]
    /\ currentBar' = [currentBar EXCEPT ![s] = NewBar(tick)]
    /\ Count(tick)
    /\ UNCHANGED discarded

NextWindow(s, tick) ==
    /\ currentBar[s] # NoBar
    /\ windowStart(tick.time) > currentBar[s].start
    /\ publishBar(currentBar[s])
    /\ previousBar' = [previousBar EXCEPT ![s] = currentBar[s]]
    /\ currentBar' = [currentBar EXCEPT ![s] = NewBar(tick)]
    /\ Count(tick)
    /\ UNCHANGED discarded

\* MUTANT: the corrected bar is not published again.
LateTick_Silent(s, tick) ==
    /\ currentBar[s] # NoBar
    /\ windowStart(tick.time) < currentBar[s].start
    /\ \/ /\ Correctable(currentBar[s], previousBar[s], tick)
          /\ previousBar' = [previousBar EXCEPT ![s] = Fold(@, tick)]
          /\ Count(tick)
          /\ UNCHANGED <<published, unsent, discarded>>
       \/ /\ ~Correctable(currentBar[s], previousBar[s], tick)
          /\ Discard(s, tick)
          /\ UNCHANGED <<previousBar, published, unsent, counted>>
    /\ UNCHANGED currentBar

\* A tick of an older window corrects the previous bar, which is published once
\* more, or is thrown away.
LateTick(s, tick) ==
    /\ currentBar[s] # NoBar
    /\ windowStart(tick.time) < currentBar[s].start
    /\ \/ /\ Correctable(currentBar[s], previousBar[s], tick)
          /\ previousBar' = [previousBar EXCEPT ![s] = Fold(@, tick)]
          /\ publishBar(Fold(previousBar[s], tick))
          /\ Count(tick)
          /\ UNCHANGED discarded
       \/ /\ ~Correctable(currentBar[s], previousBar[s], tick)
          /\ Discard(s, tick)
          /\ UNCHANGED <<previousBar, published, unsent, counted>>
    /\ UNCHANGED currentBar

processTick(s) ==
    /\ running
    /\ tickChan[s] # <<>>
    /\ LET tick == Head(tickChan[s]) IN
          FirstTick(s, tick) \/ CurrentWindow(s, tick) \/ NextWindow(s, tick)
              \/ LateTick(s, tick)
    /\ tickChan' = [tickChan EXCEPT ![s] = Tail(@)]
    /\ UNCHANGED <<running, routing, received, arrived>>

\* The context is cancelled and the process ends; nothing is drained or published.
Stop ==
    /\ running
    /\ running' = FALSE
    /\ UNCHANGED <<routing, tickChan, currentBar, previousBar, published, received, unsent,
                   counted, arrived, discarded>>

-----------------------------------------------------------------------------
Init ==
    /\ running = TRUE
    /\ routing = NoTick
    /\ tickChan = [s \in Symbols |-> <<>>]
    /\ currentBar = [s \in Symbols |-> NoBar]
    /\ previousBar = [s \in Symbols |-> NoBar]
    /\ published = <<>>
    /\ received = 0
    /\ unsent = {}
    /\ counted = <<>>
    /\ arrived = [s \in Symbols |-> 0]
    /\ discarded = [s \in Symbols |-> <<>>]

Next ==
    \/ \E tick \in Tick : Receive(tick)
    \/ Route
    \/ \E s \in Symbols : processTick(s)
    \/ Stop

Spec == Init /\ [][Next]_vars

-----------------------------------------------------------------------------
(***************************************************************************)
(* Properties                                                              *)
(***************************************************************************)
\* Type invariant; the channels respect their capacity.
TypeOK ==
    /\ running \in BOOLEAN
    /\ routing \in Tick \cup {NoTick}
    /\ tickChan \in [Symbols -> Seq(Tick)]
    /\ \A s \in Symbols : Len(tickChan[s]) <= Capacity
    /\ currentBar \in [Symbols -> Bar \cup {NoBar}]
    /\ previousBar \in [Symbols -> Bar \cup {NoBar}]
    /\ published \in Seq(Bar)
    /\ unsent \subseteq Bar
    /\ received \in Nat
    /\ counted \in Seq(Tick)
    /\ arrived \in [Symbols -> Nat]
    /\ discarded \in [Symbols -> Seq([time : Times, start : Int])]

\* A bar's prices lie between its low and its high.
Ordered(bar) ==
    /\ bar.low <= bar.open /\ bar.open <= bar.high
    /\ bar.low <= bar.close /\ bar.close <= bar.high

\* Every bar, held or published, has its prices in order, belongs to its symbol,
\* and the previous bar of a symbol is older than its current one: late ticks in
\* any order neither mix symbols nor move a window back.
BarsOrdered ==
    /\ \A i \in DOMAIN published : Ordered(published[i])
    /\ \A s \in Symbols :
          /\ currentBar[s] # NoBar => Ordered(currentBar[s]) /\ currentBar[s].symbol = s
          /\ previousBar[s] # NoBar =>
                /\ Ordered(previousBar[s])
                /\ previousBar[s].symbol = s
                /\ currentBar[s] # NoBar
                /\ previousBar[s].start < currentBar[s].start

\* What keeps the symbols apart: a channel holds ticks of its symbol only.
ChannelsSorted ==
    \A s \in Symbols : \A i \in DOMAIN tickChan[s] : tickChan[s][i].symbol = s

\* The places of the ticks of a symbol and window.
Window(ticks, s, start) ==
    {i \in DOMAIN ticks : ticks[i].symbol = s /\ windowStart(ticks[i].time) = start}

\* The bar of a symbol and window by definition: first arrival, extremes, total
\* size, and the last arrival among the latest ticks.
ReferenceBar(ticks, s, start) ==
    LET window == Window(ticks, s, start)
        prices == {ticks[i].price : i \in window}
        latest == Max({ticks[i].time : i \in window})
        closing == Max({i \in window : ticks[i].time = latest})
    IN [symbol |-> s, open |-> ticks[Min(window)].price, high |-> Max(prices),
        low |-> Min(prices), close |-> ticks[closing].price,
        volume |-> Total([i \in window |-> ticks[i].size], window),
        start |-> start, last |-> latest]

\* The bars in memory are the reference bars of their windows, for ticks that
\* arrive in any order.
BarsMatchTicks ==
    \A s \in Symbols : \A bar \in {currentBar[s], previousBar[s]} \ {NoBar} :
        bar = ReferenceBar(counted, s, bar.start)

Windows(s) ==
    {windowStart(counted[i].time) : i \in {j \in DOMAIN counted : counted[j].symbol = s}}

\* What a subscriber that keeps the newest bar of a window ends up with is the
\* reference bar of every window the aggregator has left, unless a send failed:
\* a corrected bar is published again, and an old window never comes back.
SubscribersAgree ==
    \A s \in Symbols : \A start \in Windows(s) :
        start < currentBar[s].start /\ (\A bar \in unsent : bar.start # start) =>
            LET bars == {i \in DOMAIN published :
                            published[i].symbol = s /\ published[i].start = start}
            IN bars # {} /\ published[Max(bars)] = ReferenceBar(counted, s, start)

\* Bars are what their ticks say, in memory and for the subscribers.
BarsExact == BarsMatchTicks /\ SubscribersAgree

\* How many ticks of a symbol are in the bars, and in the hands of the router.
Counted(s) == Cardinality({i \in DOMAIN counted : counted[i].symbol = s})
Held(s) == IF routing # NoTick /\ routing.symbol = s THEN 1 ELSE 0

\* Every tick received is in a bar, was thrown away as late, or waits in the
\* channel of its symbol or before it: a full channel holds the router up and loses
\* nothing.  A tick is thrown away only if it is older than the watermark allows,
\* or if its window, which the symbol's bars had skipped, has no bar at all and
\* never gets one (Case 4 of processTick, whose log blames the watermark alone).
TicksKept ==
    \A s \in Symbols :
        /\ arrived[s] = Counted(s) + Len(discarded[s]) + Len(tickChan[s]) + Held(s)
        /\ \A i \in DOMAIN discarded[s] :
              \/ discarded[s][i].time < discarded[s][i].start - Watermark
              \/ Window(counted, s, windowStart(discarded[s][i].time)) = {}
=============================================================================
