------------------------- MODULE BarAggregatorProofs ------------------------
(***************************************************************************)
(* Proofs about BarAggregator, for any set of symbols, ticks in any order, *)
(* any window size, watermark and channel capacity.                        *)
(***************************************************************************)
EXTENDS BarAggregator, SumTheorems, SequenceTheorems, TLAPS

-----------------------------------------------------------------------------
(***************************************************************************)
(* The operators                                                           *)
(***************************************************************************)
\* A window starts at an integer time.
LEMMA WindowStartInt ==
    ASSUME NEW time \in Nat
    PROVE  windowStart(time) \in Int
  BY AggregatorAssumption DEF windowStart

\* The first bar of a window is a bar of its tick's symbol, with its prices in order.
LEMMA NewBarOrdered ==
    ASSUME NEW tick \in Tick
    PROVE  /\ NewBar(tick) \in Bar
           /\ NewBar(tick) # NoBar
           /\ Ordered(NewBar(tick))
           /\ NewBar(tick).symbol = tick.symbol
           /\ NewBar(tick).start = windowStart(tick.time)
<1>1. /\ tick.symbol \in Symbols
      /\ tick.time \in Nat /\ tick.price \in Int /\ tick.size \in Int
  BY AggregatorAssumption DEF Tick
<1>2. NewBar(tick) \in Bar
  BY <1>1, WindowStartInt DEF NewBar, Bar
<1> QED
  BY <1>1, <1>2, AggregatorAssumption DEF NewBar, Ordered

\* What folding a tick does to each field.
LEMMA FoldFields ==
    ASSUME NEW bar \in Bar, NEW tick \in Tick
    PROVE  /\ Fold(bar, tick) \in Bar
           /\ Fold(bar, tick).symbol = bar.symbol
           /\ Fold(bar, tick).start = bar.start
           /\ Fold(bar, tick).open = bar.open
           /\ Fold(bar, tick).volume = bar.volume + tick.size
           /\ Fold(bar, tick).high = IF tick.price > bar.high THEN tick.price ELSE bar.high
           /\ Fold(bar, tick).low = IF tick.price < bar.low THEN tick.price ELSE bar.low
           /\ Fold(bar, tick).close = IF tick.time >= bar.last THEN tick.price ELSE bar.close
           /\ Fold(bar, tick).last = IF tick.time >= bar.last THEN tick.time ELSE bar.last
<1>1. tick.time \in Nat /\ tick.price \in Int /\ tick.size \in Int
  BY AggregatorAssumption DEF Tick
<1>2. /\ bar.symbol \in Symbols /\ bar.open \in Int /\ bar.high \in Int /\ bar.low \in Int
      /\ bar.close \in Int /\ bar.volume \in Int /\ bar.start \in Int /\ bar.last \in Int
  BY DEF Bar
<1> DEFINE volume == bar.volume + tick.size
           high == IF tick.price > bar.high THEN tick.price ELSE bar.high
           low == IF tick.price < bar.low THEN tick.price ELSE bar.low
           close == IF tick.time >= bar.last THEN tick.price ELSE bar.close
           last == IF tick.time >= bar.last THEN tick.time ELSE bar.last
<1>a. Fold(bar, tick) = [bar EXCEPT !.volume = volume, !.high = high, !.low = low,
                                    !.close = close, !.last = last]
  BY Zenon DEF Fold
<1>b. volume \in Int /\ high \in Int /\ low \in Int /\ close \in Int /\ last \in Int
  BY <1>1, <1>2
<1> HIDE DEF volume, high, low, close, last
<1>3. Fold(bar, tick) =
        [symbol |-> bar.symbol, open |-> bar.open, high |-> high, low |-> low,
         close |-> close, volume |-> volume, start |-> bar.start, last |-> last]
  BY <1>a DEF Bar
<1>4. Fold(bar, tick) \in Bar
  BY <1>2, <1>3, <1>b DEF Bar
<1>5. /\ Fold(bar, tick).symbol = bar.symbol /\ Fold(bar, tick).start = bar.start
      /\ Fold(bar, tick).open = bar.open /\ Fold(bar, tick).volume = volume
      /\ Fold(bar, tick).high = high /\ Fold(bar, tick).low = low
      /\ Fold(bar, tick).close = close /\ Fold(bar, tick).last = last
  BY <1>3
<1> QED BY <1>4, <1>5 DEF volume, high, low, close, last

\* Folding a tick into a bar keeps its prices in order, its symbol and its window.
LEMMA FoldOrdered ==
    ASSUME NEW bar \in Bar, NEW tick \in Tick, Ordered(bar)
    PROVE  /\ Fold(bar, tick) \in Bar
           /\ Fold(bar, tick) # NoBar
           /\ Ordered(Fold(bar, tick))
           /\ Fold(bar, tick).symbol = bar.symbol
           /\ Fold(bar, tick).start = bar.start
<1>1. tick.time \in Nat /\ tick.price \in Int
  BY AggregatorAssumption DEF Tick
<1>2. /\ bar.open \in Int /\ bar.high \in Int /\ bar.low \in Int /\ bar.close \in Int
      /\ bar.last \in Int
  BY DEF Bar
<1> DEFINE folded == Fold(bar, tick)
<1>3. /\ folded.open = bar.open
      /\ folded.high = IF tick.price > bar.high THEN tick.price ELSE bar.high
      /\ folded.low = IF tick.price < bar.low THEN tick.price ELSE bar.low
      /\ folded.close \in {tick.price, bar.close}
  BY FoldFields
<1> HIDE DEF folded
<1>4. Ordered(folded)
  BY <1>1, <1>2, <1>3 DEF Ordered
<1> QED
  BY <1>4, FoldFields, AggregatorAssumption DEF folded

-----------------------------------------------------------------------------
(***************************************************************************)
(* The inductive invariant                                                 *)
(***************************************************************************)
Inv == TypeOK /\ ChannelsSorted /\ BarsOrdered

\* The bars part of the invariant.
BarsTyped ==
    /\ currentBar \in [Symbols -> Bar \cup {NoBar}]
    /\ previousBar \in [Symbols -> Bar \cup {NoBar}]
    /\ published \in Seq(Bar)
    /\ unsent \subseteq Bar
    /\ counted \in Seq(Tick)

\* Initially there is nothing.
LEMMA InitInv == Init => Inv
<1> SUFFICES ASSUME Init PROVE Inv
  OBVIOUS
<1>1. running \in BOOLEAN
  BY DEF Init
<1>2. /\ routing \in Tick \cup {NoTick}
      /\ tickChan \in [Symbols -> Seq(Tick)]
      /\ \A s \in Symbols : Len(tickChan[s]) <= Capacity
      /\ received \in Nat
  BY AggregatorAssumption DEF Init
<1>3. BarsTyped
  BY DEF Init, BarsTyped
<1>4. ChannelsSorted
  BY DEF Init, ChannelsSorted
<1>5. BarsOrdered
  BY DEF Init, BarsOrdered
<1>6. arrived \in [Symbols -> Nat] /\ discarded \in [Symbols -> Seq([time : Times, start : Int])]
  BY DEF Init
<1> QED
  BY <1>1, <1>2, <1>3, <1>4, <1>5, <1>6 DEF Inv, TypeOK, BarsTyped

\* Publishing an ordered bar keeps every published bar ordered.
LEMMA PublishOrdered ==
    ASSUME NEW bar \in Bar, Ordered(bar), publishBar(bar), BarsTyped,
           \A i \in DOMAIN published : Ordered(published[i])
    PROVE  /\ published' \in Seq(Bar)
           /\ unsent' \subseteq Bar
           /\ \A i \in DOMAIN published' : Ordered(published'[i])
<1> USE DEF BarsTyped
<1>1. CASE published' = Append(published, bar) /\ UNCHANGED unsent
  <2>1. published' \in Seq(Bar) BY <1>1
  <2>2. \A i \in DOMAIN published' :
           published'[i] = bar \/ (i \in DOMAIN published /\ published'[i] = published[i])
    <3>1. /\ published \in Seq(Bar)
          /\ published' = Append(published, bar)
          /\ Len(published) \in Nat
      BY <1>1
    <3>2. DOMAIN published' = 1 .. Len(published) + 1
      BY <3>1
    <3>3. \A i \in 1 .. Len(published) : published'[i] = published[i]
      BY <3>1
    <3>4. published'[Len(published) + 1] = bar
      BY <3>1
    <3>5. \A i \in 1 .. Len(published) + 1 : i \in 1 .. Len(published) \/ i = Len(published) + 1
      BY <3>1
    <3>6. DOMAIN published = 1 .. Len(published)
      BY <3>1
    <3> QED BY <3>2, <3>3, <3>4, <3>5, <3>6
  <2> QED BY <1>1, <2>1, <2>2
<1>2. CASE unsent' = unsent \cup {bar} /\ UNCHANGED published
  BY <1>2
<1> QED BY <1>1, <1>2 DEF publishBar

\* processTick keeps the bars typed and ordered.
LEMMA ProcessBars ==
    ASSUME BarsTyped, BarsOrdered, NEW s \in Symbols, NEW tick \in Tick, tick.symbol = s,
           \/ FirstTick(s, tick) \/ CurrentWindow(s, tick)
           \/ NextWindow(s, tick) \/ LateTick(s, tick)
    PROVE  BarsTyped' /\ BarsOrdered'
<1>a. tick.time \in Nat
  BY AggregatorAssumption DEF Tick
<1>b. windowStart(tick.time) \in Int
  BY <1>a, WindowStartInt
<1>c. Append(counted, tick) \in Seq(Tick)
  BY DEF BarsTyped
<1>1. CASE FirstTick(s, tick)
  <2>1. BarsTyped'
    BY <1>1, <1>c, NewBarOrdered DEF FirstTick, BarsTyped, Count
  <2>2. BarsOrdered'
    BY <1>1, NewBarOrdered DEF FirstTick, BarsTyped, BarsOrdered
  <2> QED BY <2>1, <2>2
<1>2. CASE CurrentWindow(s, tick)
  <2>1. currentBar[s] \in Bar /\ Ordered(currentBar[s]) /\ currentBar[s].symbol = s
    BY <1>2 DEF CurrentWindow, BarsTyped, BarsOrdered
  <2>2. BarsTyped'
    BY <1>2, <1>c, <2>1, FoldOrdered DEF CurrentWindow, BarsTyped, Count
  <2>3. BarsOrdered'
    BY <1>2, <2>1, FoldOrdered DEF CurrentWindow, BarsTyped, BarsOrdered
  <2> QED BY <2>2, <2>3
<1>3. CASE NextWindow(s, tick)
  <2>1. currentBar[s] \in Bar /\ Ordered(currentBar[s]) /\ currentBar[s].symbol = s
    BY <1>3 DEF NextWindow, BarsTyped, BarsOrdered
  <2>2. /\ published' \in Seq(Bar)
        /\ unsent' \subseteq Bar
        /\ \A i \in DOMAIN published' : Ordered(published'[i])
    BY <1>3, <2>1, PublishOrdered DEF NextWindow, BarsOrdered
  <2>3. BarsTyped'
    BY <1>3, <1>c, <2>1, <2>2, NewBarOrdered DEF NextWindow, BarsTyped, Count
  <2>4. BarsOrdered'
    BY <1>3, <1>b, <2>1, <2>2, NewBarOrdered DEF NextWindow, BarsTyped, BarsOrdered
  <2> QED BY <2>3, <2>4
<1>4. CASE LateTick(s, tick)
  <2>1. CASE Correctable(currentBar[s], previousBar[s], tick)
    <3>1. /\ previousBar[s] \in Bar /\ Ordered(previousBar[s])
          /\ previousBar[s].symbol = s
      BY <2>1 DEF Correctable, BarsTyped, BarsOrdered
    <3>2. /\ previousBar' = [previousBar EXCEPT ![s] = Fold(@, tick)]
          /\ publishBar(Fold(previousBar[s], tick))
          /\ counted' = Append(counted, tick)
          /\ UNCHANGED currentBar
      BY <1>4, <2>1 DEF LateTick, Count
    <3>3. /\ published' \in Seq(Bar)
          /\ unsent' \subseteq Bar
          /\ \A i \in DOMAIN published' : Ordered(published'[i])
      BY <3>1, <3>2, FoldOrdered, PublishOrdered DEF BarsOrdered
    <3>4. BarsTyped'
      BY <1>c, <3>1, <3>2, <3>3, FoldOrdered DEF BarsTyped
    <3>5. BarsOrdered'
      <4> DEFINE corrected == Fold(previousBar[s], tick)
      <4>1. /\ corrected # NoBar /\ Ordered(corrected)
            /\ corrected.symbol = s /\ corrected.start = previousBar[s].start
        BY <3>1, FoldOrdered
      <4>2. previousBar' = [previousBar EXCEPT ![s] = corrected]
        BY <3>2
      <4> HIDE DEF corrected
      <4>3. previousBar[s] # NoBar
        BY <3>1, AggregatorAssumption
      <4> QED BY <3>2, <3>3, <4>1, <4>2, <4>3 DEF BarsTyped, BarsOrdered
    <3> QED BY <3>4, <3>5
  <2>2. CASE ~Correctable(currentBar[s], previousBar[s], tick)
    <3>1. UNCHANGED <<currentBar, previousBar, published, unsent, counted>>
      BY <1>4, <2>2 DEF LateTick
    <3> QED BY <3>1 DEF BarsTyped, BarsOrdered
  <2> QED BY <2>1, <2>2
<1> QED BY <1>1, <1>2, <1>3, <1>4

\* What is thrown away is a late tick's time with the start of the current bar.
LEMMA DiscardTyped ==
    ASSUME BarsTyped, discarded \in [Symbols -> Seq([time : Times, start : Int])],
           NEW s \in Symbols, NEW tick \in Tick,
           \/ FirstTick(s, tick) \/ CurrentWindow(s, tick)
           \/ NextWindow(s, tick) \/ LateTick(s, tick)
    PROVE  discarded' \in [Symbols -> Seq([time : Times, start : Int])]
<1>1. CASE UNCHANGED discarded
  BY <1>1
<1>2. CASE LateTick(s, tick) /\ Discard(s, tick)
  <2> DEFINE record == [time |-> tick.time, start |-> currentBar[s].start]
             Records == [time : Times, start : Int]
  <2>1. currentBar[s] \in Bar
    BY <1>2 DEF LateTick, BarsTyped
  <2>2. record \in Records
    BY <2>1 DEF Tick, Bar
  <2>3. discarded' = [discarded EXCEPT ![s] = Append(@, record)]
    BY <1>2 DEF Discard
  <2>4. discarded \in [Symbols -> Seq(Records)]
    OBVIOUS
  <2> HIDE DEF record, Records
  <2>5. discarded[s] \in Seq(Records)
    BY <2>4
  <2>6. Append(discarded[s], record) \in Seq(Records)
    BY <2>2, <2>5
  <2>7. discarded' \in [Symbols -> Seq(Records)]
    BY <2>3, <2>4, <2>6
  <2> QED BY <2>7 DEF Records
<1> QED
  BY <1>1, <1>2 DEF FirstTick, CurrentWindow, NextWindow, LateTick

\* Every step keeps the invariant.
LEMMA NextInv == Inv /\ [Next]_vars => Inv'
<1> SUFFICES ASSUME Inv, [Next]_vars PROVE Inv'
  OBVIOUS
<1> USE DEF Inv
<1>t. BarsTyped
  BY DEF TypeOK, BarsTyped
<1>1. ASSUME NEW tick \in Tick, Receive(tick) PROVE Inv'
  <2>a. tick.symbol \in Symbols BY DEF Tick
  <2>b. arrived' \in [Symbols -> Nat]
    BY <1>1, <2>a DEF Receive, TypeOK
  <2>c. routing' \in Tick /\ received' \in Nat
        /\ UNCHANGED <<running, tickChan, currentBar, previousBar, published, unsent,
                       counted, discarded>>
    BY <1>1 DEF Receive, TypeOK
  <2>1. TypeOK' BY <2>b, <2>c DEF TypeOK
  <2>2. ChannelsSorted' BY <1>1 DEF Receive, ChannelsSorted
  <2>3. BarsOrdered' BY <1>1 DEF Receive, BarsOrdered
  <2> QED BY <2>1, <2>2, <2>3
<1>2. CASE Route
  <2>1. routing \in Tick /\ routing.symbol \in Symbols
    BY <1>2 DEF Route, TypeOK, Tick
  <2> DEFINE c == tickChan[routing.symbol]
  <2>2. c \in Seq(Tick) /\ Len(c) < Capacity
    BY <1>2, <2>1 DEF Route, TypeOK
  <2>3. /\ Append(c, routing) \in Seq(Tick)
        /\ Len(Append(c, routing)) = Len(c) + 1
        /\ \A i \in DOMAIN Append(c, routing) :
              \/ i \in DOMAIN c /\ Append(c, routing)[i] = c[i]
              \/ Append(c, routing)[i] = routing
    BY <2>1, <2>2
  <2>4. tickChan' = [tickChan EXCEPT ![routing.symbol] = Append(c, routing)]
    BY <1>2 DEF Route
  <2> HIDE DEF c
  <2>5. \A s \in Symbols : Len(tickChan'[s]) <= Capacity
    <3> SUFFICES ASSUME NEW s \in Symbols PROVE Len(tickChan'[s]) <= Capacity
      OBVIOUS
    <3>1. CASE s = routing.symbol
      <4>1. tickChan'[s] = Append(c, routing) BY <3>1, <2>1, <2>4 DEF TypeOK
      <4>2. Len(c) \in Nat BY <2>2
      <4> QED BY <4>1, <4>2, <2>2, <2>3, AggregatorAssumption
    <3>2. CASE s # routing.symbol
      <4>1. tickChan'[s] = tickChan[s] BY <3>2, <2>4 DEF TypeOK
      <4> QED BY <4>1 DEF TypeOK
    <3> QED BY <3>1, <3>2
  <2>6. tickChan' \in [Symbols -> Seq(Tick)]
    BY <2>1, <2>3, <2>4 DEF TypeOK
  <2>7. UNCHANGED <<running, currentBar, previousBar, published, received, unsent, counted,
                    arrived, discarded>>
           /\ routing' = NoTick
    BY <1>2 DEF Route
  <2>8. TypeOK' BY <2>5, <2>6, <2>7 DEF TypeOK
  <2>9. ChannelsSorted'
    <3> SUFFICES ASSUME NEW s \in Symbols, NEW i \in DOMAIN tickChan'[s]
                 PROVE  tickChan'[s][i].symbol = s
      BY DEF ChannelsSorted
    <3>1. CASE s = routing.symbol
      <4>1. tickChan'[s] = Append(c, routing) BY <3>1, <2>1, <2>4 DEF TypeOK
      <4>2. \A j \in DOMAIN c : c[j].symbol = s BY <3>1 DEF ChannelsSorted, c
      <4> QED BY <4>1, <4>2, <3>1, <2>3
    <3>2. CASE s # routing.symbol
      <4>1. tickChan'[s] = tickChan[s] BY <3>2, <2>4 DEF TypeOK
      <4> QED BY <4>1 DEF ChannelsSorted
    <3> QED BY <3>1, <3>2
  <2>10. BarsOrdered' BY <2>7 DEF BarsOrdered
  <2> QED BY <2>8, <2>9, <2>10
<1>3. ASSUME NEW s \in Symbols, processTick(s) PROVE Inv'
  <2> DEFINE c == tickChan[s]
             tick == Head(c)
  <2>1. c \in Seq(Tick) /\ c # <<>> /\ Len(c) <= Capacity
    BY <1>3 DEF processTick, TypeOK
  <2>2. /\ tick \in Tick
        /\ Tail(c) \in Seq(Tick)
        /\ Len(Tail(c)) = Len(c) - 1
        /\ \A i \in 1 .. Len(Tail(c)) : Tail(c)[i] = c[i+1]
    BY <2>1, HeadTailProperties
  <2>3. \A i \in DOMAIN c : c[i].symbol = s
    BY DEF ChannelsSorted
  <2>4. tick.symbol = s
    BY <2>1, <2>3
  <2>5. BarsTyped' /\ BarsOrdered'
    <3>1. \/ FirstTick(s, tick) \/ CurrentWindow(s, tick)
          \/ NextWindow(s, tick) \/ LateTick(s, tick)
      BY <1>3 DEF processTick
    <3> HIDE DEF tick
    <3> QED BY <1>t, <2>2, <2>4, <3>1, ProcessBars
  <2>6. tickChan' = [tickChan EXCEPT ![s] = Tail(c)]
        /\ UNCHANGED <<running, routing, received, arrived>>
    BY <1>3 DEF processTick
  <2> HIDE DEF c, tick
  <2>7. tickChan' \in [Symbols -> Seq(Tick)]
    BY <2>2, <2>6 DEF TypeOK
  <2>8. \A q \in Symbols : Len(tickChan'[q]) <= Capacity
    <3> SUFFICES ASSUME NEW q \in Symbols PROVE Len(tickChan'[q]) <= Capacity
      OBVIOUS
    <3>1. CASE q = s
      <4>1. tickChan'[q] = Tail(c) BY <3>1, <2>6 DEF TypeOK
      <4>2. Len(c) \in Nat BY <2>1
      <4> QED BY <4>1, <4>2, <2>1, <2>2, AggregatorAssumption
    <3>2. CASE q # s
      <4>1. tickChan'[q] = tickChan[q] BY <3>2, <2>6 DEF TypeOK
      <4> QED BY <4>1 DEF TypeOK
    <3> QED BY <3>1, <3>2
  <2>d. discarded' \in [Symbols -> Seq([time : Times, start : Int])]
    <3>1. \/ FirstTick(s, tick) \/ CurrentWindow(s, tick)
          \/ NextWindow(s, tick) \/ LateTick(s, tick)
      BY <1>3 DEF processTick, tick, c
    <3> QED BY <1>t, <2>2, <3>1, DiscardTyped DEF TypeOK
  <2>9. TypeOK' BY <2>5, <2>6, <2>7, <2>8, <2>d DEF TypeOK, BarsTyped
  <2>10. ChannelsSorted'
    <3> SUFFICES ASSUME NEW q \in Symbols, NEW i \in DOMAIN tickChan'[q]
                 PROVE  tickChan'[q][i].symbol = q
      BY DEF ChannelsSorted
    <3>1. CASE q = s
      <4>1. tickChan'[q] = Tail(c) BY <3>1, <2>6 DEF TypeOK
      <4>2. i \in 1 .. Len(Tail(c)) /\ Len(c) \in Nat BY <4>1, <2>1, <2>2
      <4>3. i + 1 \in DOMAIN c BY <4>2, <2>1, <2>2
      <4> QED BY <4>1, <4>2, <4>3, <3>1, <2>2, <2>3
    <3>2. CASE q # s
      <4>1. tickChan'[q] = tickChan[q] BY <3>2, <2>6 DEF TypeOK
      <4> QED BY <4>1 DEF ChannelsSorted
    <3> QED BY <3>1, <3>2
  <2> QED BY <2>5, <2>9, <2>10
<1>4. CASE Stop
  <2>1. running' \in BOOLEAN BY <1>4 DEF Stop
  <2>2. TypeOK' BY <1>4, <2>1 DEF Stop, TypeOK
  <2>3. ChannelsSorted' /\ BarsOrdered' BY <1>4 DEF Stop, ChannelsSorted, BarsOrdered
  <2> QED BY <2>2, <2>3
<1>5. CASE UNCHANGED vars
  BY <1>5 DEF vars, TypeOK, ChannelsSorted, BarsOrdered
<1> QED
  BY <1>1, <1>2, <1>3, <1>4, <1>5 DEF Next

\* Every bar held or published has its prices in order and its symbol, and the
\* windows of a symbol only move forward, whatever the order of the ticks.
THEOREM BarsAlwaysOrdered == Spec => []BarsOrdered
<1>1. Inv => BarsOrdered
  BY DEF Inv
<1> QED
  BY <1>1, InitInv, NextInv, PTL DEF Spec

\* Types hold, and no channel outgrows its capacity.
THEOREM TypeCorrect == Spec => []TypeOK
<1>1. Inv => TypeOK
  BY DEF Inv
<1> QED
  BY <1>1, InitInv, NextInv, PTL DEF Spec
-----------------------------------------------------------------------------
(***************************************************************************)
(* The bars against their ticks                                            *)
(*                                                                         *)
(* IsBar says of a bar what ReferenceBar computes, by naming the ticks     *)
(* that its prices come from; Sent, that the newest bar published for a    *)
(* window is such a bar.                                                   *)
(***************************************************************************)
SizesOf(ticks, window) == [i \in window |-> ticks[i].size]

IsBar(ticks, bar, s, start) ==
    LET window == Window(ticks, s, start) IN
    /\ bar.symbol = s /\ bar.start = start
    /\ \E i \in window : bar.open = ticks[i].price /\ \A j \in window : i <= j
    /\ \E i \in window : bar.high = ticks[i].price
    /\ \E i \in window : bar.low = ticks[i].price
    /\ \A i \in window : bar.low <= ticks[i].price /\ ticks[i].price <= bar.high
    /\ \E i \in window :
          /\ bar.close = ticks[i].price /\ bar.last = ticks[i].time
          /\ \A j \in window : ticks[j].time < bar.last \/ (ticks[j].time = bar.last /\ j <= i)
    /\ bar.volume = Total(SizesOf(ticks, window), window)

Sent(bars, ticks, s, start) ==
    \E i \in DOMAIN bars :
        /\ IsBar(ticks, bars[i], s, start)
        /\ \A j \in DOMAIN bars : bars[j].symbol = s /\ bars[j].start = start => j <= i

\* The ticks of a window are among those counted, which are finitely many.
LEMMA WindowTyped ==
    ASSUME NEW ticks \in Seq(Tick), NEW s, NEW start
    PROVE  /\ IsFiniteSet(Window(ticks, s, start))
           /\ Window(ticks, s, start) \subseteq 1..Len(ticks)
           /\ \A i \in 1..Len(ticks) :
                 /\ ticks[i] \in Tick /\ i \in Int
                 /\ ticks[i].time \in Nat /\ ticks[i].price \in Int /\ ticks[i].size \in Int
<1>1. Len(ticks) \in Nat /\ DOMAIN ticks = 1..Len(ticks)
  OBVIOUS
<1>2. Window(ticks, s, start) \subseteq 1..Len(ticks)
  BY <1>1 DEF Window
<1>3. IsFiniteSet(1..Len(ticks))
  BY <1>1, FS_Interval
<1>4. \A i \in 1..Len(ticks) : ticks[i] \in Tick /\ i \in Int
  OBVIOUS
<1>5. \A t \in Tick : t.time \in Nat /\ t.price \in Int /\ t.size \in Int
  BY AggregatorAssumption DEF Tick
<1> QED BY <1>2, <1>3, <1>4, <1>5, FS_Subset

\* A tick counted last joins its window at the end and leaves the others alone.
LEMMA WindowAppend ==
    ASSUME NEW ticks \in Seq(Tick), NEW tick \in Tick, NEW s, NEW start
    PROVE  /\ Append(ticks, tick) \in Seq(Tick)
           /\ Len(ticks) \in Nat
           /\ Append(ticks, tick)[Len(ticks) + 1] = tick
           /\ \A i \in 1..Len(ticks) : Append(ticks, tick)[i] = ticks[i]
           /\ IF tick.symbol = s /\ windowStart(tick.time) = start
              THEN Window(Append(ticks, tick), s, start)
                      = Window(ticks, s, start) \cup {Len(ticks) + 1}
              ELSE Window(Append(ticks, tick), s, start) = Window(ticks, s, start)
<1> DEFINE new == Append(ticks, tick)
           n == Len(ticks) + 1
<1>1. Len(ticks) \in Nat /\ DOMAIN ticks = 1..Len(ticks) /\ DOMAIN new = 1..n
  OBVIOUS
<1>2. new[n] = tick /\ (\A i \in 1..Len(ticks) : new[i] = ticks[i]) /\ new \in Seq(Tick)
  OBVIOUS
<1>3. \A i \in 1..n : i \in 1..Len(ticks) \/ i = n
  BY <1>1
<1>4. n \in 1..n /\ \A i \in 1..Len(ticks) : i \in 1..n
  BY <1>1
<1> DEFINE In(t) == t.symbol = s /\ windowStart(t.time) = start
<1>5. Window(new, s, start) = {i \in 1..n : In(new[i])}
  BY <1>1 DEF Window
<1>6. Window(ticks, s, start) = {i \in 1..Len(ticks) : In(ticks[i])}
  BY <1>1 DEF Window
<1> HIDE DEF new, n, In
<1>7. IF In(tick) THEN Window(new, s, start) = Window(ticks, s, start) \cup {n}
                  ELSE Window(new, s, start) = Window(ticks, s, start)
  BY <1>2, <1>3, <1>4, <1>5, <1>6
<1> QED BY <1>1, <1>2, <1>7 DEF new, n, In

\* So does its size.
LEMMA SizesAppend ==
    ASSUME NEW ticks \in Seq(Tick), NEW tick \in Tick, NEW s, NEW start,
           NEW new, new = Append(ticks, tick),
           tick.symbol = s /\ windowStart(tick.time) = start
    PROVE  Total(SizesOf(new, Window(new, s, start)), Window(new, s, start))
             = Total(SizesOf(ticks, Window(ticks, s, start)), Window(ticks, s, start)) + tick.size
<1> DEFINE n == Len(ticks) + 1
           old == Window(ticks, s, start)
           window == Window(new, s, start)
<1>1. /\ Len(ticks) \in Nat /\ new[n] = tick /\ new \in Seq(Tick)
      /\ \A i \in 1..Len(ticks) : new[i] = ticks[i]
  BY WindowAppend
<1>2. /\ IsFiniteSet(old) /\ old \subseteq 1..Len(ticks)
      /\ IsFiniteSet(window)
      /\ \A i \in 1..Len(ticks) : ticks[i].size \in Int
  BY <1>1, WindowTyped
<1>3. tick.size \in Int
  BY AggregatorAssumption DEF Tick
<1>4. n \notin old
  BY <1>1, <1>2
<1>5. window = old \cup {n}
  BY WindowAppend
<1> HIDE DEF n, old, window
<1>6. /\ \A i \in old : /\ SizesOf(new, window)[i] = SizesOf(ticks, old)[i]
                        /\ SizesOf(ticks, old)[i] \in Int
      /\ SizesOf(new, window)[n] = tick.size
  BY <1>1, <1>2, <1>5 DEF SizesOf
<1>7. n \in window /\ window \ {n} = old /\ \A i \in window : SizesOf(new, window)[i] \in Int
  BY <1>3, <1>4, <1>5, <1>6
<1>8. Total(SizesOf(new, window), window) = tick.size + Total(SizesOf(new, window), old)
  BY <1>2, <1>6, <1>7, TotalRemove
<1>9. Total(SizesOf(new, window), old) = Total(SizesOf(ticks, old), old)
  BY <1>2, <1>6, TotalSame
<1>10. Total(SizesOf(ticks, old), old) \in Int
  BY <1>2, <1>6, TotalInt
<1>11. Total(SizesOf(new, window), window) = Total(SizesOf(ticks, old), old) + tick.size
  BY <1>3, <1>8, <1>9, <1>10
<1> QED BY <1>11 DEF old, window

\* A tick of another window changes nothing.
LEMMA IsBarOther ==
    ASSUME NEW ticks \in Seq(Tick), NEW tick \in Tick, NEW s, NEW start, NEW bar,
           IsBar(ticks, bar, s, start),
           ~(tick.symbol = s /\ windowStart(tick.time) = start)
    PROVE  IsBar(Append(ticks, tick), bar, s, start)
<1> DEFINE new == Append(ticks, tick)
           w == Window(ticks, s, start)
<1>1. Window(new, s, start) = w /\ \A i \in 1..Len(ticks) : new[i] = ticks[i]
  BY WindowAppend
<1>2. w \subseteq 1..Len(ticks) /\ IsFiniteSet(w)
  BY WindowTyped
<1>3. \A i \in w : new[i] = ticks[i]
  BY <1>1, <1>2
<1> HIDE DEF new, w
<1>s. \A i \in w : SizesOf(new, w)[i] = SizesOf(ticks, w)[i]
  BY <1>3 DEF SizesOf
<1>4. Total(SizesOf(new, w), w) = Total(SizesOf(ticks, w), w)
  BY <1>2, <1>s, TotalSame
<1>5. IsBar(new, bar, s, start)
  BY <1>1, <1>3, <1>4 DEF IsBar, w
<1> QED BY <1>5 DEF new

\* The first tick of a window makes its bar.
LEMMA IsBarNew ==
    ASSUME NEW ticks \in Seq(Tick), NEW tick \in Tick, NEW s, NEW start,
           tick.symbol = s /\ windowStart(tick.time) = start
    PROVE  Window(ticks, s, start) = {} => IsBar(Append(ticks, tick), NewBar(tick), s, start)
<1> DEFINE new == Append(ticks, tick)
           n == Len(ticks) + 1
           bar == NewBar(tick)
<1>1. Total(SizesOf(new, Window(new, s, start)), Window(new, s, start))
        = Total(SizesOf(ticks, Window(ticks, s, start)), Window(ticks, s, start)) + tick.size
  BY SizesAppend
<1> HAVE Window(ticks, s, start) = {}
<1>2. Window(new, s, start) = {n} /\ new[n] = tick /\ n \in Int
  BY WindowAppend
<1>3. tick.time \in Nat /\ tick.price \in Int /\ tick.size \in Int
  BY AggregatorAssumption DEF Tick
<1>4. Total(SizesOf(ticks, {}), {}) = 0
  BY FS_EmptySet, TotalUnfold
<1>5. Total(SizesOf(new, {n}), {n}) = 0 + tick.size
  BY <1>1, <1>2, <1>4
<1>6. Total(SizesOf(new, {n}), {n}) = tick.size
  BY <1>3, <1>5
<1>7. /\ bar.symbol = s /\ bar.start = start /\ bar.open = tick.price /\ bar.high = tick.price
      /\ bar.low = tick.price /\ bar.close = tick.price /\ bar.last = tick.time
      /\ bar.volume = tick.size
  BY DEF NewBar
<1> HIDE DEF new, n, bar
<1>8. IsBar(new, bar, s, start)
  BY <1>2, <1>3, <1>6, <1>7 DEF IsBar
<1> QED BY <1>8 DEF new, bar

\* A further tick of a window is folded into its bar.
LEMMA IsBarFold ==
    ASSUME NEW ticks \in Seq(Tick), NEW tick \in Tick, NEW s, NEW start, NEW bar \in Bar,
           IsBar(ticks, bar, s, start),
           tick.symbol = s /\ windowStart(tick.time) = start
    PROVE  IsBar(Append(ticks, tick), Fold(bar, tick), s, start)
<1> DEFINE new == Append(ticks, tick)
           w == Window(ticks, s, start)
           v == Window(new, s, start)
           n == Len(ticks) + 1
           folded == Fold(bar, tick)
<1>1. v = w \cup {n} /\ new[n] = tick /\ n \in Int /\ \A i \in 1..Len(ticks) : new[i] = ticks[i]
  BY WindowAppend
<1>2. /\ w \subseteq 1..Len(ticks) /\ Len(ticks) \in Nat
      /\ \A i \in 1..Len(ticks) : i \in Int /\ ticks[i].time \in Nat /\ ticks[i].price \in Int
  BY WindowTyped
<1>3. \A i \in w : /\ new[i] = ticks[i] /\ i <= n /\ i \in Int
                   /\ ticks[i].time \in Nat /\ ticks[i].price \in Int
  BY <1>1, <1>2
<1>4. tick.time \in Nat /\ tick.price \in Int /\ tick.size \in Int
  BY AggregatorAssumption DEF Tick
<1>5. Total(SizesOf(new, v), v) = Total(SizesOf(ticks, w), w) + tick.size
  BY SizesAppend
<1>6. /\ bar.open \in Int /\ bar.high \in Int /\ bar.low \in Int
      /\ bar.close \in Int /\ bar.volume \in Int /\ bar.start \in Int /\ bar.last \in Int
  BY DEF Bar
<1>7. /\ folded.symbol = bar.symbol /\ folded.start = bar.start /\ folded.open = bar.open
      /\ folded.volume = bar.volume + tick.size
      /\ folded.high = IF tick.price > bar.high THEN tick.price ELSE bar.high
      /\ folded.low = IF tick.price < bar.low THEN tick.price ELSE bar.low
      /\ folded.close = IF tick.time >= bar.last THEN tick.price ELSE bar.close
      /\ folded.last = IF tick.time >= bar.last THEN tick.time ELSE bar.last
  BY FoldFields
<1>a. /\ bar.symbol = s /\ bar.start = start
      /\ \E i \in w : bar.open = ticks[i].price /\ \A j \in w : i <= j
      /\ \E i \in w : bar.high = ticks[i].price
      /\ \E i \in w : bar.low = ticks[i].price
      /\ \A i \in w : bar.low <= ticks[i].price /\ ticks[i].price <= bar.high
      /\ \E i \in w :
          /\ bar.close = ticks[i].price /\ bar.last = ticks[i].time
          /\ \A j \in w : ticks[j].time < bar.last \/ (ticks[j].time = bar.last /\ j <= i)
      /\ bar.volume = Total(SizesOf(ticks, w), w)
  BY DEF IsBar
<1> HIDE DEF new, w, v, n, folded
<1>8. /\ folded.symbol = s /\ folded.start = start
      /\ \E i \in v : folded.open = new[i].price /\ \A j \in v : i <= j
  BY <1>1, <1>3, <1>7, <1>a
<1>9. \E i \in v : folded.high = new[i].price
  BY <1>1, <1>3, <1>7, <1>a
<1>10. \E i \in v : folded.low = new[i].price
  BY <1>1, <1>3, <1>7, <1>a
<1>11. \A i \in v : folded.low <= new[i].price /\ new[i].price <= folded.high
  <2> SUFFICES ASSUME NEW i \in v PROVE folded.low <= new[i].price /\ new[i].price <= folded.high
    OBVIOUS
  <2>1. folded.low \in Int /\ folded.high \in Int /\ folded.low <= bar.low
          /\ folded.low <= tick.price /\ bar.high <= folded.high /\ tick.price <= folded.high
    BY <1>4, <1>6, <1>7
  <2>2. CASE i = n
    BY <1>1, <2>1, <2>2
  <2>3. CASE i \in w
    <3>1. bar.low <= ticks[i].price /\ ticks[i].price <= bar.high
      BY <1>a, <2>3
    <3> QED BY <1>3, <1>6, <2>1, <2>3, <3>1
  <2> QED BY <1>1, <2>2, <2>3
<1>12. \E i \in v :
          /\ folded.close = new[i].price /\ folded.last = new[i].time
          /\ \A j \in v : new[j].time < folded.last \/ (new[j].time = folded.last /\ j <= i)
  <2>1. PICK c \in w :
          /\ bar.close = ticks[c].price /\ bar.last = ticks[c].time
          /\ \A j \in w : ticks[j].time < bar.last \/ (ticks[j].time = bar.last /\ j <= c)
    BY <1>a
  <2>2. CASE tick.time >= bar.last
    <3>1. folded.close = tick.price /\ folded.last = tick.time
      BY <1>7, <2>2
    <3>2. ASSUME NEW j \in w
          PROVE  new[j].time < tick.time \/ (new[j].time = tick.time /\ j <= n)
      <4>1. new[j] = ticks[j] /\ j <= n /\ ticks[j].time \in Nat
        BY <1>3
      <4>2. ticks[j].time < bar.last \/ ticks[j].time = bar.last
        BY <2>1
      <4>3. ticks[j].time < tick.time \/ ticks[j].time = tick.time
        BY <1>4, <1>6, <2>2, <4>1, <4>2
      <4> QED BY <4>1, <4>3
    <3>3. \A j \in v : new[j].time < tick.time \/ (new[j].time = tick.time /\ j <= n)
      BY <1>1, <3>2
    <3>4. n \in v
      BY <1>1
    <3> QED BY <1>1, <3>1, <3>3, <3>4
  <2>3. CASE ~(tick.time >= bar.last)
    <3>1. folded.close = bar.close /\ folded.last = bar.last
      BY <1>7, <2>3
    <3>2. \A j \in w : new[j].time < bar.last \/ (new[j].time = bar.last /\ j <= c)
      BY <1>3, <2>1
    <3>3. new[n].time < bar.last
      BY <1>1, <1>4, <1>6, <2>3
    <3>4. \A j \in v : new[j].time < bar.last \/ (new[j].time = bar.last /\ j <= c)
      BY <1>1, <3>2, <3>3
    <3>5. c \in v /\ new[c] = ticks[c]
      BY <1>1, <1>3
    <3> QED BY <2>1, <3>1, <3>4, <3>5
  <2> QED BY <2>2, <2>3
<1>13. folded.volume = Total(SizesOf(new, v), v)
  BY <1>5, <1>7, <1>a
<1>14. IsBar(new, folded, s, start)
  BY <1>8, <1>9, <1>10, <1>11, <1>12, <1>13 DEF IsBar, v
<1> QED BY <1>14 DEF new, folded

\* IsBar tells exactly one bar, the reference.
LEMMA IsBarReference ==
    ASSUME NEW ticks \in Seq(Tick), NEW s, NEW start, NEW bar \in Bar,
           IsBar(ticks, bar, s, start)
    PROVE  bar = ReferenceBar(ticks, s, start)
<1> DEFINE w == Window(ticks, s, start)
           prices == {ticks[i].price : i \in w}
           times == {ticks[i].time : i \in w}
           latest == Max(times)
           last == {i \in w : ticks[i].time = latest}
<1>1. \A i \in w : i \in Int /\ ticks[i].time \in Int /\ ticks[i].price \in Int
  BY WindowTyped
<1>2. /\ bar.symbol = s /\ bar.start = start
      /\ \E i \in w : bar.open = ticks[i].price /\ \A j \in w : i <= j
      /\ \E i \in w : bar.high = ticks[i].price
      /\ \E i \in w : bar.low = ticks[i].price
      /\ \A i \in w : bar.low <= ticks[i].price /\ ticks[i].price <= bar.high
      /\ \E i \in w :
          /\ bar.close = ticks[i].price /\ bar.last = ticks[i].time
          /\ \A j \in w : ticks[j].time < bar.last \/ (ticks[j].time = bar.last /\ j <= i)
      /\ bar.volume = Total(SizesOf(ticks, w), w)
  BY DEF IsBar
<1>r. ReferenceBar(ticks, s, start) =
        [symbol |-> s, open |-> ticks[Min(w)].price, high |-> Max(prices), low |-> Min(prices),
         close |-> ticks[Max(last)].price, volume |-> Total(SizesOf(ticks, w), w),
         start |-> start, last |-> latest]
  BY DEF ReferenceBar, SizesOf
<1> HIDE DEF w
<1>3. bar.open = ticks[Min(w)].price
  <2>1. PICK i \in w : bar.open = ticks[i].price /\ \A j \in w : i <= j
    BY <1>2
  <2>2. w \in SUBSET Int
    BY <1>1
  <2>3. Min(w) = i
    BY <2>1, <2>2, MinIs
  <2> QED BY <2>1, <2>3
<1>4. bar.high = Max(prices) /\ bar.low = Min(prices)
  <2>1. prices \in SUBSET Int /\ bar.high \in prices /\ bar.low \in prices
    BY <1>1, <1>2
  <2>2. \A x \in prices : x <= bar.high /\ bar.low <= x
    BY <1>2
  <2> HIDE DEF prices
  <2> QED BY <2>1, <2>2, MaxIs, MinIs
<1>5. PICK c \in w :
          /\ bar.close = ticks[c].price /\ bar.last = ticks[c].time
          /\ \A j \in w : ticks[j].time < bar.last \/ (ticks[j].time = bar.last /\ j <= c)
  BY <1>2
<1>6. latest = bar.last
  <2>1. times \in SUBSET Int /\ bar.last \in times
    BY <1>1, <1>5
  <2>2. \A x \in times : x <= bar.last
    BY <1>1, <1>5
  <2> HIDE DEF times
  <2> QED BY <2>1, <2>2, MaxIs
<1>7. Max(last) = c
  <2>1. last \in SUBSET Int /\ c \in last
    BY <1>1, <1>5, <1>6
  <2>2. \A x \in last : x <= c
    BY <1>1, <1>5, <1>6
  <2> HIDE DEF last
  <2> QED BY <2>1, <2>2, MaxIs
<1> HIDE DEF prices, times, latest, last
<1>8. bar = [symbol |-> bar.symbol, open |-> bar.open, high |-> bar.high, low |-> bar.low,
             close |-> bar.close, volume |-> bar.volume, start |-> bar.start, last |-> bar.last]
  BY DEF Bar
<1> QED BY <1>2, <1>3, <1>4, <1>5, <1>6, <1>7, <1>8, <1>r
\* A bar that is right when it is published is the newest one of its window.
LEMMA SentNew ==
    ASSUME NEW bars \in Seq(Bar), NEW bar \in Bar, NEW ticks, NEW s, NEW start,
           IsBar(ticks, bar, s, start)
    PROVE  Sent(Append(bars, bar), ticks, s, start)
<1>1. Len(bars) \in Nat /\ DOMAIN Append(bars, bar) = 1..Len(bars) + 1
  OBVIOUS
<1>2. Append(bars, bar)[Len(bars) + 1] = bar
  OBVIOUS
<1>3. Len(bars) + 1 \in 1..Len(bars) + 1 /\ \A j \in 1..Len(bars) + 1 : j <= Len(bars) + 1
  BY <1>1
<1> QED BY <1>1, <1>2, <1>3 DEF Sent

\* It stays right and newest as long as neither ticks nor bars of its window come.
LEMMA SentKept ==
    ASSUME NEW bars \in Seq(Bar), NEW ticks \in Seq(Tick), NEW tick \in Tick, NEW s, NEW start,
           Sent(bars, ticks, s, start),
           ~(tick.symbol = s /\ windowStart(tick.time) = start),
           NEW later,
           \/ later = bars
           \/ \E bar \in Bar : ~(bar.symbol = s /\ bar.start = start) /\ later = Append(bars, bar)
    PROVE  Sent(later, Append(ticks, tick), s, start)
<1>1. PICK i \in DOMAIN bars :
        /\ IsBar(ticks, bars[i], s, start)
        /\ \A j \in DOMAIN bars : bars[j].symbol = s /\ bars[j].start = start => j <= i
  BY DEF Sent
<1>2. IsBar(Append(ticks, tick), bars[i], s, start)
  BY <1>1, IsBarOther
<1>3. CASE later = bars
  BY <1>1, <1>2, <1>3 DEF Sent
<1>4. ASSUME NEW bar \in Bar, ~(bar.symbol = s /\ bar.start = start), later = Append(bars, bar)
      PROVE  Sent(later, Append(ticks, tick), s, start)
  <2>1. Len(bars) \in Nat /\ DOMAIN bars = 1..Len(bars) /\ DOMAIN later = 1..Len(bars) + 1
    BY <1>4
  <2>2. later[Len(bars) + 1] = bar /\ \A j \in 1..Len(bars) : later[j] = bars[j]
    BY <1>4
  <2>3. \A j \in 1..Len(bars) + 1 : j \in 1..Len(bars) \/ j = Len(bars) + 1
    BY <2>1
  <2>4. i \in 1..Len(bars) + 1 /\ later[i] = bars[i]
    BY <1>1, <2>1, <2>2
  <2>5. \A j \in 1..Len(bars) + 1 : later[j].symbol = s /\ later[j].start = start => j <= i
    BY <1>1, <1>4, <2>1, <2>2, <2>3
  <2> QED BY <1>2, <2>1, <2>4, <2>5 DEF Sent
<1> QED BY <1>3, <1>4

-----------------------------------------------------------------------------
(***************************************************************************)
(* What keeps BarsExact, for one symbol: no tick counted is newer than the *)
(* current bar's window, the bars held are right, and for every older      *)
(* window the newest bar published is, unless one was lost.                *)
(***************************************************************************)
ExactFor(s, ticks, current, previous, bars, lost) ==
    /\ \A i \in DOMAIN ticks : ticks[i].symbol = s =>
          current # NoBar /\ windowStart(ticks[i].time) <= current.start
    /\ current # NoBar => IsBar(ticks, current, s, current.start)
    /\ previous # NoBar => IsBar(ticks, previous, s, previous.start)
    /\ \A i \in DOMAIN ticks :
          /\ ticks[i].symbol = s
          /\ windowStart(ticks[i].time) < current.start
          /\ \A bar \in lost : bar.start # windowStart(ticks[i].time)
          => Sent(bars, ticks, s, windowStart(ticks[i].time))

ExactInv ==
    \A s \in Symbols :
        ExactFor(s, counted, currentBar[s], previousBar[s], published, unsent)

\* What publishBar does to the bars sent and to those lost.
Publishes(bar, bars, later, lost, missed) ==
    \/ later = Append(bars, bar) /\ missed = lost
    \/ later = bars /\ missed = lost \cup {bar}

\* The ticks after one more: the old ones and the new one.
LEMMA AppendPlaces ==
    ASSUME NEW ticks \in Seq(Tick), NEW tick \in Tick
    PROVE  /\ Append(ticks, tick) \in Seq(Tick)
           /\ \A i \in DOMAIN Append(ticks, tick) :
                 \/ i \in DOMAIN ticks /\ Append(ticks, tick)[i] = ticks[i]
                 \/ Append(ticks, tick)[i] = tick
           /\ \A i \in DOMAIN ticks : ticks[i] \in Tick /\ windowStart(ticks[i].time) \in Int
           /\ windowStart(tick.time) \in Int
<1>1. \A t \in Tick : windowStart(t.time) \in Int
  BY AggregatorAssumption, WindowStartInt DEF Tick
<1>2. \A i \in DOMAIN ticks : ticks[i] \in Tick
  OBVIOUS
<1>3. Len(ticks) \in Nat /\ DOMAIN ticks = 1..Len(ticks)
        /\ DOMAIN Append(ticks, tick) = 1..Len(ticks) + 1
  OBVIOUS
<1>4. \A i \in 1..Len(ticks) + 1 : i \in 1..Len(ticks) \/ i = Len(ticks) + 1
  BY <1>3
<1> QED BY <1>1, <1>2, <1>3, <1>4

\* A tick of another symbol, and the bar it has published.
LEMMA ExactOther ==
    ASSUME NEW s, NEW ticks \in Seq(Tick), NEW tick \in Tick, tick.symbol # s,
           NEW current, NEW previous, NEW bars \in Seq(Bar), NEW lost,
           ExactFor(s, ticks, current, previous, bars, lost),
           NEW later, NEW missed,
           \/ later = bars /\ missed = lost
           \/ \E bar \in Bar : bar.symbol # s /\ Publishes(bar, bars, later, lost, missed)
    PROVE  ExactFor(s, Append(ticks, tick), current, previous, later, missed)
<1> DEFINE new == Append(ticks, tick)
<1>1. /\ \A i \in DOMAIN new : \/ i \in DOMAIN ticks /\ new[i] = ticks[i]
                               \/ new[i] = tick
  BY AppendPlaces
<1>2. /\ current # NoBar => IsBar(new, current, s, current.start)
      /\ previous # NoBar => IsBar(new, previous, s, previous.start)
  BY IsBarOther DEF ExactFor
<1>3. \/ later = bars
      \/ \E bar \in Bar : bar.symbol # s /\ later = Append(bars, bar)
  BY DEF Publishes
<1>4. lost \subseteq missed
  BY DEF Publishes
<1>5. ASSUME NEW i \in DOMAIN new, new[i].symbol = s,
             windowStart(new[i].time) < current.start,
             \A bar \in missed : bar.start # windowStart(new[i].time)
      PROVE  Sent(later, new, s, windowStart(new[i].time))
  <2>1. i \in DOMAIN ticks /\ new[i] = ticks[i]
    BY <1>1, <1>5
  <2> DEFINE start == windowStart(ticks[i].time)
  <2>2. Sent(bars, ticks, s, start)
    BY <1>4, <1>5, <2>1 DEF ExactFor
  <2> HIDE DEF start
  <2>3. Sent(later, new, s, start)
    BY <1>3, <2>2, SentKept
  <2> QED BY <2>1, <2>3 DEF start
<1>6. \A i \in DOMAIN new : new[i].symbol = s =>
          current # NoBar /\ windowStart(new[i].time) <= current.start
  BY <1>1 DEF ExactFor
<1> HIDE DEF new
<1>7. ExactFor(s, new, current, previous, later, missed)
  BY <1>2, <1>5, <1>6 DEF ExactFor
<1> QED BY <1>7 DEF new

\* The first tick.
LEMMA ExactFirst ==
    ASSUME NEW s, NEW ticks \in Seq(Tick), NEW tick \in Tick, tick.symbol = s,
           NEW bars, NEW lost, ExactFor(s, ticks, NoBar, NoBar, bars, lost)
    PROVE  ExactFor(s, Append(ticks, tick), NewBar(tick), NoBar, bars, lost)
<1> DEFINE new == Append(ticks, tick)
           start == windowStart(tick.time)
           bar == NewBar(tick)
<1>1. /\ \A i \in DOMAIN new : \/ i \in DOMAIN ticks /\ new[i] = ticks[i]
                               \/ new[i] = tick
      /\ start \in Int
  BY AppendPlaces
<1>2. \A i \in DOMAIN ticks : ticks[i].symbol # s
  BY DEF ExactFor
<1>3. Window(ticks, s, start) = {}
  BY <1>2 DEF Window
<1>4. IsBar(new, bar, s, start)
  BY <1>3, IsBarNew
<1>5. bar.start = start /\ bar # NoBar
  BY NewBarOrdered
<1>6. \A i \in DOMAIN new : new[i].symbol = s => new[i] = tick
  BY <1>1, <1>2
<1>7. \A i \in DOMAIN new : new[i].symbol = s => windowStart(new[i].time) = start
  BY <1>6
<1> HIDE DEF new, start, bar
<1>8. ExactFor(s, new, bar, NoBar, bars, lost)
  BY <1>1, <1>4, <1>5, <1>7 DEF ExactFor
<1> QED BY <1>8 DEF new, bar

\* A tick of the current window.
LEMMA ExactCurrent ==
    ASSUME NEW s, NEW ticks \in Seq(Tick), NEW tick \in Tick, tick.symbol = s,
           NEW current \in Bar, NEW previous, previous # NoBar => previous.start < current.start,
           previous \in Bar \cup {NoBar},
           NEW bars \in Seq(Bar), NEW lost, ExactFor(s, ticks, current, previous, bars, lost),
           windowStart(tick.time) = current.start
    PROVE  ExactFor(s, Append(ticks, tick), Fold(current, tick), previous, bars, lost)
<1> DEFINE new == Append(ticks, tick)
           bar == Fold(current, tick)
<1>0. current # NoBar /\ current.start \in Int /\ (previous # NoBar => previous.start # current.start)
  BY AggregatorAssumption DEF Bar
<1>1. /\ \A i \in DOMAIN new : \/ i \in DOMAIN ticks /\ new[i] = ticks[i]
                               \/ new[i] = tick
      /\ \A i \in DOMAIN ticks : windowStart(ticks[i].time) \in Int
  BY AppendPlaces
<1>2. IsBar(new, bar, s, current.start)
  BY <1>0, IsBarFold DEF ExactFor
<1>3. bar \in Bar /\ bar.start = current.start /\ bar # NoBar
  BY FoldFields, AggregatorAssumption
<1>4. previous # NoBar => IsBar(new, previous, s, previous.start)
  BY <1>0, IsBarOther DEF ExactFor
<1>5. ASSUME NEW i \in DOMAIN new, new[i].symbol = s,
             windowStart(new[i].time) < current.start,
             \A b \in lost : b.start # windowStart(new[i].time)
      PROVE  Sent(bars, new, s, windowStart(new[i].time))
  <2>1. i \in DOMAIN ticks /\ new[i] = ticks[i]
    BY <1>0, <1>1, <1>5
  <2> DEFINE start == windowStart(ticks[i].time)
  <2>2. Sent(bars, ticks, s, start) /\ start # windowStart(tick.time)
    BY <1>0, <1>1, <1>5, <2>1 DEF ExactFor
  <2> HIDE DEF start
  <2>3. Sent(bars, new, s, start)
    BY <2>2, SentKept
  <2> QED BY <2>1, <2>3 DEF start
<1>6. \A i \in DOMAIN new : new[i].symbol = s => windowStart(new[i].time) <= current.start
  BY <1>0, <1>1 DEF ExactFor
<1> HIDE DEF new, bar
<1>7. ExactFor(s, new, bar, previous, bars, lost)
  BY <1>2, <1>3, <1>4, <1>5, <1>6 DEF ExactFor
<1> QED BY <1>7 DEF new, bar

\* A tick of a newer window: the current bar is published and becomes the previous one.
LEMMA ExactNext ==
    ASSUME NEW s, NEW ticks \in Seq(Tick), NEW tick \in Tick, tick.symbol = s,
           NEW current \in Bar, NEW previous, NEW bars \in Seq(Bar), NEW lost,
           ExactFor(s, ticks, current, previous, bars, lost),
           windowStart(tick.time) > current.start,
           NEW later, NEW missed, Publishes(current, bars, later, lost, missed)
    PROVE  ExactFor(s, Append(ticks, tick), NewBar(tick), current, later, missed)
<1> DEFINE new == Append(ticks, tick)
           opened == windowStart(tick.time)
           bar == NewBar(tick)
<1>0. current # NoBar /\ current.start \in Int
  BY AggregatorAssumption DEF Bar
<1>1. /\ \A i \in DOMAIN new : \/ i \in DOMAIN ticks /\ new[i] = ticks[i]
                               \/ new[i] = tick
      /\ \A i \in DOMAIN ticks : windowStart(ticks[i].time) \in Int
      /\ opened \in Int
  BY AppendPlaces
<1>2. \A i \in DOMAIN ticks : ticks[i].symbol = s =>
          windowStart(ticks[i].time) <= current.start
  BY DEF ExactFor
<1>3. Window(ticks, s, opened) = {}
  BY <1>0, <1>1, <1>2 DEF Window
<1>4. IsBar(new, bar, s, opened)
  BY <1>3, IsBarNew
<1>5. bar.start = opened /\ bar # NoBar
  BY NewBarOrdered
<1>6. current.start # opened
  BY <1>0, <1>1
<1>7. IsBar(ticks, current, s, current.start)
  BY <1>0 DEF ExactFor
<1>8. IsBar(new, current, s, current.start)
  BY <1>6, <1>7, IsBarOther
<1>9. ASSUME NEW i \in DOMAIN new, new[i].symbol = s, windowStart(new[i].time) < opened,
             \A b \in missed : b.start # windowStart(new[i].time)
      PROVE  Sent(later, new, s, windowStart(new[i].time))
  <2>1. i \in DOMAIN ticks /\ new[i] = ticks[i]
    BY <1>1, <1>9
  <2> DEFINE start == windowStart(ticks[i].time)
  <2>2. start \in Int /\ start <= current.start /\ start # opened
    BY <1>1, <1>2, <1>9, <2>1
  <2>3. CASE start = current.start
    <3>1. later = Append(bars, current)
      BY <1>9, <2>1, <2>3 DEF Publishes
    <3>2. Sent(later, new, s, current.start)
      BY <1>8, <3>1, SentNew
    <3> QED BY <2>1, <2>3, <3>2
  <2>4. CASE start # current.start
    <3>1. lost \subseteq missed /\ (later = bars \/ later = Append(bars, current))
      BY DEF Publishes
    <3>2. Sent(bars, ticks, s, start)
      BY <1>0, <1>9, <2>1, <2>2, <2>4, <3>1 DEF ExactFor
    <3> HIDE DEF start
    <3>3. Sent(later, new, s, start)
      BY <2>2, <2>4, <3>1, <3>2, SentKept
    <3> QED BY <2>1, <3>3 DEF start
  <2> QED BY <2>3, <2>4
<1>10. \A i \in DOMAIN new : new[i].symbol = s => windowStart(new[i].time) <= opened
  BY <1>0, <1>1, <1>2
<1> HIDE DEF new, bar, opened
<1>11. ExactFor(s, new, bar, current, later, missed)
  BY <1>4, <1>5, <1>8, <1>9, <1>10 DEF ExactFor
<1> QED BY <1>11 DEF new, bar

\* A late tick that corrects the previous bar, which is published again.
LEMMA ExactLate ==
    ASSUME NEW s, NEW ticks \in Seq(Tick), NEW tick \in Tick, tick.symbol = s,
           NEW current \in Bar, NEW previous \in Bar, NEW bars \in Seq(Bar), NEW lost,
           ExactFor(s, ticks, current, previous, bars, lost),
           windowStart(tick.time) = previous.start, previous.start < current.start,
           NEW later, NEW missed, Publishes(Fold(previous, tick), bars, later, lost, missed)
    PROVE  ExactFor(s, Append(ticks, tick), current, Fold(previous, tick), later, missed)
<1> DEFINE new == Append(ticks, tick)
           bar == Fold(previous, tick)
<1>0. /\ current # NoBar /\ current.start \in Int
      /\ previous # NoBar /\ previous.start \in Int /\ previous.start # current.start
  BY AggregatorAssumption DEF Bar
<1>1. /\ \A i \in DOMAIN new : \/ i \in DOMAIN ticks /\ new[i] = ticks[i]
                               \/ new[i] = tick
  BY AppendPlaces
<1>2. IsBar(new, bar, s, previous.start)
  BY <1>0, IsBarFold DEF ExactFor
<1>3. bar \in Bar /\ bar.start = previous.start /\ bar # NoBar
  BY FoldFields, AggregatorAssumption
<1>4. IsBar(new, current, s, current.start)
  BY <1>0, IsBarOther DEF ExactFor
<1>p. Publishes(bar, bars, later, lost, missed)
  OBVIOUS
<1>5. ASSUME NEW i \in DOMAIN new, new[i].symbol = s,
             windowStart(new[i].time) < current.start,
             \A b \in missed : b.start # windowStart(new[i].time)
      PROVE  Sent(later, new, s, windowStart(new[i].time))
  <2> DEFINE start == windowStart(new[i].time)
  <2>1. CASE start = previous.start
    <3>1. later = Append(bars, bar)
      <4> HIDE DEF bar
      <4> QED BY <1>3, <1>5, <1>p, <2>1 DEF Publishes
    <3> HIDE DEF bar
    <3>2. Sent(later, new, s, previous.start)
      BY <1>2, <1>3, <3>1, SentNew
    <3> QED BY <2>1, <3>2
  <2>2. CASE start # previous.start
    <3>1. i \in DOMAIN ticks /\ new[i] = ticks[i]
      BY <1>1, <2>2
    <3> HIDE DEF bar
    <3>2. lost \subseteq missed /\ (later = bars \/ later = Append(bars, bar))
      BY <1>p DEF Publishes
    <3>3. Sent(bars, ticks, s, start)
      BY <1>5, <3>1, <3>2 DEF ExactFor
    <3> HIDE DEF start
    <3>4. Sent(later, new, s, start)
      BY <1>3, <2>2, <3>2, <3>3, SentKept
    <3> QED BY <3>4 DEF start
  <2> QED BY <2>1, <2>2
<1>6. \A i \in DOMAIN new : new[i].symbol = s => windowStart(new[i].time) <= current.start
  BY <1>0, <1>1 DEF ExactFor
<1> HIDE DEF new, bar
<1>7. ExactFor(s, new, current, bar, later, missed)
  BY <1>0, <1>2, <1>3, <1>4, <1>5, <1>6 DEF ExactFor
<1> QED BY <1>7 DEF new, bar

\* A processed tick keeps every symbol's bars right: its own symbol's by the case
\* that processTick takes, the others' because neither their ticks nor bars come.
LEMMA ExactStep ==
    ASSUME BarsTyped, BarsOrdered, ExactInv, NEW q \in Symbols, NEW tick \in Tick,
           tick.symbol = q,
           \/ FirstTick(q, tick) \/ CurrentWindow(q, tick)
           \/ NextWindow(q, tick) \/ LateTick(q, tick)
    PROVE  ExactInv'
<1> DEFINE current == currentBar[q]
           previous == previousBar[q]
           new == Append(counted, tick)
<1>0. /\ counted \in Seq(Tick) /\ published \in Seq(Bar)
      /\ current \in Bar \cup {NoBar} /\ previous \in Bar \cup {NoBar}
      /\ current # NoBar => current.symbol = q
      /\ previous # NoBar => /\ previous.symbol = q /\ current # NoBar
                             /\ previous.start < current.start
      /\ currentBar \in [Symbols -> Bar \cup {NoBar}]
      /\ previousBar \in [Symbols -> Bar \cup {NoBar}]
  BY DEF BarsTyped, BarsOrdered
<1>1. \A s \in Symbols :
        ExactFor(s, counted, currentBar[s], previousBar[s], published, unsent)
  BY DEF ExactInv
<1>2. ExactFor(q, counted, current, previous, published, unsent)
  BY <1>1
<1>3. ASSUME NEW c, NEW p, NEW later, NEW missed,
             currentBar' = [currentBar EXCEPT ![q] = c],
             previousBar' = [previousBar EXCEPT ![q] = p],
             counted' = new, published' = later, unsent' = missed,
             ExactFor(q, new, c, p, later, missed),
             \/ later = published /\ missed = unsent
             \/ \E bar \in Bar : bar.symbol = q /\ Publishes(bar, published, later, unsent, missed)
      PROVE  ExactInv'
  <2> SUFFICES ASSUME NEW s \in Symbols
               PROVE  ExactFor(s, counted', currentBar'[s], previousBar'[s], published', unsent')
    BY DEF ExactInv
  <2>1. CASE s = q
    BY <1>0, <1>3, <2>1
  <2>2. CASE s # q
    <3>1. currentBar'[s] = currentBar[s] /\ previousBar'[s] = previousBar[s]
      BY <1>0, <1>3, <2>2
    <3>2. \/ later = published /\ missed = unsent
          \/ \E bar \in Bar : bar.symbol # s /\ Publishes(bar, published, later, unsent, missed)
      BY <1>3, <2>2
    <3> DEFINE cs == currentBar[s]
               ps == previousBar[s]
    <3>3. ExactFor(s, counted, cs, ps, published, unsent)
      BY <1>1
    <3> HIDE DEF cs, ps
    <3>4. ExactFor(s, new, cs, ps, later, missed)
      BY <1>0, <2>2, <3>2, <3>3, ExactOther
    <3> QED BY <1>3, <3>1, <3>4 DEF cs, ps
  <2> QED BY <2>1, <2>2
<1>4. previousBar = [previousBar EXCEPT ![q] = previous]
        /\ currentBar = [currentBar EXCEPT ![q] = current]
  BY <1>0
<1>5. CASE FirstTick(q, tick)
  <2>1. current = NoBar /\ previous = NoBar
    BY <1>0, <1>5 DEF FirstTick
  <2>2. ExactFor(q, new, NewBar(tick), NoBar, published, unsent)
    BY <1>0, <1>2, <2>1, ExactFirst
  <2>3. /\ currentBar' = [currentBar EXCEPT ![q] = NewBar(tick)]
        /\ previousBar' = [previousBar EXCEPT ![q] = NoBar]
        /\ counted' = new /\ published' = published /\ unsent' = unsent
    BY <1>4, <1>5, <2>1 DEF FirstTick, Count
  <2> HIDE DEF new
  <2> QED BY <1>3, <2>2, <2>3
<1>6. CASE CurrentWindow(q, tick)
  <2>1. current \in Bar /\ windowStart(tick.time) = current.start
    BY <1>0, <1>6 DEF CurrentWindow
  <2>2. /\ currentBar' = [currentBar EXCEPT ![q] = Fold(current, tick)]
        /\ previousBar' = [previousBar EXCEPT ![q] = previous]
        /\ counted' = new /\ published' = published /\ unsent' = unsent
    BY <1>4, <1>6 DEF CurrentWindow, Count
  <2> HIDE DEF current, previous
  <2>3. ExactFor(q, new, Fold(current, tick), previous, published, unsent)
    BY <1>0, <1>2, <2>1, ExactCurrent
  <2> HIDE DEF new
  <2> QED BY <1>3, <2>2, <2>3
<1>7. CASE NextWindow(q, tick)
  <2>1. current \in Bar /\ windowStart(tick.time) > current.start /\ current.symbol = q
    BY <1>0, <1>7 DEF NextWindow
  <2>2. /\ currentBar' = [currentBar EXCEPT ![q] = NewBar(tick)]
        /\ previousBar' = [previousBar EXCEPT ![q] = current]
        /\ counted' = new
        /\ Publishes(current, published, published', unsent, unsent')
    BY <1>7 DEF NextWindow, Count, publishBar, Publishes
  <2> HIDE DEF current, previous
  <2>3. ExactFor(q, new, NewBar(tick), current, published', unsent')
    BY <1>0, <1>2, <2>1, <2>2, ExactNext
  <2> HIDE DEF new
  <2> QED BY <1>3, <2>1, <2>2, <2>3
<1>8. CASE LateTick(q, tick) /\ Correctable(current, previous, tick)
  <2>1. /\ current \in Bar /\ previous \in Bar
        /\ windowStart(tick.time) = previous.start /\ previous.start < current.start
        /\ previous.symbol = q
    BY <1>0, <1>8 DEF LateTick, Correctable
  <2>2. /\ currentBar' = [currentBar EXCEPT ![q] = current]
        /\ previousBar' = [previousBar EXCEPT ![q] = Fold(previous, tick)]
        /\ counted' = new
        /\ Publishes(Fold(previous, tick), published, published', unsent, unsent')
    BY <1>4, <1>8 DEF LateTick, Count, publishBar, Publishes
  <2> HIDE DEF current, previous
  <2>3. ExactFor(q, new, current, Fold(previous, tick), published', unsent')
    BY <1>0, <1>2, <2>1, <2>2, ExactLate
  <2>4. Fold(previous, tick) \in Bar /\ Fold(previous, tick).symbol = q
    BY <2>1, FoldFields
  <2> HIDE DEF new
  <2> QED BY <1>3, <2>2, <2>3, <2>4
<1>9. CASE LateTick(q, tick) /\ ~Correctable(current, previous, tick)
  <2>1. UNCHANGED <<currentBar, previousBar, published, unsent, counted>>
    BY <1>9 DEF LateTick
  <2> QED BY <2>1 DEF ExactInv
<1> QED BY <1>5, <1>6, <1>7, <1>8, <1>9

\* Only processTick touches ticks counted and bars.
LEMMA ExactInvStep == Inv /\ ExactInv /\ [Next]_vars => ExactInv'
<1> SUFFICES ASSUME Inv, ExactInv, [Next]_vars PROVE ExactInv'
  OBVIOUS
<1>1. CASE UNCHANGED <<currentBar, previousBar, published, unsent, counted>>
  BY <1>1 DEF ExactInv
<1>2. ASSUME NEW s \in Symbols, processTick(s) PROVE ExactInv'
  <2> DEFINE tick == Head(tickChan[s])
  <2>1. tickChan[s] \in Seq(Tick) /\ tickChan[s] # <<>>
    BY <1>2 DEF processTick, Inv, TypeOK
  <2>2. tick \in Tick /\ tick.symbol = s
    <3>1. \A i \in DOMAIN tickChan[s] : tickChan[s][i].symbol = s
      BY DEF Inv, ChannelsSorted
    <3> QED BY <2>1, <3>1
  <2>3. \/ FirstTick(s, tick) \/ CurrentWindow(s, tick)
        \/ NextWindow(s, tick) \/ LateTick(s, tick)
    BY <1>2 DEF processTick
  <2>4. BarsTyped /\ BarsOrdered
    BY DEF Inv, TypeOK, BarsTyped
  <2> HIDE DEF tick
  <2> QED BY <2>2, <2>3, <2>4, ExactStep
<1>3. ASSUME NEW tick \in Tick, Receive(tick)
      PROVE  UNCHANGED <<currentBar, previousBar, published, unsent, counted>>
  BY <1>3 DEF Receive
<1>4. CASE Route \/ Stop \/ UNCHANGED vars
  <2>1. UNCHANGED <<currentBar, previousBar, published, unsent, counted>>
    BY <1>4 DEF Route, Stop, vars
  <2> QED BY <1>1, <2>1
<1> QED BY <1>1, <1>2, <1>3, <1>4 DEF Next

\* The invariant says what BarsExact says.
LEMMA ExactFollows ==
    ASSUME TypeOK, ExactInv
    PROVE  BarsExact
<1>0. /\ counted \in Seq(Tick) /\ published \in Seq(Bar)
      /\ currentBar \in [Symbols -> Bar \cup {NoBar}]
      /\ previousBar \in [Symbols -> Bar \cup {NoBar}]
  BY DEF TypeOK
<1>1. BarsMatchTicks
  <2> SUFFICES ASSUME NEW s \in Symbols, NEW bar \in {currentBar[s], previousBar[s]} \ {NoBar}
               PROVE  bar = ReferenceBar(counted, s, bar.start)
    BY DEF BarsMatchTicks
  <2>1. bar \in Bar /\ IsBar(counted, bar, s, bar.start)
    BY <1>0 DEF ExactInv, ExactFor
  <2> QED BY <1>0, <2>1, IsBarReference
<1>2. SubscribersAgree
  <2> SUFFICES ASSUME NEW s \in Symbols, NEW start \in Windows(s),
                      start < currentBar[s].start,
                      \A bar \in unsent : bar.start # start
               PROVE  LET bars == {i \in DOMAIN published :
                                      published[i].symbol = s /\ published[i].start = start}
                      IN bars # {} /\ published[Max(bars)] = ReferenceBar(counted, s, start)
    BY DEF SubscribersAgree
  <2>1. PICK k \in DOMAIN counted : counted[k].symbol = s /\ windowStart(counted[k].time) = start
    BY DEF Windows
  <2>2. Sent(published, counted, s, start)
    BY <2>1 DEF ExactInv, ExactFor
  <2>3. PICK i \in DOMAIN published :
          /\ IsBar(counted, published[i], s, start)
          /\ \A j \in DOMAIN published :
                published[j].symbol = s /\ published[j].start = start => j <= i
    BY <2>2 DEF Sent
  <2> DEFINE bars == {j \in DOMAIN published :
                         published[j].symbol = s /\ published[j].start = start}
  <2>4. published[i] \in Bar /\ published[i].symbol = s /\ published[i].start = start
    BY <1>0, <2>3 DEF IsBar
  <2>5. i \in bars /\ bars \in SUBSET Int /\ \A j \in bars : j <= i
    BY <1>0, <2>3, <2>4
  <2>6. published[i] = ReferenceBar(counted, s, start)
    BY <1>0, <2>3, <2>4, IsBarReference
  <2> HIDE DEF bars
  <2>7. Max(bars) = i
    BY <2>5, MaxIs
  <2> QED BY <2>5, <2>6, <2>7 DEF bars
<1> QED BY <1>1, <1>2 DEF BarsExact

\* The bars in memory, and those a subscriber is left with, are the bars of their
\* ticks by definition, for ticks in any order, any number of symbols and any
\* window, watermark and channel sizes.
THEOREM BarsExactTheorem == Spec => []BarsExact
<1>1. Init => ExactInv
  BY DEF Init, ExactInv, ExactFor
<1>2. Inv /\ ExactInv => BarsExact
  BY ExactFollows DEF Inv
<1> QED
  BY <1>1, <1>2, InitInv, NextInv, ExactInvStep, PTL DEF Spec

-----------------------------------------------------------------------------
(***************************************************************************)
(* Every tick is accounted for                                             *)
(***************************************************************************)
\* The start of a window is a multiple of the window size, at most the tick's time,
\* which is less than one window later.
LEMMA WindowMultiple ==
    ASSUME NEW time \in Nat
    PROVE  \E q \in Int : /\ windowStart(time) = WindowSize * q
                          /\ time < windowStart(time) + WindowSize
<1> DEFINE q == time \div WindowSize
<1>1. WindowSize \in Int /\ WindowSize > 0 /\ time \in Int
  BY AggregatorAssumption
<1>2. q \in Int
  BY <1>1, Z3
<1>3. time % WindowSize = time - WindowSize * q
  BY ONLY <1>1, Z3
<1>4. time % WindowSize \in 0..WindowSize - 1
  BY ONLY <1>1, Z3
<1> HIDE DEF q
<1>5. WindowSize * q \in Int
  BY <1>1, <1>2
<1> QED BY <1>1, <1>2, <1>3, <1>4, <1>5 DEF windowStart

\* Two different windows are at least a window size apart.
LEMMA WindowsApart ==
    ASSUME NEW a \in Nat, NEW b \in Nat, windowStart(a) < windowStart(b)
    PROVE  /\ windowStart(a) + WindowSize <= windowStart(b)
           /\ a < windowStart(a) + WindowSize
<1>1. PICK p \in Int : windowStart(a) = WindowSize * p /\ a < windowStart(a) + WindowSize
  BY WindowMultiple
<1>2. PICK q \in Int : windowStart(b) = WindowSize * q
  BY WindowMultiple
<1>3. WindowSize \in Int /\ WindowSize > 0
  BY AggregatorAssumption
<1>4. CASE p < q
  <2>1. PICK k \in Nat : q = p + 1 + k
    <3>1. q - p - 1 \in Nat /\ q = p + 1 + (q - p - 1)
      BY <1>4
    <3> QED BY <3>1
  <2>2. WindowSize * q = WindowSize * p + WindowSize + WindowSize * k
    BY ONLY <2>1, <1>3, Z3
  <2>3. WindowSize * k >= 0 /\ WindowSize * k \in Int /\ WindowSize * p \in Int
    BY <1>3
  <2> QED BY <1>1, <1>2, <1>3, <2>2, <2>3
<1>5. CASE q <= p
  <2>1. PICK k \in Nat : p = q + k
    <3>1. p - q \in Nat /\ p = q + (p - q)
      BY <1>5
    <3> QED BY <3>1
  <2>2. WindowSize * p = WindowSize * q + WindowSize * k
    BY ONLY <2>1, <1>3, Z3
  <2>3. WindowSize * k >= 0 /\ WindowSize * k \in Int /\ WindowSize * q \in Int
    BY <1>3
  <2> QED BY <1>1, <1>2, <1>3, <2>2, <2>3
<1> QED BY <1>4, <1>5

OfSymbol(ticks, s) == {i \in DOMAIN ticks : ticks[i].symbol = s}

\* One more tick is one more of its symbol, and of no other.
LEMMA OfSymbolAppend ==
    ASSUME NEW ticks \in Seq(Tick), NEW tick \in Tick, NEW s
    PROVE  /\ Cardinality(OfSymbol(ticks, s)) \in Nat
           /\ Cardinality(OfSymbol(Append(ticks, tick), s)) =
                Cardinality(OfSymbol(ticks, s)) + (IF tick.symbol = s THEN 1 ELSE 0)
<1> DEFINE new == Append(ticks, tick)
           n == Len(ticks)
           old == OfSymbol(ticks, s)
<1>1. /\ n \in Nat /\ DOMAIN ticks = 1..n /\ DOMAIN new = 1..n + 1
      /\ new[n + 1] = tick /\ \A i \in 1..n : new[i] = ticks[i]
  OBVIOUS
<1>2. old \subseteq 1..n /\ n + 1 \notin old
  BY <1>1 DEF OfSymbol
<1>3. IsFiniteSet(old) /\ Cardinality(old) \in Nat
  <2>1. IsFiniteSet(1..n)
    <3> HIDE DEF n
    <3> QED BY <1>1, FS_Interval
  <2> HIDE DEF n, old
  <2> QED BY <1>2, <2>1, FS_Subset, FS_CardinalityType
<1>4. \A i : i \in 1..n + 1 <=> i \in 1..n \/ i = n + 1
  BY <1>1
<1> HIDE DEF n, new
<1>5. OfSymbol(new, s) = IF tick.symbol = s THEN old \cup {n + 1} ELSE old
  BY <1>1, <1>4 DEF OfSymbol
<1>6. Cardinality(old \cup {n + 1}) = Cardinality(old) + 1
  <2> HIDE DEF old
  <2> QED BY <1>2, <1>3, FS_AddElement
<1> HIDE DEF old
<1>7. Cardinality(OfSymbol(new, s)) = Cardinality(old) + (IF tick.symbol = s THEN 1 ELSE 0)
  BY <1>3, <1>5, <1>6
<1> QED BY <1>3, <1>7 DEF new, old

\* The ticks of a symbol, wherever they are.
Conserved ==
    \A s \in Symbols :
        arrived[s] = Counted(s) + Len(discarded[s]) + Len(tickChan[s]) + Held(s)

\* A tick in the bars is of the current window, or no newer than the previous bar.
CountedPast(s, ticks, current, previous) ==
    \A j \in DOMAIN ticks : ticks[j].symbol = s =>
        \/ windowStart(ticks[j].time) = current.start
        \/ previous # NoBar /\ windowStart(ticks[j].time) <= previous.start

\* A tick thrown away is older than the current window; it was beyond the watermark,
\* or its window has no tick and is not the previous bar's.
Rightly(d, s, ticks, current, previous) ==
    /\ current # NoBar
    /\ windowStart(d.time) < current.start
    /\ \/ d.time < d.start - Watermark
       \/ /\ Window(ticks, s, windowStart(d.time)) = {}
          /\ previous # NoBar => windowStart(d.time) # previous.start

DiscardsRight ==
    \A s \in Symbols :
        /\ CountedPast(s, counted, currentBar[s], previousBar[s])
        /\ \A i \in DOMAIN discarded[s] :
              Rightly(discarded[s][i], s, counted, currentBar[s], previousBar[s])

\* What processTick does with a tick: one of its symbol is counted or thrown away.
LEMMA ProcessKeeps ==
    ASSUME BarsTyped, discarded \in [Symbols -> Seq([time : Times, start : Int])],
           NEW q \in Symbols, NEW tick \in Tick, tick.symbol = q,
           \/ FirstTick(q, tick) \/ CurrentWindow(q, tick)
           \/ NextWindow(q, tick) \/ LateTick(q, tick),
           NEW s \in Symbols
    PROVE  /\ Counted(s) \in Nat /\ Len(discarded[s]) \in Nat
           /\ Counted(s)' + Len(discarded'[s]) =
                Counted(s) + Len(discarded[s]) + (IF s = q THEN 1 ELSE 0)
<1> DEFINE records == discarded[s]
           n == Cardinality(OfSymbol(counted, s))
<1>0. counted \in Seq(Tick)
  BY DEF BarsTyped
<1>1. Counted(s) = n /\ n \in Nat
  <2>1. Counted(s) = n
    BY DEF Counted, OfSymbol
  <2> QED BY <1>0, <2>1, OfSymbolAppend
<1>2. records \in Seq([time : Times, start : Int])
  OBVIOUS
<1>3. Len(records) \in Nat
  BY <1>2
<1>4. CASE Count(tick) /\ UNCHANGED discarded
  <2>1. Counted(s)' = Cardinality(OfSymbol(Append(counted, tick), s))
    BY <1>4 DEF Counted, OfSymbol, Count
  <2>2. Cardinality(OfSymbol(Append(counted, tick), s)) = n + (IF s = q THEN 1 ELSE 0)
    BY <1>0, OfSymbolAppend
  <2>3. discarded'[s] = records
    BY <1>4
  <2> DEFINE m == Len(records)
             one == IF s = q THEN 1 ELSE 0
             after == Counted(s)'
  <2>4. /\ m \in Nat /\ one \in Nat /\ after = n + one /\ Len(discarded'[s]) = m
    BY <1>3, <2>1, <2>2, <2>3
  <2> HIDE DEF n, m, one, after
  <2>5. after + m = n + m + one
    BY <1>1, <2>4
  <2> QED BY <1>1, <2>4, <2>5 DEF m, one, after
<1>5. CASE Discard(q, tick) /\ UNCHANGED counted
  <2> DEFINE record == [time |-> tick.time, start |-> currentBar[q].start]
  <2>1. Counted(s)' = n
    BY <1>1, <1>5 DEF Counted, OfSymbol
  <2>2. discarded' = [discarded EXCEPT ![q] = Append(@, record)]
    BY <1>5 DEF Discard
  <2> HIDE DEF record
  <2>3. s = q => discarded'[s] = Append(records, record)
    BY <2>2
  <2>4. s # q => discarded'[s] = records
    BY <2>2
  <2>a. Len(Append(records, record)) = Len(records) + 1
    <3> DEFINE Records == [time : Times, start : Int]
    <3>1. records \in Seq(Records) BY <1>2
    <3> HIDE DEF records, Records
    <3> QED BY <3>1
  <2> DEFINE m == Len(records)
             one == IF s = q THEN 1 ELSE 0
             after == Counted(s)'
             last == Len(discarded'[s])
  <2>5. last = m + one
    <3> HIDE DEF n, records
    <3> QED BY <1>3, <2>3, <2>4, <2>a
  <2>6. m \in Nat /\ one \in Nat /\ after = n
    BY <1>3, <2>1
  <2> HIDE DEF n, m, one, after, last
  <2>7. after + last = n + m + one
    BY <1>1, <2>5, <2>6
  <2> QED BY <1>1, <2>6, <2>7 DEF m, one, after, last
<1> QED
  BY <1>4, <1>5 DEF FirstTick, CurrentWindow, NextWindow, LateTick

\* No step loses a tick: it moves from the router to the channel of its symbol, and
\* from there into the bars or among those thrown away.
LEMMA ConservedStep == Inv /\ Conserved /\ [Next]_vars => Conserved'
<1> SUFFICES ASSUME Inv, Conserved, [Next]_vars, NEW s \in Symbols
             PROVE  arrived'[s] = Counted(s)' + Len(discarded'[s]) + Len(tickChan'[s]) + Held(s)'
  BY DEF Conserved
<1> DEFINE c == Counted(s)
           d == Len(discarded[s])
           w == Len(tickChan[s])
           h == Held(s)
           one(q) == IF s = q THEN 1 ELSE 0
<1>0. arrived[s] = c + d + w + h
  BY DEF Conserved
<1>1. /\ c \in Nat /\ d \in Nat /\ w \in Nat /\ h \in Nat /\ arrived[s] \in Nat
      /\ tickChan[s] \in Seq(Tick)
  <2>1. counted \in Seq(Tick) /\ discarded \in [Symbols -> Seq([time : Times, start : Int])]
          /\ tickChan \in [Symbols -> Seq(Tick)] /\ arrived \in [Symbols -> Nat]
    BY DEF Inv, TypeOK
  <2>2. c = Cardinality(OfSymbol(counted, s))
    BY DEF Counted, OfSymbol
  <2>3. c \in Nat
    <3>1. CASE Tick = {}
      <4>1. DOMAIN counted = {}
        BY <2>1, <3>1
      <4>2. OfSymbol(counted, s) = {}
        BY <4>1 DEF OfSymbol
      <4> QED BY <2>2, <4>2, FS_EmptySet
    <3>2. CASE Tick # {}
      <4> HIDE DEF c
      <4> QED BY <2>1, <2>2, <3>2, OfSymbolAppend
    <3> QED BY <3>1, <3>2
  <2>4. discarded[s] \in Seq([time : Times, start : Int]) /\ tickChan[s] \in Seq(Tick)
          /\ arrived[s] \in Nat
    BY <2>1
  <2>5. h \in Nat
    BY DEF Held
  <2> QED BY <2>3, <2>4, <2>5
<1> DEFINE Goal == arrived'[s] = Counted(s)' + Len(discarded'[s]) + Len(tickChan'[s]) + Held(s)'
<1>2. ASSUME NEW tick \in Tick, Receive(tick) PROVE Goal
  <2>1. /\ Counted(s)' = c /\ Len(discarded'[s]) = d /\ Len(tickChan'[s]) = w
    BY <1>2 DEF Receive, Counted
  <2>2. h = 0 /\ Held(s)' = one(tick.symbol)
    <3>1. tick # NoTick
      BY AggregatorAssumption
    <3> QED BY <1>2, <3>1 DEF Receive, Held
  <2>3. tick.symbol \in Symbols
    BY DEF Tick
  <2>4. arrived'[s] = arrived[s] + one(tick.symbol)
    BY <1>1, <1>2, <2>3 DEF Receive, Inv, TypeOK
  <2>5. one(tick.symbol) \in Nat
    OBVIOUS
  <2> HIDE DEF c, d, w, h, one
  <2> QED BY <1>0, <1>1, <2>1, <2>2, <2>4, <2>5
<1>3. CASE Route
  <2> DEFINE q == routing.symbol
  <2>1. Counted(s)' = c /\ Len(discarded'[s]) = d /\ arrived' = arrived
    BY <1>3 DEF Route, Counted
  <2>2. h = one(q) /\ Held(s)' = 0
    BY <1>3 DEF Route, Held
  <2>3. routing \in Tick /\ q \in Symbols
    BY <1>3 DEF Route, Inv, TypeOK, Tick
  <2>4. tickChan' = [tickChan EXCEPT ![q] = Append(@, routing)]
          /\ tickChan \in [Symbols -> Seq(Tick)]
    BY <1>3 DEF Route, Inv, TypeOK
  <2>5. Len(Append(tickChan[s], routing)) = w + 1
    BY <1>1, <2>3
  <2> HIDE DEF q
  <2>6. tickChan'[s] = IF s = q THEN Append(tickChan[s], routing) ELSE tickChan[s]
    BY <2>4
  <2>7. Len(tickChan'[s]) = w + one(q)
    <3>1. CASE s = q
      <4>1. tickChan'[s] = Append(tickChan[s], routing) BY <2>6, <3>1
      <4>2. one(q) = 1 BY <3>1
      <4> HIDE DEF w, one
      <4> QED BY <2>5, <4>1, <4>2
    <3>2. CASE s # q
      <4>1. tickChan'[s] = tickChan[s] BY <2>6, <3>2
      <4>2. one(q) = 0 /\ Len(tickChan'[s]) = w BY <3>2, <4>1
      <4>3. w \in Nat BY <1>1
      <4> HIDE DEF w, one
      <4> QED BY <4>2, <4>3
    <3> QED BY <3>1, <3>2
  <2>8. one(q) \in Nat
    OBVIOUS
  <2> HIDE DEF c, d, w, h, one
  <2> QED BY <1>0, <1>1, <2>1, <2>2, <2>7, <2>8
<1>4. ASSUME NEW q \in Symbols, processTick(q) PROVE Goal
  <2> DEFINE tick == Head(tickChan[q])
  <2>1. /\ tickChan \in [Symbols -> Seq(Tick)] /\ tickChan[q] \in Seq(Tick) /\ tickChan[q] # <<>>
        /\ tickChan' = [tickChan EXCEPT ![q] = Tail(@)]
        /\ arrived' = arrived /\ routing' = routing
    BY <1>4 DEF processTick, Inv, TypeOK
  <2>2. tick \in Tick /\ tick.symbol = q
    <3>1. \A i \in DOMAIN tickChan[q] : tickChan[q][i].symbol = q
      BY DEF Inv, ChannelsSorted
    <3> QED BY <2>1, <3>1
  <2>3. \/ FirstTick(q, tick) \/ CurrentWindow(q, tick)
        \/ NextWindow(q, tick) \/ LateTick(q, tick)
    BY <1>4 DEF processTick
  <2>4. BarsTyped /\ discarded \in [Symbols -> Seq([time : Times, start : Int])]
    BY DEF Inv, TypeOK, BarsTyped
  <2> HIDE DEF tick
  <2>5. Counted(s)' + Len(discarded'[s]) = c + d + one(q)
    BY <2>2, <2>3, <2>4, ProcessKeeps
  <2>6. Len(tickChan'[s]) + one(q) = w
    <3>1. CASE s = q
      <4>1. tickChan'[s] = Tail(tickChan[s])
        BY <2>1, <3>1
      <4>2. Len(Tail(tickChan[s])) = w - 1
        BY <2>1, <3>1, HeadTailProperties
      <4> QED BY <1>1, <3>1, <4>1, <4>2
    <3>2. CASE s # q
      <4>1. tickChan'[s] = tickChan[s]
        BY <2>1, <3>2
      <4> QED BY <1>1, <3>2, <4>1
    <3> QED BY <3>1, <3>2
  <2>7. Held(s)' = h
    BY <2>1 DEF Held
  <2>8. Len(tickChan'[s]) \in Nat /\ Counted(s)' \in Nat /\ Len(discarded'[s]) \in Nat
    <3>1. Inv'
      BY NextInv
    <3>2. tickChan'[s] \in Seq(Tick) /\ discarded'[s] \in Seq([time : Times, start : Int])
      BY <3>1 DEF Inv, TypeOK
    <3>3. Counted(s)' \in Nat
      <4>1. counted' = counted \/ counted' = Append(counted, tick)
        BY <2>3 DEF FirstTick, CurrentWindow, NextWindow, LateTick, Count
      <4>2. counted \in Seq(Tick)
        BY <2>4 DEF BarsTyped
      <4>3. counted' \in Seq(Tick)
        BY <2>2, <4>1, <4>2
      <4>4. Cardinality(OfSymbol(counted', s)) \in Nat
        BY <2>2, <4>3, OfSymbolAppend
      <4> QED BY <4>4 DEF Counted, OfSymbol
    <3> QED BY <3>2, <3>3
  <2>9. one(q) \in Nat
    OBVIOUS
  <2> DEFINE cc == Counted(s)'
             dd == Len(discarded'[s])
             ww == Len(tickChan'[s])
             hh == Held(s)'
             o == one(q)
  <2>10. cc + dd = c + d + o /\ ww + o = w /\ hh = h
    BY <2>5, <2>6, <2>7
  <2>11. cc \in Nat /\ dd \in Nat /\ ww \in Nat /\ o \in Nat
    BY <2>8, <2>9
  <2>12. c \in Nat /\ d \in Nat /\ w \in Nat /\ h \in Nat
    BY <1>1
  <2> HIDE DEF c, d, w, h, one, cc, dd, ww, hh, o
  <2>13. c + d + w + h = cc + dd + ww + hh
    BY ONLY <2>10, <2>11, <2>12
  <2> QED BY <1>0, <2>1, <2>13 DEF cc, dd, ww, hh
<1>5. CASE Stop \/ UNCHANGED vars
  <2>1. UNCHANGED <<arrived, counted, discarded, tickChan, routing>>
    BY <1>5 DEF Stop, vars
  <2> QED BY <1>0, <2>1 DEF Counted, Held
<1> QED BY <1>2, <1>3, <1>4, <1>5 DEF Next

\* What is thrown away stays rightly so when a tick of another window is counted and
\* the bars move on.
LEMMA RightlyKept ==
    ASSUME NEW s, NEW ticks \in Seq(Tick), NEW tick \in Tick, NEW d, NEW current, NEW previous,
           NEW next, NEW last,
           Rightly(d, s, ticks, current, previous),
           windowStart(d.time) \in Int, current \in Bar,
           \/ tick.symbol # s
           \/ windowStart(tick.time) # windowStart(d.time)
           \/ d.time < d.start - Watermark,
           next # NoBar, windowStart(d.time) < next.start,
           \/ last = previous
           \/ last.start = previous.start /\ previous # NoBar
           \/ last = current
    PROVE  Rightly(d, s, Append(ticks, tick), next, last)
<1> DEFINE start == windowStart(d.time)
<1>1. Window(ticks, s, start) = {} /\ ~(d.time < d.start - Watermark)
        => Window(Append(ticks, tick), s, start) = {}
  <2> SUFFICES ASSUME ~(d.time < d.start - Watermark), Window(ticks, s, start) = {}
               PROVE  Window(Append(ticks, tick), s, start) = {}
    OBVIOUS
  <2> HIDE DEF start
  <2>1. ~(tick.symbol = s /\ windowStart(tick.time) = start)
    BY DEF start
  <2> QED BY <2>1, WindowAppend
<1>2. start < current.start
  BY DEF Rightly
<1>3. start # current.start
  BY <1>2 DEF Bar
<1> QED BY <1>1, <1>3 DEF Rightly

\* A tick thrown away was beyond the watermark, or its window was skipped: the
\* windows of the current and of the previous bar are both away from it, and between
\* them there is room for a tick that the watermark admits only after the previous one.
LEMMA RightlyDiscarded ==
    ASSUME NEW s, NEW ticks \in Seq(Tick), NEW tick \in Tick,
           NEW current \in Bar, NEW previous \in Bar \cup {NoBar},
           NEW bars, NEW lost, ExactFor(s, ticks, current, previous, bars, lost),
           CountedPast(s, ticks, current, previous),
           previous # NoBar => previous.start < current.start,
           windowStart(tick.time) < current.start,
           ~Correctable(current, previous, tick),
           NEW d, d.time = tick.time, d.start = current.start
    PROVE  Rightly(d, s, ticks, current, previous)
<1> DEFINE start == windowStart(tick.time)
<1>0. /\ current # NoBar /\ current.start \in Int /\ tick.time \in Nat /\ start \in Int
      /\ Watermark \in Int /\ WindowSize \in Int /\ Watermark <= WindowSize
  <2>1. current # NoBar /\ current.start \in Int /\ tick.time \in Nat
    BY AggregatorAssumption DEF Bar, Tick
  <2>2. Watermark \in Int /\ WindowSize \in Int /\ Watermark <= WindowSize
    BY AggregatorAssumption
  <2> QED BY <2>1, <2>2, WindowStartInt
<1>t. \A i \in DOMAIN ticks : ticks[i].time \in Nat /\ windowStart(ticks[i].time) \in Int
  <2>1. \A i \in DOMAIN ticks : ticks[i] \in Tick
    OBVIOUS
  <2> QED BY <2>1, AggregatorAssumption, WindowStartInt DEF Tick
<1>1. CASE tick.time < current.start - Watermark
  BY <1>0, <1>1 DEF Rightly
<1>2. CASE tick.time >= current.start - Watermark /\ previous = NoBar
  <2>1. Window(ticks, s, start) = {}
    <3> SUFFICES ASSUME NEW j \in DOMAIN ticks, ticks[j].symbol = s,
                        windowStart(ticks[j].time) = start
                 PROVE  FALSE
      BY DEF Window
    <3>1. start = current.start
      BY <1>2 DEF CountedPast
    <3> QED BY <1>0, <3>1
  <2> QED BY <1>0, <1>2, <2>1 DEF Rightly
<1>3. CASE tick.time >= current.start - Watermark /\ previous # NoBar
  <2>0. previous \in Bar /\ previous.start \in Int /\ previous.start < current.start
    BY <1>3 DEF Bar
  <2>1. start # previous.start
    BY <1>3 DEF Correctable
  <2>2. PICK k \in DOMAIN ticks : windowStart(ticks[k].time) = previous.start
    BY <1>3 DEF ExactFor, IsBar, Window
  <2>3. PICK n \in DOMAIN ticks : windowStart(ticks[n].time) = current.start
    BY <1>0 DEF ExactFor, IsBar, Window
  <2>4. Window(ticks, s, start) = {}
    <3> SUFFICES ASSUME NEW j \in DOMAIN ticks, ticks[j].symbol = s,
                        windowStart(ticks[j].time) = start
                 PROVE  FALSE
      BY DEF Window
    <3>1. start = current.start \/ start <= previous.start
      BY DEF CountedPast
    <3>2. start < previous.start
      BY <1>0, <2>0, <2>1, <3>1
    <3>3. start + WindowSize <= previous.start /\ tick.time < start + WindowSize
      BY <1>0, <1>t, <2>2, <3>2, WindowsApart
    <3>4. previous.start + WindowSize <= current.start
      BY <1>t, <2>0, <2>2, <2>3, WindowsApart
    <3> HIDE DEF start
    <3> QED BY <1>0, <1>3, <2>0, <3>3, <3>4
  <2> QED BY <1>0, <2>1, <2>4 DEF Rightly
<1> QED BY <1>0, <1>1, <1>2, <1>3

\* Only processTick throws ticks away, and what it did so rightly stays so: a window
\* that was skipped is never opened later.
LEMMA DiscardsStep ==
    ASSUME Inv, ExactInv, DiscardsRight, NEW q \in Symbols, NEW tick \in Tick,
           tick.symbol = q,
           \/ FirstTick(q, tick) \/ CurrentWindow(q, tick)
           \/ NextWindow(q, tick) \/ LateTick(q, tick)
    PROVE  DiscardsRight'
<1>0. /\ counted \in Seq(Tick)
      /\ currentBar \in [Symbols -> Bar \cup {NoBar}]
      /\ previousBar \in [Symbols -> Bar \cup {NoBar}]
      /\ discarded \in [Symbols -> Seq([time : Times, start : Int])]
  BY DEF Inv, TypeOK
<1> SUFFICES ASSUME NEW s \in Symbols
             PROVE  /\ CountedPast(s, counted', currentBar'[s], previousBar'[s])
                    /\ \A i \in DOMAIN discarded'[s] :
                          Rightly(discarded'[s][i], s, counted', currentBar'[s], previousBar'[s])
  BY DEF DiscardsRight
<1> DEFINE c == currentBar[s]
           p == previousBar[s]
           new == Append(counted, tick)
           start == windowStart(tick.time)
<1>1. /\ CountedPast(s, counted, c, p)
      /\ \A i \in DOMAIN discarded[s] : Rightly(discarded[s][i], s, counted, c, p)
      /\ ExactFor(s, counted, c, p, published, unsent)
  BY DEF DiscardsRight, ExactInv
<1>2. /\ c \in Bar \cup {NoBar} /\ p \in Bar \cup {NoBar}
      /\ p # NoBar => c # NoBar /\ p.start < c.start
  BY <1>0 DEF Inv, BarsOrdered
<1>3. /\ \A i \in DOMAIN new : \/ i \in DOMAIN counted /\ new[i] = counted[i]
                               \/ new[i] = tick
      /\ \A i \in DOMAIN counted : windowStart(counted[i].time) \in Int
      /\ start \in Int
  BY <1>0, AppendPlaces
<1>4. \A i \in DOMAIN discarded[s] : windowStart(discarded[s][i].time) \in Int
  <2> SUFFICES ASSUME NEW i \in DOMAIN discarded[s]
               PROVE  windowStart(discarded[s][i].time) \in Int
    OBVIOUS
  <2> DEFINE Records == [time : Times, start : Int]
  <2>1. discarded[s] \in Seq(Records)
    BY <1>0
  <2> HIDE DEF Records
  <2>2. discarded[s][i] \in Records
    BY <2>1
  <2>3. discarded[s][i].time \in Nat
    BY <2>2, AggregatorAssumption DEF Records
  <2> QED BY <2>3, WindowStartInt
<1> DEFINE Goal == /\ CountedPast(s, counted', currentBar'[s], previousBar'[s])
                   /\ \A i \in DOMAIN discarded'[s] :
                         Rightly(discarded'[s][i], s, counted', currentBar'[s], previousBar'[s])
<1> SUFFICES Goal
  OBVIOUS
<1> DEFINE Moves(next, last) ==
             /\ counted' = new /\ discarded' = discarded
             /\ currentBar'[s] = next /\ previousBar'[s] = last
             /\ CountedPast(s, new, next, last)
             /\ c # NoBar => /\ next # NoBar /\ next.start \in Int /\ c.start <= next.start
                             /\ \/ last = p
                                \/ last.start = p.start /\ p # NoBar
                                \/ last = c
                             /\ \/ tick.symbol # s
                                \/ start >= c.start
                                \/ start = p.start /\ p # NoBar
<1>5. ASSUME NEW next, NEW last, Moves(next, last) PROVE Goal
  <2> SUFFICES ASSUME NEW i \in DOMAIN discarded[s]
               PROVE  Rightly(discarded[s][i], s, new, next, last)
    BY <1>5
  <2> DEFINE d == discarded[s][i]
  <2>1. Rightly(d, s, counted, c, p) /\ windowStart(d.time) \in Int
    BY <1>1, <1>4
  <2>2. c \in Bar /\ c # NoBar /\ next # NoBar /\ next.start \in Int /\ c.start \in Int
        /\ windowStart(d.time) < c.start /\ c.start <= next.start
    BY <1>2, <1>5, <2>1 DEF Rightly, Bar
  <2>3. windowStart(d.time) < next.start
    <3> DEFINE ds == windowStart(d.time)
    <3>1. ds \in Int /\ ds < c.start /\ c.start <= next.start
      BY <2>1, <2>2
    <3> HIDE DEF ds
    <3>2. ds < next.start
      BY <2>2, <3>1
    <3> QED BY <3>2 DEF ds
  <2>4. \/ tick.symbol # s
        \/ start # windowStart(d.time)
        \/ d.time < d.start - Watermark
    <3> DEFINE ds == windowStart(d.time)
    <3>1. ds \in Int /\ ds < c.start
      BY <2>1, <2>2
    <3>2. CASE start >= c.start
      <4> HIDE DEF start, ds
      <4> QED BY <1>3, <2>2, <3>1, <3>2 DEF ds
    <3>3. CASE start = p.start /\ p # NoBar
      BY <2>1, <3>3 DEF Rightly
    <3> QED BY <1>5, <2>2, <3>2, <3>3
  <2>5. \/ last = p
        \/ last.start = p.start /\ p # NoBar
        \/ last = c
    BY <1>5, <2>2
  <2> HIDE DEF d, c, p, start
  <2>6. Rightly(d, s, Append(counted, tick), next, last)
    BY <1>0, <2>1, <2>2, <2>3, <2>4, <2>5, RightlyKept DEF start
  <2> QED BY <2>6 DEF d
<1> HIDE DEF Moves
<1>6. CASE s # q /\ Count(tick) /\ UNCHANGED discarded
  <2>1. currentBar'[s] = c /\ previousBar'[s] = p
    BY <1>0, <1>6 DEF FirstTick, CurrentWindow, NextWindow, LateTick
  <2>2. counted' = new /\ discarded' = discarded
    BY <1>6 DEF Count
  <2>3. CountedPast(s, new, c, p)
    BY <1>1, <1>3, <1>6 DEF CountedPast
  <2>4. c # NoBar => c.start \in Int /\ c.start <= c.start
    BY <1>2 DEF Bar
  <2> HIDE DEF new, c, p, start, Goal
  <2>m. Moves(c, p)
    BY <1>6, <2>1, <2>2, <2>3, <2>4 DEF Moves
  <2> QED BY <1>5, <2>m
<1>7. CASE FirstTick(q, tick) /\ s = q
  <2>1. c = NoBar /\ p = NoBar
    BY <1>2, <1>7 DEF FirstTick
  <2>2. /\ currentBar'[s] = NewBar(tick) /\ previousBar'[s] = p
        /\ counted' = new /\ discarded' = discarded
    BY <1>0, <1>7 DEF FirstTick, Count
  <2>3. NewBar(tick).start = start
    BY NewBarOrdered
  <2>4. \A j \in DOMAIN counted : counted[j].symbol # s
    BY <1>1, <2>1 DEF ExactFor
  <2>5. CountedPast(s, new, NewBar(tick), p)
    <3> HIDE DEF new
    <3> QED BY <1>3, <2>3, <2>4 DEF CountedPast
  <2> HIDE DEF new, c, p, start, Goal
  <2>m. Moves(NewBar(tick), p)
    BY <2>1, <2>2, <2>5 DEF Moves
  <2> QED BY <1>5, <2>m
<1>8. CASE CurrentWindow(q, tick) /\ s = q
  <2>1. c \in Bar /\ start = c.start /\ c.start \in Int
    BY <1>2, <1>8 DEF CurrentWindow, Bar
  <2>2. /\ currentBar'[s] = Fold(c, tick) /\ previousBar'[s] = p
        /\ counted' = new /\ discarded' = discarded
    BY <1>0, <1>8 DEF CurrentWindow, Count
  <2>3. Fold(c, tick).start = c.start /\ Fold(c, tick) \in Bar
    <3> HIDE DEF c
    <3> QED BY <2>1, FoldFields
  <2>4. Fold(c, tick) # NoBar
    BY <2>3, AggregatorAssumption
  <2> DEFINE next == Fold(c, tick)
  <2> HIDE DEF next
  <2>5. next.start = c.start /\ next # NoBar /\ currentBar'[s] = next
    BY <2>2, <2>3, <2>4 DEF next
  <2>6. CountedPast(s, new, next, p)
    <3> HIDE DEF new, c, p
    <3> QED BY <1>1, <1>3, <2>1, <2>5 DEF CountedPast
  <2> HIDE DEF new, c, p, start, Goal
  <2>7. c.start <= next.start /\ start >= c.start /\ next.start \in Int
    BY <2>1, <2>5
  <2>m. Moves(next, p)
    BY <2>2, <2>5, <2>6, <2>7 DEF Moves
  <2> QED BY <1>5, <2>m
<1>9. CASE NextWindow(q, tick) /\ s = q
  <2>1. c \in Bar /\ c # NoBar /\ start > c.start /\ c.start \in Int
    BY <1>2, <1>9 DEF NextWindow, Bar
  <2>2. /\ currentBar'[s] = NewBar(tick) /\ previousBar'[s] = c
        /\ counted' = new /\ discarded' = discarded
    BY <1>0, <1>9 DEF NextWindow, Count
  <2> DEFINE next == NewBar(tick)
  <2>3. next.start = start /\ next # NoBar
    BY NewBarOrdered
  <2>4. \A j \in DOMAIN counted : counted[j].symbol = s => windowStart(counted[j].time) <= c.start
    BY <1>1 DEF ExactFor
  <2>5. CountedPast(s, new, next, c)
    <3> HIDE DEF new, c, next
    <3> QED BY <1>3, <2>1, <2>3, <2>4 DEF CountedPast
  <2> HIDE DEF new, c, p, start, next, Goal
  <2>6. c.start <= next.start /\ start >= c.start /\ next.start \in Int
    BY <1>3, <2>1, <2>3
  <2>7. currentBar'[s] = next
    BY <2>2 DEF next
  <2>m. Moves(next, c)
    BY <2>2, <2>3, <2>5, <2>6, <2>7 DEF Moves
  <2> QED BY <1>5, <2>m
<1>10. CASE LateTick(q, tick) /\ s = q /\ Correctable(c, p, tick)
  <2>1. c \in Bar /\ c # NoBar /\ start < c.start /\ c.start \in Int
    BY <1>2, <1>10 DEF LateTick, Bar
  <2>2. p \in Bar /\ p # NoBar /\ start = p.start
    BY <1>2, <1>10 DEF Correctable
  <2>3. /\ currentBar'[s] = c /\ previousBar'[s] = Fold(p, tick)
        /\ counted' = new /\ discarded' = discarded
    BY <1>0, <1>10 DEF LateTick, Count
  <2> DEFINE last == Fold(p, tick)
  <2>4. last.start = p.start /\ last \in Bar
    <3> HIDE DEF p
    <3> QED BY <2>2, FoldFields
  <2>5. last # NoBar
    BY <2>4, AggregatorAssumption
  <2>6. previousBar'[s] = last
    BY <2>3
  <2> HIDE DEF last
  <2>7. CountedPast(s, new, c, last)
    <3> HIDE DEF new, c, p
    <3> QED BY <1>1, <1>3, <2>2, <2>4, <2>5 DEF CountedPast
  <2> HIDE DEF new, c, p, start, Goal
  <2>m. Moves(c, last)
    BY <2>1, <2>2, <2>3, <2>4, <2>6, <2>7 DEF Moves
  <2> QED BY <1>5, <2>m
<1>11. CASE LateTick(q, tick) /\ ~Correctable(currentBar[q], previousBar[q], tick)
  <2>1. /\ currentBar' = currentBar /\ previousBar' = previousBar /\ counted' = counted
        /\ Discard(q, tick)
    BY <1>11 DEF LateTick
  <2> DEFINE record == [time |-> tick.time, start |-> currentBar[q].start]
  <2>2. discarded' = [discarded EXCEPT ![q] = Append(@, record)]
    BY <2>1 DEF Discard
  <2>3. CASE s # q
    <3>1. discarded'[s] = discarded[s]
      BY <1>0, <2>2, <2>3
    <3> QED BY <1>1, <2>1, <3>1
  <2>4. CASE s = q
    <3>1. discarded'[s] = Append(discarded[s], record)
      BY <1>0, <2>2, <2>4
    <3>2. c \in Bar /\ start < c.start
      BY <1>2, <1>11, <2>4 DEF LateTick
    <3>3. record.time = tick.time /\ record.start = c.start
      BY <2>4
    <3>4. ~Correctable(c, p, tick)
      BY <1>11, <2>4
    <3> HIDE DEF record
    <3>5. Rightly(record, s, counted, c, p)
      <4> HIDE DEF c, p
      <4> QED BY <1>0, <1>1, <1>2, <3>2, <3>3, <3>4, RightlyDiscarded
    <3>6. \A i \in DOMAIN discarded'[s] : \/ i \in DOMAIN discarded[s] /\ discarded'[s][i] = discarded[s][i]
                                          \/ discarded'[s][i] = record
      <4> DEFINE Records == [time : Times, start : Int]
                 old == discarded[s]
      <4>1. old \in Seq(Records) /\ discarded'[s] = Append(old, record)
        BY <1>0, <3>1
      <4> HIDE DEF Records, old
      <4>2. DOMAIN discarded'[s] = 1..Len(old) + 1 /\ Len(old) \in Nat /\ DOMAIN old = 1..Len(old)
        BY <4>1
      <4>3. discarded'[s][Len(old) + 1] = record /\ \A i \in 1..Len(old) : discarded'[s][i] = old[i]
        BY <4>1
      <4>4. \A i \in 1..Len(old) + 1 : i \in 1..Len(old) \/ i = Len(old) + 1
        BY <4>2
      <4>5. \A i \in DOMAIN discarded'[s] : \/ i \in DOMAIN old /\ discarded'[s][i] = old[i]
                                            \/ discarded'[s][i] = record
        BY <4>2, <4>3, <4>4
      <4> QED BY <4>5 DEF old
    <3> QED BY <1>1, <2>1, <3>5, <3>6
  <2> QED BY <2>3, <2>4
<1> HIDE DEF Goal
<1>12. CASE LateTick(q, tick) /\ Correctable(currentBar[q], previousBar[q], tick)
  <2>1. Count(tick) /\ UNCHANGED discarded
    BY <1>12 DEF LateTick
  <2> QED BY <1>6, <1>10, <1>12, <2>1
<1>13. CASE FirstTick(q, tick) \/ CurrentWindow(q, tick) \/ NextWindow(q, tick)
  <2>1. Count(tick) /\ UNCHANGED discarded
    BY <1>13 DEF FirstTick, CurrentWindow, NextWindow
  <2> QED BY <1>6, <1>7, <1>8, <1>9, <1>13, <2>1
<1> QED
  <2>1. \/ FirstTick(q, tick) \/ CurrentWindow(q, tick) \/ NextWindow(q, tick)
        \/ LateTick(q, tick) /\ Correctable(currentBar[q], previousBar[q], tick)
        \/ LateTick(q, tick) /\ ~Correctable(currentBar[q], previousBar[q], tick)
    OBVIOUS
  <2> QED BY <1>11, <1>12, <1>13, <2>1

\* What TicksKept rests on, kept by every step.
LEMMA DiscardsInvStep == Inv /\ ExactInv /\ DiscardsRight /\ [Next]_vars => DiscardsRight'
<1> SUFFICES ASSUME Inv, ExactInv, DiscardsRight, [Next]_vars PROVE DiscardsRight'
  OBVIOUS
<1>1. CASE UNCHANGED <<currentBar, previousBar, counted, discarded>>
  BY <1>1 DEF DiscardsRight
<1>2. ASSUME NEW s \in Symbols, processTick(s) PROVE DiscardsRight'
  <2> DEFINE tick == Head(tickChan[s])
  <2>1. tickChan[s] \in Seq(Tick) /\ tickChan[s] # <<>>
    BY <1>2 DEF processTick, Inv, TypeOK
  <2>2. tick \in Tick /\ tick.symbol = s
    <3>1. \A i \in DOMAIN tickChan[s] : tickChan[s][i].symbol = s
      BY DEF Inv, ChannelsSorted
    <3> QED BY <2>1, <3>1
  <2>3. \/ FirstTick(s, tick) \/ CurrentWindow(s, tick)
        \/ NextWindow(s, tick) \/ LateTick(s, tick)
    BY <1>2 DEF processTick
  <2> HIDE DEF tick
  <2> QED BY <2>2, <2>3, DiscardsStep
<1>3. ASSUME NEW tick \in Tick, Receive(tick)
      PROVE  UNCHANGED <<currentBar, previousBar, counted, discarded>>
  BY <1>3 DEF Receive
<1>4. CASE Route \/ Stop \/ UNCHANGED vars
  <2>1. UNCHANGED <<currentBar, previousBar, counted, discarded>>
    BY <1>4 DEF Route, Stop, vars
  <2> QED BY <1>1, <2>1
<1> QED BY <1>1, <1>2, <1>3, <1>4 DEF Next

\* Every tick received is in a bar, thrown away or waiting, and none is thrown away
\* but beyond the watermark or of a window that was skipped, for ticks in any order,
\* any number of symbols and channels of any capacity.
THEOREM TicksKeptTheorem == Spec => []TicksKept
<1>1. Init => Conserved
  <2> SUFFICES ASSUME Init, NEW s \in Symbols
               PROVE  arrived[s] = Counted(s) + Len(discarded[s]) + Len(tickChan[s]) + Held(s)
    BY DEF Conserved
  <2>1. counted = <<>> /\ arrived[s] = 0 /\ discarded[s] = <<>> /\ tickChan[s] = <<>>
          /\ routing = NoTick
    BY DEF Init
  <2>2. {i \in DOMAIN counted : counted[i].symbol = s} = {}
    BY <2>1
  <2>3. Counted(s) = 0
    BY <2>2, FS_EmptySet DEF Counted
  <2>4. Held(s) = 0
    BY <2>1 DEF Held
  <2> QED BY <2>1, <2>3, <2>4
<1>2. Init => DiscardsRight
  BY DEF Init, DiscardsRight, CountedPast
<1>3. Init => ExactInv
  BY DEF Init, ExactInv, ExactFor
<1>4. Conserved /\ DiscardsRight => TicksKept
  BY DEF Conserved, DiscardsRight, Rightly, TicksKept
<1> QED
  BY <1>1, <1>2, <1>3, <1>4, InitInv, NextInv, ExactInvStep, ConservedStep, DiscardsInvStep,
     PTL DEF Spec
=============================================================================
