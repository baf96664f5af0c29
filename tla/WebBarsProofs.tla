---------------------------- MODULE WebBarsProofs ---------------------------
(***************************************************************************)
(* For any granularities, intervals, prices, caps and spans, the bars the  *)
(* terminal keeps are well formed: BarsWellFormed, whatever answers and    *)
(* ticks are mixed; points and candles end at the same price:              *)
(* LastPricesAgree; the markers account for every trade once, for any      *)
(* trades: MarkersConserve; the header agrees with the key statistics:     *)
(* HeadlineConsistent; every bar has its detail card: DetailsComplete; and *)
(* the averages and the RSI are what their definitions say:                *)
(* IndicatorsExact.                                                        *)
(***************************************************************************)
EXTENDS TerminalFigures, SumTheorems, SequenceTheorems, TLAPS

\* Bars in time order with open and close between low and high.
Sound(s) == Ordered(s) /\ \A i \in 1..Len(s) : Shaped(s[i])

\* A quantised time is not later than the time itself.
LEMMA Multiples ==
    ASSUME NEW d \in Int, NEW step \in Nat \ {0}
    PROVE  (d \div step) * step <= d
OBVIOUS

\* Multiples of an interval are ordered as their factors.
LEMMA Monotone ==
    ASSUME NEW i \in Int, NEW j \in Int, NEW step \in Nat \ {0}, i <= j
    PROVE  i * step <= j * step /\ (i < j => i * step < j * step)
OBVIOUS

\* A quantised time is a time.
LEMMA QuantizedNat ==
    ASSUME NEW t \in Nat, NEW step \in Nat \ {0} PROVE quantized(t, step) \in Nat
BY DEF quantized

\* The bars of a fill lie strictly between the bar before it and its end.
LEMMA FillTimes ==
    ASSUME NEW bar \in Bar, NEW step \in Nat \ {0}, NEW until \in Nat, NEW most \in Nat,
           NEW i \in 1..fillCount(bar, step, until, most)
    PROVE  /\ i * step \in Nat
           /\ bar.time < bar.time + i * step
           /\ bar.time + i * step < until
<1> DEFINE d == until - bar.time - 1
           n == fillCount(bar, step, until, most)
<1>1. bar.time \in Nat /\ d \in Int
    BY DEF Bar
<1>2. d \div step \in Int
    BY <1>1
<1>3. i \in Int /\ 1 <= i /\ i <= d \div step
    BY <1>2 DEF fillCount, Lesser
<1>4. i * step <= (d \div step) * step
    BY <1>2, <1>3, Monotone
<1>5. (d \div step) * step <= d
    BY <1>1, Multiples
<1>6. 1 * step <= i * step
    BY <1>3, Monotone
<1>7. i * step \in Int /\ (d \div step) * step \in Int
    BY <1>2, <1>3
<1> HIDE DEF d
<1> QED BY <1>1, <1>4, <1>5, <1>6, <1>7 DEF d

\* A fill is sound and lies after its bar and before its end.
LEMMA FilledSound ==
    ASSUME NEW bar \in Bar, NEW step \in Nat \ {0}, NEW until \in Nat, NEW most \in Nat,
           fillCount(bar, step, until, most) \in Nat
    PROVE  LET f == filled(bar, step, until, most) IN
           /\ f \in Seq(Bar)
           /\ Sound(f)
           /\ \A i \in 1..Len(f) : bar.time < f[i].time /\ f[i].time < until
<1> DEFINE n == fillCount(bar, step, until, most)
           f == filled(bar, step, until, most)
<1>1. bar.time \in Nat /\ bar.close \in Prices
    BY DEF Bar
<1>2. \A i \in 1..n : /\ i * step \in Nat
                       /\ bar.time < bar.time + i * step
                       /\ bar.time + i * step < until
    BY FillTimes
<1>3. \A i \in 1..n : Flat(bar.time + i * step, bar.close) \in Bar
  <2> TAKE i \in 1..n
  <2>1. bar.time + i * step \in Nat
      BY <1>1, <1>2
  <2> QED BY <1>1, <2>1 DEF Flat, Bar
<1>4. f \in [1..n -> Bar] /\ n \in Nat
    BY <1>3 DEF filled
<1>5. f \in Seq(Bar) /\ Len(f) = n
  <2> HIDE DEF f, n
  <2> QED BY <1>4
<1>6. \A i \in 1..n : f[i] = Flat(bar.time + i * step, bar.close)
    BY DEF filled
<1>7. \A i \in 1..n : f[i].time = bar.time + i * step /\ Shaped(f[i])
  <2> TAKE i \in 1..n
  <2>1. f[i] = Flat(bar.time + i * step, bar.close) /\ bar.close \in Nat
      BY <1>1, <1>6, WebBarsAssumption
  <2> HIDE DEF f
  <2> QED BY <2>1 DEF Flat, Shaped
<1>8. \A i, j \in 1..n : i < j => f[i].time < f[j].time
  <2> SUFFICES ASSUME NEW i \in 1..n, NEW j \in 1..n, i < j PROVE f[i].time < f[j].time
      OBVIOUS
  <2>1. i \in Int /\ j \in Int
      OBVIOUS
  <2>2. i * step < j * step /\ i * step \in Int /\ j * step \in Int
      BY <2>1, Monotone
  <2>3. f[i].time = bar.time + i * step /\ f[j].time = bar.time + j * step
      BY <1>7
  <2> HIDE DEF f, n
  <2> QED BY <1>1, <2>2, <2>3
<1>9. \A i \in 1..n : bar.time < f[i].time /\ f[i].time < until
    BY <1>2, <1>7
<1> HIDE DEF f, n
<1> QED BY <1>5, <1>7, <1>8, <1>9 DEF Sound, Ordered, f

-----------------------------------------------------------------------------
\* Sound bars followed by later sound bars are sound.
LEMMA AppendSound ==
    ASSUME NEW s \in Seq(Bar), NEW r \in Seq(Bar), Sound(s), Sound(r),
           \A i \in 1..Len(s), j \in 1..Len(r) : s[i].time < r[j].time
    PROVE  s \o r \in Seq(Bar) /\ Sound(s \o r)
<1> DEFINE c == s \o r
<1>1. c \in Seq(Bar) /\ Len(c) = Len(s) + Len(r) /\ Len(s) \in Nat /\ Len(r) \in Nat
    OBVIOUS
<1>2. /\ \A i \in 1..Len(s) : c[i] = s[i]
      /\ \A i \in 1..Len(c) : i > Len(s) => c[i] = r[i - Len(s)] /\ i - Len(s) \in 1..Len(r)
    BY <1>1
<1> HIDE DEF c
<1>3. ASSUME NEW i \in 1..Len(c), NEW j \in 1..Len(c), i < j PROVE c[i].time < c[j].time
  <2>1. CASE j <= Len(s)
    <3>1. i \in 1..Len(s) /\ j \in 1..Len(s) /\ c[i] = s[i] /\ c[j] = s[j]
        BY <1>1, <1>2, <1>3, <2>1
    <3> QED BY <1>3, <3>1 DEF Sound, Ordered
  <2>2. CASE i <= Len(s) /\ j > Len(s)
    <3>1. i \in 1..Len(s) /\ c[i] = s[i]
        BY <1>1, <1>2, <2>2
    <3>2. c[j] = r[j - Len(s)] /\ j - Len(s) \in 1..Len(r)
        BY <1>2, <2>2
    <3> QED BY <3>1, <3>2
  <2>3. CASE i > Len(s)
    <3>1. i - Len(s) < j - Len(s)
        BY <1>1, <1>3
    <3>2. /\ c[i] = r[i - Len(s)] /\ i - Len(s) \in 1..Len(r)
          /\ c[j] = r[j - Len(s)] /\ j - Len(s) \in 1..Len(r)
        BY <1>1, <1>2, <1>3, <2>3
    <3> QED BY <3>1, <3>2 DEF Sound, Ordered
  <2> QED BY <1>1, <2>1, <2>2, <2>3
<1>4. ASSUME NEW i \in 1..Len(c) PROVE Shaped(c[i])
  <2>1. CASE i <= Len(s)
    <3>1. i \in 1..Len(s) /\ c[i] = s[i]
        BY <1>1, <1>2, <2>1
    <3> QED BY <3>1 DEF Sound
  <2>2. CASE i > Len(s)
    <3>1. c[i] = r[i - Len(s)] /\ i - Len(s) \in 1..Len(r)
        BY <1>2, <2>2
    <3> QED BY <3>1 DEF Sound
  <2> QED BY <1>1, <2>1, <2>2
<1>5. Sound(c)
    BY <1>3, <1>4 DEF Sound, Ordered
<1> QED BY <1>1, <1>5 DEF c

\* The last k elements of an ordered sequence, and their order.
LEMMA SuffixSound ==
    ASSUME NEW S, NEW s \in Seq(S), NEW k \in 0..Len(s), Ordered(s)
    PROVE  LET r == SubSeq(s, Len(s) - k + 1, Len(s)) IN
           /\ r \in Seq(S) /\ Len(r) = k
           /\ Ordered(r)
           /\ \A i \in 1..k : r[i] = s[Len(s) - k + i] /\ Len(s) - k + i \in 1..Len(s)
<1> DEFINE r == SubSeq(s, Len(s) - k + 1, Len(s))
<1>1. r \in Seq(S) /\ Len(r) = k
    BY SubSeqProperties
<1>2. \A i \in 1..k : r[i] = s[Len(s) - k + i] /\ Len(s) - k + i \in 1..Len(s)
    BY SubSeqProperties
<1>3. Ordered(r)
  <2> HIDE DEF r
  <2> SUFFICES ASSUME NEW i \in 1..k, NEW j \in 1..k, i < j PROVE r[i].time < r[j].time
      BY <1>1 DEF Ordered
  <2>1. Len(s) - k + i < Len(s) - k + j
      OBVIOUS
  <2> QED BY <1>2, <2>1 DEF Ordered
<1> HIDE DEF r
<1> QED BY <1>1, <1>2, <1>3 DEF r

\* Capping candles keeps them sound.
LEMMA CappedSound ==
    ASSUME NEW s \in Seq(Bar), Sound(s) PROVE capped(s) \in Seq(Bar) /\ Sound(capped(s))
<1>1. CASE Len(s) > Cap
  <2>1. Cap \in 0..Len(s)
      BY <1>1, WebBarsAssumption
  <2>2. Ordered(s)
      BY DEF Sound
  <2>3. capped(s) = SubSeq(s, Len(s) - Cap + 1, Len(s))
      BY <1>1 DEF capped
  <2> QED BY <2>1, <2>2, <2>3, SuffixSound DEF Sound
<1>2. CASE ~(Len(s) > Cap)
    BY <1>2 DEF capped
<1> QED BY <1>1, <1>2

\* Capping points keeps them in time order.
LEMMA CappedPoints ==
    ASSUME NEW s \in Seq(Point), Ordered(s)
    PROVE  capped(s) \in Seq(Point) /\ Ordered(capped(s))
<1>1. CASE Len(s) > Cap
  <2>1. Cap \in 0..Len(s)
      BY <1>1, WebBarsAssumption
  <2>2. capped(s) = SubSeq(s, Len(s) - Cap + 1, Len(s))
      BY <1>1 DEF capped
  <2> QED BY <2>1, <2>2, SuffixSound
<1>2. CASE ~(Len(s) > Cap)
    BY <1>2 DEF capped
<1> QED BY <1>1, <1>2

\* A live tick keeps the points in order, although a late one takes the place of
\* a newer price.
LEMMA FoldTickSound ==
    ASSUME NEW s \in Seq(Point), Ordered(s), NEW t \in Nat, NEW p \in Prices,
           NEW step \in Nat \ {0}
    PROVE  foldTick(s, t, p, step) \in Seq(Point) /\ Ordered(foldTick(s, t, p, step))
<1>1. CASE s # <<>> /\ t - LastOf(s).time < step
  <2> DEFINE r == [s EXCEPT ![Len(s)].value = p]
  <2>1. Len(s) \in 1..Len(s)
      BY <1>1
  <2>2. \A i \in 1..Len(s) : s[i] \in Point
      OBVIOUS
  <2>3. \A i \in 1..Len(s) : r[i] \in Point /\ r[i].time = s[i].time
    <3> TAKE i \in 1..Len(s)
    <3>1. r[i] = IF i = Len(s) THEN [s[i] EXCEPT !.value = p] ELSE s[i]
        OBVIOUS
    <3> QED BY <2>2, <3>1 DEF Point
  <2>4. r \in Seq(Point) /\ Len(r) = Len(s)
    <3>1. r \in [1..Len(s) -> Point]
      <4>1. s \in [1..Len(s) -> Point] /\ DOMAIN r = 1..Len(s)
          OBVIOUS
      <4>2. r = [i \in 1..Len(s) |-> r[i]]
          BY <4>1
      <4> HIDE DEF r
      <4> QED BY <2>3, <4>2
    <3> QED BY <3>1
  <2>5. Ordered(r)
      BY <2>3, <2>4 DEF Ordered
  <2>6. foldTick(s, t, p, step) = capped(r)
      BY <1>1 DEF foldTick
  <2> HIDE DEF r
  <2> QED BY <2>4, <2>5, <2>6, CappedPoints
<1>2. CASE ~(s # <<>> /\ t - LastOf(s).time < step)
  <2> DEFINE e == [time |-> t, value |-> p]
             r == Append(s, e)
  <2>1. e \in Point /\ e.time = t
      BY DEF Point
  <2>2. r \in Seq(Point) /\ Len(r) = Len(s) + 1 /\ Len(s) \in Nat
      BY <2>1
  <2>3. r[Len(s) + 1] = e /\ \A i \in 1..Len(s) : r[i] = s[i]
      BY <2>1
  <2>4. \A i \in 1..Len(s) : s[i].time \in Nat /\ s[i].time < t
    <3> TAKE i \in 1..Len(s)
    <3>1. s # <<>> /\ Len(s) \in 1..Len(s)
        OBVIOUS
    <3>2. s[i] \in Point /\ s[Len(s)] \in Point
        BY <3>1
    <3>3. s[i].time \in Nat /\ s[Len(s)].time \in Nat
        BY <3>2 DEF Point
    <3>4. s[i].time <= s[Len(s)].time
      <4>1. CASE i = Len(s)
          BY <3>3, <4>1
      <4>2. CASE i # Len(s)
        <5>1. s[i].time < s[Len(s)].time
            BY <3>1, <4>2 DEF Ordered
        <5> QED BY <3>3, <5>1
      <4> QED BY <4>1, <4>2
    <3> QED BY <1>2, <3>1, <3>3, <3>4 DEF LastOf
  <2>5. Ordered(r)
    <3> HIDE DEF r, e
    <3> SUFFICES ASSUME NEW i \in 1..Len(r), NEW j \in 1..Len(r), i < j
                 PROVE  r[i].time < r[j].time
        BY DEF Ordered
    <3>1. CASE j <= Len(s)
        BY <2>2, <2>3, <3>1 DEF Ordered
    <3>2. CASE j = Len(s) + 1
        BY <2>1, <2>2, <2>3, <2>4, <3>2
    <3> QED BY <2>2, <3>1, <3>2
  <2>6. foldTick(s, t, p, step) = capped(r)
      BY <1>2 DEF foldTick
  <2> HIDE DEF r
  <2> QED BY <2>2, <2>5, <2>6, CappedPoints
<1> QED BY <1>1, <1>2

-----------------------------------------------------------------------------
\* No candle is later than the last one.
LEMMA LastIsLatest ==
    ASSUME NEW s \in Seq(Bar), Sound(s), s # <<>>
    PROVE  /\ LastOf(s) \in Bar /\ Shaped(LastOf(s)) /\ LastOf(s).time \in Nat
           /\ \A i \in 1..Len(s) : s[i].time \in Nat /\ s[i].time <= LastOf(s).time
<1>1. Len(s) \in 1..Len(s)
    OBVIOUS
<1>2. LastOf(s) \in Bar /\ Shaped(LastOf(s))
    BY <1>1 DEF LastOf, Sound
<1>3. \A i \in 1..Len(s) : s[i].time \in Nat
  <2> TAKE i \in 1..Len(s)
  <2>1. s[i] \in Bar
      OBVIOUS
  <2> QED BY <2>1 DEF Bar
<1>4. ASSUME NEW i \in 1..Len(s) PROVE s[i].time <= s[Len(s)].time
  <2>1. CASE i = Len(s)
      BY <1>1, <1>3, <2>1
  <2>2. CASE i # Len(s)
    <3>1. s[i].time < s[Len(s)].time
        BY <1>1, <2>2 DEF Sound, Ordered
    <3> QED BY <1>1, <1>3, <3>1
  <2> QED BY <2>1, <2>2
<1> QED BY <1>1, <1>2, <1>3, <1>4 DEF LastOf

\* A candle that takes in a price stays well formed.
LEMMA UpdatedSound ==
    ASSUME NEW bar \in Bar, Shaped(bar), NEW p \in Prices
    PROVE  updated(bar, p) \in Bar /\ Shaped(updated(bar, p)) /\ updated(bar, p).time = bar.time
<1>1. /\ bar.open \in Prices /\ bar.high \in Prices /\ bar.low \in Prices
      /\ bar.close \in Prices /\ bar.time \in Nat
    BY DEF Bar
<1>2. \A x \in Prices : x \in Nat
    BY WebBarsAssumption
<1>3. /\ Greater(bar.high, p) \in Prices /\ Lesser(bar.low, p) \in Prices
      /\ bar.open <= Greater(bar.high, p) /\ p <= Greater(bar.high, p)
      /\ Lesser(bar.low, p) <= bar.open /\ Lesser(bar.low, p) <= p
    BY <1>1, <1>2 DEF Greater, Lesser, Shaped
<1>4. updated(bar, p) \in Bar
    BY <1>3 DEF updated, Bar
<1>5. /\ updated(bar, p).time = bar.time /\ updated(bar, p).open = bar.open
      /\ updated(bar, p).high = Greater(bar.high, p)
      /\ updated(bar, p).low = Lesser(bar.low, p) /\ updated(bar, p).close = p
    BY DEF updated, Bar
<1> QED BY <1>3, <1>4, <1>5 DEF Shaped

\* A flat candle is well formed.
LEMMA FlatSound ==
    ASSUME NEW q \in Nat, NEW p \in Prices
    PROVE  <<Flat(q, p)>> \in Seq(Bar) /\ Sound(<<Flat(q, p)>>)
<1>1. Flat(q, p) \in Bar
    BY DEF Flat, Bar
<1>2. Shaped(Flat(q, p))
  <2>1. p \in Nat
      BY WebBarsAssumption
  <2> QED BY <2>1 DEF Flat, Shaped
<1> HIDE DEF Flat
<1>3. \A i, j \in 1..Len(<<Flat(q, p)>>) : ~(i < j)
    OBVIOUS
<1>4. \A i \in 1..Len(<<Flat(q, p)>>) : <<Flat(q, p)>>[i] = Flat(q, p)
    OBVIOUS
<1>5. <<Flat(q, p)>> \in Seq(Bar)
    BY <1>1
<1> QED BY <1>2, <1>3, <1>4, <1>5 DEF Sound, Ordered

\* The fill of a gap up to the bar of a tick lies between the last candle and it.
LEMMA GapFillSound ==
    ASSUME NEW s \in Seq(Bar), Sound(s), NEW q \in Nat, NEW step \in Nat \ {0},
           s = <<>> \/ q > LastOf(s).time
    PROVE  LET f == gapFill(s, q, step) IN
           /\ f \in Seq(Bar) /\ Sound(f)
           /\ \A i \in 1..Len(s), j \in 1..Len(f) : s[i].time < f[j].time
           /\ \A j \in 1..Len(f) : f[j].time < q
<1>1. CASE s # <<>> /\ q - LastOf(s).time > step /\ q - LastOf(s).time <= LiveSpan
  <2> DEFINE n == fillCount(LastOf(s), step, q, LiveFill)
             f == filled(LastOf(s), step, q, LiveFill)
  <2>1. /\ LastOf(s) \in Bar /\ LastOf(s).time \in Nat
        /\ \A i \in 1..Len(s) : s[i].time \in Nat /\ s[i].time <= LastOf(s).time
      BY <1>1, LastIsLatest
  <2>2. LiveFill \in Nat
      BY WebBarsAssumption
  <2>3. n \in Nat
    <3> DEFINE d == q - LastOf(s).time - 1
    <3>1. d \in Nat
        BY <1>1, <2>1
    <3>2. d \div step \in Nat
      <4> HIDE DEF d
      <4> QED BY <3>1
    <3> QED BY <2>2, <3>2 DEF fillCount, Lesser
  <2>4. /\ f \in Seq(Bar) /\ Sound(f)
        /\ \A j \in 1..Len(f) : LastOf(s).time < f[j].time /\ f[j].time < q
      BY <2>1, <2>2, <2>3, FilledSound
  <2>5. \A j \in 1..Len(f) : f[j].time \in Nat
    <3> HIDE DEF f
    <3> TAKE j \in 1..Len(f)
    <3>1. f[j] \in Bar
        BY <2>4
    <3> QED BY <3>1 DEF Bar
  <2>6. gapFill(s, q, step) = f
      BY <1>1 DEF gapFill
  <2> HIDE DEF f, n
  <2> QED BY <2>1, <2>4, <2>5, <2>6
<1>2. CASE ~(s # <<>> /\ q - LastOf(s).time > step /\ q - LastOf(s).time <= LiveSpan)
  <2>1. gapFill(s, q, step) = <<>>
      BY <1>2 DEF gapFill
  <2> QED BY <2>1 DEF Sound, Ordered
<1> QED BY <1>1, <1>2

\* A live tick keeps the candles sound, whatever interval its handler captured.
LEMMA FoldCandleSound ==
    ASSUME NEW s \in Seq(Bar), Sound(s), NEW t \in Nat, NEW p \in Prices,
           NEW step \in Nat \ {0}
    PROVE  foldCandle(s, t, p, step) \in Seq(Bar) /\ Sound(foldCandle(s, t, p, step))
<1> DEFINE q == quantized(t, step)
<1>1. q \in Nat
    BY QuantizedNat
<1>2. CASE s # <<>> /\ q = LastOf(s).time
  <2> DEFINE e == updated(LastOf(s), p)
             r == [s EXCEPT ![Len(s)] = e]
  <2>0. ~(s = <<>> \/ q > LastOf(s).time)
      BY <1>1, <1>2
  <2>1. e \in Bar /\ Shaped(e) /\ e.time = LastOf(s).time /\ Len(s) \in 1..Len(s)
      BY <1>2, LastIsLatest, UpdatedSound
  <2> HIDE DEF e, q
  <2>2. r \in Seq(Bar) /\ Len(r) = Len(s)
      BY <2>1
  <2>3. \A i \in 1..Len(s) : r[i] = IF i = Len(s) THEN e ELSE s[i]
      OBVIOUS
  <2>4. \A i \in 1..Len(s) : r[i].time = s[i].time /\ Shaped(r[i])
      BY <2>1, <2>3 DEF LastOf, Sound
  <2> HIDE DEF r
  <2>5. Sound(r)
      BY <2>2, <2>4 DEF Sound, Ordered
  <2>6. foldCandle(s, t, p, step) = capped(r)
      BY <1>2, <2>0 DEF foldCandle, q, r, e
  <2> QED BY <2>2, <2>5, <2>6, CappedSound
<1>3. CASE s = <<>> \/ q > LastOf(s).time
  <2> DEFINE f == gapFill(s, q, step)
             e == <<Flat(q, p)>>
  <2>1. /\ f \in Seq(Bar) /\ Sound(f)
        /\ \A i \in 1..Len(s), j \in 1..Len(f) : s[i].time < f[j].time
        /\ \A j \in 1..Len(f) : f[j].time < q
      BY <1>1, <1>3, GapFillSound
  <2>2. e \in Seq(Bar) /\ Sound(e) /\ Len(e) = 1 /\ e[1].time = q
      BY <1>1, FlatSound DEF Flat
  <2>3. \A i \in 1..Len(s) : s[i].time < q
    <3> TAKE i \in 1..Len(s)
    <3>1. s # <<>>
        OBVIOUS
    <3> QED BY <1>1, <1>3, <3>1, LastIsLatest
  <2> HIDE DEF f, e
  <2>4. s \o f \in Seq(Bar) /\ Sound(s \o f)
      BY <2>1, AppendSound
  <2>5. \A i \in 1..Len(s \o f), j \in 1..Len(e) : (s \o f)[i].time < e[j].time
    <3> TAKE i \in 1..Len(s \o f), j \in 1..Len(e)
    <3>1. e[j].time = q
        BY <2>2
    <3>2. (s \o f)[i].time < q
      <4>1. CASE i <= Len(s)
          BY <2>1, <2>3, <4>1
      <4>2. CASE i > Len(s)
        <5>1. (s \o f)[i] = f[i - Len(s)] /\ i - Len(s) \in 1..Len(f)
            BY <2>1, <4>2
        <5> QED BY <2>1, <5>1
      <4> QED BY <2>1, <4>1, <4>2
    <3> QED BY <3>1, <3>2
  <2> DEFINE r == (s \o f) \o e
  <2>6. r \in Seq(Bar) /\ Sound(r)
      BY <2>2, <2>4, <2>5, AppendSound
  <2>7. ~(s # <<>> /\ q = LastOf(s).time)
    <3>1. s # <<>> => LastOf(s).time \in Nat
        BY LastIsLatest
    <3> QED BY <1>1, <1>3, <3>1
  <2>8. foldCandle(s, t, p, step) = capped(r)
      BY <1>3, <2>7 DEF foldCandle, f, e
  <2> HIDE DEF r
  <2> QED BY <2>6, <2>8, CappedSound
<1>4. CASE ~(s # <<>> /\ q = LastOf(s).time) /\ ~(s = <<>> \/ q > LastOf(s).time)
  <2>1. foldCandle(s, t, p, step) = capped(s)
      BY <1>4 DEF foldCandle
  <2> QED BY <2>1, CappedSound
<1> QED BY <1>2, <1>3, <1>4

-----------------------------------------------------------------------------
\* The bars in scope are a suffix of the answer.
LEMMA FilteredSound ==
    ASSUME NEW bars \in Seq(Bar), Sound(bars), NEW g
    PROVE  /\ filterTimeframeBars(bars, g) \in Seq(Bar)
           /\ Sound(filterTimeframeBars(bars, g))
<1> DEFINE K == {i \in 1..Len(bars) : InScope(bars[i].time, LastOf(bars).time, g)}
           kept == Cardinality(K)
<1>1. IsFiniteSet(1..Len(bars)) /\ Cardinality(1..Len(bars)) = Len(bars)
  <2> DEFINE n == Len(bars)
  <2>1. n \in Nat
      OBVIOUS
  <2> HIDE DEF n
  <2>2. IsFiniteSet(1..n) /\ Cardinality(1..n) = IF 1 > n THEN 0 ELSE n - 1 + 1
      BY <2>1, FS_Interval
  <2>3. Cardinality(1..n) = n
      BY <2>1, <2>2
  <2> QED BY <2>2, <2>3 DEF n
<1>2. kept \in Nat /\ kept <= Len(bars)
  <2>1. K \in SUBSET (1..Len(bars))
      OBVIOUS
  <2> HIDE DEF K
  <2>2. IsFiniteSet(K) /\ kept <= Len(bars)
      BY <1>1, <2>1, FS_Subset
  <2> QED BY <2>2, FS_CardinalityType
<1>3. filterTimeframeBars(bars, g) = SubSeq(bars, Len(bars) - kept + 1, Len(bars))
    BY DEF filterTimeframeBars
<1> HIDE DEF kept
<1>4. kept \in 0..Len(bars) /\ Ordered(bars)
    BY <1>2 DEF Sound
<1> QED BY <1>3, <1>4, SuffixSound DEF Sound

\* Filling up to the present keeps the bars sound.
LEMMA PaddedSound ==
    ASSUME NEW bars \in Seq(Bar), Sound(bars), NEW g, NEW step \in Nat \ {0}, now \in Nat
    PROVE  padded(bars, g, step) \in Seq(Bar) /\ Sound(padded(bars, g, step))
<1> DEFINE until == quantized(now, step)
           P == /\ bars # <<>>
                /\ g \in {"1d", "1w"}
                /\ until > LastOf(bars).time + step
                /\ until - LastOf(bars).time <= HistorySpan
           f == filled(LastOf(bars), step, until, HistoryFill)
<1>1. until \in Nat
    BY QuantizedNat
<1>2. CASE P
  <2>1. /\ LastOf(bars) \in Bar /\ LastOf(bars).time \in Nat
        /\ \A i \in 1..Len(bars) : bars[i].time \in Nat /\ bars[i].time <= LastOf(bars).time
      BY <1>2, LastIsLatest
  <2>2. HistoryFill \in Nat
      BY WebBarsAssumption
  <2>3. fillCount(LastOf(bars), step, until, HistoryFill) \in Nat
    <3> DEFINE d == until - LastOf(bars).time - 1
    <3>1. d \in Nat
      <4> HIDE DEF until
      <4> QED BY <1>1, <1>2, <2>1 DEF until
    <3>2. d \div step \in Nat
      <4> HIDE DEF d
      <4> QED BY <3>1
    <3> QED BY <2>2, <3>2 DEF fillCount, Lesser
  <2>4. /\ f \in Seq(Bar) /\ Sound(f)
        /\ \A j \in 1..Len(f) : LastOf(bars).time < f[j].time
      BY <1>1, <2>1, <2>2, <2>3, FilledSound
  <2>5. padded(bars, g, step) = bars \o f
      BY <1>2 DEF padded
  <2> HIDE DEF f, until
  <2>6. \A j \in 1..Len(f) : f[j].time \in Nat
    <3> TAKE j \in 1..Len(f)
    <3>1. f[j] \in Bar
        BY <2>4
    <3> QED BY <3>1 DEF Bar
  <2>7. \A i \in 1..Len(bars), j \in 1..Len(f) : bars[i].time < f[j].time
      BY <2>1, <2>4, <2>6
  <2> QED BY <2>4, <2>5, <2>7, AppendSound
<1>3. CASE ~P
  <2>1. padded(bars, g, step) = bars
      BY <1>3 DEF padded
  <2> QED BY <2>1
<1> QED BY <1>2, <1>3

\* The points of sound bars are in time order.
LEMMA LinePointsOrdered ==
    ASSUME NEW bars \in Seq(Bar), Sound(bars)
    PROVE  LinePoints(bars) \in Seq(Point) /\ Ordered(LinePoints(bars))
<1> DEFINE l == LinePoints(bars)
<1>1. \A i \in 1..Len(bars) : bars[i] \in Bar
    OBVIOUS
<1>2. \A i \in 1..Len(bars) : [time |-> bars[i].time, value |-> bars[i].close] \in Point
    BY <1>1 DEF Bar, Point
<1>3. l \in [1..Len(bars) -> Point] /\ Len(bars) \in Nat
    BY <1>2 DEF LinePoints
<1>4. \A i \in 1..Len(bars) : l[i].time = bars[i].time
    BY DEF LinePoints
<1> HIDE DEF l
<1>5. l \in Seq(Point) /\ Len(l) = Len(bars)
    BY <1>3
<1>6. Ordered(l)
    BY <1>4, <1>5 DEF Sound, Ordered
<1> QED BY <1>5, <1>6 DEF l

-----------------------------------------------------------------------------
\* The strengthening: the stores are sequences of points and of bars.
WellFormedInv ==
    /\ now \in Nat
    /\ ticks \in [Granularities -> Seq(Point)]
    /\ candles \in [Granularities -> Seq(Bar)]
    /\ BarsWellFormed

\* Every step of the terminal keeps the bars well formed.
LEMMA WellFormedStep == WellFormedInv /\ [Next]_vars => WellFormedInv'
<1> SUFFICES ASSUME WellFormedInv, [Next]_vars PROVE WellFormedInv'
    OBVIOUS
<1>0. /\ now \in Nat
      /\ ticks \in [Granularities -> Seq(Point)]
      /\ candles \in [Granularities -> Seq(Bar)]
      /\ \A g \in Granularities :
           /\ ticks[g] \in Seq(Point) /\ Ordered(ticks[g])
           /\ candles[g] \in Seq(Bar) /\ Sound(candles[g])
    BY DEF WellFormedInv, BarsWellFormed, Sound
\* It is enough to look at the entry of one granularity.
<1>f. ASSUME NEW g \in Granularities, NEW r, NEW c,
             r \in Seq(Point), Ordered(r), c \in Seq(Bar), Sound(c),
             now' \in Nat,
             ticks' = [ticks EXCEPT ![g] = r], candles' = [candles EXCEPT ![g] = c]
      PROVE  WellFormedInv'
  <2>1. ticks' \in [Granularities -> Seq(Point)] /\ candles' \in [Granularities -> Seq(Bar)]
      BY <1>0, <1>f
  <2>2. /\ \A h \in Granularities : ticks'[h] = IF h = g THEN r ELSE ticks[h]
        /\ \A h \in Granularities : candles'[h] = IF h = g THEN c ELSE candles[h]
    <3>1. /\ ticks \in [Granularities -> Seq(Point)]
          /\ candles \in [Granularities -> Seq(Bar)]
        BY <1>0
    <3>2. \A h \in Granularities : ticks'[h] = IF h = g THEN r ELSE ticks[h]
        BY <1>f, <3>1
    <3>3. \A h \in Granularities : candles'[h] = IF h = g THEN c ELSE candles[h]
        BY <1>f, <3>1
    <3> QED BY <3>2, <3>3
  <2>3. BarsWellFormed'
    <3> SUFFICES ASSUME NEW h \in Granularities
                 PROVE  /\ Ordered(ticks'[h])
                        /\ Ordered(candles'[h])
                        /\ \A i \in 1..Len(candles'[h]) : Shaped(candles'[h][i])
        BY DEF BarsWellFormed
    <3> QED BY <1>0, <1>f, <2>2 DEF Sound
  <2> QED BY <1>f, <2>1, <2>3 DEF WellFormedInv
<1>a. \A bars \in Answers : bars \in Seq(Bar) /\ Sound(bars)
    BY AnswersAssumption DEF Sound
<1>1. CASE Elapse
  <2>1. now' \in Nat
      BY <1>0, <1>1 DEF Elapse
  <2> QED BY <1>0, <1>1, <2>1 DEF Elapse, WellFormedInv, BarsWellFormed
<1>2. ASSUME NEW g \in Granularities, NEW step \in Intervals, NEW t \in Times, NEW p \in Prices,
             LiveTick(g, step, t, p)
      PROVE  WellFormedInv'
  <2>1. step \in Nat \ {0} /\ t \in Nat
      BY WebBarsAssumption DEF Times
  <2>2. /\ foldTick(ticks[g], t, p, step) \in Seq(Point)
        /\ Ordered(foldTick(ticks[g], t, p, step))
      BY <1>0, <2>1, FoldTickSound
  <2>3. /\ foldCandle(candles[g], t, p, step) \in Seq(Bar)
        /\ Sound(foldCandle(candles[g], t, p, step))
      BY <1>0, <2>1, FoldCandleSound
  <2> QED BY <1>0, <1>2, <1>f, <2>2, <2>3 DEF LiveTick
<1>3. ASSUME NEW g \in Granularities, NEW step \in Intervals, NEW bars \in Answers,
             HistoryArrives(g, step, bars)
      PROVE  WellFormedInv'
  <2> DEFINE processed == padded(filterTimeframeBars(bars, g), g, step)
  <2>1. step \in Nat \ {0}
      BY WebBarsAssumption
  <2>2. processed \in Seq(Bar) /\ Sound(processed)
      BY <1>0, <1>a, <2>1, FilteredSound, PaddedSound
  <2>3. LinePoints(processed) \in Seq(Point) /\ Ordered(LinePoints(processed))
      BY <2>2, LinePointsOrdered
  <2>4. /\ ticks' = [ticks EXCEPT ![g] = LinePoints(processed)]
        /\ candles' = [candles EXCEPT ![g] = processed]
        /\ now' = now
      BY <1>3 DEF HistoryArrives
  <2> HIDE DEF processed
  <2> QED BY <1>0, <1>f, <2>2, <2>3, <2>4
<1>4. ASSUME NEW g \in Granularities, HistoryFails(g) PROVE WellFormedInv'
  <2>1. /\ <<>> \in Seq(Point) /\ <<>> \in Seq(Bar) /\ Ordered(<<>>) /\ Sound(<<>>)
      BY DEF Ordered, Sound
  <2> QED BY <1>0, <1>4, <1>f, <2>1 DEF HistoryFails
<1>5. ASSUME NEW bars \in Answers, PrefetchArrives(bars) PROVE WellFormedInv'
  <2>1. ticks' = [ticks EXCEPT !["1y"] = ticks["1y"]] /\ "1y" \in Granularities
      BY <1>0, <1>5 DEF PrefetchArrives
  <2> QED BY <1>0, <1>5, <1>a, <1>f, <2>1 DEF PrefetchArrives
<1>6. CASE UNCHANGED <<now, ticks, candles>>
    BY <1>6 DEF WellFormedInv, BarsWellFormed
<1>7. CASE BarsNext
    BY <1>1, <1>2, <1>3, <1>4, <1>5, <1>7 DEF BarsNext
<1> QED BY <1>6, <1>7 DEF Next, TradeArrives, fetchTrades, clearSimulatedTrades, vars, barVars

\* Nothing is stored at first.
LEMMA WellFormedInit == Init => WellFormedInv
<1> SUFFICES ASSUME Init PROVE WellFormedInv
    OBVIOUS
<1>1. now \in Nat
    BY WebBarsAssumption DEF Init, BarsInit, Times
<1>2. /\ ticks = [g \in Granularities |-> <<>>]
      /\ candles = [g \in Granularities |-> <<>>]
    BY DEF Init, BarsInit
<1>3. BarsWellFormed
    BY <1>2 DEF BarsWellFormed, Ordered
<1> QED BY <1>1, <1>2, <1>3 DEF WellFormedInv

\* The chart library's condition holds for ever: times increase strictly and
\* candles are well formed, whatever intervals the handlers of the sockets
\* captured and however answers, failures and ticks are mixed
\* (fetchHistoricalData and ws.onmessage).
THEOREM BarsWellFormedTheorem == Spec => []BarsWellFormed
<1>1. WellFormedInv => BarsWellFormed
    BY DEF WellFormedInv
<1> QED BY WellFormedInit, <1>1, WellFormedStep, PTL DEF Spec

-----------------------------------------------------------------------------
(***************************************************************************)
(* The last price                                                          *)
(***************************************************************************)
\* Points and candles of a granularity end at the same price, unless the last
\* tick was late.
SamePrice(r, c, isLate) ==
    /\ (r = <<>>) <=> (c = <<>>)
    /\ r # <<>> /\ ~isLate => LastOf(r).value = LastOf(c).close

\* Capping keeps the last element.
LEMMA CappedLast ==
    ASSUME NEW S, NEW s \in Seq(S), s # <<>>
    PROVE  capped(s) # <<>> /\ LastOf(capped(s)) = LastOf(s)
<1>1. CASE Len(s) > Cap
  <2> DEFINE r == SubSeq(s, Len(s) - Cap + 1, Len(s))
  <2>1. Cap \in Nat \ {0} /\ Cap <= Len(s) /\ Len(s) \in Nat
      BY <1>1, WebBarsAssumption
  <2>2. Len(r) = Cap /\ \A i \in 1..Cap : r[i] = s[Len(s) - Cap + i]
      BY <2>1, SubSeqProperties
  <2>3. r # <<>> /\ r[Len(r)] = s[Len(s)]
    <3> HIDE DEF r
    <3>1. Cap \in 1..Cap /\ Len(s) - Cap + Cap = Len(s)
        BY <2>1
    <3>2. r[Cap] = s[Len(s) - Cap + Cap]
        BY <2>2, <3>1
    <3> QED BY <2>1, <2>2, <3>1, <3>2
  <2> QED BY <1>1, <2>3 DEF capped, LastOf
<1>2. CASE ~(Len(s) > Cap)
    BY <1>2 DEF capped
<1> QED BY <1>1, <1>2

\* A tick is the last price of the points, even one that is late.
LEMMA FoldTickLast ==
    ASSUME NEW s \in Seq(Point), NEW t \in Nat, NEW p \in Prices, NEW step \in Nat \ {0}
    PROVE  foldTick(s, t, p, step) # <<>> /\ LastOf(foldTick(s, t, p, step)).value = p
<1>1. CASE s # <<>> /\ t - LastOf(s).time < step
  <2> DEFINE r == [s EXCEPT ![Len(s)].value = p]
  <2>1. Len(s) \in 1..Len(s) /\ s[Len(s)] \in Point
      BY <1>1
  <2>2. [s[Len(s)] EXCEPT !.value = p] \in Point /\ [s[Len(s)] EXCEPT !.value = p].value = p
      BY <2>1 DEF Point
  <2>3. r \in Seq(Point) /\ Len(r) = Len(s) /\ r[Len(r)].value = p /\ r # <<>>
      BY <2>1, <2>2
  <2>4. foldTick(s, t, p, step) = capped(r)
      BY <1>1 DEF foldTick
  <2> HIDE DEF r
  <2> QED BY <2>3, <2>4, CappedLast DEF LastOf
<1>2. CASE ~(s # <<>> /\ t - LastOf(s).time < step)
  <2> DEFINE e == [time |-> t, value |-> p]
             r == Append(s, e)
  <2>1. e \in Point /\ e.value = p
      BY DEF Point
  <2>2. foldTick(s, t, p, step) = capped(r)
      BY <1>2 DEF foldTick
  <2> HIDE DEF e
  <2>3. r \in Seq(Point) /\ r # <<>> /\ r[Len(r)] = e
      BY <2>1
  <2> HIDE DEF r
  <2> QED BY <2>1, <2>2, <2>3, CappedLast DEF LastOf
<1> QED BY <1>1, <1>2

\* A tick is the close of the last candle, unless it is older than that candle.
LEMMA FoldCandleLast ==
    ASSUME NEW s \in Seq(Bar), Sound(s), NEW t \in Nat, NEW p \in Prices,
           NEW step \in Nat \ {0}
    PROVE  /\ foldCandle(s, t, p, step) # <<>>
           /\ ~(s # <<>> /\ quantized(t, step) < LastOf(s).time) =>
                 LastOf(foldCandle(s, t, p, step)).close = p
<1> DEFINE q == quantized(t, step)
<1>1. q \in Nat
    BY QuantizedNat
<1>2. CASE s # <<>> /\ q = LastOf(s).time
  <2> DEFINE e == updated(LastOf(s), p)
             r == [s EXCEPT ![Len(s)] = e]
  <2>0. ~(s = <<>> \/ q > LastOf(s).time)
      BY <1>1, <1>2
  <2>1. e \in Bar /\ Len(s) \in 1..Len(s)
      BY <1>2, LastIsLatest, UpdatedSound
  <2>2. e.close = p
    <3>1. LastOf(s) \in Bar
        BY <1>2, LastIsLatest
    <3> QED BY <3>1 DEF updated, Bar
  <2> HIDE DEF e, q
  <2>3. r \in Seq(Bar) /\ Len(r) = Len(s) /\ r[Len(r)] = e /\ r # <<>>
      BY <2>1
  <2>4. foldCandle(s, t, p, step) = capped(r)
      BY <1>2, <2>0 DEF foldCandle, q, r, e
  <2> HIDE DEF r
  <2> QED BY <2>2, <2>3, <2>4, CappedLast DEF LastOf
<1>3. CASE s = <<>> \/ q > LastOf(s).time
  <2> DEFINE f == gapFill(s, q, step)
             e == Flat(q, p)
  <2>1. f \in Seq(Bar)
      BY <1>1, <1>3, GapFillSound
  <2>2. e \in Bar /\ e.close = p
      BY <1>1 DEF Flat, Bar
  <2>3. ~(s # <<>> /\ q = LastOf(s).time)
    <3>1. s # <<>> => LastOf(s).time \in Nat
        BY LastIsLatest
    <3> QED BY <1>1, <1>3, <3>1
  <2> DEFINE r == (s \o f) \o <<e>>
  <2>4. foldCandle(s, t, p, step) = capped(r)
      BY <1>3, <2>3 DEF foldCandle
  <2> HIDE DEF f, e
  <2>5. r \in Seq(Bar) /\ Len(r) = Len(s) + Len(f) + 1 /\ r[Len(r)] = e
      BY <2>1, <2>2
  <2>6. r # <<>>
    <3> HIDE DEF r
    <3> QED BY <2>1, <2>5
  <2> HIDE DEF r
  <2> QED BY <2>2, <2>4, <2>5, <2>6, CappedLast DEF LastOf
<1>4. CASE ~(s # <<>> /\ q = LastOf(s).time) /\ ~(s = <<>> \/ q > LastOf(s).time)
  <2>1. foldCandle(s, t, p, step) = capped(s)
      BY <1>4 DEF foldCandle
  <2>2. LastOf(s).time \in Nat
      BY <1>4, LastIsLatest
  <2>3. s # <<>> /\ q < LastOf(s).time
    <3> HIDE DEF q
    <3> QED BY <1>1, <1>4, <2>2
  <2> QED BY <2>1, <2>3, CappedLast
<1> QED BY <1>2, <1>3, <1>4

\* The points of an answer end where its bars end.
LEMMA LinePointsLast ==
    ASSUME NEW bars \in Seq(Bar)
    PROVE  SamePrice(LinePoints(bars), bars, FALSE)
<1> DEFINE l == LinePoints(bars)
<1>1. l \in [1..Len(bars) -> Point] /\ Len(bars) \in Nat
  <2>1. \A i \in 1..Len(bars) : bars[i] \in Bar
      OBVIOUS
  <2>2. \A i \in 1..Len(bars) : [time |-> bars[i].time, value |-> bars[i].close] \in Point
      BY <2>1 DEF Bar, Point
  <2> QED BY <2>2 DEF LinePoints
<1>2. \A i \in 1..Len(bars) : l[i].value = bars[i].close
    BY DEF LinePoints
<1> HIDE DEF l
<1>3. l \in Seq(Point) /\ Len(l) = Len(bars)
    BY <1>1
<1>4. (l = <<>>) <=> (bars = <<>>)
    BY <1>3
<1>5. l # <<>> => LastOf(l).value = LastOf(bars).close
  <2>1. l # <<>> => Len(bars) \in 1..Len(bars)
      BY <1>3
  <2> QED BY <1>2, <1>3, <2>1 DEF LastOf
<1> QED BY <1>4, <1>5 DEF SamePrice, l

-----------------------------------------------------------------------------
\* The strengthening: late has an entry per granularity.
PriceInv ==
    /\ WellFormedInv
    /\ late = [g \in Granularities |-> late[g]]
    /\ LastPricesAgree

\* Every step of the terminal keeps the last prices in agreement.
LEMMA PriceStep == PriceInv /\ [Next]_vars => PriceInv'
<1> SUFFICES ASSUME PriceInv, [Next]_vars PROVE PriceInv'
    OBVIOUS
<1>0. /\ WellFormedInv /\ WellFormedInv'
      /\ now \in Nat
      /\ ticks \in [Granularities -> Seq(Point)]
      /\ candles \in [Granularities -> Seq(Bar)]
      /\ \A g \in Granularities :
           /\ ticks[g] \in Seq(Point)
           /\ candles[g] \in Seq(Bar) /\ Sound(candles[g])
    BY WellFormedStep DEF PriceInv, WellFormedInv, BarsWellFormed, Sound
<1>p. late = [g \in Granularities |-> late[g]]
    BY DEF PriceInv
<1>s. \A g \in Granularities \ {"1y"} : SamePrice(ticks[g], candles[g], late[g])
    BY DEF PriceInv, LastPricesAgree, SamePrice
\* It is enough to look at the entry of one granularity.
<1>f. ASSUME NEW g \in Granularities, NEW r, NEW c, NEW d,
             g # "1y" => SamePrice(r, c, d),
             ticks' = [ticks EXCEPT ![g] = r], candles' = [candles EXCEPT ![g] = c],
             late' = [late EXCEPT ![g] = d]
      PROVE  PriceInv'
  <2>1. late' = [h \in Granularities |-> late'[h]]
      BY <1>f, <1>p
  <2>2. \A h \in Granularities : /\ ticks'[h] = IF h = g THEN r ELSE ticks[h]
                                 /\ candles'[h] = IF h = g THEN c ELSE candles[h]
                                 /\ late'[h] = IF h = g THEN d ELSE late[h]
      BY <1>0, <1>f, <1>p
  <2>3. \A h \in Granularities \ {"1y"} : SamePrice(ticks'[h], candles'[h], late'[h])
      BY <1>f, <1>s, <2>2
  <2>4. LastPricesAgree'
      BY <2>3 DEF LastPricesAgree, SamePrice
  <2> QED BY <1>0, <2>1, <2>4 DEF PriceInv
<1>1. CASE UNCHANGED <<ticks, candles, late>>
    BY <1>0, <1>1, <1>s, <1>p DEF PriceInv, LastPricesAgree, SamePrice
<1>2. ASSUME NEW g \in Granularities, NEW step \in Intervals, NEW t \in Times, NEW p \in Prices,
             LiveTick(g, step, t, p)
      PROVE  PriceInv'
  <2>1. step \in Nat \ {0} /\ t \in Nat
      BY WebBarsAssumption DEF Times
  <2>2. PICK r : r = foldTick(ticks[g], t, p, step)
      OBVIOUS
  <2>3. PICK c : c = foldCandle(candles[g], t, p, step)
      OBVIOUS
  <2>4. PICK d : d = (candles[g] # <<>> /\ quantized(t, step) < LastOf(candles[g]).time)
      OBVIOUS
  <2>5. r # <<>> /\ LastOf(r).value = p
      BY <1>0, <2>1, <2>2, FoldTickLast
  <2>6. c # <<>> /\ (~d => LastOf(c).close = p)
      BY <1>0, <2>1, <2>3, <2>4, FoldCandleLast, ZenonT(60)
  <2>7. SamePrice(r, c, d)
      BY <2>5, <2>6 DEF SamePrice
  <2>8. /\ ticks' = [ticks EXCEPT ![g] = r] /\ candles' = [candles EXCEPT ![g] = c]
        /\ late' = [late EXCEPT ![g] = d]
      BY <1>2, <2>2, <2>3, <2>4 DEF LiveTick
  <2> QED BY <1>f, <2>7, <2>8
<1>3. ASSUME NEW g \in Granularities, NEW step \in Intervals, NEW bars \in Answers,
             HistoryArrives(g, step, bars)
      PROVE  PriceInv'
  <2> DEFINE processed == padded(filterTimeframeBars(bars, g), g, step)
  <2>1. step \in Nat \ {0} /\ bars \in Seq(Bar) /\ Sound(bars)
      BY WebBarsAssumption, AnswersAssumption DEF Sound
  <2>2. processed \in Seq(Bar)
      BY <1>0, <2>1, FilteredSound, PaddedSound
  <2>3. /\ ticks' = [ticks EXCEPT ![g] = LinePoints(processed)]
        /\ candles' = [candles EXCEPT ![g] = processed]
        /\ late' = [late EXCEPT ![g] = FALSE]
      BY <1>3 DEF HistoryArrives
  <2> HIDE DEF processed
  <2>4. SamePrice(LinePoints(processed), processed, FALSE)
      BY <2>2, LinePointsLast
  <2> QED BY <1>f, <2>3, <2>4
<1>4. ASSUME NEW g \in Granularities, HistoryFails(g) PROVE PriceInv'
  <2>1. SamePrice(<<>>, <<>>, FALSE)
      BY DEF SamePrice
  <2>2. /\ ticks' = [ticks EXCEPT ![g] = <<>>] /\ candles' = [candles EXCEPT ![g] = <<>>]
        /\ late' = [late EXCEPT ![g] = FALSE]
      BY <1>4 DEF HistoryFails
  <2> QED BY <1>f, <2>1, <2>2
<1>5. ASSUME NEW bars \in Answers, PrefetchArrives(bars) PROVE PriceInv'
  <2>1. "1y" \in Granularities /\ candles' = [candles EXCEPT !["1y"] = bars]
        /\ ticks' = ticks /\ late' = late
      BY <1>5 DEF PrefetchArrives
  <2>2. ticks' = [ticks EXCEPT !["1y"] = ticks["1y"]] /\ late' = [late EXCEPT !["1y"] = late["1y"]]
      BY <1>0, <1>p, <2>1
  <2> QED BY <1>f, <2>1, <2>2
<1>6. CASE BarsNext
    BY <1>1, <1>2, <1>3, <1>4, <1>5, <1>6 DEF BarsNext, Elapse
<1> QED BY <1>1, <1>6 DEF Next, TradeArrives, fetchTrades, clearSimulatedTrades, vars, barVars

\* The line chart and the candles end at the same price for ever, unless the
\* last tick was older than the last candle.
THEOREM LastPricesTheorem == Spec => []LastPricesAgree
<1>1. Init => PriceInv
  <2> SUFFICES ASSUME Init PROVE PriceInv
      OBVIOUS
  <2>1. WellFormedInv
      BY WellFormedInit
  <2>2. /\ ticks = [g \in Granularities |-> <<>>]
        /\ candles = [g \in Granularities |-> <<>>]
        /\ late = [g \in Granularities |-> FALSE]
      BY DEF Init, BarsInit
  <2>3. late = [g \in Granularities |-> late[g]]
      BY <2>2
  <2> QED BY <2>1, <2>2, <2>3 DEF PriceInv, LastPricesAgree
<1>2. PriceInv => LastPricesAgree
    BY DEF PriceInv
<1> QED BY <1>1, <1>2, PriceStep, PTL DEF Spec

-----------------------------------------------------------------------------
(***************************************************************************)
(* Trade markers                                                           *)
(***************************************************************************)
\* A weight that is not negative keeps an order.
LEMMA Weighted ==
    ASSUME NEW a \in Int, NEW p \in Int, NEW b \in Int, NEW n \in Nat, a <= p, p <= b
    PROVE  a * n <= p * n /\ p * n <= b * n
OBVIOUS

\* The times of bars are finitely many numbers.
LEMMA TimesFinite ==
    ASSUME NEW bars \in Seq(Bar)
    PROVE  IsFiniteSet(TimesOf(bars)) /\ TimesOf(bars) \subseteq Int
<1>1. Len(bars) \in Nat /\ \A i \in 1..Len(bars) : bars[i].time \in Int
  <2>1. \A i \in 1..Len(bars) : bars[i] \in Bar
    OBVIOUS
  <2> QED BY <2>1 DEF Bar
<1>2. IsFiniteSet(1..Len(bars))
  BY <1>1, FS_Interval
<1> DEFINE f == [i \in 1..Len(bars) |-> bars[i].time]
<1>3. TimesOf(bars) = {f[i] : i \in 1..Len(bars)}
  BY DEF TimesOf
<1> HIDE DEF f
<1>4. IsFiniteSet(TimesOf(bars))
  BY <1>2, <1>3, FiniteImage
<1> QED BY <1>1, <1>4 DEF TimesOf

\* A trade is drawn at a bar, when there are bars.
LEMMA MappedToBar ==
    ASSUME NEW bars \in Seq(Bar), bars # <<>>, NEW trade
    PROVE  mappedTime(trade, bars) \in TimesOf(bars)
<1> DEFINE before == {t \in TimesOf(bars) : t <= trade.time}
<1>1. CASE before = {}
  <2>1. mappedTime(trade, bars) = bars[1].time
    BY <1>1 DEF mappedTime
  <2>2. 1 \in 1..Len(bars)
    OBVIOUS
  <2> QED BY <2>1, <2>2 DEF TimesOf
<1>2. CASE before # {}
  <2>1. mappedTime(trade, bars) = Max(before)
    BY <1>2 DEF mappedTime
  <2>2. IsFiniteSet(before) /\ before \subseteq Int
    BY TimesFinite, FS_Subset
  <2>3. before \subseteq TimesOf(bars)
    OBVIOUS
  <2> HIDE DEF before
  <2>4. Max(before) \in before
    BY <1>2, <2>2, Extremes
  <2> QED BY <2>1, <2>3, <2>4
<1> QED BY <1>1, <1>2

\* What MarkersConserve says of one list of trades and one list of bars: a marker
\* stands for a group of trades, the groups part the trades of the symbol, and
\* sums over the groups add up.
LEMMA MarkersAddUp ==
    ASSUME NEW list \in Seq(Trades), NEW bars \in Seq(Bar)
    PROVE  Conserved(list, bars)
<1> DEFINE own == ownTrades(list, Symbol)
           markers == aggregateTradeMarkers(list, Symbol, bars)
           key(i) == groupKey(list[i], bars)
           group(k) == {i \in own : key(i) = k}
           M(i) == markerAt(list, group(key(i)), bars, key(i))
           qty == [i \in own |-> qtyOf(list[i])]
           value == [i \in own |-> list[i].price * qtyOf(list[i])]
           ones == [i \in own |-> 1]
<1>1. /\ IsFiniteSet(own)
      /\ \A i \in own : list[i] \in Trades
  <2>1. Len(list) \in Nat /\ own \subseteq 1..Len(list)
    BY DEF ownTrades
  <2>2. IsFiniteSet(1..Len(list))
    BY <2>1, FS_Interval
  <2> QED BY <2>1, <2>2, FS_Subset
<1>2. \A i \in own : list[i].price \in Int /\ qtyOf(list[i]) \in Nat
  BY <1>1, TradesAssumption DEF qtyOf, DefaultQty
<1>3. markers = {M(i) : i \in own}
  BY DEF aggregateTradeMarkers
<1> HIDE DEF own, markers
<1>4. \A i \in own : /\ M(i).time = mappedTime(list[i], bars)
                     /\ M(i).action = list[i].action
                     /\ M(i).count = Cardinality(group(key(i)))
                     /\ M(i).totalQty = Quantities(list, group(key(i)))
                     /\ M(i).totalVal = Values(list, group(key(i)))
  BY DEF markerAt, groupKey
<1>5. \A i, j \in own : (M(i) = M(j)) <=> (key(i) = key(j))
  <2> SUFFICES ASSUME NEW i \in own, NEW j \in own PROVE (M(i) = M(j)) <=> (key(i) = key(j))
    OBVIOUS
  <2>1. key(i) = key(j) => M(i) = M(j)
    OBVIOUS
  <2>2. M(i) = M(j) => mappedTime(list[i], bars) = mappedTime(list[j], bars)
                         /\ list[i].action = list[j].action
    <3> HIDE DEF M
    <3> QED BY <1>4
  <2>3. mappedTime(list[i], bars) = mappedTime(list[j], bars) /\ list[i].action = list[j].action
          => key(i) = key(j)
    BY DEF groupKey
  <2> QED BY <2>1, <2>2, <2>3
<1>k. \A i, j \in own : key(i) = key(j) => list[i].action = list[j].action
  <2>1. \A i \in own : key(i) = <<mappedTime(list[i], bars), list[i].action>>
    BY DEF groupKey
  <2> HIDE DEF key
  <2> QED BY <2>1
<1>6. \A k : IsFiniteSet(group(k)) /\ group(k) \subseteq own
  BY <1>1, FS_Subset
<1>7. \A i \in own : group(key(i)) = {j \in own : M(j) = M(i)}
  BY <1>5
<1>8. \A k : Total(ones, group(k)) = Cardinality(group(k))
  <2> TAKE k
  <2>1. IsFiniteSet(group(k)) /\ \A x \in group(k) : ones[x] = 1
    BY <1>6
  <2> HIDE DEF group, ones
  <2> QED BY <2>1, TotalOnes
<1>9. \A k : Quantities(list, group(k)) = Total(qty, group(k))
  <2> TAKE k
  <2> DEFINE G == group(k)
             q == [i \in G |-> qtyOf(list[i])]
  <2>1. IsFiniteSet(G) /\ \A x \in G : q[x] = qty[x]
    BY <1>6
  <2>2. Quantities(list, G) = Total(q, G)
    BY DEF Quantities
  <2> HIDE DEF G, q, qty
  <2>3. Total(q, G) = Total(qty, G)
    BY <2>1, TotalSame
  <2> QED BY <2>2, <2>3 DEF G
<1>10. \A k : Values(list, group(k)) = Total(value, group(k))
  <2> TAKE k
  <2> DEFINE G == group(k)
             v == [i \in G |-> list[i].price * qtyOf(list[i])]
  <2>1. IsFiniteSet(G) /\ \A x \in G : v[x] = value[x]
    BY <1>6
  <2>2. Values(list, G) = Total(v, G)
    BY DEF Values
  <2> HIDE DEF G, v, value
  <2>3. Total(v, G) = Total(value, G)
    BY <2>1, TotalSame
  <2> QED BY <2>2, <2>3 DEF G
<1>11. IsFiniteSet(markers)
  <2> DEFINE f == [i \in own |-> M(i)]
  <2>1. markers = {f[i] : i \in own}
    BY <1>3
  <2> HIDE DEF f
  <2> QED BY <1>1, <2>1, FiniteImage
<1> DEFINE of == [i \in own |-> M(i)]
           part == [m \in markers |-> {j \in own : of[j] = m}]
<1>12. /\ \A i \in own : of[i] = M(i) /\ of[i] \in markers
       /\ \A m \in markers : \E i \in own : m = M(i) /\ part[m] = group(key(i))
  <2>1. \A i \in own : of[i] = M(i) /\ of[i] \in markers
    BY <1>3
  <2>3. ASSUME NEW m \in markers
        PROVE  \E i \in own : m = M(i) /\ part[m] = group(key(i))
    <3>1. PICK i \in own : m = M(i)
      BY <1>3
    <3>2. part[m] = {j \in own : M(j) = M(i)}
      BY <2>1, <3>1
    <3> QED BY <1>7, <3>1, <3>2
  <2> QED BY <2>1, <2>3
<1>13. Total([m \in markers |-> m.count], markers) = Cardinality(own)
  <2> DEFINE w == [m \in markers |-> m.count]
  <2>1. \A m \in markers : w[m] = Total(ones, part[m])
    <3> SUFFICES ASSUME NEW m \in markers PROVE w[m] = Total(ones, part[m])
      OBVIOUS
    <3>1. PICK i \in own : m = M(i) /\ part[m] = group(key(i))
      BY <1>12
    <3>2. w[m] = Cardinality(group(key(i)))
      BY <1>4, <3>1
    <3> HIDE DEF w, group, key, ones, of, M, part
    <3> QED BY <1>8, <3>1, <3>2
  <2>2. \A i \in own : ones[i] = 1 /\ ones[i] \in Int
    OBVIOUS
  <2>3. \A i \in own : of[i] \in markers
    BY <1>12
  <2>p. \A m \in markers : \A x : x \in part[m] <=> x \in own /\ of[x] = m
    OBVIOUS
  <2> HIDE DEF w, ones, of, part
  <2>4. Total(w, markers) = Total(ones, own)
    BY <1>1, <1>11, <2>1, <2>2, <2>3, <2>p, TotalParts
  <2>5. Total(ones, own) = Cardinality(own)
    BY <1>1, <2>2, TotalOnes
  <2> QED BY <2>4, <2>5 DEF w
<1>14. Total([m \in markers |-> m.totalQty], markers) = Quantities(list, own)
  <2> DEFINE w == [m \in markers |-> m.totalQty]
  <2>1. \A m \in markers : w[m] = Total(qty, part[m])
    <3> SUFFICES ASSUME NEW m \in markers PROVE w[m] = Total(qty, part[m])
      OBVIOUS
    <3>1. PICK i \in own : m = M(i) /\ part[m] = group(key(i))
      BY <1>12
    <3>2. w[m] = Quantities(list, group(key(i)))
      BY <1>4, <3>1
    <3> HIDE DEF w, group, key, qty, of, M, part
    <3> QED BY <1>9, <3>1, <3>2
  <2>2. \A i \in own : qty[i] \in Int
    BY <1>2
  <2>3. \A i \in own : of[i] \in markers
    BY <1>12
  <2>p. \A m \in markers : \A x : x \in part[m] <=> x \in own /\ of[x] = m
    OBVIOUS
  <2>5. Quantities(list, own) = Total(qty, own)
    BY DEF Quantities
  <2> HIDE DEF w, qty, of, part
  <2>4. Total(w, markers) = Total(qty, own)
    BY <1>1, <1>11, <2>1, <2>2, <2>3, <2>p, TotalParts
  <2> QED BY <2>4, <2>5 DEF w
<1>15. ASSUME NEW m \in markers
       PROVE  LET prices == {list[i].price : i \in {j \in own : list[j].action = m.action}}
              IN  /\ bars # <<>> => m.time \in TimesOf(bars)
                  /\ prices # {}
                  /\ m.totalVal >= Min(prices) * m.totalQty
                  /\ m.totalVal <= Max(prices) * m.totalQty
                  /\ \A n \in markers : n.time = m.time /\ n.action = m.action => n = m
  <2> DEFINE same == {j \in own : list[j].action = m.action}
             prices == {list[i].price : i \in same}
  <2>1. PICK i \in own : m = M(i)
    BY <1>3
  <2>2. m.time = mappedTime(list[i], bars) /\ m.action = list[i].action
    BY <1>4, <2>1
  <2>3. bars # <<>> => m.time \in TimesOf(bars)
    BY <2>2, MappedToBar
  <2>4. i \in same /\ prices # {}
    BY <2>2
  <2>5. IsFiniteSet(prices) /\ prices \subseteq Int
    <3> DEFINE f == [j \in same |-> list[j].price]
    <3>1. IsFiniteSet(same)
      BY <1>1, FS_Subset
    <3>2. prices = {f[j] : j \in same}
      OBVIOUS
    <3>3. prices \subseteq Int
      BY <1>2
    <3> HIDE DEF f, same
    <3> QED BY <3>1, <3>2, <3>3, FiniteImage
  <2> DEFINE a == Min(prices)
             b == Max(prices)
             G == group(key(i))
  <2>6. a \in Int /\ b \in Int /\ \A p \in prices : a <= p /\ p <= b
    <3> HIDE DEF prices
    <3> QED BY <2>4, <2>5, Extremes
  <2>7. \A j \in G : list[j].price \in prices
    BY <1>k, <2>2
  <2>8. \A j \in G : /\ qty[j] \in Int /\ value[j] \in Int
                     /\ a * qty[j] <= value[j] /\ value[j] <= b * qty[j]
    <3> SUFFICES ASSUME NEW j \in G
                 PROVE  /\ qty[j] \in Int /\ value[j] \in Int
                        /\ a * qty[j] <= value[j] /\ value[j] <= b * qty[j]
      OBVIOUS
    <3> DEFINE p == list[j].price
               n == qtyOf(list[j])
    <3>1. j \in own /\ qty[j] = n /\ value[j] = p * n /\ p \in Int /\ n \in Nat
      BY <1>2
    <3>2. a <= p /\ p <= b
      BY <2>6, <2>7
    <3> HIDE DEF p, n, a, b
    <3>3. a * n <= p * n /\ p * n <= b * n
      BY <2>6, <3>1, <3>2, Weighted
    <3>4. p * n \in Int
      BY <3>1
    <3> QED BY <3>1, <3>3, <3>4
  <2>9. IsFiniteSet(G)
    BY <1>6
  <2>10. m.totalQty = Total(qty, G) /\ m.totalVal = Total(value, G)
    BY <1>4, <1>9, <1>10, <2>1
  <2>11. \A n \in markers : n.time = m.time /\ n.action = m.action => n = m
    <3> SUFFICES ASSUME NEW n \in markers, n.time = m.time, n.action = m.action PROVE n = m
      OBVIOUS
    <3>1. PICK j \in own : n = M(j)
      BY <1>3
    <3>2. mappedTime(list[j], bars) = mappedTime(list[i], bars) /\ list[j].action = list[i].action
      BY <1>4, <2>2, <3>1
    <3>3. key(j) = key(i)
      BY <3>2 DEF groupKey
    <3> QED BY <1>5, <2>1, <3>1, <3>3
  <2> HIDE DEF a, b, G, qty, value, M
  <2>12. a * Total(qty, G) <= Total(value, G) /\ Total(value, G) <= b * Total(qty, G)
    BY <2>6, <2>8, <2>9, TotalBounds
  <2>13. Total(qty, G) \in Int /\ Total(value, G) \in Int
    BY <2>8, <2>9, TotalInt
  <2>14. Total(value, G) >= a * Total(qty, G) /\ Total(value, G) <= b * Total(qty, G)
    BY <2>6, <2>12, <2>13
  <2>15. m.totalVal >= a * m.totalQty /\ m.totalVal <= b * m.totalQty
    BY <2>10, <2>14
  <2> QED BY <2>3, <2>4, <2>11, <2>15 DEF a, b
<1> QED BY <1>13, <1>14, <1>15 DEF Conserved, own, markers

\* The trades are among those that can be reported.
TradesInv == trades \in Seq(Trades)

\* Every step keeps them so.
LEMMA TradesTyped == TradesInv /\ [Next]_vars => TradesInv'
<1> SUFFICES ASSUME trades \in Seq(Trades), [Next]_vars PROVE trades' \in Seq(Trades)
  BY DEF TradesInv
<1>1. ASSUME NEW t \in Trades, TradeArrives(t) PROVE trades' \in Seq(Trades)
  <2>1. <<t>> \in Seq(Trades) /\ trades' = <<t>> \o trades
    BY <1>1 DEF TradeArrives
  <2> QED BY <2>1
<1>2. ASSUME NEW stored \in UNION {[1..n -> Trades] : n \in 0..MaxStored}, fetchTrades(stored)
      PROVE  trades' \in Seq(Trades)
  <2>1. PICK n \in 0..MaxStored : stored \in [1..n -> Trades]
    OBVIOUS
  <2>2. n \in Nat
    BY TradesAssumption
  <2>3. stored \in Seq(Trades)
    BY <2>1, <2>2
  <2> QED BY <1>2, <2>3 DEF fetchTrades
<1>3. CASE clearSimulatedTrades
  BY <1>3 DEF clearSimulatedTrades
<1> QED BY <1>1, <1>2, <1>3 DEF Next, vars

\* Markers account for every trade of the symbol once, for any trades, bars and
\* granularities (aggregateTradeMarkers).
THEOREM MarkersTheorem == Spec => []MarkersConserve
<1>1. Init => TradesInv
  BY DEF Init, TradesInv
<1>2. WellFormedInv /\ TradesInv => MarkersConserve
  <2> SUFFICES ASSUME WellFormedInv, trades \in Seq(Trades) PROVE MarkersConserve
    BY DEF TradesInv
  <2>1. \A g \in Granularities : candles[g] \in Seq(Bar)
    BY DEF WellFormedInv
  <2> QED BY <2>1, MarkersAddUp DEF MarkersConserve
<1> QED BY <1>1, <1>2, WellFormedInit, WellFormedStep, TradesTyped, PTL DEF Spec

-----------------------------------------------------------------------------
(***************************************************************************)
(* Selections                                                              *)
(***************************************************************************)

\* What it means that t holds the elements of s at the places I up to n, by the
\* place e[j] that the element j comes from.
Picks(s, I, n, t, e) ==
    /\ e \in [1..Len(t) -> 1..n]
    /\ \A j \in 1..Len(t) : e[j] \in I /\ t[j] = s[e[j]]
    /\ \A i, j \in 1..Len(t) : i < j => e[i] < e[j]
    /\ \A k \in 1..n : k \in I => \E j \in 1..Len(t) : e[j] = k

\* Picked is computed from the first element on.
LEMMA PickedSteps ==
    ASSUME NEW S, NEW s \in Seq(S), NEW I
    PROVE  \E f \in [0..Len(s) -> Seq(S)] :
              /\ Picked(s, I) = f[Len(s)]
              /\ f[0] = <<>>
              /\ \A n \in 1..Len(s) :
                    f[n] = IF n \in I THEN Append(f[n - 1], s[n]) ELSE f[n - 1]
<1> DEFINE N == Len(s)
           V == Seq(S)
           Reads(f) == f = [n \in 0..N |-> CASE n = 0 -> <<>>
                                             [] n # 0 /\ n \in I -> Append(f[n - 1], s[n])
                                             [] OTHER -> f[n - 1]]
           step == [p \in (0..N) \X V |-> IF p[1] = 0 THEN <<>> ELSE IF p[1] \in I THEN Append(p[2], s[p[1]]) ELSE p[2]]
<1>1. N \in Nat /\ 0 \in 0..N /\ <<>> \in V /\ \A n \in 1..N : s[n] \in S
  OBVIOUS
<1>2. \A n \in 0..N, x \in V :
        step[<<n, x>>] = IF n = 0 THEN <<>> ELSE IF n \in I THEN Append(x, s[n]) ELSE x
  OBVIOUS
<1>3. \A n \in 0..N, x \in V : step[<<n, x>>] \in V
  <2> TAKE n \in 0..N, x \in V
  <2>1. n # 0 => Append(x, s[n]) \in V
    BY <1>1
  <2> HIDE DEF step, V
  <2> QED BY <1>1, <1>2, <2>1
<1> HIDE DEF step
<1>4. \E f \in [0..N -> V] : \A n \in 0..N : f[n] = IF n = 0 THEN <<>> ELSE step[<<n, f[n - 1]>>]
  <2> DEFINE base == <<>>
  <2>1. 0 \in Int /\ N \in Int /\ base \in V
    BY <1>1
  <2>2. Within(step, 0, N, V)
    BY <1>3 DEF Within
  <2> HIDE DEF V, N, base
  <2>3. \E f \in [0..N -> V] : Computes(f, 0, N, base, step)
    BY <2>1, <2>2, Recursion
  <2> QED BY <2>3 DEF base, Computes
<1>5. \E f : Reads(f)
  <2>1. PICK f \in [0..N -> V] : \A n \in 0..N : f[n] = IF n = 0 THEN <<>> ELSE step[<<n, f[n - 1]>>]
    BY <1>4
  <2>2. \A n \in 0..N : n # 0 => f[n - 1] \in V
    OBVIOUS
  <2>3. \A n \in 0..N : f[n] = CASE n = 0 -> <<>>
                                 [] n # 0 /\ n \in I -> Append(f[n - 1], s[n])
                                 [] OTHER -> f[n - 1]
    <3> HIDE DEF V, N
    <3> QED BY <1>2, <2>1, <2>2
  <2>4. Reads(f)
    <3> HIDE DEF V
    <3> QED BY <2>3
  <2> QED BY <2>4
<1> DEFINE f == CHOOSE x : Reads(x)
<1>6. Reads(f) /\ Picked(s, I) = f[N]
  <2>1. Reads(f)
    <3> HIDE DEF Reads
    <3> QED BY <1>5
  <2>2. Picked(s, I) = f[N]
    BY DEF Picked
  <2> QED BY <2>1, <2>2
<1> HIDE DEF f
<1>7. /\ f[0] = <<>> /\ DOMAIN f = 0..N
      /\ \A n \in 1..N : f[n] = IF n \in I THEN Append(f[n - 1], s[n]) ELSE f[n - 1]
  <2>1. \A n \in 1..N : n # 0 /\ n \in 0..N
    OBVIOUS
  <2> HIDE DEF N
  <2> QED BY <1>1, <1>6, <2>1
<1>8. 0..N \subseteq {n \in 0..N : f[n] \in V}
  <2> DEFINE T == {n \in 0..N : f[n] \in V}
  <2>1. 0 \in T
    <3> HIDE DEF N, V
    <3> QED BY <1>1, <1>7
  <2>2. \A n \in 0..N : n + 1 \in 0..N /\ n \in T => n + 1 \in T
    <3> SUFFICES ASSUME NEW n \in 0..N, n + 1 \in 0..N, f[n] \in V PROVE f[n + 1] \in V
      OBVIOUS
    <3>1. n + 1 \in 1..N /\ (n + 1) - 1 = n
      OBVIOUS
    <3>2. f[n + 1] = IF n + 1 \in I THEN Append(f[n], s[n + 1]) ELSE f[n]
      BY <1>7, <3>1
    <3>3. Append(f[n], s[n + 1]) \in V
      BY <1>1, <3>1
    <3> QED BY <3>2, <3>3
  <2>3. 0 \in Int /\ N \in Int
    BY <1>1
  <2> HIDE DEF T, V, N
  <2>4. 0..N \subseteq T
    BY <2>1, <2>2, <2>3, IntervalInd
  <2> QED BY <2>4 DEF T
<1>9. f \in [0..N -> V]
  BY <1>6, <1>7, <1>8
<1> QED BY <1>6, <1>7, <1>9

\* Picked keeps the elements at the places I, and their order.
LEMMA PickedIs ==
    ASSUME NEW S, NEW s \in Seq(S), NEW I
    PROVE  Picked(s, I) \in Seq(S) /\ \E e : Picks(s, I, Len(s), Picked(s, I), e)
<1>1. PICK f \in [0..Len(s) -> Seq(S)] :
        /\ Picked(s, I) = f[Len(s)]
        /\ f[0] = <<>>
        /\ \A n \in 1..Len(s) : f[n] = IF n \in I THEN Append(f[n - 1], s[n]) ELSE f[n - 1]
  BY PickedSteps
<1> DEFINE N == Len(s)
           T == {n \in 0..N : \E e : Picks(s, I, n, f[n], e)}
<1>2. N \in Nat
  OBVIOUS
<1>3. 0 \in T
  <2>1. Picks(s, I, 0, <<>>, [j \in 1..0 |-> 0])
    BY DEF Picks
  <2> QED BY <1>1, <2>1
<1>4. ASSUME NEW n \in 0..N, n + 1 \in 0..N, n \in T PROVE n + 1 \in T
  <2> DEFINE t == f[n]
             u == f[n + 1]
  <2>0. PICK e : Picks(s, I, n, t, e)
    BY <1>4
  <2>1. /\ t \in Seq(S) /\ e \in [1..Len(t) -> 1..n]
        /\ \A j \in 1..Len(t) : e[j] \in I /\ t[j] = s[e[j]]
        /\ \A i, j \in 1..Len(t) : i < j => e[i] < e[j]
        /\ \A k \in 1..n : k \in I => \E j \in 1..Len(t) : e[j] = k
    BY <2>0 DEF Picks
  <2>2. u = IF n + 1 \in I THEN Append(t, s[n + 1]) ELSE t
    <3>1. n + 1 \in 1..N /\ (n + 1) - 1 = n
      BY <1>4
    <3> QED BY <1>1, <3>1
  <2>3. s[n + 1] \in S
    BY <1>4
  <2> HIDE DEF t, u
  <2>4. CASE n + 1 \notin I
    <3>1. Picks(s, I, n + 1, u, e)
      <4>1. e \in [1..Len(u) -> 1..(n + 1)]
        BY <2>1, <2>2, <2>4
      <4>2. \A k \in 1..(n + 1) : k \in I => k \in 1..n
        BY <2>4
      <4> QED BY <2>1, <2>2, <2>4, <4>1, <4>2 DEF Picks
    <3> QED BY <1>4, <3>1 DEF u
  <2>5. CASE n + 1 \in I
    <3> DEFINE L == Len(t)
               d == [j \in 1..(L + 1) |-> IF j = L + 1 THEN n + 1 ELSE e[j]]
    <3>1. u = Append(t, s[n + 1]) /\ L \in Nat /\ Len(u) = L + 1
      BY <2>1, <2>2, <2>3, <2>5
    <3>2. u[L + 1] = s[n + 1] /\ \A j \in 1..L : u[j] = t[j]
      BY <2>1, <2>3, <3>1
    <3>3. d[L + 1] = n + 1 /\ \A j \in 1..L : d[j] = e[j]
      BY <3>1
    <3>4. d \in [1..(L + 1) -> 1..(n + 1)]
      BY <2>1, <3>1
    <3>5. \A j \in 1..(L + 1) : j = L + 1 \/ j \in 1..L
      BY <3>1
    <3> HIDE DEF d
    <3>6. \A j \in 1..(L + 1) : d[j] \in I /\ u[j] = s[d[j]]
      <4> TAKE j \in 1..(L + 1)
      <4>1. CASE j = L + 1
        BY <2>5, <3>2, <3>3, <4>1
      <4>2. CASE j \in 1..L
        BY <2>1, <3>2, <3>3, <4>2
      <4> QED BY <3>5, <4>1, <4>2
    <3>7. ASSUME NEW i \in 1..(L + 1), NEW j \in 1..(L + 1), i < j PROVE d[i] < d[j]
      <4>1. i \in 1..L
        BY <3>1, <3>7
      <4>2. CASE j = L + 1
        <5>1. e[i] \in 1..n
          BY <2>1, <4>1
        <5> QED BY <3>3, <4>1, <4>2, <5>1
      <4>3. CASE j \in 1..L
        BY <2>1, <3>3, <3>7, <4>1, <4>3
      <4> QED BY <3>5, <4>2, <4>3
    <3>8. ASSUME NEW k \in 1..(n + 1), k \in I PROVE \E j \in 1..(L + 1) : d[j] = k
      <4>1. CASE k = n + 1
        BY <3>1, <3>3, <4>1
      <4>2. CASE k # n + 1
        <5>1. k \in 1..n
          BY <4>2
        <5>2. PICK j \in 1..L : e[j] = k
          BY <2>1, <3>8, <5>1
        <5>3. j \in 1..(L + 1) /\ d[j] = k
          BY <3>1, <3>3, <5>2
        <5> QED BY <5>3
      <4> QED BY <4>1, <4>2
    <3> HIDE DEF L
    <3>9. Picks(s, I, n + 1, u, d)
      BY <3>1, <3>4, <3>6, <3>7, <3>8 DEF Picks
    <3> QED BY <1>4, <3>9 DEF u
  <2> QED BY <2>4, <2>5
<1> HIDE DEF T
<1>5. N \in T
  <2>1. 0..N \subseteq T
    <3> HIDE DEF N
    <3> QED BY <1>2, <1>3, <1>4, IntervalInd
  <2> QED BY <1>2, <2>1
<1> QED BY <1>1, <1>5 DEF T

\* Picking keeps time order.
LEMMA PickedOrdered ==
    ASSUME NEW S, NEW s \in Seq(S), NEW I, Ordered(s)
    PROVE  Ordered(Picked(s, I))
<1> DEFINE t == Picked(s, I)
<1>1. PICK e : Picks(s, I, Len(s), t, e)
  BY PickedIs
<1>2. t \in Seq(S)
  BY PickedIs
<1> HIDE DEF t
<1>3. ASSUME NEW i \in 1..Len(t), NEW j \in 1..Len(t), i < j PROVE t[i].time < t[j].time
  <2>1. /\ e[i] \in 1..Len(s) /\ e[j] \in 1..Len(s) /\ e[i] < e[j]
        /\ t[i] = s[e[i]] /\ t[j] = s[e[j]]
    BY <1>1, <1>3 DEF Picks
  <2> QED BY <2>1 DEF Ordered
<1> QED BY <1>3 DEF Ordered, t

\* What is picked is at a place of I, and every place of I that exists is picked.
LEMMA PickedElements ==
    ASSUME NEW S, NEW s \in Seq(S), NEW I
    PROVE  LET t == Picked(s, I) IN
           /\ t \in Seq(S)
           /\ \A j \in 1..Len(t) : \E k \in 1..Len(s) : k \in I /\ t[j] = s[k]
           /\ \A k \in 1..Len(s) : k \in I => \E j \in 1..Len(t) : t[j] = s[k]
<1> DEFINE t == Picked(s, I)
<1>1. PICK e : Picks(s, I, Len(s), t, e)
  BY PickedIs
<1>2. t \in Seq(S)
  BY PickedIs
<1> HIDE DEF t
<1>3. ASSUME NEW j \in 1..Len(t) PROVE \E k \in 1..Len(s) : k \in I /\ t[j] = s[k]
  <2>1. e[j] \in 1..Len(s) /\ e[j] \in I /\ t[j] = s[e[j]]
    BY <1>1 DEF Picks
  <2> QED BY <2>1
<1>4. ASSUME NEW k \in 1..Len(s), k \in I PROVE \E j \in 1..Len(t) : t[j] = s[k]
  <2>1. PICK j \in 1..Len(t) : e[j] = k
    BY <1>1, <1>4 DEF Picks
  <2>2. t[j] = s[e[j]]
    BY <1>1 DEF Picks
  <2> QED BY <2>1, <2>2
<1> QED BY <1>2, <1>3, <1>4 DEF t

-----------------------------------------------------------------------------
(***************************************************************************)
(* The header and the key statistics                                       *)
(***************************************************************************)
\* The strengthening: what has candles counts as loaded.
FiguresInv ==
    /\ PriceInv
    /\ loaded \subseteq Granularities
    /\ \A g \in Granularities : candles[g] # <<>> => g \in loaded

\* Nothing is loaded at first.
LEMMA FiguresInit == Init => FiguresInv
<1> SUFFICES ASSUME Init PROVE FiguresInv
    OBVIOUS
<1>1. /\ ticks = [g \in Granularities |-> <<>>]
      /\ candles = [g \in Granularities |-> <<>>]
      /\ late = [g \in Granularities |-> FALSE]
      /\ loaded = {}
    BY DEF Init, BarsInit
<1>2. late = [g \in Granularities |-> late[g]]
    BY <1>1
<1>3. PriceInv
    BY <1>1, <1>2, WellFormedInit DEF PriceInv, LastPricesAgree
<1> QED BY <1>1, <1>3 DEF FiguresInv

\* Whatever stores candles marks their granularity as loaded.
LEMMA FiguresStep == FiguresInv /\ [Next]_vars => FiguresInv'
<1> SUFFICES ASSUME FiguresInv, [Next]_vars PROVE FiguresInv'
    OBVIOUS
<1>0. /\ PriceInv' /\ candles \in [Granularities -> Seq(Bar)]
      /\ loaded \subseteq Granularities
      /\ \A g \in Granularities : candles[g] # <<>> => g \in loaded
    BY PriceStep DEF FiguresInv, PriceInv, WellFormedInv
<1>f. ASSUME NEW g \in Granularities, NEW c,
             candles' = [candles EXCEPT ![g] = c], loaded' = loaded \cup {g}
      PROVE  FiguresInv'
  <2>1. \A h \in Granularities : h # g => candles'[h] = candles[h]
      BY <1>0, <1>f
  <2> QED BY <1>0, <1>f, <2>1 DEF FiguresInv
<1>1. CASE UNCHANGED <<candles, loaded>>
    BY <1>0, <1>1 DEF FiguresInv
<1>2. ASSUME NEW g \in Granularities, NEW step \in Intervals, NEW t \in Times, NEW p \in Prices,
             LiveTick(g, step, t, p)
      PROVE  FiguresInv'
    BY <1>f, <1>0, <1>2 DEF LiveTick
<1>3. ASSUME NEW g \in Granularities, NEW step \in Intervals, NEW bars \in Answers,
             HistoryArrives(g, step, bars)
      PROVE  FiguresInv'
    BY <1>3, <1>f DEF HistoryArrives
<1>4. ASSUME NEW g \in Granularities, HistoryFails(g) PROVE FiguresInv'
    BY <1>4, <1>f DEF HistoryFails
<1>5. ASSUME NEW bars \in Answers, PrefetchArrives(bars) PROVE FiguresInv'
    BY <1>5, <1>f DEF PrefetchArrives
<1>6. CASE BarsNext
    BY <1>1, <1>2, <1>3, <1>4, <1>5, <1>6 DEF BarsNext, Elapse
<1> QED BY <1>1, <1>6 DEF Next, TradeArrives, fetchTrades, clearSimulatedTrades, vars, barVars

\* The greater and the smaller of a few numbers.
LEMMA MaxOfThree ==
    ASSUME NEW a \in Int, NEW b \in Int, NEW c \in Int
    PROVE  /\ Max({a, b, c}) \in Int
           /\ a <= Max({a, b, c}) /\ b <= Max({a, b, c}) /\ c <= Max({a, b, c})
           /\ Min({a, b, c}) \in Int
           /\ Min({a, b, c}) <= a /\ Min({a, b, c}) <= b /\ Min({a, b, c}) <= c
<1> DEFINE S == {a, b, c}
<1>1. IsFiniteSet(S)
  <2>1. IsFiniteSet({}) /\ S = (({} \cup {a}) \cup {b}) \cup {c}
      BY FS_EmptySet
  <2>2. IsFiniteSet({} \cup {a})
      BY <2>1, FS_AddElement
  <2>3. IsFiniteSet(({} \cup {a}) \cup {b})
      BY <2>2, FS_AddElement
  <2>4. IsFiniteSet((({} \cup {a}) \cup {b}) \cup {c})
      BY <2>3, FS_AddElement
  <2> QED BY <2>1, <2>4
<1>2. S # {} /\ S \subseteq Int /\ a \in S /\ b \in S /\ c \in S
    OBVIOUS
<1>3. /\ Max(S) \in S /\ \A x \in S : x <= Max(S)
      /\ Min(S) \in S /\ \A x \in S : Min(S) <= x
  <2> HIDE DEF S
  <2> QED BY <1>1, <1>2, Extremes
<1>4. /\ Max(S) \in Int /\ Min(S) \in Int
      /\ a <= Max(S) /\ b <= Max(S) /\ c <= Max(S)
      /\ Min(S) <= a /\ Min(S) <= b /\ Min(S) <= c
  <2> HIDE DEF S
  <2> QED BY <1>2, <1>3
<1> QED BY <1>4

\* The prices of bars are positive.
LEMMA BarPrices ==
    ASSUME NEW s \in Seq(Bar), NEW i \in 1..Len(s)
    PROVE  /\ s[i].open \in Nat \ {0} /\ s[i].high \in Nat \ {0}
           /\ s[i].low \in Nat \ {0} /\ s[i].close \in Nat \ {0}
           /\ s[i].time \in Nat
<1>1. s[i] \in Bar
    OBVIOUS
<1> QED BY <1>1, WebBarsAssumption DEF Bar

\* Bars that are well formed, wherever they are in time.
AllShaped(s) == \A i \in 1..Len(s) : Shaped(s[i])

\* The highs and the lows of bars, with a number in hand.
LEMMA RangeWith ==
    ASSUME NEW s \in Seq(Bar), NEW p, p \subseteq Int, IsFiniteSet(p),
           Highs(s) \cup p # {}
    PROVE  /\ Max(Highs(s) \cup p) \in Highs(s) \cup p
           /\ Max(Highs(s) \cup p) \in Int
           /\ \A i \in 1..Len(s) : s[i].high <= Max(Highs(s) \cup p)
           /\ \A x \in p : x <= Max(Highs(s) \cup p)
           /\ Min(Lows(s) \cup p) \in Lows(s) \cup p
           /\ Min(Lows(s) \cup p) \in Int
           /\ \A i \in 1..Len(s) : Min(Lows(s) \cup p) <= s[i].low
           /\ \A x \in p : Min(Lows(s) \cup p) <= x
<1> DEFINE I == 1..Len(s)
           h == [i \in I |-> s[i].high]
           l == [i \in I |-> s[i].low]
           A == Highs(s) \cup p
           B == Lows(s) \cup p
<1>1. /\ \A i \in I : s[i].high \in Int /\ s[i].low \in Int
      /\ IsFiniteSet(I)
  <2>1. Len(s) \in Nat
      OBVIOUS
  <2>2. IsFiniteSet(I)
    <3> DEFINE n == Len(s)
    <3>1. 1 \in Int /\ n \in Int
        BY <2>1
    <3> HIDE DEF n
    <3>2. IsFiniteSet(1..n)
        BY <3>1, FS_Interval
    <3> QED BY <3>2 DEF n
  <2> QED BY <2>2, BarPrices
<1>2. Highs(s) = {h[i] : i \in I} /\ Lows(s) = {l[i] : i \in I}
    BY DEF Highs, Lows
<1>3. /\ \A i \in I : s[i].high \in Highs(s) /\ s[i].low \in Lows(s)
      /\ Highs(s) \subseteq Int /\ Lows(s) \subseteq Int
    BY <1>1 DEF Highs, Lows
<1>4. IsFiniteSet(Highs(s)) /\ IsFiniteSet(Lows(s))
  <2> HIDE DEF h, l, I
  <2> QED BY <1>1, <1>2, FiniteImage
<1>5. IsFiniteSet(A) /\ IsFiniteSet(B) /\ A # {} /\ B # {} /\ A \subseteq Int /\ B \subseteq Int
  <2>1. IsFiniteSet(A) /\ IsFiniteSet(B)
      BY <1>4, FS_Union
  <2>2. B # {}
      BY <1>2
  <2> QED BY <1>3, <2>1, <2>2
<1>6. /\ Max(A) \in A /\ \A x \in A : x <= Max(A)
      /\ Min(B) \in B /\ \A x \in B : Min(B) <= x
  <2> HIDE DEF A, B
  <2> QED BY <1>5, Extremes
<1> QED BY <1>3, <1>5, <1>6

\* The range of bars: every close lies in it.
LEMMA RangeOf ==
    ASSUME NEW s \in Seq(Bar), AllShaped(s), s # <<>>
    PROVE  /\ Max(Highs(s)) \in Nat \ {0} /\ Min(Lows(s)) \in Nat \ {0}
           /\ Min(Lows(s)) <= Max(Highs(s))
           /\ \A i \in 1..Len(s) : /\ Min(Lows(s)) <= s[i].close
                                   /\ s[i].close <= Max(Highs(s))
<1>1. Highs(s) \cup {} = Highs(s) /\ Lows(s) \cup {} = Lows(s)
    OBVIOUS
<1>2. 1 \in 1..Len(s) /\ Highs(s) # {}
  <2>1. 1 \in 1..Len(s)
      OBVIOUS
  <2> QED BY <2>1 DEF Highs
<1> DEFINE h == Max(Highs(s))
           l == Min(Lows(s))
<1>3. /\ h \in Highs(s) /\ l \in Lows(s) /\ h \in Int /\ l \in Int
      /\ \A i \in 1..Len(s) : s[i].high <= h /\ l <= s[i].low
  <2>1. {} \subseteq Int /\ IsFiniteSet({}) /\ Highs(s) \cup {} # {}
      BY <1>1, <1>2, FS_EmptySet
  <2>2. /\ Max(Highs(s) \cup {}) \in Highs(s) \cup {}
        /\ Max(Highs(s) \cup {}) \in Int
        /\ \A i \in 1..Len(s) : s[i].high <= Max(Highs(s) \cup {})
        /\ Min(Lows(s) \cup {}) \in Lows(s) \cup {}
        /\ Min(Lows(s) \cup {}) \in Int
        /\ \A i \in 1..Len(s) : Min(Lows(s) \cup {}) <= s[i].low
      BY <2>1, RangeWith
  <2> QED BY <1>1, <2>2
<1> HIDE DEF h, l
<1>4. \A i \in 1..Len(s) : /\ s[i].low \in Nat \ {0} /\ s[i].high \in Nat \ {0}
                           /\ s[i].close \in Nat
                           /\ s[i].low <= s[i].close /\ s[i].close <= s[i].high
    BY BarPrices DEF AllShaped, Shaped
<1>5. h \in Nat \ {0} /\ l \in Nat \ {0}
    BY <1>3, <1>4 DEF Highs, Lows
<1>6. \A i \in 1..Len(s) : l <= s[i].close /\ s[i].close <= h
    BY <1>3, <1>4
<1>7. l <= h
    BY <1>2, <1>4, <1>5, <1>6
<1> QED BY <1>5, <1>6, <1>7 DEF h, l

\* What is picked of bars are bars, well formed if those were.
LEMMA PickedBars ==
    ASSUME NEW s \in Seq(Bar), NEW I
    PROVE  /\ Picked(s, I) \in Seq(Bar)
           /\ AllShaped(s) => AllShaped(Picked(s, I))
           /\ Picked(s, I) # <<>> <=> \E k \in 1..Len(s) : k \in I
<1> DEFINE t == Picked(s, I)
<1>1. /\ t \in Seq(Bar)
      /\ \A j \in 1..Len(t) : \E k \in 1..Len(s) : k \in I /\ t[j] = s[k]
      /\ \A k \in 1..Len(s) : k \in I => \E j \in 1..Len(t) : t[j] = s[k]
    BY PickedElements
<1> HIDE DEF t
<1>2. AllShaped(s) => AllShaped(t)
    BY <1>1 DEF AllShaped
<1>3. t # <<>> <=> \E j \in 1..Len(t) : TRUE
    BY <1>1
<1>4. t # <<>> <=> \E k \in 1..Len(s) : k \in I
    BY <1>1, <1>3
<1> QED BY <1>1, <1>2, <1>4 DEF t

\* The statistics of a day: known and in order when there are bars, else unknown.
LEMMA DayStats ==
    ASSUME NEW bars \in Seq(Bar), AllShaped(bars)
    PROVE  LET d == getTodayStats(bars, Day, Open, Close) IN
           /\ bars = <<>> => d.open = 0 /\ d.high = 0 /\ d.low = 0
           /\ bars # <<>> => d.low \in Nat \ {0} /\ d.high \in Nat \ {0} /\ d.low <= d.high
<1> DEFINE d == getTodayStats(bars, Day, Open, Close)
<1>1. CASE bars = <<>>
  <2>1. d = [open |-> 0, high |-> 0, low |-> 0]
      BY <1>1 DEF getTodayStats
  <2> QED BY <1>1, <2>1
<1>2. CASE bars # <<>>
  <2> DEFINE lastDay == bars[Len(bars)].time \div Day
             today == {i \in 1..Len(bars) : bars[i].time \div Day = lastDay}
             regular == today \cap Regular(bars, Day, Open, Close)
             I == IF regular # {} THEN regular ELSE today
             target == Picked(bars, I)
  <2>1. \E k \in 1..Len(bars) : k \in I
    <3>1. Len(bars) \in today
        BY <1>2
    <3>2. I # {} /\ I \subseteq 1..Len(bars)
      <4> HIDE DEF lastDay
      <4> QED BY <3>1
    <3> HIDE DEF I
    <3> QED BY <3>2
  <2> HIDE DEF I
  <2>2. target \in Seq(Bar) /\ AllShaped(target) /\ target # <<>>
      BY <2>1, PickedBars
  <2>3. d = [open |-> target[1].open, high |-> Max(Highs(target)), low |-> Min(Lows(target))]
      BY <1>2 DEF getTodayStats, I
  <2> HIDE DEF target
  <2>4. /\ Max(Highs(target)) \in Nat \ {0} /\ Min(Lows(target)) \in Nat \ {0}
        /\ Min(Lows(target)) <= Max(Highs(target))
      BY <2>2, RangeOf
  <2>5. d.high = Max(Highs(target)) /\ d.low = Min(Lows(target))
    <3> HIDE DEF d
    <3> QED BY <2>3
  <2> HIDE DEF d
  <2> QED BY <1>2, <2>4, <2>5 DEF d
<1> QED BY <1>1, <1>2

\* The prices of a session are known exactly when there are bars, and the latest
\* is a close.
LEMMA SessionPrices ==
    ASSUME NEW bars \in Seq(Bar), NEW daily \in Seq(Bar)
    PROVE  LET p == getMarketSessionPrices(bars, daily, Day, Open, Close) IN
           /\ bars = <<>> /\ daily = <<>> =>
                 p.latestPrice = 0 /\ p.regularOpen = 0 /\ p.regularClose = 0
           /\ bars # <<>> \/ daily # <<>> =>
                 /\ p.regularOpen \in Nat \ {0} /\ p.regularClose \in Nat \ {0}
                 /\ p.latestPrice = IF bars # <<>> THEN bars[Len(bars)].close
                                    ELSE daily[Len(daily)].close
<1> DEFINE p == getMarketSessionPrices(bars, daily, Day, Open, Close)
           latestPrice == CASE bars # <<>> -> bars[Len(bars)].close
                            [] bars = <<>> /\ daily # <<>> -> daily[Len(daily)].close
                            [] OTHER -> 0
           regular == Regular(bars, Day, Open, Close)
           hours == IF regular # {} THEN regular ELSE 1..Len(bars)
           first == IF daily # <<>> THEN daily[Len(daily)] ELSE bars[Min(hours)]
           last == IF daily # <<>> THEN daily[Len(daily)] ELSE bars[Max(hours)]
<1>1. p = IF bars = <<>> /\ daily = <<>>
          THEN [regularOpen |-> 0, regularClose |-> 0, latestPrice |-> 0]
          ELSE [regularOpen |-> first.open, regularClose |-> last.close, latestPrice |-> latestPrice]
    BY DEF getMarketSessionPrices
<1>2. ASSUME bars # <<>> PROVE Min(hours) \in 1..Len(bars) /\ Max(hours) \in 1..Len(bars)
  <2>1. hours \subseteq 1..Len(bars) /\ hours # {}
    <3>1. regular \subseteq 1..Len(bars) /\ 1 \in 1..Len(bars)
        BY <1>2 DEF Regular
    <3> HIDE DEF regular
    <3> QED BY <3>1
  <2>2. IsFiniteSet(hours) /\ hours \subseteq Int
    <3>1. IsFiniteSet(1..Len(bars)) /\ 1..Len(bars) \subseteq Int
        BY FS_Interval
    <3> HIDE DEF hours
    <3> QED BY <2>1, <3>1, FS_Subset
  <2> HIDE DEF hours
  <2>3. Min(hours) \in hours /\ Max(hours) \in hours
      BY <2>1, <2>2, Extremes
  <2> QED BY <2>1, <2>3
<1>3. bars # <<>> \/ daily # <<>> =>
         latestPrice = IF bars # <<>> THEN bars[Len(bars)].close ELSE daily[Len(daily)].close
    OBVIOUS
<1>4. ASSUME bars # <<>> \/ daily # <<>> PROVE first.open \in Nat \ {0} /\ last.close \in Nat \ {0}
  <2>1. CASE daily # <<>>
    <3>1. Len(daily) \in 1..Len(daily) /\ first = daily[Len(daily)] /\ last = daily[Len(daily)]
        BY <2>1
    <3> HIDE DEF first, last
    <3> QED BY <3>1, BarPrices
  <2>2. CASE daily = <<>>
    <3>1. Min(hours) \in 1..Len(bars) /\ Max(hours) \in 1..Len(bars)
        BY <1>2, <1>4, <2>2
    <3>2. first = bars[Min(hours)] /\ last = bars[Max(hours)]
        BY <2>2
    <3> HIDE DEF first, last, hours
    <3> QED BY <3>1, <3>2, BarPrices
  <2> QED BY <2>1, <2>2
<1> HIDE DEF first, last, latestPrice, p
<1>5. CASE bars = <<>> /\ daily = <<>>
    BY <1>1, <1>5 DEF p
<1>6. CASE bars # <<>> \/ daily # <<>>
  <2>1. p.regularOpen = first.open /\ p.regularClose = last.close /\ p.latestPrice = latestPrice
      BY <1>1, <1>6
  <2> QED BY <1>3, <1>4, <1>6, <2>1 DEF p
<1> QED BY <1>5, <1>6

\* What the store holds of a granularity.
LEMMA Stored ==
    ASSUME FiguresInv, NEW g \in Granularities
    PROVE  /\ candles[g] \in Seq(Bar) /\ AllShaped(candles[g]) /\ Ordered(candles[g])
           /\ ticks[g] \in Seq(Point) /\ Ordered(ticks[g])
           /\ candles["1d"] \in Seq(Bar) /\ AllShaped(candles["1d"])
           /\ candles["1y"] \in Seq(Bar) /\ AllShaped(candles["1y"])
           /\ candles[g] # <<>> => g \in loaded
           /\ ticks["1d"] = <<>> <=> candles["1d"] = <<>>
           /\ ticks["1d"] \in Seq(Point)
<1>1. "1d" \in Granularities /\ "1y" \in Granularities
    BY FiguresAssumption
<1>2. /\ ticks \in [Granularities -> Seq(Point)]
      /\ candles \in [Granularities -> Seq(Bar)]
      /\ BarsWellFormed /\ LastPricesAgree
    BY DEF FiguresInv, PriceInv, WellFormedInv
<1>3. "1d" # "1y"
    OBVIOUS
<1>4. ticks["1d"] = <<>> <=> candles["1d"] = <<>>
    BY <1>1, <1>2, <1>3 DEF LastPricesAgree
<1>5. candles[g] # <<>> => g \in loaded
    BY DEF FiguresInv
<1>6. \A h \in Granularities : /\ candles[h] \in Seq(Bar) /\ AllShaped(candles[h])
                               /\ Ordered(candles[h])
                               /\ ticks[h] \in Seq(Point) /\ Ordered(ticks[h])
    BY <1>2 DEF BarsWellFormed, AllShaped
<1> QED BY <1>1, <1>4, <1>5, <1>6

\* The price in the header: the close of the last bar of the day, else of the
\* granularity shown, else of the year; and on the one-day chart the changes of
\* the session and after hours add up to that of the day.
LEMMA HeaderPrice ==
    ASSUME FiguresInv, NEW g \in Granularities, ticks[g] # <<>> => candles[g] # <<>>
    PROVE  LET info == getPeriodChangeInfo(g)
               bars == IF candles["1d"] # <<>> THEN candles["1d"] ELSE candles[g]
           IN  /\ info.currentPrice
                     = CASE bars # <<>> -> bars[Len(bars)].close
                         [] bars = <<>> /\ candles["1y"] # <<>>
                              -> candles["1y"][Len(candles["1y"])].close
                         [] OTHER -> 0
               /\ g = "1d" => info.change = info.closeChange + info.offHoursChange
<1> DEFINE info == getPeriodChangeInfo(g)
           bars == IF candles["1d"] # <<>> THEN candles["1d"] ELSE candles[g]
           year == candles["1y"]
           session == getMarketSessionPrices(bars, year, Day, Open, Close)
           cur == CASE session.latestPrice > 0 -> session.latestPrice
                    [] session.latestPrice = 0 /\ ticks["1d"] # <<>> -> LastOf(ticks["1d"]).value
                    [] session.latestPrice = 0 /\ ticks["1d"] = <<>> /\ ticks[g] # <<>>
                         -> LastOf(ticks[g]).value
                    [] OTHER -> 0
           closePrice == OrElse(session.regularClose, cur)
           openPrice == OrElse(session.regularOpen, cur)
           startPrice ==
            CASE g = "1d" -> OrElse(openPrice, cur)
              [] g # "1d" /\ candles[g] # <<>> -> candles[g][1].open
              [] g # "1d" /\ candles[g] = <<>> /\ ticks[g] # <<>> -> ticks[g][1].value
              [] g # "1d" /\ candles[g] = <<>> /\ ticks[g] = <<>> /\ candles["1d"] # <<>>
                   -> candles["1d"][1].open
              [] OTHER -> cur
<1>1. info = [currentPrice |-> cur,
              startPrice |-> startPrice,
              change |-> OrElse(cur, closePrice) - startPrice,
              closeChange |-> closePrice - openPrice,
              offHoursChange |-> cur - closePrice]
    BY DEF getPeriodChangeInfo
<1>2. g = "1d" => startPrice = OrElse(openPrice, cur)
    OBVIOUS
<1>3. /\ bars \in Seq(Bar) /\ year \in Seq(Bar)
      /\ bars = <<>> => ticks["1d"] = <<>> /\ ticks[g] = <<>>
    BY Stored
<1>4. /\ bars = <<>> /\ year = <<>> =>
            session.latestPrice = 0 /\ session.regularOpen = 0 /\ session.regularClose = 0
      /\ bars # <<>> \/ year # <<>> =>
            /\ session.regularOpen \in Nat \ {0} /\ session.regularClose \in Nat \ {0}
            /\ session.latestPrice = IF bars # <<>> THEN bars[Len(bars)].close
                                     ELSE year[Len(year)].close
  <2> HIDE DEF bars, year
  <2> QED BY <1>3, SessionPrices
<1>5. /\ bars # <<>> => bars[Len(bars)].close \in Nat \ {0}
      /\ year # <<>> => year[Len(year)].close \in Nat \ {0}
  <2> HIDE DEF bars, year
  <2>1. /\ bars # <<>> => Len(bars) \in 1..Len(bars)
        /\ year # <<>> => Len(year) \in 1..Len(year)
      BY <1>3
  <2> QED BY <1>3, <2>1, BarPrices
<1> HIDE DEF bars, year, session
<1>6. cur = CASE bars # <<>> -> bars[Len(bars)].close
              [] bars = <<>> /\ year # <<>> -> year[Len(year)].close
              [] OTHER -> 0
  <2>1. CASE bars # <<>> \/ year # <<>>
    <3>1. session.latestPrice > 0
        BY <1>4, <1>5, <2>1
    <3>2. cur = session.latestPrice
        BY <3>1
    <3> HIDE DEF cur
    <3> QED BY <1>4, <2>1, <3>2
  <2>2. CASE bars = <<>> /\ year = <<>>
    <3>1. session.latestPrice = 0 /\ ticks["1d"] = <<>> /\ ticks[g] = <<>>
        BY <1>3, <1>4, <2>2
    <3>2. cur = 0
        BY <3>1
    <3> HIDE DEF cur
    <3> QED BY <2>2, <3>2
  <2> QED BY <2>1, <2>2
<1> HIDE DEF cur, startPrice
<1>7. ASSUME g = "1d"
      PROVE  OrElse(cur, closePrice) - startPrice = (closePrice - openPrice) + (cur - closePrice)
  <2>1. CASE bars # <<>> \/ year # <<>>
    <3>1. cur \in Nat \ {0} /\ session.regularOpen \in Nat \ {0} /\ session.regularClose \in Nat \ {0}
        BY <1>4, <1>5, <1>6, <2>1
    <3> QED BY <1>2, <1>7, <3>1 DEF OrElse
  <2>2. CASE bars = <<>> /\ year = <<>>
    <3>1. cur = 0 /\ session.regularOpen = 0 /\ session.regularClose = 0
        BY <1>4, <1>6, <2>2
    <3> QED BY <1>2, <1>7, <3>1 DEF OrElse
  <2> QED BY <2>1, <2>2
<1> HIDE DEF closePrice, openPrice, info
<1> QED BY <1>1, <1>6, <1>7 DEF info, bars, year

\* The statistics of a symbol take in what is shown of it: with the fallback
\* price and range, the bars at hand and the bars of the year.
LEMMA StockStats ==
    ASSUME NEW raw \in Seq(Bar), AllShaped(raw), NEW year \in Seq(Bar), AllShaped(year)
    PROVE  LET s == getStockStats(Base, raw, year) IN
           /\ s.wHigh \in Int /\ s.wLow \in Int
           /\ s.low \in Nat \ {0} /\ s.high \in Nat \ {0} /\ s.low <= s.high
           /\ \A i \in 1..Len(raw) : s.wLow <= raw[i].close
           /\ \A i \in 1..Len(year) : s.wLow <= year[i].close
<1> DEFINE s == getStockStats(Base, raw, year)
           wHigh == Max(Highs(year) \cup {Base.wHigh})
           wLow == Min(Lows(year) \cup {Base.wLow})
<1>0. Base.wHigh \in Int /\ Base.wLow \in Int /\ Base.price \in Nat \ {0}
    BY FiguresAssumption
<1>s. \A x \in Int : {x} \subseteq Int /\ IsFiniteSet({x})
    BY FS_Singleton
<1>1. wHigh \in Int
  <2>1. Highs(year) \cup {Base.wHigh} # {}
      OBVIOUS
  <2> QED BY <1>0, <1>s, <2>1, RangeWith
<1>2. wLow \in Int /\ \A i \in 1..Len(year) : wLow <= year[i].low
  <2>1. Highs(year) \cup {Base.wLow} # {}
      OBVIOUS
  <2> QED BY <1>0, <1>s, <2>1, RangeWith
<1>3. \A t \in Seq(Bar) : AllShaped(t) =>
         \A i \in 1..Len(t) : /\ t[i].low \in Int /\ t[i].close \in Int /\ t[i].low <= t[i].close
  <2> SUFFICES ASSUME NEW t \in Seq(Bar), AllShaped(t), NEW i \in 1..Len(t)
               PROVE  /\ t[i].low \in Int /\ t[i].close \in Int /\ t[i].low <= t[i].close
      OBVIOUS
  <2> QED BY BarPrices DEF AllShaped, Shaped
<1> HIDE DEF wHigh, wLow
<1>4. CASE raw = <<>>
  <2>1. s = [currentPrice |-> Base.price, open |-> Base.price, high |-> Base.price,
             low |-> Base.price, wHigh |-> wHigh, wLow |-> wLow]
      BY <1>4 DEF getStockStats, wHigh, wLow
  <2>2. /\ s.high = Base.price /\ s.low = Base.price /\ s.wHigh = wHigh /\ s.wLow = wLow
    <3> HIDE DEF s
    <3> QED BY <2>1
  <2> HIDE DEF s
  <2>3. \A i \in 1..Len(year) : wLow <= year[i].close
      BY <1>2, <1>3
  <2>4. ~ \E i \in 1..Len(raw) : TRUE
      BY <1>4
  <2> QED BY <1>0, <1>1, <1>2, <2>2, <2>3, <2>4 DEF s
<1>5. CASE raw # <<>>
  <2> DEFINE h == Max(Highs(raw) \cup {wHigh})
             l == Min(Lows(raw) \cup {wLow})
  <2>1. s = [currentPrice |-> raw[Len(raw)].close,
             open |-> raw[1].open,
             high |-> Max(Highs(raw)),
             low |-> Min(Lows(raw)),
             wHigh |-> h,
             wLow |-> l]
      BY <1>5 DEF getStockStats, wHigh, wLow
  <2>2. /\ s.high = Max(Highs(raw)) /\ s.low = Min(Lows(raw)) /\ s.wHigh = h /\ s.wLow = l
    <3> HIDE DEF s, h, l
    <3> QED BY <2>1
  <2>3. h \in Int
    <3>1. Highs(raw) \cup {wHigh} # {}
        OBVIOUS
    <3> QED BY <1>1, <1>s, <3>1, RangeWith
  <2>4. l \in Int /\ l <= wLow /\ \A i \in 1..Len(raw) : l <= raw[i].low
    <3>1. Highs(raw) \cup {wLow} # {} /\ wLow \in {wLow}
        OBVIOUS
    <3> QED BY <1>2, <1>s, <3>1, RangeWith
  <2>5. /\ Max(Highs(raw)) \in Nat \ {0} /\ Min(Lows(raw)) \in Nat \ {0}
        /\ Min(Lows(raw)) <= Max(Highs(raw))
      BY <1>5, RangeOf
  <2> HIDE DEF s, h, l
  <2>6. \A i \in 1..Len(raw) : l <= raw[i].close
      BY <1>3, <2>4
  <2>7. \A i \in 1..Len(year) : l <= year[i].close
    <3> TAKE i \in 1..Len(year)
    <3>1. wLow <= year[i].low
        BY <1>2
    <3>2. year[i].low <= year[i].close /\ year[i].low \in Int /\ year[i].close \in Int
        BY <1>3
    <3> QED BY <1>2, <2>4, <3>1, <3>2
  <2> QED BY <2>2, <2>3, <2>4, <2>5, <2>6, <2>7 DEF s
<1> QED BY <1>4, <1>5

\* The ranges shown take in the price shown, for one granularity.
LEMMA HeadlineHolds ==
    ASSUME FiguresInv, NEW g \in Granularities, ticks[g] # <<>> => candles[g] # <<>>,
           NEW isMock \in BOOLEAN
    PROVE  LET stats == keyStats(g, isMock)
               price == getPeriodChangeInfo(g).currentPrice
           IN  /\ price > 0 => stats.wLow <= price /\ price <= stats.wHigh
               /\ stats.low > 0 => /\ stats.low <= stats.high
                                   /\ stats.high <= stats.wHigh
                                   /\ price > 0 => stats.wLow <= stats.low
<1> DEFINE bars == IF candles["1d"] # <<>> THEN candles["1d"] ELSE candles[g]
           year == candles["1y"]
           raw == IF g \in loaded THEN candles[g] ELSE candles["1d"]
           stats == getStockStats(Base, raw, year)
           today == getTodayStats(candles["1d"], Day, Open, Close)
           fallback(price) == IF isMock THEN price ELSE 0
           shown == [open |-> OrElse(today.open, fallback(stats.open)),
                     high |-> OrElse(today.high, fallback(stats.high)),
                     low |-> OrElse(today.low, fallback(stats.low))]
           price == getPeriodChangeInfo(g).currentPrice
           range == fiftyTwoWeeks(stats, shown, price)
           key == keyStats(g, isMock)
<1>1. /\ candles[g] \in Seq(Bar) /\ AllShaped(candles[g])
      /\ candles["1d"] \in Seq(Bar) /\ AllShaped(candles["1d"])
      /\ year \in Seq(Bar) /\ AllShaped(year)
      /\ candles[g] # <<>> => g \in loaded
    BY Stored
<1>2. key = [currentPrice |-> price, open |-> shown.open, high |-> shown.high,
             low |-> shown.low, wHigh |-> range.wHigh, wLow |-> range.wLow]
    BY DEF keyStats
<1>3. /\ key.high = shown.high /\ key.low = shown.low
      /\ key.wHigh = range.wHigh /\ key.wLow = range.wLow
  <2> HIDE DEF key, shown, range, price
  <2> QED BY <1>2
<1>4. shown.high = OrElse(today.high, fallback(stats.high))
      /\ shown.low = OrElse(today.low, fallback(stats.low))
    OBVIOUS
<1>5. /\ stats.wHigh \in Int /\ stats.wLow \in Int
      /\ stats.low \in Nat \ {0} /\ stats.high \in Nat \ {0} /\ stats.low <= stats.high
      /\ \A i \in 1..Len(raw) : stats.wLow <= raw[i].close
      /\ \A i \in 1..Len(year) : stats.wLow <= year[i].close
  <2>1. raw \in Seq(Bar) /\ AllShaped(raw)
      BY <1>1
  <2> HIDE DEF raw, year
  <2> QED BY <1>1, <2>1, StockStats
<1>6. /\ candles["1d"] = <<>> => today.high = 0 /\ today.low = 0
      /\ candles["1d"] # <<>> => /\ today.low \in Nat \ {0} /\ today.high \in Nat \ {0}
                                 /\ today.low <= today.high
    BY <1>1, DayStats
<1>7. price = CASE bars # <<>> -> bars[Len(bars)].close
                [] bars = <<>> /\ year # <<>> -> year[Len(year)].close
                [] OTHER -> 0
    BY HeaderPrice
<1>8. /\ bars \in Seq(Bar)
      /\ bars # <<>> => Len(bars) \in 1..Len(bars) /\ bars[Len(bars)].close \in Nat
      /\ year # <<>> => Len(year) \in 1..Len(year) /\ year[Len(year)].close \in Nat
  <2>1. bars \in Seq(Bar)
      BY <1>1
  <2>2. /\ bars # <<>> => Len(bars) \in 1..Len(bars)
        /\ year # <<>> => Len(year) \in 1..Len(year)
    <3> HIDE DEF bars, year
    <3> QED BY <1>1, <2>1
  <2> HIDE DEF bars, year
  <2> QED BY <1>1, <2>1, <2>2, BarPrices
<1>9. price \in Nat
  <2> HIDE DEF price, bars, year
  <2> QED BY <1>7, <1>8
\* Without bars of the day, the price comes from bars that the statistics cover.
<1>10. ASSUME candles["1d"] = <<>>, price > 0 PROVE stats.wLow <= price
  <2>1. bars = candles[g]
      BY <1>10
  <2>2. CASE candles[g] # <<>>
    <3>1. raw = bars
        BY <1>1, <2>1, <2>2
    <3> HIDE DEF raw, bars, price, stats, year
    <3>2. price = bars[Len(bars)].close /\ Len(bars) \in 1..Len(bars)
        BY <1>7, <1>8, <2>1, <2>2
    <3> QED BY <1>5, <3>1, <3>2
  <2>3. CASE candles[g] = <<>>
    <3> HIDE DEF raw, bars, price, stats, year
    <3>1. price = year[Len(year)].close /\ Len(year) \in 1..Len(year)
        BY <1>7, <1>8, <1>10, <2>1, <2>3
    <3> QED BY <1>5, <3>1
  <2> QED BY <2>2, <2>3
<1>11. /\ shown.low \in Nat /\ shown.high \in Nat
       /\ shown.low <= shown.high
       /\ shown.low = 0 => candles["1d"] = <<>>
  <2> HIDE DEF shown, stats, today
  <2>1. CASE candles["1d"] # <<>>
      BY <1>4, <1>6, <2>1 DEF OrElse
  <2>2. CASE candles["1d"] = <<>>
      BY <1>4, <1>5, <1>6, <2>2 DEF OrElse
  <2> QED BY <2>1, <2>2
<1> HIDE DEF shown, price, stats
<1>12. /\ range.wHigh = Max({stats.wHigh, price, shown.high})
       /\ range.wLow = IF price > 0 /\ shown.low > 0
                       THEN Min({stats.wLow, price, shown.low}) ELSE stats.wLow
    BY DEF fiftyTwoWeeks
<1>13. /\ price <= range.wHigh /\ shown.high <= range.wHigh
       /\ price > 0 /\ shown.low > 0 => range.wLow <= price /\ range.wLow <= shown.low
  <2> HIDE DEF range
  <2> DEFINE h == shown.high
             l == shown.low
  <2>1. /\ stats.wHigh \in Int /\ stats.wLow \in Int /\ price \in Int /\ h \in Int /\ l \in Int
      BY <1>5, <1>9, <1>11
  <2> HIDE DEF h, l
  <2>2. price <= Max({stats.wHigh, price, h}) /\ h <= Max({stats.wHigh, price, h})
      BY <2>1, MaxOfThree
  <2>3. Min({stats.wLow, price, l}) <= price /\ Min({stats.wLow, price, l}) <= l
      BY <2>1, MaxOfThree
  <2> QED BY <1>12, <2>2, <2>3 DEF h, l
<1>14. price > 0 => range.wLow <= price
  <2> HIDE DEF range
  <2>1. CASE shown.low > 0
      BY <1>13, <2>1
  <2>2. CASE ~(shown.low > 0)
    <3>1. shown.low = 0 /\ range.wLow = stats.wLow
        BY <1>11, <1>12, <2>2
    <3> QED BY <1>10, <1>11, <3>1
  <2> QED BY <2>1, <2>2
<1> HIDE DEF range, key
<1>15. /\ price > 0 => key.wLow <= price /\ price <= key.wHigh
       /\ key.low > 0 => /\ key.low <= key.high
                         /\ key.high <= key.wHigh
                         /\ price > 0 => key.wLow <= key.low
    BY <1>3, <1>11, <1>13, <1>14
<1> QED BY <1>15 DEF key, price

\* The headline agrees with the ranges beside it for ever, whatever keys of the
\* store are loaded, emptied or fed by ticks, and in whatever order
\* (getPeriodChangeInfo, getTodayStats, getStockStats and the key statistics).
THEOREM HeadlineTheorem == Spec => []HeadlineConsistent
<1>1. FiguresInv => HeadlineConsistent
  <2> SUFFICES ASSUME FiguresInv PROVE HeadlineConsistent
      OBVIOUS
  <2> SUFFICES ASSUME NEW g \in {k \in Granularities : ticks[k] # <<>> => candles[k] # <<>>},
                      NEW isMock \in BOOLEAN
               PROVE  LET stats == keyStats(g, isMock)
                          info == getPeriodChangeInfo(g)
                      IN  /\ info.currentPrice > 0 =>
                               stats.wLow <= info.currentPrice /\ info.currentPrice <= stats.wHigh
                          /\ stats.low > 0 => /\ stats.low <= stats.high
                                              /\ stats.high <= stats.wHigh
                                              /\ info.currentPrice > 0 => stats.wLow <= stats.low
                          /\ g = "1d" => info.change = info.closeChange + info.offHoursChange
      BY DEF HeadlineConsistent
  <2>1. g \in Granularities /\ (ticks[g] # <<>> => candles[g] # <<>>)
      OBVIOUS
  <2>2. g = "1d" => getPeriodChangeInfo(g).change
                      = getPeriodChangeInfo(g).closeChange + getPeriodChangeInfo(g).offHoursChange
      BY <2>1, HeaderPrice
  <2> QED BY <2>1, <2>2, HeadlineHolds
<1> QED BY <1>1, FiguresInit, FiguresStep, PTL DEF Spec

-----------------------------------------------------------------------------
(***************************************************************************)
(* The detail of a bar                                                     *)
(***************************************************************************)
\* Two series with the same times.
SameTimes(s, t) == Len(t) = Len(s) /\ \A i \in 1..Len(s) : t[i].time = s[i].time

\* Series with the same times are ordered alike.
LEMMA SameTimesOrdered ==
    ASSUME NEW s, NEW t, SameTimes(s, t)
    PROVE  TimesOf(t) = TimesOf(s) /\ (Ordered(s) => Ordered(t))
BY DEF SameTimes, TimesOf, Ordered

\* A time of an ordered series has one place.
LEMMA AtIs ==
    ASSUME NEW s, Len(s) \in Nat, Ordered(s), \A i \in 1..Len(s) : s[i].time \in Int,
           NEW k \in 1..Len(s)
    PROVE  At(s, s[k].time) = s[k]
<1> DEFINE P(i) == i \in 1..Len(s) /\ s[i].time = s[k].time
           x == CHOOSE i \in 1..Len(s) : s[i].time = s[k].time
<1>1. x \in 1..Len(s) /\ s[x].time = s[k].time
    OBVIOUS
<1>2. At(s, s[k].time) = s[x]
    BY DEF At
<1> HIDE DEF x
<1>3. ~(x < k) /\ ~(k < x)
    BY <1>1 DEF Ordered
<1>4. x = k
    BY <1>1, <1>3
<1> QED BY <1>2, <1>4

\* The average of a series has its times.
LEMMA EMATimes ==
    ASSUME NEW data, Len(data) \in Nat, NEW period \in Nat \ {0}
    PROVE  SameTimes(data, calculateEMA(data, period)) /\ Len(calculateEMA(data, period)) \in Nat
<1> DEFINE ema == Smoothed(data, period)
           n == Len(data)
           s == [i \in 1..n |-> [time |-> data[i].time, value |-> Round(ema[i].num, ema[i].den)]]
<1>1. calculateEMA(data, period) = s
    BY DEF calculateEMA
<1>2. Len(s) = n /\ n \in Nat /\ \A i \in 1..n : s[i].time = data[i].time
  <2> HIDE DEF ema
  <2> QED OBVIOUS
<1> HIDE DEF s
<1> QED BY <1>1, <1>2 DEF SameTimes

\* So has the progressive average.
LEMMA SMATimes ==
    ASSUME NEW data, Len(data) \in Nat, NEW period \in Nat \ {0}
    PROVE  SameTimes(data, calculateSMA(data, period, TRUE))
<1> DEFINE sum == RunningSum(data, period)
           n == Len(data)
           s == [i \in 1..n - 1 + 1 |->
                   LET k == i + 1 - 1
                   IN  [time |-> data[k].time, value |-> Round(sum[k], Min({k, period}))]]
<1>1. calculateSMA(data, period, TRUE) = s
    BY DEF calculateSMA
<1>2. n - 1 + 1 = n /\ \A i \in 1..n : i + 1 - 1 = i
    OBVIOUS
<1>3. Len(s) = n /\ \A i \in 1..n : s[i].time = data[i].time
  <2> HIDE DEF sum
  <2> QED BY <1>2
<1> HIDE DEF s
<1> QED BY <1>1, <1>3 DEF SameTimes

\* The joins by time of MACD lose nothing of an ordered series.
LEMMA MACDJoins ==
    ASSUME NEW data, Len(data) \in Nat, Ordered(data),
           \A i \in 1..Len(data) : data[i].time \in Int
    PROVE  LET m == calculateMACD(data, Fast, Slow, Signal) IN
           \A t \in TimesOf(data) :
              /\ t \in TimesOf(m.dif) /\ t \in TimesOf(m.dea) /\ t \in TimesOf(m.hist)
              /\ At(m.hist, t).value = 2 * (At(m.dif, t).value - At(m.dea, t).value)
<1> DEFINE fast == calculateEMA(data, Fast)
           slow == calculateEMA(data, Slow)
           I == {i \in 1..Len(fast) : fast[i].time \in TimesOf(slow)}
           common == Picked(fast, I)
           dif == [i \in 1..Len(common) |->
                     [time |-> common[i].time,
                      value |-> common[i].value - At(slow, common[i].time).value]]
           dea == calculateEMA(dif, Signal)
           hist == [i \in 1..Len(dif) |->
                      [time |-> dif[i].time,
                       value |-> 2 * (dif[i].value - At(dea, dif[i].time).value)]]
           m == calculateMACD(data, Fast, Slow, Signal)
<1>1. m = [dif |-> dif, dea |-> dea, hist |-> hist]
    BY DEF calculateMACD
<1>2. m.dif = dif /\ m.dea = dea /\ m.hist = hist
  <2> HIDE DEF m, dif, dea, hist
  <2> QED BY <1>1
<1>3. Fast \in Nat \ {0} /\ Slow \in Nat \ {0} /\ Signal \in Nat \ {0}
    BY FiguresAssumption
<1>4. /\ SameTimes(data, fast) /\ SameTimes(data, slow) /\ Len(fast) \in Nat
    BY <1>3, EMATimes
<1>5. TimesOf(fast) = TimesOf(data) /\ TimesOf(slow) = TimesOf(data) /\ Ordered(fast)
  <2> HIDE DEF fast, slow
  <2> QED BY <1>4, SameTimesOrdered
<1>6. fast \in Seq({fast[i] : i \in 1..Len(fast)})
  <2> DEFINE n == Len(data)
             S == {fast[i] : i \in 1..Len(fast)}
             ema == Smoothed(data, Fast)
             s == [i \in 1..n |-> [time |-> data[i].time, value |-> Round(ema[i].num, ema[i].den)]]
  <2>1. fast = s
      BY <1>3 DEF calculateEMA
  <2>2. DOMAIN fast = 1..n /\ fast = [i \in 1..n |-> fast[i]] /\ Len(fast) = n
    <3>1. DOMAIN s = 1..n /\ s = [i \in 1..n |-> s[i]] /\ Len(s) = n
        OBVIOUS
    <3> HIDE DEF fast, s
    <3> QED BY <2>1, <3>1
  <2>3. fast \in [1..n -> S]
    <3>1. \A i \in 1..n : fast[i] \in S
        BY <2>2
    <3> HIDE DEF fast, S
    <3> QED BY <2>2, <3>1
  <2> HIDE DEF fast, S, n
  <2>4. n \in Nat
      BY DEF n
  <2>5. fast \in Seq(S)
      BY <2>3, <2>4
  <2> QED BY <2>5 DEF S
<1>7. /\ Ordered(common) /\ Len(common) \in Nat
      /\ \A j \in 1..Len(common) : \E k \in 1..Len(fast) : common[j] = fast[k]
      /\ \A k \in 1..Len(fast) : \E j \in 1..Len(common) : common[j] = fast[k]
  <2> DEFINE S == {fast[i] : i \in 1..Len(fast)}
  <2>1. \A k \in 1..Len(fast) : k \in I
      BY <1>5 DEF TimesOf
  <2> HIDE DEF fast, S, I
  <2>2. fast \in Seq(S)
      BY <1>6 DEF S
  <2>3. /\ common \in Seq(S)
        /\ \A j \in 1..Len(common) : \E k \in 1..Len(fast) : k \in I /\ common[j] = fast[k]
        /\ \A k \in 1..Len(fast) : k \in I => \E j \in 1..Len(common) : common[j] = fast[k]
    <3>1. common \in Seq(S)
        BY <2>2, PickedElements
    <3>2. \A j \in 1..Len(common) : \E k \in 1..Len(fast) : k \in I /\ common[j] = fast[k]
        BY <2>2, PickedElements
    <3>3. \A k \in 1..Len(fast) : k \in I => \E j \in 1..Len(common) : common[j] = fast[k]
        BY <2>2, PickedElements
    <3> QED BY <3>1, <3>2, <3>3
  <2>4. Ordered(common)
      BY <1>5, <2>2, PickedOrdered
  <2> HIDE DEF common
  <2>5. Len(common) \in Nat
      BY <2>3
  <2>6. \A j \in 1..Len(common) : \E k \in 1..Len(fast) : common[j] = fast[k]
      BY <2>3
  <2>7. \A k \in 1..Len(fast) : \E j \in 1..Len(common) : common[j] = fast[k]
      BY <2>1, <2>3
  <2> QED BY <2>4, <2>5, <2>6, <2>7
<1> HIDE DEF common, fast, slow, I
<1>8. /\ TimesOf(common) = TimesOf(data)
      /\ \A i \in 1..Len(common) : common[i].time \in Int
  <2>1. TimesOf(common) = TimesOf(fast)
    <3>1. ASSUME NEW j \in 1..Len(common) PROVE \E k \in 1..Len(fast) : common[j].time = fast[k].time
      <4>1. PICK k \in 1..Len(fast) : common[j] = fast[k]
          BY <1>7
      <4> QED BY <4>1
    <3>2. ASSUME NEW k \in 1..Len(fast) PROVE \E j \in 1..Len(common) : common[j].time = fast[k].time
      <4>1. PICK j \in 1..Len(common) : common[j] = fast[k]
          BY <1>7
      <4> QED BY <4>1
    <3>3. \A t : t \in TimesOf(common) <=> t \in TimesOf(fast)
      <4> TAKE t
      <4>1. t \in TimesOf(common) => t \in TimesOf(fast)
          BY <3>1 DEF TimesOf
      <4>2. t \in TimesOf(fast) => t \in TimesOf(common)
          BY <3>2 DEF TimesOf
      <4> QED BY <4>1, <4>2
    <3> QED BY <3>3
  <2>2. TimesOf(data) \subseteq Int
      BY DEF TimesOf
  <2>3. \A i \in 1..Len(common) : common[i].time \in TimesOf(common)
      BY DEF TimesOf
  <2> QED BY <1>5, <2>1, <2>2, <2>3
<1>9. SameTimes(common, dif) /\ Len(dif) \in Nat
  <2>1. Len(dif) = Len(common)
      BY <1>7
  <2>2. \A i \in 1..Len(common) : dif[i].time = common[i].time
      OBVIOUS
  <2> QED BY <1>7, <2>1, <2>2 DEF SameTimes
<1>10. /\ Len(hist) = Len(dif)
       /\ \A i \in 1..Len(dif) : /\ hist[i].time = dif[i].time
                                 /\ hist[i].value = 2 * (dif[i].value - At(dea, dif[i].time).value)
  <2> HIDE DEF dif, dea
  <2> QED BY <1>9
<1> HIDE DEF dif
<1>11. SameTimes(dif, dea) /\ Len(dea) \in Nat
    BY <1>3, <1>9, EMATimes
<1> HIDE DEF dea, hist
<1>12. SameTimes(dif, hist)
    BY <1>10 DEF SameTimes
<1>13. /\ TimesOf(dif) = TimesOf(data) /\ TimesOf(dea) = TimesOf(data) /\ TimesOf(hist) = TimesOf(data)
       /\ Ordered(dif) /\ Ordered(dea) /\ Ordered(hist)
    BY <1>7, <1>8, <1>9, <1>11, <1>12, SameTimesOrdered
<1>14. ASSUME NEW t \in TimesOf(data)
       PROVE  At(hist, t).value = 2 * (At(dif, t).value - At(dea, t).value)
  <2>1. PICK k \in 1..Len(dif) : dif[k].time = t
      BY <1>13 DEF TimesOf
  <2>2. /\ Len(hist) = Len(dif) /\ k \in 1..Len(hist)
        /\ \A i \in 1..Len(dif) : dif[i].time \in Int /\ hist[i].time \in Int
      BY <1>8, <1>9, <1>12 DEF SameTimes
  <2>3. At(dif, t) = dif[k]
      BY <1>9, <1>13, <2>1, <2>2, AtIs
  <2>4. At(hist, hist[k].time) = hist[k] /\ hist[k].time = t
      BY <1>9, <1>10, <1>13, <2>1, <2>2, AtIs
  <2>5. hist[k].value = 2 * (dif[k].value - At(dea, dif[k].time).value)
      BY <1>10
  <2> QED BY <2>1, <2>3, <2>4, <2>5
<1> HIDE DEF m
<1> QED BY <1>2, <1>13, <1>14 DEF m

\* Points in time order followed by later ones are in time order.
LEMMA ConcatOrdered ==
    ASSUME NEW s \in Seq(Point), NEW r \in Seq(Point), Ordered(s), Ordered(r),
           \A i \in 1..Len(s), j \in 1..Len(r) : s[i].time < r[j].time
    PROVE  s \o r \in Seq(Point) /\ Ordered(s \o r) /\ TimesOf(r) \subseteq TimesOf(s \o r)
<1> DEFINE c == s \o r
<1>1. c \in Seq(Point) /\ Len(c) = Len(s) + Len(r) /\ Len(s) \in Nat /\ Len(r) \in Nat
    OBVIOUS
<1>2. /\ \A i \in 1..Len(s) : c[i] = s[i]
      /\ \A i \in 1..Len(c) : i > Len(s) => c[i] = r[i - Len(s)] /\ i - Len(s) \in 1..Len(r)
    BY <1>1
<1>3. \A j \in 1..Len(r) : Len(s) + j \in 1..Len(c) /\ c[Len(s) + j] = r[j]
    BY <1>1
<1> HIDE DEF c
<1>4. ASSUME NEW i \in 1..Len(c), NEW j \in 1..Len(c), i < j PROVE c[i].time < c[j].time
  <2>1. CASE j <= Len(s)
    <3>1. i \in 1..Len(s) /\ j \in 1..Len(s) /\ c[i] = s[i] /\ c[j] = s[j]
        BY <1>1, <1>2, <1>4, <2>1
    <3> QED BY <1>4, <3>1 DEF Ordered
  <2>2. CASE i <= Len(s) /\ j > Len(s)
    <3>1. i \in 1..Len(s) /\ c[i] = s[i]
        BY <1>1, <1>2, <2>2
    <3>2. c[j] = r[j - Len(s)] /\ j - Len(s) \in 1..Len(r)
        BY <1>2, <2>2
    <3> QED BY <3>1, <3>2
  <2>3. CASE i > Len(s)
    <3>1. i - Len(s) < j - Len(s)
        BY <1>1, <1>4
    <3>2. /\ c[i] = r[i - Len(s)] /\ i - Len(s) \in 1..Len(r)
          /\ c[j] = r[j - Len(s)] /\ j - Len(s) \in 1..Len(r)
        BY <1>1, <1>2, <1>4, <2>3
    <3> QED BY <3>1, <3>2 DEF Ordered
  <2> QED BY <1>1, <2>1, <2>2, <2>3
<1>5. TimesOf(r) \subseteq TimesOf(c)
  <2> SUFFICES ASSUME NEW t \in TimesOf(r) PROVE t \in TimesOf(c)
      OBVIOUS
  <2>1. PICK j \in 1..Len(r) : r[j].time = t
      BY DEF TimesOf
  <2>2. Len(s) + j \in 1..Len(c) /\ c[Len(s) + j].time = t
      BY <1>3, <2>1
  <2> QED BY <2>2 DEF TimesOf
<1> QED BY <1>1, <1>4, <1>5 DEF Ordered, c

\* The closes of bars are points at the same times.
LEMMA ClosePointsAre ==
    ASSUME NEW bars \in Seq(Bar)
    PROVE  ClosePoints(bars) \in Seq(Point) /\ SameTimes(bars, ClosePoints(bars))
<1> DEFINE n == Len(bars)
           s == [i \in 1..n |-> [time |-> bars[i].time, value |-> bars[i].close]]
<1>1. n \in Nat /\ \A i \in 1..n : [time |-> bars[i].time, value |-> bars[i].close] \in Point
  <2>1. \A i \in 1..n : bars[i] \in Bar
      OBVIOUS
  <2>2. \A i \in 1..n : bars[i].time \in Nat /\ bars[i].close \in Prices
      BY <2>1 DEF Bar
  <2> QED BY <2>2 DEF Point
<1>2. s \in [1..n -> Point] /\ \A i \in 1..n : s[i].time = bars[i].time
    BY <1>1
<1>3. ClosePoints(bars) = s
    BY DEF ClosePoints
<1> HIDE DEF s, n
<1>4. s \in Seq(Point) /\ Len(s) = n
    BY <1>1, <1>2
<1> QED BY <1>2, <1>3, <1>4 DEF SameTimes, n

\* The bars that the indicators are computed from are in time order, and none of
\* those shown is missing.
LEMMA FullOrdered ==
    ASSUME FiguresInv, NEW g \in Granularities, NEW interval, NEW chartType
    PROVE  LET full == getFullPriceBarsForIndicators(g, interval, chartType) IN
           /\ full \in Seq(Point) /\ Ordered(full)
           /\ TimesOf(shownBars(g, chartType)) \subseteq TimesOf(full)
<1> DEFINE current == shownBars(g, chartType)
           full == getFullPriceBarsForIndicators(g, interval, chartType)
           I == {i \in 1..Len(dailyBars) : /\ dailyBars[i].time \notin TimesOf(current)
                                           /\ current = <<>> \/ dailyBars[i].time < current[1].time}
           w == warmupBars(current)
           p == ClosePoints(w)
<1>1. current \in Seq(Point) /\ Ordered(current)
  <2>1. candles[g] \in Seq(Bar) /\ Ordered(candles[g]) /\ ticks[g] \in Seq(Point) /\ Ordered(ticks[g])
      BY Stored
  <2>2. ClosePoints(candles[g]) \in Seq(Point) /\ Ordered(ClosePoints(candles[g]))
      BY <2>1, ClosePointsAre, SameTimesOrdered
  <2> QED BY <2>1, <2>2 DEF shownBars
<1>2. dailyBars \in Seq(Bar) /\ Ordered(dailyBars)
  <2>1. CASE "1y" \in loaded
    <3>1. "1y" \in Granularities /\ dailyBars = candles["1y"]
        BY <2>1, FiguresAssumption DEF dailyBars
    <3> QED BY <3>1, Stored
  <2>2. CASE "1y" \notin loaded /\ "all" \in loaded
    <3>1. "all" \in Granularities
        BY <2>2 DEF FiguresInv
    <3>2. dailyBars = candles["all"]
        BY <2>2 DEF dailyBars
    <3> QED BY <3>1, <3>2, Stored
  <2>3. CASE "1y" \notin loaded /\ "all" \notin loaded
    <3>1. dailyBars = <<>>
        BY <2>3 DEF dailyBars
    <3> QED BY <3>1 DEF Ordered
  <2> QED BY <2>1, <2>2, <2>3
<1>3. w = Picked(dailyBars, I)
    BY DEF warmupBars
<1> HIDE DEF current, w
<1>4. w \in Seq(Bar) /\ Ordered(w)
      /\ \A j \in 1..Len(w) : \E k \in 1..Len(dailyBars) : k \in I /\ w[j] = dailyBars[k]
  <2> HIDE DEF I
  <2> QED BY <1>2, <1>3, PickedElements, PickedOrdered
<1>5. \A j \in 1..Len(w) : current # <<>> => w[j].time < current[1].time
    BY <1>4
<1>6. p \in Seq(Point) /\ Ordered(p) /\ SameTimes(w, p)
    BY <1>4, ClosePointsAre, SameTimesOrdered
<1> HIDE DEF p, I
<1>7. ASSUME NEW i \in 1..Len(p), NEW j \in 1..Len(current) PROVE p[i].time < current[j].time
  <2>1. current # <<>> /\ 1 \in 1..Len(current) /\ j \in Int
      BY <1>1
  <2>2. i \in 1..Len(w) /\ p[i].time = w[i].time
      BY <1>6 DEF SameTimes
  <2>3. p[i].time < current[1].time
      BY <1>5, <2>1, <2>2
  <2>4. current[1] \in Point /\ current[j] \in Point /\ p[i] \in Point
      BY <1>1, <1>6, <2>1
  <2>5. current[1].time \in Int /\ current[j].time \in Int /\ p[i].time \in Int
      BY <2>4 DEF Point
  <2>6. j = 1 \/ 1 < j
      OBVIOUS
  <2>7. 1 < j => current[1].time < current[j].time
      BY <1>1, <2>1 DEF Ordered
  <2> QED BY <2>3, <2>5, <2>6, <2>7
<1>8. p \o current \in Seq(Point) /\ Ordered(p \o current) /\ TimesOf(current) \subseteq TimesOf(p \o current)
    BY <1>1, <1>6, <1>7, ConcatOrdered
<1>9. full = IF checkIsDailyOrHigher(g, interval) /\ Len(dailyBars) > Len(current)
             THEN p \o current ELSE current
    BY DEF getFullPriceBarsForIndicators, current, p, w
<1> HIDE DEF full
<1> QED BY <1>1, <1>8, <1>9 DEF full, current

\* The bar closest to the time of a bar is that bar.
LEMMA ClosestIs ==
    ASSUME NEW bars, Len(bars) \in Nat, Ordered(bars),
           \A i \in 1..Len(bars) : bars[i].time \in Int,
           NEW k \in 1..Len(bars)
    PROVE  closest(bars, bars[k].time) = k
<1> DEFINE t == bars[k].time
           diff(i) == IF bars[i].time >= t THEN bars[i].time - t ELSE t - bars[i].time
           Best(i) == \A j \in 1..Len(bars) : diff(i) < diff(j) \/ (diff(i) = diff(j) /\ i <= j)
           x == CHOOSE i \in 1..Len(bars) : Best(i)
<1>1. \A i \in 1..Len(bars) : i # k => bars[i].time # t
  <2> TAKE i \in 1..Len(bars)
  <2>1. i < k \/ k < i \/ i = k
      OBVIOUS
  <2>2. i < k => bars[i].time < bars[k].time
      BY DEF Ordered
  <2>3. k < i => bars[k].time < bars[i].time
      BY DEF Ordered
  <2> QED BY <2>1, <2>2, <2>3
<1>2. diff(k) = 0 /\ \A i \in 1..Len(bars) : diff(i) \in Int /\ (i # k => diff(i) > 0)
    BY <1>1
<1>3. closest(bars, t) = x
    BY DEF closest
<1> HIDE DEF diff
<1>4. Best(k)
    BY <1>2
<1>5. x \in 1..Len(bars) /\ Best(x)
  <2> HIDE DEF Best
  <2> QED BY <1>4
<1> HIDE DEF x
<1>6. x = k
  <2>1. diff(x) < diff(k) \/ (diff(x) = diff(k) /\ x <= k)
      BY <1>5
  <2> QED BY <1>2, <1>5, <2>1
<1> QED BY <1>3, <1>6

\* The value at a time of a series is the one there.
LEMMA ValueAtIs ==
    ASSUME NEW s, NEW t, t \in TimesOf(s)
    PROVE  valueAt(s, t) = {At(s, t).value} /\ valueAt(s, t) # {}
<1>1. valueAt(s, t) = {At(s, t).value}
    BY DEF valueAt
<1> QED BY <1>1

\* The card of a candle has its close and a value of every indicator.
LEMMA DetailHolds ==
    ASSUME FiguresInv, NEW g \in Granularities, NEW interval, NEW i \in 1..Len(candles[g])
    PROVE  CardComplete(getBarDetailAtTime(g, interval, "candlestick", candles[g][i].time),
                        candles[g][i])
<1> DEFINE bars == candles[g]
           points == ticks[g]
           t == candles[g][i].time
           c == closest(bars, t)
           p == closest(points, t)
           close == CASE bars # <<>> -> bars[c].close
                      [] bars = <<>> /\ points # <<>> -> points[p].value
                      [] OTHER -> 0
           prevClose == CASE bars # <<>> /\ c > 1 -> bars[c - 1].close
                          [] bars # <<>> /\ c = 1 -> bars[c].open
                          [] bars = <<>> /\ points # <<>> /\ p > 1 -> points[p - 1].value
                          [] OTHER -> close
           matched == IF bars # <<>> THEN bars[c].time ELSE t
           full == getFullPriceBarsForIndicators(g, interval, "candlestick")
           macd == calculateMACD(full, Fast, Slow, Signal)
           ema == calculateEMA(full, MaPeriod)
           sma == calculateSMA(full, MaPeriod, TRUE)
           volumeOf == CASE t \in TimesOf(vols[g]) -> {t}
                         [] t \notin TimesOf(vols[g]) /\ bars # <<>> /\ c <= Len(vols[g])
                              -> {vols[g][c].time}
                         [] OTHER -> {}
           d == getBarDetailAtTime(g, interval, "candlestick", t)
<1>1. d = [time |-> t,
           close |-> close,
           change |-> close - prevClose,
           volumeOf |-> volumeOf,
           ema |-> valueAt(ema, matched),
           sma |-> valueAt(sma, matched),
           dif |-> valueAt(macd.dif, matched),
           dea |-> valueAt(macd.dea, matched),
           hist |-> valueAt(macd.hist, matched)]
    BY DEF getBarDetailAtTime
<1>2. /\ d.close = close /\ d.ema = valueAt(ema, matched) /\ d.sma = valueAt(sma, matched)
      /\ d.dif = valueAt(macd.dif, matched) /\ d.dea = valueAt(macd.dea, matched)
      /\ d.hist = valueAt(macd.hist, matched)
  <2> HIDE DEF d, close, prevClose, volumeOf, ema, sma, macd, matched
  <2> QED BY <1>1
<1>3. bars \in Seq(Bar) /\ Ordered(bars) /\ bars # <<>> /\ i \in 1..Len(bars)
    BY Stored
<1>4. c = i
  <2>1. \A j \in 1..Len(bars) : bars[j].time \in Int
    <3> HIDE DEF bars
    <3> QED BY <1>3, BarPrices
  <2>2. Len(bars) \in Nat
      BY <1>3
  <2> QED BY <1>3, <2>1, <2>2, ClosestIs
<1>5. close = bars[i].close /\ matched = t
  <2>1. close = bars[c].close /\ matched = bars[c].time
      BY <1>3
  <2> QED BY <1>4, <2>1
<1>6. full \in Seq(Point) /\ Ordered(full) /\ t \in TimesOf(full)
  <2>1. shownBars(g, "candlestick") = ClosePoints(bars)
      BY DEF shownBars
  <2>2. TimesOf(ClosePoints(bars)) = TimesOf(bars)
      BY <1>3, ClosePointsAre, SameTimesOrdered
  <2>3. t \in TimesOf(bars)
      BY DEF TimesOf
  <2> QED BY <2>1, <2>2, <2>3, FullOrdered
<1>7. Len(full) \in Nat /\ \A j \in 1..Len(full) : full[j].time \in Int
  <2> HIDE DEF full
  <2>1. \A j \in 1..Len(full) : full[j] \in Point
      BY <1>6
  <2> QED BY <1>6, <2>1 DEF Point
<1>8. MaPeriod \in Nat \ {0}
    BY FiguresAssumption
<1> HIDE DEF full, t
<1>9. t \in TimesOf(ema) /\ t \in TimesOf(sma)
    BY <1>6, <1>7, <1>8, EMATimes, SMATimes, SameTimesOrdered
<1>10. /\ t \in TimesOf(macd.dif) /\ t \in TimesOf(macd.dea) /\ t \in TimesOf(macd.hist)
       /\ At(macd.hist, t).value = 2 * (At(macd.dif, t).value - At(macd.dea, t).value)
    BY <1>6, <1>7, MACDJoins
<1> HIDE DEF d, macd, ema, sma, matched, close
<1>11. /\ d.ema # {} /\ d.sma # {}
       /\ d.dif = {At(macd.dif, t).value} /\ d.dea = {At(macd.dea, t).value}
       /\ d.hist = {At(macd.hist, t).value}
    BY <1>2, <1>5, <1>9, <1>10, ValueAtIs
<1>12. d.hist = {2 * (x - y) : x \in d.dif, y \in d.dea}
  <2> DEFINE a == At(macd.dif, t).value
             b == At(macd.dea, t).value
  <2> HIDE DEF a, b
  <2>1. d.dif = {a} /\ d.dea = {b} /\ d.hist = {2 * (a - b)}
      BY <1>10, <1>11 DEF a, b
  <2>2. {2 * (x - y) : x \in {a}, y \in {b}} = {2 * (a - b)}
      OBVIOUS
  <2> QED BY <2>1, <2>2
<1>13. {} \notin {d.ema, d.sma, d.dif, d.dea, d.hist}
    BY <1>11
<1>14. d.close = candles[g][i].close
    BY <1>2, <1>5
<1> QED BY <1>12, <1>13, <1>14 DEF CardComplete, d, t

\* Every bar on the candlestick chart has its card for ever, whatever has been
\* loaded of the year and of the granularity shown
\* (getFullPriceBarsForIndicators, getBarDetailAtTime and calculateMACD).
THEOREM DetailsTheorem == Spec => []DetailsComplete
<1>1. FiguresInv => DetailsComplete
  <2> SUFFICES ASSUME FiguresInv, NEW g \in Granularities, NEW interval \in Intervals,
                      NEW chartType \in ChartTypes
               PROVE  /\ Ordered(getFullPriceBarsForIndicators(g, interval, chartType))
                      /\ chartType = "candlestick" =>
                            \A i \in 1..Len(candles[g]) :
                               CardComplete(getBarDetailAtTime(g, interval, chartType,
                                                               candles[g][i].time),
                                            candles[g][i])
      BY DEF DetailsComplete
  <2>1. Ordered(getFullPriceBarsForIndicators(g, interval, chartType))
      BY FullOrdered
  <2> QED BY <2>1, DetailHolds
<1> QED BY <1>1, FiguresInit, FiguresStep, PTL DEF Spec

-----------------------------------------------------------------------------
(***************************************************************************)
(* Averages and oscillators                                                *)
(***************************************************************************)
\* Division brings a number between two multiples.
LEMMA Quotient ==
    ASSUME NEW a \in Int, NEW b \in Nat \ {0}
    PROVE  a \div b \in Int /\ (a \div b) * b <= a /\ a < (a \div b + 1) * b
OBVIOUS

\* Factors are ordered as their multiples.
LEMMA Factors ==
    ASSUME NEW i \in Int, NEW j \in Int, NEW b \in Nat \ {0}, i * b < j * b
    PROVE  i < j
<1>1. ~(j <= i)
  <2>1. ASSUME j <= i PROVE FALSE
    <3>1. j * b <= i * b /\ j * b \in Int /\ i * b \in Int
        BY <2>1, Monotone
    <3> QED BY <3>1
  <2> QED BY <2>1
<1> QED BY <1>1

\* A quotient between two whole numbers is rounded to one between them.
LEMMA RoundBetween ==
    ASSUME NEW n \in Nat, NEW d \in Nat \ {0}, NEW a \in Int, NEW b \in Int,
           a * d <= n, n <= b * d
    PROVE  Round(n, d) \in Int /\ a <= Round(n, d) /\ Round(n, d) <= b
<1> DEFINE e == 2 * d
           m == 2 * n + d
           q == m \div e
<1>1. Round(n, d) = q
    BY DEF Round
<1>2. e \in Nat \ {0} /\ m \in Int
    OBVIOUS
<1>3. q \in Int /\ q * e <= m /\ m < (q + 1) * e
  <2> HIDE DEF e, m
  <2> QED BY <1>2, Quotient
<1> HIDE DEF q
<1>4. a * e < (q + 1) * e
  <2>1. a * e = 2 * (a * d) /\ a * d \in Int
      OBVIOUS
  <2>2. a * e < m /\ a * e \in Int
      BY <2>1
  <2>3. (q + 1) * e \in Int
      BY <1>3
  <2> HIDE DEF e, m
  <2> QED BY <1>2, <1>3, <2>2, <2>3
<1>5. q * e < (b + 1) * e
  <2>1. (b + 1) * e = 2 * (b * d) + 2 * d /\ b * d \in Int
      OBVIOUS
  <2>2. m < (b + 1) * e /\ (b + 1) * e \in Int
      BY <2>1
  <2>3. q * e \in Int
      BY <1>3
  <2> HIDE DEF e, m
  <2> QED BY <1>2, <1>3, <2>2, <2>3
<1>6. a < q + 1 /\ q < b + 1
  <2> HIDE DEF e
  <2>1. a < q + 1
      BY <1>2, <1>3, <1>4, Factors
  <2>2. q < b + 1
      BY <1>2, <1>3, <1>5, Factors
  <2> QED BY <2>1, <2>2
<1> QED BY <1>1, <1>3, <1>6

\* Two shares of a whole, rounded to hundredths of a percent, add up to it, or to
\* one more.
LEMMA RoundShares ==
    ASSUME NEW a \in Nat, NEW b \in Nat, a + b > 0
    PROVE  Round(10000 * a, a + b) + Round(10000 * b, a + b) \in {10000, 10001}
<1> DEFINE s == a + b
           e == 2 * s
           u == (2 * (10000 * a) + s) \div e
           w == (2 * (10000 * b) + s) \div e
<1>1. Round(10000 * a, s) = u /\ Round(10000 * b, s) = w
    BY DEF Round
<1>2. e \in Nat \ {0}
    OBVIOUS
<1>3. /\ u \in Int /\ u * e <= 2 * (10000 * a) + s /\ 2 * (10000 * a) + s < (u + 1) * e
      /\ w \in Int /\ w * e <= 2 * (10000 * b) + s /\ 2 * (10000 * b) + s < (w + 1) * e
  <2> DEFINE x == 2 * (10000 * a) + s
             y == 2 * (10000 * b) + s
  <2>1. x \in Int /\ y \in Int
      OBVIOUS
  <2> HIDE DEF x, y, e
  <2>2. /\ x \div e \in Int /\ (x \div e) * e <= x /\ x < (x \div e + 1) * e
        /\ y \div e \in Int /\ (y \div e) * e <= y /\ y < (y \div e + 1) * e
      BY <1>2, <2>1, Quotient
  <2> QED BY <2>2 DEF x, y
<1> HIDE DEF u, w
<1>4. /\ (u + w) * e < 10002 * e
      /\ 9999 * e < (u + w) * e
  <2>1. u * e \in Int /\ w * e \in Int /\ (u + w) * e = u * e + w * e
      BY <1>2, <1>3
  <2>2. (u + 1) * e = u * e + e /\ (w + 1) * e = w * e + e
      BY <1>2, <1>3
  <2>3. (2 * (10000 * a) + s) + (2 * (10000 * b) + s) = 10001 * e
      OBVIOUS
  <2> QED BY <1>2, <1>3, <2>1, <2>2, <2>3
<1>5. u + w < 10002 /\ 9999 < u + w
  <2> HIDE DEF e
  <2>1. u + w \in Int
      BY <1>3
  <2>2. u + w < 10002
      BY <1>2, <1>4, <2>1, Factors
  <2>3. 9999 < u + w
      BY <1>2, <1>4, <2>1, Factors
  <2> QED BY <2>2, <2>3
<1> QED BY <1>1, <1>3, <1>5

\* Nothing is rounded to nothing.
LEMMA RoundZero ==
    ASSUME NEW d \in Nat \ {0} PROVE Round(10000 * 0, d) = 0
<1>1. Round(0, d) \in Int /\ 0 <= Round(0, d) /\ Round(0, d) <= 0
  <2>1. 0 * d <= 0 /\ 0 \in Nat /\ 0 \in Int
      OBVIOUS
  <2> QED BY <2>1, RoundBetween
<1> QED BY <1>1

\* The values of points are positive.
LEMMA PointPrices ==
    ASSUME NEW s \in Seq(Point), NEW i \in 1..Len(s)
    PROVE  s[i].value \in Nat \ {0} /\ s[i].time \in Nat
<1>1. s[i] \in Point
    OBVIOUS
<1> QED BY <1>1, WebBarsAssumption DEF Point

\* The running sum adds a value and drops the one that leaves the window.
LEMMA RunningSteps ==
    ASSUME NEW data \in Seq(Point), NEW period \in Nat \ {0}
    PROVE  LET sum == RunningSum(data, period) IN
           /\ sum[0] = 0
           /\ \A i \in 1..Len(data) :
                 sum[i] = sum[i - 1] + data[i].value
                            - (IF i > period THEN data[i - period].value ELSE 0)
<1> DEFINE n == Len(data)
           Reads(f) == f = [i \in 0..n |->
                              IF i = 0 THEN 0
                              ELSE f[i - 1] + data[i].value
                                     - (IF i > period THEN data[i - period].value ELSE 0)]
           step == [p \in (0..n) \X Int |->
                      IF p[1] = 0 THEN 0
                      ELSE p[2] + data[p[1]].value
                             - (IF p[1] > period THEN data[p[1] - period].value ELSE 0)]
<1>1. n \in Nat /\ 0 \in 0..n /\ 0 \in Int /\ n \in Int
    OBVIOUS
<1>2. \A i \in 0..n, x \in Int :
         step[<<i, x>>] = IF i = 0 THEN 0
                          ELSE x + data[i].value
                                 - (IF i > period THEN data[i - period].value ELSE 0)
    OBVIOUS
<1> HIDE DEF step
<1>3. Within(step, 0, n, Int)
  <2> SUFFICES ASSUME NEW i \in 0..n, NEW x \in Int PROVE step[<<i, x>>] \in Int
      BY DEF Within
  <2>1. i # 0 => data[i].value \in Int
      BY PointPrices
  <2>2. i > period => data[i - period].value \in Int
    <3> HAVE i > period
    <3>1. i - period \in 1..Len(data)
        OBVIOUS
    <3> QED BY <3>1, PointPrices
  <2> HIDE DEF n
  <2> QED BY <1>2, <2>1, <2>2
<1>4. \E f : Reads(f)
  <2>1. PICK f \in [0..n -> Int] : Computes(f, 0, n, 0, step)
    <3> HIDE DEF n
    <3> QED BY <1>1, <1>3, Recursion
  <2> HIDE DEF n
  <2>2. \A i \in 0..n : f[i] = IF i = 0 THEN 0 ELSE step[<<i, f[i - 1]>>]
      BY <2>1 DEF Computes
  <2>3. \A i \in 0..n : i # 0 => f[i - 1] \in Int
      BY <1>1
  <2>4. \A i \in 0..n : f[i] = IF i = 0 THEN 0
                               ELSE f[i - 1] + data[i].value
                                      - (IF i > period THEN data[i - period].value ELSE 0)
      BY <1>2, <2>2, <2>3
  <2>5. Reads(f)
      BY <2>4
  <2> QED BY <2>5
<1> DEFINE sum == CHOOSE f : Reads(f)
<1>5. Reads(sum)
  <2> HIDE DEF Reads
  <2> QED BY <1>4
<1>6. RunningSum(data, period) = sum
    BY DEF RunningSum
<1> HIDE DEF sum
<1>7. /\ sum[0] = 0
      /\ \A i \in 1..n : sum[i] = sum[i - 1] + data[i].value
                                    - (IF i > period THEN data[i - period].value ELSE 0)
  <2>1. \A i \in 1..n : i \in 0..n /\ i # 0
      BY <1>1
  <2> HIDE DEF n
  <2> QED BY <1>1, <1>5, <2>1
<1> QED BY <1>6, <1>7

\* The prices of points.
LEMMA PricesAre ==
    ASSUME NEW points \in Seq(Point)
    PROVE  \A i \in 1..Len(points) : /\ PricesOf(points)[i] = points[i].value
                                     /\ PricesOf(points)[i] \in Nat \ {0}
BY PointPrices DEF PricesOf

\* The running sum is the sum of its window.
LEMMA RunningSumExact ==
    ASSUME NEW points \in Seq(Point), NEW period \in Nat \ {0}
    PROVE  \A k \in 0..Len(points) :
              RunningSum(points, period)[k]
                = Total(PricesOf(points), Greater(1, k - period + 1)..k)
<1> DEFINE n == Len(points)
           v == PricesOf(points)
           sum == RunningSum(points, period)
           W(k) == Greater(1, k - period + 1)..k
           S == {k \in 0..n : sum[k] = Total(v, W(k))}
<1>1. n \in Nat /\ \A i \in 1..n : v[i] = points[i].value /\ v[i] \in Int
    BY PricesAre
<1>2. /\ sum[0] = 0
      /\ \A i \in 1..n : sum[i] = sum[i - 1] + points[i].value
                                    - (IF i > period THEN points[i - period].value ELSE 0)
    BY RunningSteps
<1>f. \A a, b \in Int : IsFiniteSet(a..b)
    BY FS_Interval
<1> HIDE DEF n, v, sum
<1>3. 0 \in S
  <2>1. W(0) = {}
      BY DEF Greater
  <2>2. Total(v, {}) = 0
      BY FS_EmptySet, TotalUnfold
  <2>3. sum[0] = Total(v, W(0))
      BY <1>2, <2>1, <2>2
  <2> QED BY <1>1, <2>3
<1>4. ASSUME NEW k \in 0..n, k + 1 \in 0..n, k \in S PROVE k + 1 \in S
  <2> DEFINE U == Greater(1, k - period + 1)..(k + 1)
             drop == (k + 1) - period
             A == W(k)
             B == W(k + 1)
             a == Total(v, A)
             b == Total(v, B)
             x == v[k + 1]
  <2>1. /\ IsFiniteSet(U) /\ U \subseteq 1..n /\ k + 1 \in U /\ U \ {k + 1} = A
    <3>1. Greater(1, k - period + 1) \in Int /\ Greater(1, k - period + 1) >= 1
          /\ Greater(1, k - period + 1) <= k + 1
        BY DEF Greater
    <3>2. IsFiniteSet(U)
        BY <1>f, <3>1
    <3> HIDE DEF Greater
    <3> QED BY <1>1, <1>4, <3>1, <3>2
  <2>2. \A y \in U : v[y] \in Int
      BY <1>1, <2>1
  <2>3. k + 1 > period => drop \in U /\ U \ {drop} = B
      BY <1>1, <1>4 DEF Greater
  <2>4. ~(k + 1 > period) => U = B
      BY <1>1, <1>4 DEF Greater
  <2>5. sum[k] = a
      BY <1>4
  <2>6. sum[k + 1] = sum[k] + x - (IF k + 1 > period THEN points[drop].value ELSE 0)
    <3>1. k + 1 \in 1..n /\ (k + 1) - 1 = k
        BY <1>1, <1>4
    <3> QED BY <1>1, <1>2, <3>1
  <2> HIDE DEF U, A, B
  <2>7. \A y \in U : Total(v, U) = v[y] + Total(v, U \ {y})
      BY <2>1, <2>2, TotalRemove
  <2>8. Total(v, U) = x + a
      BY <2>1, <2>7
  <2>9. k + 1 > period => Total(v, U) = v[drop] + b /\ v[drop] = points[drop].value
    <3> HAVE k + 1 > period
    <3>1. drop \in U /\ U \ {drop} = B
        BY <2>3
    <3>2. v[drop] = points[drop].value
        BY <1>1, <2>1, <3>1
    <3> HIDE DEF drop
    <3> QED BY <2>7, <3>1, <3>2
  <2>10. a \in Int /\ b \in Int /\ x \in Int /\ (k + 1 > period => v[drop] \in Int)
    <3>1. A \subseteq U /\ B \subseteq U
        BY <2>1, <2>3, <2>4
    <3>2. IsFiniteSet(A) /\ IsFiniteSet(B)
        BY <2>1, <3>1, FS_Subset
    <3>3. (\A y \in A : v[y] \in Int) /\ (\A y \in B : v[y] \in Int)
        BY <2>2, <3>1
    <3> QED BY <2>1, <2>2, <2>3, <3>2, <3>3, TotalInt
  <2> HIDE DEF a, b, x
  <2>11. sum[k + 1] = b
    <3>1. CASE k + 1 > period
      <4> DEFINE y == v[drop]
      <4>1. y \in Int /\ x + a = y + b /\ sum[k + 1] = a + x - y
          BY <2>5, <2>6, <2>8, <2>9, <2>10, <3>1
      <4> HIDE DEF y
      <4> QED BY <2>10, <4>1
    <3>2. CASE ~(k + 1 > period)
      <4>1. b = x + a /\ sum[k + 1] = a + x - 0
          BY <2>4, <2>5, <2>6, <2>8, <3>2 DEF b
      <4> QED BY <2>10, <4>1
    <3> QED BY <3>1, <3>2
  <2> QED BY <1>4, <2>11 DEF b, B
<1> HIDE DEF S
<1>5. 0..n \subseteq S
  <2>1. 0 \in Int /\ n \in Int
      BY <1>1
  <2> QED BY <1>3, <1>4, <2>1, IntervalInd
<1> QED BY <1>5 DEF S, W, n, v, sum

\* The bars that an average at bar k takes in.
LEMMA WindowSize ==
    ASSUME NEW k \in Nat \ {0}, NEW period \in Nat \ {0}
    PROVE  Cardinality(Greater(1, k - period + 1)..k) = Min({k, period})
<1> DEFINE a == Greater(1, k - period + 1)
<1>1. a \in Int /\ a <= k /\ k - a + 1 = Lesser(k, period)
    BY DEF Greater, Lesser
<1>2. Cardinality(a..k) = k - a + 1
  <2> HIDE DEF a
  <2>1. Cardinality(a..k) = IF a > k THEN 0 ELSE k - a + 1
      BY <1>1, FS_Interval
  <2> QED BY <1>1, <2>1
<1>3. Min({k, period}) = Lesser(k, period)
  <2> DEFINE S == {k, period}
             m == Lesser(k, period)
  <2>1. S \in SUBSET Int /\ m \in S /\ \A x \in S : m <= x
      BY DEF Lesser
  <2> HIDE DEF S, m
  <2>2. Min(S) = m
      BY <2>1, MinIs
  <2> QED BY <2>2 DEF S, m
<1> QED BY <1>1, <1>2, <1>3

\* The average of one bar.
LEMMA SMAPoints ==
    ASSUME NEW points \in Seq(Point), NEW period \in Nat \ {0}
    PROVE  LET sma == calculateSMA(points, period, TRUE)
               P(k) == [time |-> points[k].time,
                        value |-> Round(RunningSum(points, period)[k], Min({k, period}))]
           IN  /\ sma \in Seq({P(k) : k \in 1..Len(points)})
               /\ Len(sma) = Len(points)
               /\ \A k \in 1..Len(points) : sma[k] = P(k)
               /\ calculateSMA(points, period, FALSE)
                    = IF Len(points) < period THEN <<>>
                      ELSE [i \in 1..Len(points) - period + 1 |-> P(i + period - 1)]
<1> DEFINE n == Len(points)
           sum == RunningSum(points, period)
           P(k) == [time |-> points[k].time, value |-> Round(sum[k], Min({k, period}))]
           V == {P(k) : k \in 1..n}
           s == [i \in 1..n - 1 + 1 |-> P(i + 1 - 1)]
           sma == calculateSMA(points, period, TRUE)
<1>1. sma = s
    BY DEF calculateSMA
<1>2. calculateSMA(points, period, FALSE)
         = IF n < period THEN <<>> ELSE [i \in 1..n - period + 1 |-> P(i + period - 1)]
    BY DEF calculateSMA
<1>3. n \in Nat /\ n - 1 + 1 = n /\ \A i \in 1..n : i + 1 - 1 = i
    OBVIOUS
<1>4. \A k \in 1..n : P(k) \in V
    OBVIOUS
<1> HIDE DEF P, V, n
<1>5. s \in [1..n -> V] /\ \A k \in 1..n : s[k] = P(k)
    BY <1>3, <1>4
<1> HIDE DEF s
<1>6. s \in Seq(V) /\ Len(s) = n
    BY <1>3, <1>5
<1> QED BY <1>1, <1>2, <1>5, <1>6 DEF P, V, n

\* Without the first bars, the average is the end of the progressive one.
LEMMA SMASuffix ==
    ASSUME NEW points \in Seq(Point), NEW period \in Nat \ {0}
    PROVE  calculateSMA(points, period, FALSE)
              = IF Len(points) < period THEN <<>>
                ELSE SubSeq(calculateSMA(points, period, TRUE), period, Len(points))
<1> DEFINE n == Len(points)
           sma == calculateSMA(points, period, TRUE)
           P(k) == [time |-> points[k].time,
                    value |-> Round(RunningSum(points, period)[k], Min({k, period}))]
           V == {P(k) : k \in 1..n}
           r == [i \in 1..n - period + 1 |-> P(i + period - 1)]
           q == SubSeq(sma, period, n)
<1>1. /\ sma \in Seq(V) /\ Len(sma) = n
      /\ \A k \in 1..n : sma[k] = P(k)
      /\ calculateSMA(points, period, FALSE) = IF n < period THEN <<>> ELSE r
    BY SMAPoints
<1>2. n \in Nat
    OBVIOUS
<1> HIDE DEF sma, P, V, n
<1>3. ASSUME ~(n < period) PROVE r = q
  <2> DEFINE m == n - period + 1
  <2>1. period \in 1..n + 1 /\ m \in Nat /\ m = n - (period - 1)
      BY <1>2, <1>3
  <2>2. \A i \in 1..m : i + period - 1 \in 1..n
      BY <1>2, <1>3
  <2>3. q = [i \in 1..m |-> sma[i + period - 1]]
    <3>1. q \in Seq(V) /\ Len(q) = m /\ \A i \in 1..m : q[i] = sma[period + i - 1]
        BY <1>1, <1>2, <1>3, <2>1, SubSeqProperties
    <3>2. \A i \in 1..m : period + i - 1 = i + period - 1
        BY <2>1
    <3>3. q = [i \in 1..Len(q) |-> q[i]]
        BY <3>1
    <3> HIDE DEF q, m
    <3>4. \A i \in 1..m : q[i] = sma[i + period - 1]
        BY <3>1, <3>2
    <3> QED BY <3>1, <3>3, <3>4
  <2>4. \A i \in 1..m : sma[i + period - 1] = P(i + period - 1)
      BY <1>1, <2>2
  <2> HIDE DEF q, m
  <2>5. [i \in 1..m |-> sma[i + period - 1]] = [i \in 1..m |-> P(i + period - 1)]
      BY <2>4
  <2> QED BY <2>3, <2>5 DEF m
<1> QED BY <1>1, <1>3 DEF n, sma

\* The exponential average is a quotient computed from the one before.
LEMMA SmoothedSteps ==
    ASSUME NEW points \in Seq(Point), NEW period \in Nat \ {0}, points # <<>>
    PROVE  LET e == Smoothed(points, period) IN
           /\ e[1] = [num |-> points[1].value, den |-> 1]
           /\ \A i \in 2..Len(points) :
                 e[i] = [num |-> 2 * points[i].value * e[i - 1].den + (period - 1) * e[i - 1].num,
                         den |-> (period + 1) * e[i - 1].den]
<1> DEFINE n == Len(points)
           V == [num : Nat, den : Nat \ {0}]
           base == [num |-> points[1].value, den |-> 1]
           Over(i, x) == [num |-> 2 * points[i].value * x.den + (period - 1) * x.num,
                          den |-> (period + 1) * x.den]
           Reads(f) == f = [i \in 1..n |-> IF i = 1 THEN base ELSE Over(i, f[i - 1])]
           step == [p \in (1..n) \X V |-> Over(p[1], p[2])]
<1>1. n \in Nat /\ 1 \in 1..n /\ 1 \in Int /\ n \in Int
    OBVIOUS
<1>v. \A i \in 1..n : points[i].value \in Nat
    BY PointPrices
<1>2. \A i \in 1..n, x \in V : Over(i, x) \in V
  <2> SUFFICES ASSUME NEW i \in 1..n, NEW x \in V PROVE Over(i, x) \in V
      OBVIOUS
  <2> DEFINE a == points[i].value
             b == x.den
             c == x.num
  <2>1. a \in Nat /\ b \in Nat \ {0} /\ c \in Nat
      BY <1>v
  <2> HIDE DEF a, b, c
  <2>2. 2 * a * b + (period - 1) * c \in Nat /\ (period + 1) * b \in Nat \ {0}
    <3>1. 2 * a * b \in Nat /\ (period - 1) * c \in Nat /\ (period + 1) * b \in Nat
        BY <2>1
    <3>2. (period + 1) * b = period * b + b /\ period * b \in Nat
        BY <2>1
    <3> QED BY <2>1, <3>1, <3>2
  <2>3. Over(i, x) = [num |-> 2 * a * b + (period - 1) * c, den |-> (period + 1) * b]
      BY DEF a, b, c
  <2> HIDE DEF Over
  <2> QED BY <2>2, <2>3
<1>3. \A i \in 1..n, x \in V : step[<<i, x>>] = Over(i, x)
  <2> HIDE DEF Over, V
  <2> QED OBVIOUS
<1>4. base \in V
  <2>1. points[1].value \in Nat
      BY <1>1, <1>v
  <2> QED BY <2>1
<1> HIDE DEF step, Over, V, base
<1>5. Within(step, 1, n, V)
    BY <1>2, <1>3 DEF Within
<1>6. \E f : Reads(f)
  <2>1. PICK f \in [1..n -> V] : Computes(f, 1, n, base, step)
    <3> HIDE DEF n
    <3> QED BY <1>1, <1>4, <1>5, Recursion
  <2> HIDE DEF n
  <2>2. \A i \in 1..n : f[i] = IF i = 1 THEN base ELSE step[<<i, f[i - 1]>>]
      BY <2>1 DEF Computes
  <2>3. \A i \in 1..n : i # 1 => f[i - 1] \in V
      BY <1>1
  <2>4. \A i \in 1..n : f[i] = IF i = 1 THEN base ELSE Over(i, f[i - 1])
      BY <1>3, <2>2, <2>3
  <2>5. Reads(f)
      BY <2>4
  <2> QED BY <2>5
<1> DEFINE e == CHOOSE f : Reads(f)
<1>7. Reads(e)
  <2> HIDE DEF Reads
  <2> QED BY <1>6
<1>8. Smoothed(points, period) = e
    BY DEF Smoothed, Over, base
<1> HIDE DEF e
<1>9. e[1] = base /\ \A i \in 2..n : e[i] = Over(i, e[i - 1])
  <2>1. \A i \in 2..n : i \in 1..n /\ i # 1
      BY <1>1
  <2> HIDE DEF n
  <2> QED BY <1>1, <1>7, <2>1
<1> QED BY <1>8, <1>9 DEF Over, base

\* A weighted average of numbers between two lies between those.
LEMMA Mixed ==
    ASSUME NEW lo \in Nat, NEW hi \in Nat, NEW x \in Nat, lo <= x, x <= hi,
           NEW num \in Nat, NEW den \in Nat, lo * den <= num, num <= hi * den,
           NEW period \in Nat \ {0}
    PROVE  /\ lo * ((period + 1) * den) <= 2 * x * den + (period - 1) * num
           /\ 2 * x * den + (period - 1) * num <= hi * ((period + 1) * den)
<1> DEFINE p == period - 1
           a == lo * den
           b == hi * den
           c == x * den
<1>1. p \in Nat /\ a \in Nat /\ b \in Nat /\ c \in Nat /\ a <= num /\ num <= b
    OBVIOUS
<1>2. a <= c /\ c <= b
    BY Weighted
<1>3. p * a <= p * num /\ p * num <= p * b
  <2>1. a * p <= num * p /\ num * p <= b * p
    <3> HIDE DEF a, b, p
    <3> QED BY <1>1, Weighted
  <2>2. a * p = p * a /\ num * p = p * num /\ b * p = p * b
    <3> HIDE DEF a, b, p
    <3> QED BY <1>1
  <2> QED BY <2>1, <2>2
<1>4. lo * ((period + 1) * den) = 2 * a + p * a /\ hi * ((period + 1) * den) = 2 * b + p * b
  <2>1. (period + 1) * den = 2 * den + p * den /\ p * den \in Nat
      OBVIOUS
  <2>2. lo * (2 * den + p * den) = 2 * a + p * a
    <3> HIDE DEF p
    <3> QED BY <1>1
  <2>3. hi * (2 * den + p * den) = 2 * b + p * b
    <3> HIDE DEF p
    <3> QED BY <1>1
  <2> QED BY <2>1, <2>2, <2>3
<1>5. 2 * x * den + (period - 1) * num = 2 * c + p * num
    OBVIOUS
<1>6. p * a \in Nat /\ p * b \in Nat /\ p * num \in Nat
  <2> HIDE DEF a, b, p
  <2> QED BY <1>1
<1> DEFINE pa == p * a
           pb == p * b
           pn == p * num
<1> HIDE DEF a, b, c, p, pa, pb, pn
<1>7. 2 * a + pa <= 2 * c + pn /\ 2 * c + pn <= 2 * b + pb
    BY <1>1, <1>2, <1>3, <1>6 DEF pa, pb, pn
<1> QED BY <1>4, <1>5, <1>7 DEF pa, pb, pn

\* The prices so far are finitely many numbers.
LEMMA PricesFinite ==
    ASSUME NEW points \in Seq(Point), NEW k \in 1..Len(points)
    PROVE  /\ IsFiniteSet(PricesUpTo(points, k))
           /\ PricesUpTo(points, k) \subseteq Nat \ {0}
           /\ PricesUpTo(points, k) # {}
           /\ Min(PricesUpTo(points, k)) \in PricesUpTo(points, k)
           /\ Max(PricesUpTo(points, k)) \in PricesUpTo(points, k)
           /\ \A i \in 1..k : /\ Min(PricesUpTo(points, k)) <= points[i].value
                              /\ points[i].value <= Max(PricesUpTo(points, k))
<1> DEFINE S == PricesUpTo(points, k)
           f == [i \in 1..k |-> points[i].value]
<1>1. \A i \in 1..k : points[i].value \in Nat \ {0}
  <2>1. \A i \in 1..k : i \in 1..Len(points)
      OBVIOUS
  <2> QED BY <2>1, PointPrices
<1>2. S \subseteq Nat \ {0} /\ points[1].value \in S /\ \A i \in 1..k : points[i].value \in S
    BY <1>1 DEF PricesUpTo
<1>3. IsFiniteSet(S)
  <2>1. IsFiniteSet(1..k)
      BY FS_Interval
  <2>2. S = {f[i] : i \in 1..k}
      BY DEF PricesUpTo
  <2> HIDE DEF f
  <2> QED BY <2>1, <2>2, FiniteImage
<1> HIDE DEF S
<1>4. S # {} /\ S \subseteq Int
    BY <1>2
<1>5. Max(S) \in S /\ (\A x \in S : x <= Max(S)) /\ Min(S) \in S /\ \A x \in S : Min(S) <= x
    BY <1>3, <1>4, Extremes
<1> QED BY <1>2, <1>3, <1>4, <1>5 DEF S

\* The exponential average stays between the lowest and the highest price so far.
LEMMA EMABetween ==
    ASSUME NEW points \in Seq(Point), NEW period \in Nat \ {0}, NEW k \in 1..Len(points)
    PROVE  /\ Min(PricesUpTo(points, k)) <= calculateEMA(points, period)[k].value
           /\ calculateEMA(points, period)[k].value <= Max(PricesUpTo(points, k))
<1> DEFINE n == Len(points)
           e == Smoothed(points, period)
           lo == Min(PricesUpTo(points, k))
           hi == Max(PricesUpTo(points, k))
           Good(x) == /\ x.num \in Nat /\ x.den \in Nat \ {0}
                      /\ lo * x.den <= x.num /\ x.num <= hi * x.den
           S == {i \in 1..k : Good(e[i])}
<1>1. /\ lo \in Nat /\ hi \in Nat
      /\ \A i \in 1..k : /\ points[i].value \in Nat
                         /\ lo <= points[i].value /\ points[i].value <= hi
  <2>1. \A i \in 1..k : i \in 1..Len(points)
      OBVIOUS
  <2> QED BY <2>1, PricesFinite, PointPrices
<1>2. /\ e[1] = [num |-> points[1].value, den |-> 1]
      /\ \A i \in 2..n :
            e[i] = [num |-> 2 * points[i].value * e[i - 1].den + (period - 1) * e[i - 1].num,
                    den |-> (period + 1) * e[i - 1].den]
  <2>1. points # <<>>
      OBVIOUS
  <2> QED BY <2>1, SmoothedSteps
<1>n. n \in Nat /\ k \in 1..n /\ calculateEMA(points, period)[k].value = Round(e[k].num, e[k].den)
    BY DEF calculateEMA
<1> HIDE DEF e, lo, hi, n
<1>3. 1 \in S
  <2> DEFINE x == points[1].value
  <2>1. 1 \in 1..k /\ x \in Nat /\ lo <= x /\ x <= hi
      BY <1>1
  <2>2. e[1].num = x /\ e[1].den = 1
      BY <1>2
  <2> HIDE DEF x
  <2>3. lo * 1 <= x /\ x <= hi * 1
      BY <1>1, <2>1
  <2> QED BY <2>1, <2>2, <2>3
<1>4. ASSUME NEW i \in 1..k, i + 1 \in 1..k, i \in S PROVE i + 1 \in S
  <2> DEFINE x == points[i + 1].value
             num == e[i].num
             den == e[i].den
             q == period + 1
  <2>1. x \in Nat /\ lo <= x /\ x <= hi
      BY <1>1, <1>4
  <2>2. /\ num \in Nat /\ den \in Nat \ {0}
        /\ lo * den <= num /\ num <= hi * den
      BY <1>4
  <2>3. e[i + 1] = [num |-> 2 * x * den + (period - 1) * num, den |-> (period + 1) * den]
    <3>1. i + 1 \in 2..n /\ (i + 1) - 1 = i
        BY <1>4, <1>n
    <3> QED BY <1>2, <3>1
  <2> DEFINE num2 == 2 * x * den + (period - 1) * num
             den2 == (period + 1) * den
  <2> HIDE DEF x, num, den
  <2>4. lo * den2 <= num2 /\ num2 <= hi * den2
      BY <1>1, <2>1, <2>2, Mixed
  <2>5. num2 \in Nat /\ den2 \in Nat \ {0}
    <3>1. 2 * x * den \in Nat /\ (period - 1) * num \in Nat /\ (period + 1) * den \in Nat
        BY <2>1, <2>2
    <3>2. (period + 1) * den = period * den + den /\ period * den \in Nat
        BY <2>2
    <3> QED BY <2>2, <3>1, <3>2
  <2>6. e[i + 1].num = num2 /\ e[i + 1].den = den2
      BY <2>3
  <2> HIDE DEF num2, den2
  <2>7. Good(e[i + 1])
      BY <2>4, <2>5, <2>6
  <2> QED BY <1>4, <2>7
<1>5. k \in S
  <2>1. 1 \in Int /\ k \in Int /\ k \in 1..k
      BY <1>n
  <2> HIDE DEF S
  <2>2. 1..k \subseteq S
      BY <1>3, <1>4, <2>1, IntervalInd
  <2> QED BY <2>1, <2>2
<1> DEFINE num == e[k].num
           den == e[k].den
<1>6. num \in Nat /\ den \in Nat \ {0} /\ lo * den <= num /\ num <= hi * den
    BY <1>5
<1> HIDE DEF num, den
<1>7. lo <= Round(num, den) /\ Round(num, den) <= hi
  <2>1. lo \in Int /\ hi \in Int
      BY <1>1
  <2> QED BY <1>6, <2>1, RoundBetween
<1> QED BY <1>7, <1>n DEF lo, hi, num, den

\* The averages are exact.
LEMMA AveragesHold ==
    ASSUME NEW points \in Seq(Point)
    PROVE  AveragesExact(points)
<1> DEFINE n == Len(points)
           sma == calculateSMA(points, MaPeriod, TRUE)
           W(k) == Greater(1, k - MaPeriod + 1)..k
<1>1. MaPeriod \in Nat \ {0} /\ n \in Nat
    BY FiguresAssumption
<1>2. ASSUME NEW k \in 1..n
      PROVE  sma[k].value = Round(Total(PricesOf(points), W(k)), Cardinality(W(k)))
  <2> DEFINE sum == RunningSum(points, MaPeriod)
  <2>1. sma[k] = [time |-> points[k].time, value |-> Round(sum[k], Min({k, MaPeriod}))]
      BY <1>1, SMAPoints
  <2>2. sum[k] = Total(PricesOf(points), W(k))
    <3>1. k \in 0..Len(points)
        BY <1>1
    <3> QED BY <1>1, <3>1, RunningSumExact
  <2>3. Min({k, MaPeriod}) = Cardinality(W(k))
    <3>1. k \in Nat \ {0}
        BY <1>1
    <3> QED BY <1>1, <3>1, WindowSize
  <2> HIDE DEF sum, W, sma
  <2> QED BY <2>1, <2>2, <2>3
<1>3. \A k \in 1..n : /\ Min(PricesUpTo(points, k)) <= calculateEMA(points, MaPeriod)[k].value
                      /\ calculateEMA(points, MaPeriod)[k].value <= Max(PricesUpTo(points, k))
    BY <1>1, EMABetween
<1>4. calculateSMA(points, MaPeriod, FALSE)
        = IF n < MaPeriod THEN <<>> ELSE SubSeq(sma, MaPeriod, n)
    BY <1>1, SMASuffix
<1> QED BY <1>2, <1>3, <1>4 DEF AveragesExact

\* The moves of prices, up and down.
Ups(prices) == [i \in 2..Len(prices) |-> Max({prices[i] - prices[i - 1], 0})]
Downs(prices) == [i \in 2..Len(prices) |-> Max({prices[i - 1] - prices[i], 0})]

\* What avg averages from p on: gains up and losses down, each average from the
\* one before.
MovesFrom(avg, up, down, p, n) ==
    /\ avg[p] = [gain |-> Total(up, 2..p), loss |-> Total(down, 2..p), den |-> p]
    /\ \A i \in p..n : avg[i] \in [gain : Nat, loss : Nat, den : Nat \ {0}]
    /\ \A i \in p + 1..n :
          avg[i] = [gain |-> avg[i - 1].gain * (p - 1) + up[i] * avg[i - 1].den,
                    loss |-> avg[i - 1].loss * (p - 1) + down[i] * avg[i - 1].den,
                    den |-> avg[i - 1].den * p]

\* The greater of a number and nothing.
LEMMA Positive ==
    ASSUME NEW a \in Int
    PROVE  Max({a, 0}) = IF a > 0 THEN a ELSE 0
<1> DEFINE S == {a, 0}
           m == IF a > 0 THEN a ELSE 0
<1>1. S \in SUBSET Int /\ m \in S /\ \A x \in S : x <= m
    OBVIOUS
<1> HIDE DEF S, m
<1>2. Max(S) = m
    BY <1>1, MaxIs
<1> QED BY <1>2 DEF S, m

\* A price moves up or down, or does not move.
LEMMA MovesAre ==
    ASSUME NEW n \in Nat, NEW prices \in [1..n -> Int]
    PROVE  /\ Len(prices) = n
           /\ \A i \in 2..n :
                 /\ Ups(prices)[i] = IF prices[i] > prices[i - 1] THEN prices[i] - prices[i - 1] ELSE 0
                 /\ Downs(prices)[i] = IF prices[i - 1] > prices[i] THEN prices[i - 1] - prices[i] ELSE 0
                 /\ Ups(prices)[i] \in Nat /\ Downs(prices)[i] \in Nat
<1>1. Len(prices) = n
    OBVIOUS
<1>2. ASSUME NEW i \in 2..n
      PROVE  /\ Ups(prices)[i] = IF prices[i] > prices[i - 1] THEN prices[i] - prices[i - 1] ELSE 0
             /\ Downs(prices)[i] = IF prices[i - 1] > prices[i] THEN prices[i - 1] - prices[i] ELSE 0
             /\ Ups(prices)[i] \in Nat /\ Downs(prices)[i] \in Nat
  <2> DEFINE a == prices[i]
             b == prices[i - 1]
  <2>1. a \in Int /\ b \in Int
    <3>1. i \in 1..n /\ i - 1 \in 1..n
        OBVIOUS
    <3> QED BY <3>1
  <2>2. Ups(prices)[i] = Max({a - b, 0}) /\ Downs(prices)[i] = Max({b - a, 0})
      BY <1>1 DEF Ups, Downs
  <2> HIDE DEF a, b
  <2>3. /\ Max({a - b, 0}) = IF a - b > 0 THEN a - b ELSE 0
        /\ Max({b - a, 0}) = IF b - a > 0 THEN b - a ELSE 0
    <3>1. a - b \in Int /\ b - a \in Int
        BY <2>1
    <3> QED BY <3>1, Positive
  <2>4. /\ Ups(prices)[i] = IF a > b THEN a - b ELSE 0
        /\ Downs(prices)[i] = IF b > a THEN b - a ELSE 0
      BY <2>1, <2>2, <2>3
  <2>5. Ups(prices)[i] \in Nat /\ Downs(prices)[i] \in Nat
      BY <2>1, <2>4
  <2> QED BY <2>4, <2>5 DEF a, b
<1> QED BY <1>1, <1>2

\* Sums over moves are numbers, at least as large as each move.
LEMMA MovesAdd ==
    ASSUME NEW n \in Nat, NEW p \in 1..n, NEW v, \A i \in 2..n : v[i] \in Nat
    PROVE  Total(v, 2..p) \in Nat /\ \A j \in 2..p : v[j] <= Total(v, 2..p)
<1> DEFINE S == 2..p
<1>1. IsFiniteSet(S) /\ (\A x \in S : v[x] \in Nat) /\ {} \in SUBSET S
  <2>1. IsFiniteSet(S)
      BY FS_Interval
  <2>2. \A x \in S : x \in 2..n
      OBVIOUS
  <2> HIDE DEF S
  <2> QED BY <2>1, <2>2
<1> HIDE DEF S
<1>2. Total(v, {}) = 0
    BY FS_EmptySet, TotalUnfold
<1>3. \A R \in SUBSET S : Total(v, R) <= Total(v, S)
    BY <1>1, TotalPart
<1>4. \A R \in SUBSET S : Total(v, R) \in Int
  <2> SUFFICES ASSUME NEW R \in SUBSET S PROVE Total(v, R) \in Int
      OBVIOUS
  <2>1. IsFiniteSet(R) /\ \A x \in R : v[x] \in Int
      BY <1>1, FS_Subset
  <2> QED BY <2>1, TotalInt
<1>5. Total(v, S) \in Nat
    BY <1>1, <1>2, <1>3, <1>4
<1>6. ASSUME NEW j \in S PROVE v[j] <= Total(v, S)
  <2> DEFINE R == S \ {j}
  <2>1. Total(v, S) = v[j] + Total(v, R)
    <3>1. \A x \in S : v[x] \in Int
        BY <1>1
    <3> QED BY <1>1, <3>1, TotalRemove
  <2>2. Total(v, {}) <= Total(v, R)
    <3>1. IsFiniteSet(R) /\ (\A x \in R : v[x] \in Nat) /\ {} \in SUBSET R
        BY <1>1, FS_Subset
    <3> HIDE DEF R
    <3> QED BY <3>1, TotalPart
  <2>3. R \in SUBSET S /\ v[j] \in Nat
      BY <1>1
  <2> HIDE DEF R
  <2> QED BY <1>2, <1>4, <2>1, <2>2, <2>3
<1> QED BY <1>5, <1>6 DEF S

\* The averages of gains and losses are computed from those before.
LEMMA MovesSteps ==
    ASSUME NEW n \in Nat, NEW prices \in [1..n -> Int], NEW p \in 1..n
    PROVE  MovesFrom(SmoothedMoves(prices, p), Ups(prices), Downs(prices), p, n)
<1> DEFINE V == [gain : Nat, loss : Nat, den : Nat \ {0}]
           up == Ups(prices)
           down == Downs(prices)
           base == [gain |-> Total(up, 2..p), loss |-> Total(down, 2..p), den |-> p]
           Then(i, x) == [gain |-> x.gain * (p - 1) + up[i] * x.den,
                          loss |-> x.loss * (p - 1) + down[i] * x.den,
                          den |-> x.den * p]
           Reads(f) == f = [i \in p..Len(prices) |-> IF i = p THEN base ELSE Then(i, f[i - 1])]
           step == [q \in (p..n) \X V |-> IF q[1] = p THEN base ELSE Then(q[1], q[2])]
<1>1. /\ p \in Int /\ n \in Int /\ p \in p..n /\ Len(prices) = n
      /\ \A i \in 2..n : up[i] \in Nat /\ down[i] \in Nat
    BY MovesAre
<1>2. base \in V
  <2> DEFINE a == Total(up, 2..p)
             b == Total(down, 2..p)
  <2>1. a \in Nat /\ b \in Nat /\ p \in Nat \ {0}
    <3> HIDE DEF up, down
    <3>1. \A i \in 2..n : up[i] \in Nat
        BY <1>1
    <3>2. \A i \in 2..n : down[i] \in Nat
        BY <1>1
    <3>3. Total(up, 2..p) \in Nat
        BY <3>1, MovesAdd
    <3>4. Total(down, 2..p) \in Nat
        BY <3>2, MovesAdd
    <3> QED BY <3>3, <3>4
  <2> HIDE DEF a, b
  <2>2. base = [gain |-> a, loss |-> b, den |-> p]
      BY DEF a, b
  <2> HIDE DEF base
  <2> QED BY <2>1, <2>2
<1>3. ASSUME NEW i \in p..n, i # p, NEW x \in V PROVE Then(i, x) \in V
  <2> DEFINE a == x.gain
             b == x.loss
             c == x.den
             u == up[i]
             d == down[i]
  <2>1. a \in Nat /\ b \in Nat /\ c \in Nat \ {0} /\ u \in Nat /\ d \in Nat
      BY <1>1, <1>3
  <2>2. Then(i, x) = [gain |-> a * (p - 1) + u * c, loss |-> b * (p - 1) + d * c, den |-> c * p]
      OBVIOUS
  <2> HIDE DEF a, b, c, u, d, Then
  <2>3. a * (p - 1) + u * c \in Nat /\ b * (p - 1) + d * c \in Nat /\ c * p \in Nat \ {0}
    <3>1. p - 1 \in Nat /\ p \in Nat \ {0}
        OBVIOUS
    <3>2. a * (p - 1) \in Nat /\ u * c \in Nat /\ b * (p - 1) \in Nat /\ d * c \in Nat
        BY <2>1, <3>1
    <3>3. c * p = c * (p - 1) + c /\ c * (p - 1) \in Nat
        BY <2>1, <3>1
    <3> QED BY <2>1, <3>2, <3>3
  <2> QED BY <2>2, <2>3
<1>4. \A i \in p..n, x \in V : step[<<i, x>>] = IF i = p THEN base ELSE Then(i, x)
  <2> HIDE DEF Then, V, base
  <2> QED OBVIOUS
<1>b. SmoothedMoves(prices, p) = CHOOSE f : Reads(f)
    BY DEF SmoothedMoves, Ups, Downs
<1> HIDE DEF step, Then, V, base
<1>5. Within(step, p, n, V)
    BY <1>2, <1>3, <1>4 DEF Within
<1>6. \E f : Reads(f)
  <2>1. PICK f \in [p..n -> V] : Computes(f, p, n, base, step)
      BY <1>1, <1>2, <1>5, Recursion
  <2>2. \A i \in p..n : f[i] = IF i = p THEN base ELSE step[<<i, f[i - 1]>>]
      BY <2>1 DEF Computes
  <2>3. \A i \in p..n : i # p => f[i - 1] \in V
      BY <1>1
  <2>4. \A i \in p..n : f[i] = IF i = p THEN base ELSE Then(i, f[i - 1])
      BY <1>4, <2>2, <2>3
  <2>5. Reads(f)
      BY <1>1, <2>4
  <2> QED BY <2>5
<1> DEFINE avg == CHOOSE f : Reads(f)
<1>7. Reads(avg)
  <2> HIDE DEF Reads
  <2> QED BY <1>6
<1> HIDE DEF avg
<1>8. avg[p] = base /\ \A i \in p + 1..n : avg[i] = Then(i, avg[i - 1])
  <2>1. \A i \in p + 1..n : i \in p..n /\ i # p
      BY <1>1
  <2> QED BY <1>1, <1>7, <2>1
<1>9. \A i \in p..n : avg[i] \in V
  <2> DEFINE S == {i \in p..n : avg[i] \in V}
  <2>1. p \in S
      BY <1>1, <1>2, <1>8
  <2>2. ASSUME NEW i \in p..n, i + 1 \in p..n, i \in S PROVE i + 1 \in S
    <3>1. i + 1 \in p + 1..n /\ (i + 1) - 1 = i /\ i + 1 # p
        BY <2>2
    <3>2. avg[i + 1] = Then(i + 1, avg[i]) /\ avg[i] \in V
        BY <1>8, <2>2, <3>1
    <3> QED BY <1>3, <2>2, <3>1, <3>2
  <2> HIDE DEF S
  <2>3. p..n \subseteq S
      BY <1>1, <2>1, <2>2, IntervalInd
  <2> QED BY <2>3 DEF S
<1>10. MovesFrom(avg, up, down, p, n)
  <2>1. avg[p] = [gain |-> Total(up, 2..p), loss |-> Total(down, 2..p), den |-> p]
      BY <1>8 DEF base
  <2>2. \A i \in p..n : avg[i] \in [gain : Nat, loss : Nat, den : Nat \ {0}]
      BY <1>9 DEF V
  <2>3. \A i \in p + 1..n :
           avg[i] = [gain |-> avg[i - 1].gain * (p - 1) + up[i] * avg[i - 1].den,
                     loss |-> avg[i - 1].loss * (p - 1) + down[i] * avg[i - 1].den,
                     den |-> avg[i - 1].den * p]
      BY <1>8 DEF Then
  <2> HIDE DEF up, down
  <2> QED BY <2>1, <2>2, <2>3 DEF MovesFrom
<1> QED BY <1>b, <1>10 DEF avg

\* What the averages are, and the average after the one of i.
LEMMA MovesNext ==
    ASSUME NEW n \in Nat, NEW p \in 1..n, NEW avg, NEW up, NEW down,
           MovesFrom(avg, up, down, p, n), NEW i \in p..n
    PROVE  /\ avg[i].gain \in Nat /\ avg[i].loss \in Nat /\ avg[i].den \in Nat \ {0}
           /\ i + 1 \in p..n =>
                /\ avg[i + 1].gain = avg[i].gain * (p - 1) + up[i + 1] * avg[i].den
                /\ avg[i + 1].loss = avg[i].loss * (p - 1) + down[i + 1] * avg[i].den
                /\ avg[i + 1].den = avg[i].den * p
<1>1. avg[i] \in [gain : Nat, loss : Nat, den : Nat \ {0}]
    BY DEF MovesFrom
<1>2. ASSUME i + 1 \in p..n
      PROVE  avg[i + 1] = [gain |-> avg[i].gain * (p - 1) + up[i + 1] * avg[i].den,
                           loss |-> avg[i].loss * (p - 1) + down[i + 1] * avg[i].den,
                           den |-> avg[i].den * p]
  <2>1. i + 1 \in p + 1..n /\ (i + 1) - 1 = i
      BY <1>2
  <2> QED BY <2>1 DEF MovesFrom
<1>3. ASSUME i + 1 \in p..n
      PROVE  /\ avg[i + 1].gain = avg[i].gain * (p - 1) + up[i + 1] * avg[i].den
             /\ avg[i + 1].loss = avg[i].loss * (p - 1) + down[i + 1] * avg[i].den
             /\ avg[i + 1].den = avg[i].den * p
  <2> DEFINE a == avg[i].gain * (p - 1) + up[i + 1] * avg[i].den
             b == avg[i].loss * (p - 1) + down[i + 1] * avg[i].den
             c == avg[i].den * p
  <2>1. avg[i + 1] = [gain |-> a, loss |-> b, den |-> c]
      BY <1>2, <1>3
  <2> HIDE DEF a, b, c
  <2>2. avg[i + 1].gain = a /\ avg[i + 1].loss = b /\ avg[i + 1].den = c
      BY <2>1
  <2> QED BY <2>2 DEF a, b, c
<1> QED BY <1>1, <1>3

\* Without losses there is no average loss.
LEMMA FlatFrom ==
    ASSUME NEW n \in Nat, NEW p \in 1..n, NEW avg, NEW up, NEW down,
           MovesFrom(avg, up, down, p, n), \A i \in 2..n : down[i] = 0
    PROVE  avg[n].loss = 0
<1> DEFINE S == {i \in p..n : avg[i].loss = 0}
<1>1. p \in Int /\ n \in Int /\ p \in p..n /\ n \in p..n
    OBVIOUS
<1>2. Total(down, 2..p) = 0
  <2> DEFINE T == 2..p
  <2>1. IsFiniteSet(T) /\ \A x \in T : x \in 2..n
      BY FS_Interval
  <2> HIDE DEF T
  <2>2. \A x \in T : down[x] = 0
      BY <2>1
  <2>3. \A R \in SUBSET T : Total(down, R) \in Int
    <3> SUFFICES ASSUME NEW R \in SUBSET T PROVE Total(down, R) \in Int
        OBVIOUS
    <3>1. IsFiniteSet(R) /\ \A x \in R : down[x] \in Int
        BY <2>1, <2>2, FS_Subset
    <3> QED BY <3>1, TotalInt
  <2>4. Total(down, T) <= 0 * Total(down, T) /\ 0 * Total(down, T) <= Total(down, T)
    <3>1. \A x \in T : /\ down[x] \in Int /\ down[x] \in Int
                       /\ 0 * down[x] <= down[x] /\ down[x] <= 0 * down[x]
        BY <2>2
    <3>2. 0 \in Int
        OBVIOUS
    <3> QED BY <2>1, <3>1, <3>2, TotalBounds
  <2>5. Total(down, T) = 0
      BY <2>3, <2>4
  <2> QED BY <2>5 DEF T
<1>3. p \in S
  <2>1. avg[p].loss = Total(down, 2..p)
      BY DEF MovesFrom
  <2> QED BY <1>1, <1>2, <2>1
<1>4. ASSUME NEW i \in p..n, i + 1 \in p..n, i \in S PROVE i + 1 \in S
  <2> DEFINE c == avg[i].den
             l == avg[i].loss
  <2>1. down[i + 1] = 0 /\ l = 0
      BY <1>4
  <2>2. c \in Nat /\ avg[i + 1].loss = l * (p - 1) + down[i + 1] * c
      BY <1>4, MovesNext
  <2> HIDE DEF c, l
  <2>3. avg[i + 1].loss = 0 * (p - 1) + 0 * c
      BY <2>1, <2>2
  <2>4. avg[i + 1].loss = 0
      BY <2>2, <2>3
  <2> QED BY <1>4, <2>4
<1> HIDE DEF S
<1>5. p..n \subseteq S
    BY <1>1, <1>3, <1>4, IntervalInd
<1> QED BY <1>1, <1>5 DEF S

\* Once prices have moved, the averages do not forget it.
LEMMA MovedFrom ==
    ASSUME NEW n \in Nat, NEW p \in 2..n, NEW avg, NEW up, NEW down,
           MovesFrom(avg, up, down, p, n),
           \A i \in 2..n : up[i] \in Nat, \A i \in 2..n : down[i] \in Nat,
           NEW j \in 2..n, up[j] + down[j] > 0
    PROVE  avg[n].gain + avg[n].loss > 0
<1> DEFINE S == {i \in p..n : j <= i => avg[i].gain + avg[i].loss > 0}
<1>1. p \in Int /\ n \in Int /\ p \in p..n /\ n \in p..n /\ p \in 1..n /\ j <= n
    OBVIOUS
<1>2. p \in S
  <2>1. ASSUME j <= p PROVE avg[p].gain + avg[p].loss > 0
    <3>1. j \in 2..p
        BY <2>1
    <3>2. Total(up, 2..p) \in Nat /\ up[j] <= Total(up, 2..p)
        BY <1>1, <3>1, MovesAdd
    <3>3. Total(down, 2..p) \in Nat /\ down[j] <= Total(down, 2..p)
        BY <1>1, <3>1, MovesAdd
    <3>4. avg[p].gain = Total(up, 2..p) /\ avg[p].loss = Total(down, 2..p)
        BY DEF MovesFrom
    <3>5. up[j] \in Nat /\ down[j] \in Nat
        OBVIOUS
    <3> QED BY <3>2, <3>3, <3>4, <3>5
  <2> QED BY <1>1, <2>1
<1>3. ASSUME NEW i \in p..n, i + 1 \in p..n, i \in S PROVE i + 1 \in S
  <2> DEFINE a == avg[i].gain
             b == avg[i].loss
             c == avg[i].den
             u == up[i + 1]
             d == down[i + 1]
             q == p - 1
  <2>1. a \in Nat /\ b \in Nat /\ c \in Nat \ {0}
      BY <1>1, MovesNext
  <2>2. avg[i + 1].gain = a * q + u * c /\ avg[i + 1].loss = b * q + d * c
      BY <1>1, <1>3, MovesNext
  <2>3. u \in Nat /\ d \in Nat /\ q \in Nat \ {0}
    <3>1. i + 1 \in 2..n
        BY <1>3
    <3> QED BY <3>1
  <2>4. j <= i => a + b > 0
      BY <1>3
  <2>5. j = i + 1 => u + d > 0
      OBVIOUS
  <2> HIDE DEF a, b, c, u, d, q
  <2>6. ASSUME NEW x \in Nat, NEW y \in Nat \ {0} PROVE x * y \in Nat /\ x <= x * y
    <3>1. x * y = x * (y - 1) + x /\ x * (y - 1) \in Nat
        OBVIOUS
    <3> QED BY <3>1
  <2>7. a * q \in Nat /\ a <= a * q /\ b * q \in Nat /\ b <= b * q
      BY <2>1, <2>3, <2>6
  <2>8. u * c \in Nat /\ u <= u * c /\ d * c \in Nat /\ d <= d * c
      BY <2>1, <2>3, <2>6
  <2> DEFINE aq == a * q
             bq == b * q
             uc == u * c
             dc == d * c
  <2>9. aq \in Nat /\ a <= aq /\ bq \in Nat /\ b <= bq /\ uc \in Nat /\ u <= uc /\ dc \in Nat /\ d <= dc
      BY <2>7, <2>8
  <2>10. avg[i + 1].gain = aq + uc /\ avg[i + 1].loss = bq + dc
      BY <2>2
  <2> HIDE DEF aq, bq, uc, dc
  <2>11. ASSUME j <= i + 1 PROVE (aq + uc) + (bq + dc) > 0
    <3>1. j <= i \/ j = i + 1
        BY <2>11
    <3>2. a + b > 0 \/ u + d > 0
        BY <2>4, <2>5, <3>1
    <3> QED BY <2>1, <2>3, <2>9, <3>2
  <2>12. j <= i + 1 => avg[i + 1].gain + avg[i + 1].loss > 0
      BY <2>10, <2>11
  <2> QED BY <1>3, <2>12
<1> HIDE DEF S
<1>4. p..n \subseteq S
    BY <1>1, <1>2, <1>3, IntervalInd
<1> QED BY <1>1, <1>4 DEF S

\* Averages with gains and losses exchanged.
LEMMA MirroredFrom ==
    ASSUME NEW n \in Nat, NEW p \in 1..n, NEW avg, NEW oth, NEW up, NEW down,
           MovesFrom(avg, up, down, p, n), MovesFrom(oth, down, up, p, n)
    PROVE  oth[n].gain = avg[n].loss /\ oth[n].loss = avg[n].gain
<1> DEFINE Same(i) == /\ oth[i].gain = avg[i].loss /\ oth[i].loss = avg[i].gain
                      /\ oth[i].den = avg[i].den
           S == {i \in p..n : Same(i)}
<1>1. p \in Int /\ n \in Int /\ p \in p..n /\ n \in p..n
    OBVIOUS
<1>2. p \in S
  <2>1. /\ avg[p] = [gain |-> Total(up, 2..p), loss |-> Total(down, 2..p), den |-> p]
        /\ oth[p] = [gain |-> Total(down, 2..p), loss |-> Total(up, 2..p), den |-> p]
      BY DEF MovesFrom
  <2>2. Same(p)
      BY <2>1
  <2> QED BY <1>1, <2>2
<1>3. ASSUME NEW i \in p..n, i + 1 \in p..n, i \in S PROVE i + 1 \in S
  <2>1. Same(i)
      BY <1>3
  <2>2. /\ avg[i + 1].gain = avg[i].gain * (p - 1) + up[i + 1] * avg[i].den
        /\ avg[i + 1].loss = avg[i].loss * (p - 1) + down[i + 1] * avg[i].den
        /\ avg[i + 1].den = avg[i].den * p
      BY <1>3, MovesNext
  <2>3. /\ oth[i + 1].gain = oth[i].gain * (p - 1) + down[i + 1] * oth[i].den
        /\ oth[i + 1].loss = oth[i].loss * (p - 1) + up[i + 1] * oth[i].den
        /\ oth[i + 1].den = oth[i].den * p
      BY <1>3, MovesNext
  <2>4. Same(i + 1)
      BY <2>1, <2>2, <2>3, Zenon
  <2> QED BY <1>3, <2>4
<1> HIDE DEF S
<1>4. p..n \subseteq S
    BY <1>1, <1>2, <1>3, IntervalInd
<1> QED BY <1>1, <1>4 DEF S

\* Prices that moved, and others that are their mirror image at some level.
Moved(prices) == \E j \in 2..Len(prices) : prices[j] # prices[j - 1]
Mirrors(mirror, prices) ==
    \E level \in Int : \A i \in 1..Len(prices) : mirror[i] = level - prices[i]

\* Prices that never move lose nothing: the RSI is 100.
LEMMA FlatRSI ==
    ASSUME NEW n \in Nat, NEW prices \in Seq(Int), Len(prices) = n, RsiPeriod <= n, ~Moved(prices)
    PROVE  calculateRSI(prices, RsiPeriod) = 10000
<1> DEFINE avg == SmoothedMoves(prices, RsiPeriod)
           up == Ups(prices)
           down == Downs(prices)
<1>p. prices \in [1..n -> Int]
    OBVIOUS
<1>1. RsiPeriod \in 1..n /\ Len(prices) = n
    BY FiguresAssumption
<1>2. MovesFrom(avg, up, down, RsiPeriod, n)
    BY <1>1, <1>p, MovesSteps
<1>3. \A i \in 2..n : down[i] = 0
  <2> TAKE i \in 2..n
  <2>1. i \in 1..n /\ i - 1 \in 1..n
      OBVIOUS
  <2>2. prices[i] \in Int /\ prices[i - 1] = prices[i]
      BY <1>p, <2>1 DEF Moved
  <2>3. down[i] = IF prices[i - 1] > prices[i] THEN prices[i - 1] - prices[i] ELSE 0
    <3> HIDE DEF down
    <3>1. \A k \in 2..n : Downs(prices)[k] = IF prices[k - 1] > prices[k] THEN prices[k - 1] - prices[k] ELSE 0
        BY <1>p, MovesAre
    <3> QED BY <3>1 DEF down
  <2> HIDE DEF down
  <2> QED BY <2>2, <2>3
<1> HIDE DEF avg, up, down
<1>4. avg[n].loss = 0
    BY <1>1, <1>2, <1>3, FlatFrom
<1>5. ~(Len(prices) < RsiPeriod)
    BY <1>1
<1> QED BY <1>1, <1>4, <1>5 DEF calculateRSI, avg

\* Prices that moved and their mirror image have complementary RSIs: what one
\* gains the other loses.
LEMMA MirroredRSI ==
    ASSUME NEW n \in Nat, NEW prices \in Seq(Int), Len(prices) = n,
           NEW mirror \in Seq(Int), Len(mirror) = n, Mirrors(mirror, prices), Moved(prices)
    PROVE  calculateRSI(prices, RsiPeriod) + calculateRSI(mirror, RsiPeriod) \in {10000, 10001}
<1>l. PICK level \in Int : \A i \in 1..n : mirror[i] = level - prices[i]
    BY DEF Mirrors
<1>j. PICK j \in 2..n : prices[j] # prices[j - 1]
    BY DEF Moved
<1> DEFINE p == RsiPeriod
           avg == SmoothedMoves(prices, p)
           oth == SmoothedMoves(mirror, p)
           up == Ups(prices)
           down == Downs(prices)
<1>1. \A i \in 1..n : mirror[i] = level - prices[i]
    BY <1>l
<1>2. prices \in [1..n -> Int] /\ mirror \in [1..n -> Int]
    OBVIOUS
<1>3. Ups(mirror) = down /\ Downs(mirror) = up
  <2>1. \A i \in 2..n : /\ mirror[i] - mirror[i - 1] = prices[i - 1] - prices[i]
                        /\ mirror[i - 1] - mirror[i] = prices[i] - prices[i - 1]
    <3> TAKE i \in 2..n
    <3>1. i \in 1..n /\ i - 1 \in 1..n
        OBVIOUS
    <3>2. prices[i] \in Int /\ prices[i - 1] \in Int
        BY <1>2, <3>1
    <3>3. mirror[i] = level - prices[i] /\ mirror[i - 1] = level - prices[i - 1]
        BY <1>1, <3>1
    <3> DEFINE a == prices[i]
               b == prices[i - 1]
               c == mirror[i]
               d == mirror[i - 1]
    <3>4. a \in Int /\ b \in Int /\ c = level - a /\ d = level - b
        BY <3>2, <3>3
    <3> HIDE DEF a, b, c, d
    <3>5. c - d = b - a /\ d - c = a - b
        BY <3>4
    <3> QED BY <3>5 DEF a, b, c, d
  <2> QED BY <1>2, <2>1 DEF Ups, Downs
<1>4. p \in Nat /\ p >= 2
    BY FiguresAssumption
<1> HIDE DEF p, avg, oth, up, down
<1>5. CASE n < p
  <2>1. calculateRSI(prices, p) = 5000 /\ calculateRSI(mirror, p) = 5000
      BY <1>2, <1>5 DEF calculateRSI
  <2> QED BY <2>1 DEF p
<1>6. CASE ~(n < p)
  <2>1. p \in 1..n /\ p \in 2..n
      BY <1>4, <1>6
  <2>2. MovesFrom(avg, up, down, p, n)
      BY <1>2, <2>1, MovesSteps DEF avg, up, down
  <2>3. MovesFrom(oth, down, up, p, n)
    <3>1. MovesFrom(SmoothedMoves(mirror, p), Ups(mirror), Downs(mirror), p, n)
        BY <1>2, <2>1, MovesSteps
    <3> QED BY <1>3, <3>1 DEF oth
  <2>4. oth[n].gain = avg[n].loss /\ oth[n].loss = avg[n].gain
    <3> HIDE DEF p, avg, oth, up, down
    <3>1. p \in 1..n
        BY <2>1
    <3> QED BY ONLY n \in Nat, <3>1, <2>2, <2>3, MirroredFrom
  <2>5. (\A i \in 2..n : up[i] \in Nat) /\ (\A i \in 2..n : down[i] \in Nat) /\ up[j] + down[j] > 0
    <3>1. \A i \in 2..n :
             /\ up[i] = IF prices[i] > prices[i - 1] THEN prices[i] - prices[i - 1] ELSE 0
             /\ down[i] = IF prices[i - 1] > prices[i] THEN prices[i - 1] - prices[i] ELSE 0
             /\ up[i] \in Nat /\ down[i] \in Nat
        BY <1>2, MovesAre DEF up, down
    <3>2. prices[j] \in Int /\ prices[j - 1] \in Int
      <4>1. j \in 1..n /\ j - 1 \in 1..n
          OBVIOUS
      <4> QED BY <1>2, <4>1
    <3> DEFINE a == prices[j]
               b == prices[j - 1]
               u == up[j]
               d == down[j]
    <3>3. /\ a \in Int /\ b \in Int /\ a # b
          /\ u = IF a > b THEN a - b ELSE 0
          /\ d = IF b > a THEN b - a ELSE 0
        BY <1>j, <3>1, <3>2
    <3> HIDE DEF a, b, u, d
    <3>4. u + d > 0
        BY <3>3
    <3> QED BY <3>1, <3>4 DEF u, d
  <2>6. avg[n].gain + avg[n].loss > 0
      BY <2>1, <2>2, <2>5, MovedFrom
  <2> DEFINE a == avg[n].gain
             b == avg[n].loss
  <2>7. a \in Nat /\ b \in Nat /\ a + b > 0
    <3>1. n \in p..n
        BY <2>1
    <3> QED BY <2>1, <2>2, <2>6, <3>1, MovesNext
  <2>8. /\ calculateRSI(prices, p) = IF b = 0 THEN 10000 ELSE Round(10000 * a, a + b)
        /\ calculateRSI(mirror, p) = IF a = 0 THEN 10000 ELSE Round(10000 * b, b + a)
      BY <1>2, <1>6, <2>4 DEF calculateRSI, avg, oth
  <2> HIDE DEF a, b
  <2>9. a + b = b + a /\ a + b \in Nat \ {0}
      BY <2>7
  <2>10. Round(10000 * a, a + b) + Round(10000 * b, a + b) \in {10000, 10001}
      BY <2>7, RoundShares
  <2>11. Round(0, a + b) = 0
      BY <2>9, RoundZero
  <2>12. CASE b = 0
    <3>1. 10000 * b = 0 /\ a # 0
        BY <2>7, <2>12
    <3>2. calculateRSI(prices, p) = 10000 /\ calculateRSI(mirror, p) = 0
        BY <2>8, <2>9, <2>11, <2>12, <3>1
    <3> QED BY <3>2 DEF p
  <2>13. CASE a = 0
    <3>1. 10000 * a = 0 /\ b # 0
        BY <2>7, <2>13
    <3>2. calculateRSI(prices, p) = 0 /\ calculateRSI(mirror, p) = 10000
        BY <2>8, <2>11, <2>13, <3>1
    <3> QED BY <3>2 DEF p
  <2>14. CASE a # 0 /\ b # 0
    <3>1. calculateRSI(prices, p) + calculateRSI(mirror, p) \in {10000, 10001}
        BY <2>8, <2>9, <2>10, <2>14
    <3> QED BY <3>1 DEF p
  <2> QED BY <2>12, <2>13, <2>14
<1> QED BY <1>5, <1>6

\* The RSI of prices that never moved, and of others and their mirror image.
LEMMA PricesRSI ==
    ASSUME NEW n \in Nat, NEW prices \in Seq(Int), Len(prices) = n,
           NEW values, values = {prices[i] : i \in 1..n}, IsFiniteSet(values),
           NEW mirror \in Seq(Int), Len(mirror) = n, Mirrors(mirror, prices)
    PROVE  /\ n >= RsiPeriod /\ Cardinality(values) = 1
                => calculateRSI(prices, RsiPeriod) = 10000
           /\ Cardinality(values) > 1
                => calculateRSI(prices, RsiPeriod) + calculateRSI(mirror, RsiPeriod) \in {10000, 10001}
<1>1. CASE \E j \in 2..n : prices[j] # prices[j - 1]
  <2>1. PICK j \in 2..n : prices[j] # prices[j - 1]
      BY <1>1
  <2>2. j \in 1..n /\ j - 1 \in 1..n
      BY <2>1
  <2>3. calculateRSI(prices, RsiPeriod) + calculateRSI(mirror, RsiPeriod) \in {10000, 10001}
    <3>1. Moved(prices)
        BY <2>1 DEF Moved
    <3> QED BY <3>1, MirroredRSI
  <2>4. Cardinality(values) # 1
    <3>1. prices[j] \in values /\ prices[j - 1] \in values
        BY <2>2
    <3>2. ASSUME Cardinality(values) = 1 PROVE FALSE
      <4>1. \E m : values = {m}
          BY <3>2, FS_Singleton
      <4> QED BY <2>1, <3>1, <4>1
    <3> QED BY <3>2
  <2> QED BY <2>3, <2>4
<1>2. CASE \A j \in 2..n : prices[j] = prices[j - 1]
  <2>1. ASSUME n >= RsiPeriod PROVE calculateRSI(prices, RsiPeriod) = 10000
    <3>1. RsiPeriod <= n
        BY <2>1, FiguresAssumption
    <3>2. ~Moved(prices)
        BY <1>2 DEF Moved
    <3> QED BY <3>1, <3>2, FlatRSI
  <2>2. ~(Cardinality(values) > 1)
    <3>1. CASE n = 0
      <4>1. values = {}
          BY <3>1
      <4>2. Cardinality(values) = 0
          BY <4>1, FS_EmptySet
      <4> QED BY <4>2
    <3>2. CASE n # 0
      <4> DEFINE S == {i \in 1..n : prices[i] = prices[1]}
      <4>0. 1 \in Int /\ n \in Int /\ 1 \in 1..n
          BY <3>2
      <4>1. 1 \in S
          BY <4>0
      <4>2. ASSUME NEW i \in 1..n, i + 1 \in 1..n, i \in S PROVE i + 1 \in S
        <5>1. i + 1 \in 2..n /\ (i + 1) - 1 = i
            BY <4>2
        <5> QED BY <1>2, <4>2, <5>1
      <4> HIDE DEF S
      <4>3. 1..n \subseteq S
          BY <4>0, <4>1, <4>2, IntervalInd
      <4>4. \A i \in 1..n : prices[i] = prices[1]
          BY <4>3 DEF S
      <4>5. values = {prices[1]}
          BY <4>0, <4>4
      <4>6. Cardinality(values) = 1
          BY <4>5, FS_Singleton
      <4> QED BY <4>6
    <3> QED BY <3>1, <3>2
  <2> QED BY <2>1, <2>2
<1> QED BY <1>1, <1>2

\* The RSI of the line chart's points.
LEMMA RSIHolds ==
    ASSUME NEW points \in Seq(Point)
    PROVE  RSIComplementary(points)
<1> DEFINE n == Len(points)
           prices == PricesOf(points)
           values == PricesUpTo(points, n)
           level == Max(values) + Min(values)
           mirror == Mirrored(prices, level)
<1>1. n \in Nat /\ prices \in Seq(Int) /\ Len(prices) = n
  <2>1. n \in Nat
      OBVIOUS
  <2>2. \A i \in 1..n : points[i].value \in Int
      BY PointPrices
  <2> QED BY <2>1, <2>2 DEF PricesOf
<1>2. \A i \in 1..n : prices[i] = points[i].value
    BY PricesAre
<1>3. values = {prices[i] : i \in 1..n}
    BY <1>2 DEF PricesUpTo
<1>4. CASE n = 0
  <2> HIDE DEF prices
  <2>1. values = {}
      BY <1>3, <1>4
  <2>2. Cardinality(values) = 0
      BY <2>1, FS_EmptySet
  <2>3. ~(n >= RsiPeriod) /\ ~(Cardinality(values) > 1)
      BY <1>4, <2>2, FiguresAssumption
  <2> HIDE DEF values
  <2> QED BY <2>3 DEF RSIComplementary, values
<1>5. CASE n # 0
  <2>1. n \in 1..n
      BY <1>1, <1>5
  <2>2. /\ IsFiniteSet(values) /\ values \subseteq Nat \ {0}
        /\ Min(values) \in values /\ Max(values) \in values
      BY <2>1, PricesFinite
  <2>3. level \in Int
    <3> DEFINE a == Max(values)
               b == Min(values)
    <3>0. a \in values /\ b \in values
        BY <2>2
    <3> HIDE DEF a, b, values
    <3>1. a \in Int /\ b \in Int
        BY <2>2, <3>0
    <3>2. a + b \in Int
        BY <3>1
    <3> QED BY <3>2 DEF a, b
  <2> HIDE DEF n, prices, values, level
  <2>4. mirror \in Seq(Int) /\ Len(mirror) = n /\ Mirrors(mirror, prices)
    <3>1. mirror \in Seq(Int) /\ Len(mirror) = n /\ \A i \in 1..n : mirror[i] = level - prices[i]
        BY <1>1, <2>3 DEF Mirrored
    <3> QED BY <1>1, <2>3, <3>1 DEF Mirrors
  <2> HIDE DEF mirror
  <2>5. /\ n >= RsiPeriod /\ Cardinality(values) = 1
             => calculateRSI(prices, RsiPeriod) = 10000
        /\ Cardinality(values) > 1
             => calculateRSI(prices, RsiPeriod) + calculateRSI(mirror, RsiPeriod) \in {10000, 10001}
      BY <1>1, <1>3, <2>2, <2>3, <2>4, PricesRSI
  <2> QED BY <2>5 DEF RSIComplementary, n, prices, values, level, mirror
<1> QED BY <1>4, <1>5

\* The averages and the RSI of every line chart are what their definitions say,
\* although the code computes them by running sums and recurrences
\* (calculateSMA, calculateEMA and calculateRSI).
THEOREM IndicatorsTheorem == Spec => []IndicatorsExact
<1>1. FiguresInv => IndicatorsExact
  <2> SUFFICES ASSUME FiguresInv, NEW g \in Granularities
               PROVE  AveragesExact(ticks[g]) /\ RSIComplementary(ticks[g])
      BY DEF IndicatorsExact
  <2>1. ticks[g] \in Seq(Point)
      BY DEF FiguresInv, PriceInv, WellFormedInv
  <2> QED BY <2>1, AveragesHold, RSIHolds
<1> QED BY <1>1, FiguresInit, FiguresStep, PTL DEF Spec
=============================================================================
