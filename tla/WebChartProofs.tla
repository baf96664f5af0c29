--------------------------- MODULE WebChartProofs ---------------------------
(***************************************************************************)
(* For any keys, intervals, versions and widths, the panes of the chart    *)
(* show what is selected, the view of the user is kept, the bars looked up *)
(* for the mouse are those on the screen, the chart fills its container    *)
(* and the cards of shields stay inside it.                                *)
(***************************************************************************)
EXTENDS WebChart, TLAPS

\* What is drawn of a state of the terminal has its type.
LEMMA ShownBars ==
    ASSUME NEW u \in UIState
    PROVE  Bars(u) \in Shown /\ Volumes(u) \in Shown /\ Blank \in Shown
BY WebChartAssumption DEF Bars, Volumes, Blank, Shown, UIState, AllKeys

\* What a render leaves behind has its type.
LEMMA RenderTypes ==
    ASSUME TypeOK, NEW u \in UIState, NEW s \in {series, liveSeries},
           Render(u, s)
    PROVE  TypeOK'
<1> USE WebChartAssumption
<1>1. s \in [type : Types \cup {"none"}, live : BOOLEAN]
  <2>1. ui.chartType \in Types
      BY DEF TypeOK, UIState
  <2>2. liveSeries \in [type : Types \cup {"none"}, live : BOOLEAN]
      BY <2>1 DEF liveSeries
  <2> QED BY <2>2 DEF TypeOK
<1>2. ui' \in UIState
    BY DEF Render
<1>3. series' \in [type : Types \cup {"none"}, live : BOOLEAN]
    BY <1>1 DEF Render, seriesAfter
<1>4. pending' \in BOOLEAN /\ shouldFit' \in BOOLEAN
    BY Zenon DEF Render, flagAfter
<1>5. fits' \in Nat
    BY DEF Render, TypeOK
<1>6. clientWidth(activeTab, width) \in Nat
    BY DEF TypeOK, clientWidth
<1>7. chart' \in [main : Shown, vol : Shown, ma : [kind : Averages, bars : Shown],
                  width : Nat]
  <2> DEFINE base == IF createsChart(u) THEN chartCreated ELSE chart
             T == [main : Shown, vol : Shown, ma : [kind : Averages, bars : Shown],
                   width : Nat]
  <2>1. base \in T
      BY <1>6, ShownBars DEF chartCreated, TypeOK, UIState, Averages
  <2>2. chartDrawn(u, seriesAfter(u, s), base) \in T
    <3> HIDE DEF base
    <3>1. u.showMa \in Averages
        BY DEF UIState
    <3> QED BY <2>1, <3>1, ShownBars DEF chartDrawn, Averages
  <2> QED BY <2>1, <2>2 DEF Render
<1>8. pane' \in [shown : BOOLEAN, data : Shown, synced : BOOLEAN, width : Nat]
  <2> DEFINE P == [shown : BOOLEAN, data : Shown, synced : BOOLEAN, width : Nat]
  <2>1. paneAfter(u) \in P
      BY <1>6, ShownBars DEF paneAfter, NoPane, TypeOK
  <2>2. \A p \in P : paneDrawn(u, p) \subseteq P
      BY ShownBars DEF paneDrawn
  <2> QED BY <2>1, <2>2 DEF Render
<1>9. committed' \in [u : UIState, s : [type : Types \cup {"none"}, live : BOOLEAN]]
    BY <1>3 DEF Render
<1>10. UNCHANGED panels
    BY DEF Render
<1> QED BY <1>2, <1>3, <1>4, <1>5, <1>7, <1>8, <1>9, <1>10 DEF TypeOK, panels

-----------------------------------------------------------------------------
\* The panes after a render that draws, on the live chart, with the live series.
LEMMA DrawingIsCurrent ==
    ASSUME TypeOK, NEW u \in UIState, NEW s,
           Render(u, s), draws(u, s), ~createsChart(u), s = liveSeries
    PROVE  /\ chart'.main = Bars(u)
           /\ chart'.vol = Volumes(u)
           /\ chart'.ma = (IF u.showMa # "none" /\ HasData(u)
                           THEN [kind |-> u.showMa, bars |-> Bars(u)]
                           ELSE [kind |-> "none", bars |-> Blank])
           /\ u.showMacd /\ HasData(u) => pane'.data = Bars(u)
<1>1. chart' = chartDrawn(u, s, chart)
    BY DEF Render, seriesAfter
<1>2. s.live
    BY DEF liveSeries
<1>3. /\ chart'.main = Bars(u)
      /\ chart'.vol = Volumes(u)
      /\ chart'.ma = (IF u.showMa # "none" /\ HasData(u)
                      THEN [kind |-> u.showMa, bars |-> Bars(u)]
                      ELSE [kind |-> "none", bars |-> Blank])
    BY <1>1, <1>2 DEF chartDrawn, TypeOK
<1>4. ASSUME u.showMacd, HasData(u) PROVE pane'.data = Bars(u)
  <2>1. pane' = [paneAfter(u) EXCEPT !.data = Bars(u)]
      BY <1>4 DEF Render, paneDrawn
  <2>2. "data" \in DOMAIN paneAfter(u)
      BY <1>4 DEF paneAfter, TypeOK
  <2> QED BY <2>1, <2>2
<1> QED BY <1>3, <1>4

\* The pane exists exactly if it is switched on.
LEMMA PaneShown ==
    ASSUME TypeOK, NEW u \in UIState, NEW s, Render(u, s), pane.shown = ui.showMacd
    PROVE  pane'.shown = u.showMacd
<1>1. /\ paneAfter(u).shown = u.showMacd
      /\ paneAfter(u) \in [shown : BOOLEAN, data : Shown, synced : BOOLEAN, width : Nat]
  <2>1. u.showMacd \in BOOLEAN
      BY DEF UIState
  <2>2. clientWidth(activeTab, width) \in Nat
      BY WebChartAssumption DEF TypeOK, clientWidth
  <2> QED BY <2>1, <2>2, ShownBars DEF paneAfter, NoPane, TypeOK
<1>2. \A p \in paneDrawn(u, paneAfter(u)) : p.shown = paneAfter(u).shown
    BY <1>1 DEF paneDrawn
<1> QED BY <1>1, <1>2 DEF Render

\* The shields are recomputed whenever something they depend on has changed.
LEMMA ShieldsCurrent ==
    ASSUME TypeOK, NEW u \in UIState, NEW s, Render(u, s), s = liveSeries,
           s # series \/ shields = shieldsOf(ui)
    PROVE  shields' = shieldsOf(u)
<1>1. s # NoSeries
    BY DEF liveSeries, NoSeries
<1>2. CASE reshields(u, s)
    BY <1>1, <1>2 DEF Render, shieldsAt, shieldsOf
<1>3. CASE ~reshields(u, s)
  <2>1. /\ u.key = ui.key /\ u.store = ui.store /\ u.trades = ui.trades
        /\ u.marks = ui.marks /\ s = series
      BY <1>3 DEF reshields
  <2> QED BY <1>3, <2>1 DEF Render, shieldsOf
<1> QED BY <1>2, <1>3

\* A render draws what is selected: with the series of the last render, or with the
\* live one that was still to be rendered.
LEMMA RenderDraws ==
    ASSUME ChartInv, NEW u \in UIState, NEW s, Render(u, s),
           s = series \/ (pending /\ s = liveSeries /\ u.chartType = ui.chartType)
    PROVE  /\ TypeOK'
           /\ series'.live = ~pending'
           /\ pane'.shown = ui'.showMacd
           /\ DrawnIsCurrent'
<1>0. TypeOK /\ series.live = ~pending /\ pane.shown = ui.showMacd /\ DrawnIsCurrent
    BY DEF ChartInv
<1>1. TypeOK'
    BY <1>0, RenderTypes
<1>2. pane'.shown = ui'.showMacd
    BY <1>0, PaneShown DEF Render
<1>3. CASE createsChart(u)
  <2>1. s = series
      BY <1>3 DEF createsChart
  <2>2. series' = [series EXCEPT !.live = FALSE]
      BY <1>3, <2>1 DEF Render, seriesAfter
  <2>3. series'.live = FALSE
      BY <1>0, <2>2 DEF TypeOK
  <2>4. pending' = TRUE
      BY <1>3 DEF Render
  <2> QED BY <1>1, <1>2, <2>3, <2>4 DEF DrawnIsCurrent
<1>4. CASE ~createsChart(u) /\ s = series /\ pending
  <2>1. pending' /\ series' = series
      BY <1>4 DEF Render, seriesAfter
  <2> QED BY <1>0, <1>1, <1>2, <1>4, <2>1 DEF DrawnIsCurrent
<1>5. CASE ~createsChart(u) /\ s = series /\ ~pending
  <2>1. s = liveSeries /\ u.chartType = ui.chartType
      BY <1>0, <1>5 DEF DrawnIsCurrent, createsChart
  <2>2. ~pending' /\ series' = series /\ series' = liveSeries'
      BY <1>5, <2>1 DEF Render, seriesAfter, liveSeries
  <2>3. shields' = shieldsOf(u)
      BY <1>0, <1>5, <2>1, ShieldsCurrent DEF DrawnIsCurrent
  <2>4. CASE redraws(u, s)
    <3>1. draws(u, s)
        BY <2>1, <2>4 DEF draws, liveSeries, NoSeries
    <3>2. DrawnIsCurrent'
        BY <1>0, <1>2, <1>5, <2>1, <2>2, <2>3, <3>1, DrawingIsCurrent
        DEF DrawnIsCurrent, Render
    <3> QED BY <1>0, <1>1, <1>2, <1>5, <2>2, <3>2
  <2>5. CASE ~redraws(u, s)
    <3>1. /\ u = [ui EXCEPT !.interval = u.interval, !.marks = u.marks]
          /\ ~draws(u, s)
        BY <2>5 DEF redraws, draws
    <3>2. /\ u.key = ui.key /\ u.store = ui.store /\ u.volumes = ui.volumes
          /\ u.showVolume = ui.showVolume /\ u.showMa = ui.showMa
          /\ u.showMacd = ui.showMacd
        BY <1>0, <3>1 DEF TypeOK, UIState
    <3>3. Bars(u) = Bars(ui) /\ Volumes(u) = Volumes(ui) /\ HasData(u) = HasData(ui)
        BY <3>2 DEF Bars, Volumes, HasData
    <3>4. chart' = chart /\ pane' = paneAfter(u)
        BY <1>5, <3>1 DEF Render
    <3>5. pane.shown => pane'.data = pane.data
        BY <1>0, <3>2, <3>4 DEF paneAfter, TypeOK
    <3>6. DrawnIsCurrent'
        BY <1>0, <1>2, <1>5, <2>2, <2>3, <3>2, <3>3, <3>4, <3>5 DEF DrawnIsCurrent, Render
    <3> QED BY <1>0, <1>1, <1>2, <1>5, <2>2, <3>6
  <2> QED BY <2>4, <2>5
<1>6. CASE ~createsChart(u) /\ pending /\ s = liveSeries
  <2>1. s # series /\ u.chartType = ui.chartType
    <3>1. s.live = TRUE
        BY <1>6 DEF liveSeries
    <3>2. series.live = FALSE
        BY <1>0, <1>6, Zenon
    <3> QED BY <1>6, <3>1, <3>2 DEF createsChart
  <2>2. pending' = FALSE /\ series' = s /\ series' = liveSeries'
      BY <1>6, <2>1 DEF Render, seriesAfter, liveSeries
  <2>3. series'.live = TRUE
      BY <1>6, <2>2 DEF liveSeries
  <2>4. draws(u, s)
      BY <1>6, <2>1 DEF draws, redraws, liveSeries, NoSeries
  <2>5. shields' = shieldsOf(u)
      BY <1>0, <1>6, <2>1, ShieldsCurrent
  <2>6. DrawnIsCurrent'
      BY <1>0, <1>2, <1>6, <2>2, <2>4, <2>5, DrawingIsCurrent DEF DrawnIsCurrent, Render
  <2> QED BY <1>1, <1>2, <2>2, <2>3, <2>6
<1> QED BY <1>3, <1>4, <1>5, <1>6 DEF createsChart

\* What does not draw has drawn nothing else: the interval and the switch of the
\* markers change no bars.
LEMMA SameBars ==
    ASSUME TypeOK, NEW u \in UIState, NEW s, ~redraws(u, s)
    PROVE  Bars(u) = Bars(ui) /\ Volumes(u) = Volumes(ui) /\ u.chartType = ui.chartType
<1>1. u = [ui EXCEPT !.interval = u.interval, !.marks = u.marks]
    BY DEF redraws
<1>2. /\ u.key = ui.key /\ u.store = ui.store /\ u.volumes = ui.volumes
      /\ u.showVolume = ui.showVolume /\ u.chartType = ui.chartType
    BY <1>1 DEF TypeOK, UIState
<1> QED BY <1>2 DEF Bars, Volumes

\* As long as the live series is still to be rendered, the main series is blank
\* and the others are blank or current.
LEMMA RenderBlank ==
    ASSUME ChartInv, NEW u \in UIState, NEW s, Render(u, s),
           s = series \/ (pending /\ s = liveSeries /\ u.chartType = ui.chartType)
    PROVE  BlankOrCurrent'
<1>0. TypeOK /\ series.live = ~pending /\ BlankOrCurrent
    BY DEF ChartInv
<1> SUFFICES ASSUME pending' PROVE BlankOrCurrent'
    BY DEF BlankOrCurrent
<1>1. s = series
  <2>1. CASE pending /\ s = liveSeries /\ u.chartType = ui.chartType
    <3>1. s.live = TRUE /\ series.live = FALSE
        BY <1>0, <2>1, Zenon DEF liveSeries
    <3> QED BY <2>1, <3>1 DEF Render, createsChart
  <2> QED BY <2>1
<1>2. series'.type = series.type /\ seriesAfter(u, s).live = (series.live /\ ~createsChart(u))
    BY <1>0, <1>1 DEF Render, seriesAfter, TypeOK
<1>3. ~seriesAfter(u, s).live
    BY <1>0, <1>1, <1>2 DEF Render
<1> DEFINE base == IF createsChart(u) THEN chartCreated ELSE chart
<1>4. /\ base \in [main : Shown, vol : Shown, ma : [kind : Averages, bars : Shown], width : Nat]
      /\ base.main = Blank
  <2>1. clientWidth(activeTab, width) \in Nat
      BY <1>0, WebChartAssumption DEF TypeOK, clientWidth
  <2> QED BY <1>0, <1>1, <2>1, ShownBars DEF chartCreated, TypeOK, BlankOrCurrent, Render, Averages
<1>5. CASE draws(u, s)
  <2>1. chart' = chartDrawn(u, seriesAfter(u, s), base)
      BY <1>5 DEF Render
  <2> HIDE DEF base
  <2>2. /\ chart'.main = Blank /\ chart'.vol = Volumes(u)
        /\ chart'.ma.bars \in {Blank, Bars(u)}
      BY <1>3, <1>4, <2>1 DEF chartDrawn
  <2>3. series'.type = u.chartType
      BY <1>1, <1>2, <1>5 DEF draws
  <2> QED BY <2>2, <2>3 DEF BlankOrCurrent, Render
<1>6. CASE ~draws(u, s)
  <2>1. chart' = base
      BY <1>6 DEF Render
  <2>2. ~redraws(u, s) \/ series.type # u.chartType
      BY <1>0, <1>1, <1>6 DEF draws, NoSeries, UIState, Types
  <2>3. CASE createsChart(u)
    <3>1. redraws(u, s)
        BY <1>0, <2>3, SameBars DEF createsChart
    <3>2. chart'.main = Blank /\ chart'.vol = Blank /\ chart'.ma.bars = Blank
        BY <2>1, <2>3 DEF chartCreated
    <3> QED BY <1>2, <2>2, <3>1, <3>2 DEF BlankOrCurrent, Render
  <2>4. CASE ~createsChart(u)
    <3>1. chart' = chart /\ pending /\ u.chartType = ui.chartType
        BY <2>1, <2>4, <1>1 DEF createsChart, Render
    <3>2. CASE series.type # u.chartType
        BY <1>0, <1>2, <3>1, <3>2 DEF BlankOrCurrent, Render
    <3>3. CASE ~redraws(u, s)
      <4>1. Bars(u) = Bars(ui) /\ Volumes(u) = Volumes(ui)
          BY <1>0, <3>3, SameBars
      <4> QED BY <1>0, <1>2, <3>1, <4>1 DEF BlankOrCurrent, Render
    <3> QED BY <2>2, <3>2, <3>3
  <2> QED BY <2>3, <2>4
<1> QED BY <1>5, <1>6

\* The effects of a render keep ChartInv.
LEMMA RenderKeeps ==
    ASSUME ChartInv, NEW u \in UIState, NEW s, Render(u, s),
           s = series \/ (pending /\ s = liveSeries /\ u.chartType = ui.chartType)
    PROVE  ChartInv'
<1>1. CommittedInv'
    BY DEF Render, CommittedInv
<1> QED BY <1>1, RenderDraws, RenderBlank DEF ChartInv

\* A render whose effects are left keeps ChartInv.
LEMMA CommitKeeps ==
    ASSUME ChartInv, NEW u \in UIState, NEW s, Commit(u, s),
           s = series \/ (pending /\ s = liveSeries /\ u.chartType = ui.chartType)
    PROVE  ChartInv'
<1>1. UNCHANGED <<ui, series, pending, chart, pane, shields, flags, panels>>
    BY DEF Commit
<1>2. liveSeries' = liveSeries
    BY <1>1 DEF liveSeries
<1>3. committed' = [u |-> u, s |-> s]
    BY DEF Commit
<1>4. s \in [type : Types \cup {"none"}, live : BOOLEAN]
  <2>1. ui.chartType \in Types /\ series \in [type : Types \cup {"none"}, live : BOOLEAN]
      BY DEF ChartInv, TypeOK, UIState
  <2>2. liveSeries \in [type : Types \cup {"none"}, live : BOOLEAN]
      BY <2>1 DEF liveSeries
  <2> QED BY <2>1, <2>2
<1>5. TypeOK'
    BY <1>1, <1>3, <1>4 DEF ChartInv, TypeOK, flags, panels
<1>6. CommittedInv'
    BY <1>1, <1>2, <1>3 DEF CommittedInv
<1>7. BlankOrCurrent' /\ DrawnIsCurrent'
    BY <1>1, <1>2 DEF ChartInv, BlankOrCurrent, DrawnIsCurrent
<1> QED BY <1>1, <1>5, <1>6, <1>7 DEF ChartInv

-----------------------------------------------------------------------------
\* The invariant of the chart holds at the mount.
LEMMA ChartInvInit == Init => ChartInv
<1> SUFFICES ASSUME Init PROVE ChartInv
    OBVIOUS
<1> USE WebChartAssumption
<1>1. PICK i \in Intervals :
        ui = [key |-> NoKey, interval |-> i, chartType |-> "candlestick",
              showVolume |-> TRUE, showMa |-> "ema", showMacd |-> TRUE, marks |-> TRUE,
              store |-> [k \in Keys \cup {NoKey} |-> 0],
              volumes |-> [k \in Keys \cup {NoKey} |-> 0], trades |-> 0]
    BY DEF Init
<1>2. ui \in UIState
    BY <1>1 DEF UIState, AllKeys, Types, Averages
<1>3. width \in Widths /\ clientWidth(activeTab, width) \in Nat
    BY DEF Init, clientWidth
<1>4. TypeOK
  <2>1. chart \in [main : Shown, vol : Shown, ma : [kind : Averages, bars : Shown],
                   width : Nat]
      BY <1>2, <1>3, ShownBars DEF Init, chartCreated, UIState, Averages
  <2>2. pane \in [shown : BOOLEAN, data : Shown, synced : BOOLEAN, width : Nat]
      BY <1>2, <1>3, ShownBars DEF Init, NoPane
  <2>3. /\ series \in [type : Types \cup {"none"}, live : BOOLEAN]
        /\ pending \in BOOLEAN /\ shouldFit \in BOOLEAN /\ fits \in Nat
        /\ activeTab \in Tabs
      BY DEF Init, NoSeries, Tabs
  <2>4. committed \in [u : UIState, s : [type : Types \cup {"none"}, live : BOOLEAN]]
      BY <1>2, <2>3 DEF Init
  <2> QED BY <1>2, <1>3, <2>1, <2>2, <2>3, <2>4 DEF TypeOK
<1>5. series.live = FALSE /\ pending = TRUE
    BY DEF Init, NoSeries
<1>6. pane.shown = ui.showMacd
    BY <1>1 DEF Init, NoPane
<1>7. CommittedInv /\ BlankOrCurrent
    BY <1>1 DEF Init, CommittedInv, BlankOrCurrent, chartCreated, NoSeries
<1> QED BY <1>4, <1>5, <1>6, <1>7 DEF ChartInv, DrawnIsCurrent

\* What the steps other than renders leave alone.
LEMMA QuietKeeps ==
    ASSUME ChartInv, UNCHANGED <<ui, series, committed, pending, shields, flags>>,
           activeTab' \in Tabs, width' \in Widths,
           \E w \in Nat : chart' = [chart EXCEPT !.width = w],
           pane' = pane \/ \E w \in Nat : pane' = [pane EXCEPT !.width = w]
    PROVE  ChartInv'
<1>1. /\ chart' \in [main : Shown, vol : Shown, ma : [kind : Averages, bars : Shown],
                      width : Nat]
      /\ chart'.main = chart.main /\ chart'.vol = chart.vol /\ chart'.ma = chart.ma
    BY DEF ChartInv, TypeOK
<1>2. /\ pane' \in [shown : BOOLEAN, data : Shown, synced : BOOLEAN, width : Nat]
      /\ pane'.shown = pane.shown /\ pane'.data = pane.data
    BY DEF ChartInv, TypeOK
<1>3. TypeOK'
    BY <1>1, <1>2 DEF ChartInv, TypeOK, flags
<1>4. DrawnIsCurrent' /\ BlankOrCurrent' /\ CommittedInv'
    BY <1>1, <1>2 DEF ChartInv, DrawnIsCurrent, BlankOrCurrent, CommittedInv, liveSeries
<1> QED BY <1>2, <1>3, <1>4 DEF ChartInv

\* Every step of the chart keeps its invariant.
LEMMA ChartInvStep == ChartInv /\ [Next]_vars => ChartInv'
<1> SUFFICES ASSUME ChartInv, [Next]_vars PROVE ChartInv'
    OBVIOUS
<1> USE WebChartAssumption
<1>0. TypeOK
    BY DEF ChartInv
<1>t. /\ \A w \in Widths, tab \in Tabs : clientWidth(tab, w) \in Nat
      /\ chart.width \in Nat
    BY <1>0 DEF clientWidth, TypeOK
<1>f. CASE Flush
  <2>1. committed.u \in UIState
      BY <1>0 DEF TypeOK
  <2>2. \/ committed.s = series
        \/ pending /\ committed.s = liveSeries /\ committed.u.chartType = ui.chartType
      BY DEF ChartInv, CommittedInv
  <2> QED BY <1>f, <2>1, <2>2, RenderKeeps DEF Flush
<1>1. CASE SeriesRendered
  <2>1. ui \in UIState
      BY <1>0 DEF TypeOK
  <2> QED BY <1>1, <2>1, CommitKeeps DEF SeriesRendered
<1>2. ASSUME NEW u \in UIState, Choose(u) PROVE ChartInv'
    BY <1>2, RenderKeeps DEF Choose
<1>3. ASSUME NEW k \in Keys, selectTicker(k) PROVE ChartInv'
  <2>1. [ui EXCEPT !.key = k] \in UIState
      BY <1>0 DEF TypeOK, UIState, AllKeys
  <2> QED BY <1>2, <1>3, <2>1 DEF selectTicker
<1>4. ASSUME NEW i \in Intervals, selectInterval(i) PROVE ChartInv'
  <2>1. [ui EXCEPT !.interval = i] \in UIState
      BY <1>0 DEF TypeOK, UIState
  <2> QED BY <1>2, <1>4, <2>1 DEF selectInterval
<1>5. ASSUME NEW k \in Keys, NEW i \in Intervals, selectGranularity(k, i) PROVE ChartInv'
  <2>1. [ui EXCEPT !.key = k, !.interval = i] \in UIState
      BY <1>0 DEF TypeOK, UIState, AllKeys
  <2> QED BY <1>2, <1>5, <2>1 DEF selectGranularity
<1>6. ASSUME NEW t \in Types, setChartType(t) PROVE ChartInv'
  <2>1. [ui EXCEPT !.chartType = t] \in UIState
      BY <1>0 DEF TypeOK, UIState
  <2> QED BY <1>2, <1>6, <2>1 DEF setChartType
<1>7. ASSUME NEW m \in Averages, setShowMa(m) PROVE ChartInv'
  <2>1. [ui EXCEPT !.showMa = m] \in UIState
      BY <1>0 DEF TypeOK, UIState
  <2> QED BY <1>2, <1>7, <2>1 DEF setShowMa
<1>8. CASE toggleVolume \/ toggleMacd \/ toggleTradeMarkers
  <2>1. /\ [ui EXCEPT !.showVolume = ~@] \in UIState
        /\ [ui EXCEPT !.showMacd = ~@] \in UIState
        /\ [ui EXCEPT !.marks = ~@] \in UIState
      BY <1>0 DEF TypeOK, UIState
  <2> QED BY <1>2, <1>8, <2>1 DEF toggleVolume, toggleMacd, toggleTradeMarkers
<1>9. ASSUME NEW k \in Keys, NEW v \in Versions, DataArrives(k, v) PROVE ChartInv'
  <2>1. PICK n \in Versions :
          Commit([ui EXCEPT !.store[k] = v, !.volumes[k] = n], latestSeries)
      BY <1>0, <1>9 DEF DataArrives, TypeOK, UIState, AllKeys
  <2> DEFINE u == [ui EXCEPT !.store[k] = v, !.volumes[k] = n]
  <2>2. u \in UIState /\ u.chartType = ui.chartType
      BY <1>0 DEF TypeOK, UIState, AllKeys
  <2> QED BY <1>9, <2>1, <2>2, CommitKeeps DEF DataArrives, latestSeries
<1>10. ASSUME NEW k \in Keys, SelectedByAnswer(k) PROVE ChartInv'
  <2> DEFINE u == [ui EXCEPT !.key = k]
  <2>1. u \in UIState /\ u.chartType = ui.chartType
      BY <1>0 DEF TypeOK, UIState, AllKeys
  <2> QED BY <1>10, <2>1, CommitKeeps DEF SelectedByAnswer, latestSeries
<1>11. ASSUME NEW v \in Versions, TradesArrive(v) PROVE ChartInv'
  <2> DEFINE u == [ui EXCEPT !.trades = v]
  <2>1. u \in UIState /\ u.chartType = ui.chartType
      BY <1>0 DEF TypeOK, UIState
  <2> QED BY <1>11, <2>1, CommitKeeps DEF TradesArrive, latestSeries
<1>12. CASE Mouse
  <2>1. UNCHANGED <<ui, series, committed, pending, shields, flags, chart, pane, activeTab, width>>
      BY <1>12 DEF Mouse, panels
  <2>2. chart' = [chart EXCEPT !.width = chart.width]
      BY <1>0, <2>1 DEF TypeOK
  <2> QED BY <1>0, <1>t, <2>1, <2>2, QuietKeeps DEF TypeOK
<1>13. ASSUME NEW tab \in Tabs, setActiveTab(tab) PROVE ChartInv'
  <2>1. widthAfterTab(tab) \in Nat
      BY <1>0, <1>t DEF widthAfterTab, TypeOK
  <2> QED BY <1>0, <1>13, <2>1, QuietKeeps DEF setActiveTab, TypeOK
<1>14. ASSUME NEW w \in Widths, handleResize(w) PROVE ChartInv'
  <2>1. clientWidth(activeTab, w) \in Nat
      BY <1>0, <1>t DEF TypeOK
  <2> QED BY <1>0, <1>14, <2>1, QuietKeeps DEF handleResize, TypeOK
<1>15. CASE UNCHANGED vars
    BY <1>15 DEF vars, ChartInv, TypeOK, DrawnIsCurrent, BlankOrCurrent, CommittedInv, liveSeries
<1> QED
    BY <1>f, <1>1, <1>3, <1>4, <1>5, <1>6, <1>7, <1>8, <1>9, <1>10, <1>11, <1>12, <1>13,
       <1>14, <1>15
    DEF Next, crosshairMove, chartClick, moveView, dismissCard

\* Whatever the order of clicks, of data and of the renders they cause, the panes
\* show the selected bars once no render of the series is left.
THEOREM DrawnIsCurrentTheorem == Spec => []DrawnIsCurrent
<1>1. ChartInv => DrawnIsCurrent
    BY DEF ChartInv
<1> QED BY <1>1, ChartInvInit, ChartInvStep, PTL DEF Spec

-----------------------------------------------------------------------------
\* The flag is set only while there has been no fit since the selection changed.
FitInv == shouldFit \in BOOLEAN /\ fits \in {0, 1} /\ (shouldFit => fits = 0)

\* A render fits the view only when it was flagged, and clears the flag.
LEMMA RenderFits ==
    ASSUME FitInv, NEW u, NEW s, Render(u, s) PROVE FitInv'
<1>1. shouldFit' \in BOOLEAN
    BY Zenon DEF Render, flagAfter
<1>2. CASE fitsNow(u, s)
  <2>1. ~flagsFit(u) => fits = 0
      BY <1>2 DEF fitsNow, FitInv
  <2>2. fits' = 1
      BY <1>2, <2>1 DEF Render
  <2>3. ~shouldFit'
      BY <1>2 DEF Render, flagAfter, fitsNow
  <2> QED BY <1>1, <2>2, <2>3 DEF FitInv
<1>3. CASE ~fitsNow(u, s)
  <2>1. fits' = IF flagsFit(u) THEN 0 ELSE fits
      BY <1>3 DEF Render, FitInv
  <2>2. shouldFit' => shouldFit \/ flagsFit(u)
      BY DEF Render, flagAfter
  <2> QED BY <1>1, <2>1, <2>2 DEF FitInv
<1> QED BY <1>2, <1>3

\* A step runs the effects of a render, or leaves the view and its flags, or loses
\* the view of nobody.
LEMMA StepsOfView ==
    ASSUME [Next]_vars
    PROVE  \/ \E u, s : Render(u, s)
           \/ UNCHANGED flags /\ (userView => userView')
BY DEF Next, Flush, SeriesRendered, selectTicker, selectInterval, selectGranularity,
       setChartType, setShowMa, toggleVolume, toggleMacd, toggleTradeMarkers, Choose,
       DataArrives, SelectedByAnswer, TradesArrive, Commit, crosshairMove, chartClick,
       moveView, dismissCard, Mouse, setActiveTab, handleResize, vars, flags

\* A render takes the view from the user by a fit, which was flagged and so is the
\* first, by a new chart, or by the first bars of the MACD.
LEMMA RenderTakesView ==
    ASSUME ChartInv, ChartInv', FitInv, fits > 0, userView, ~userView', NEW u, NEW s,
           Render(u, s)
    PROVE  \/ <<ui'.key, ui'.interval, ui'.chartType>> # <<ui.key, ui.interval, ui.chartType>>
           \/ ~paneFilled /\ paneFilled'
<1>1. ui' = u /\ ~shouldFit
    BY DEF Render, FitInv
<1>2. CASE flagsFit(u)
    BY <1>1, <1>2 DEF flagsFit
<1>3. CASE ~flagsFit(u)
  <2>1. ~createsChart(u) /\ ~fitsNow(u, s)
      BY <1>1, <1>3 DEF flagsFit, createsChart, fitsNow
  <2>2. movesView(u)
      BY <2>1 DEF Render, viewsAfter
  <2>3. pane'.data # Blank /\ paneAfter(u).shown /\ paneAfter(u).data = Blank
      BY <2>2 DEF movesView
  <2>4. ~pane.shown \/ pane.data = Blank
    <3>1. SUFFICES ASSUME pane.shown PROVE pane.data = Blank
        OBVIOUS
    <3>2. u.showMacd \in BOOLEAN
        BY <1>1 DEF ChartInv, TypeOK, UIState
    <3>3. u.showMacd
        BY <2>3, <3>1, <3>2 DEF paneAfter, NoPane
    <3>4. paneAfter(u) = [pane EXCEPT !.synced = @ /\ ~createsChart(u)]
        BY <3>1, <3>3 DEF paneAfter
    <3> QED BY <2>3, <3>4 DEF ChartInv, TypeOK
  <2>5. pane'.shown
      BY <1>1, <2>3 DEF ChartInv, paneAfter, NoPane
  <2> QED BY <2>3, <2>4, <2>5 DEF paneFilled
<1> QED BY <1>2, <1>3

\* The view the user chose is lost only to another selection or type, or to the
\* first bars of the MACD.
THEOREM UserViewKeptTheorem == Spec => UserViewKept
<1>1. Init => FitInv
    BY DEF Init, FitInv
<1>2. FitInv /\ [Next]_vars => FitInv'
  <2> SUFFICES ASSUME FitInv, [Next]_vars PROVE FitInv'
      OBVIOUS
  <2>1. CASE \E u, s : Render(u, s)
      BY <2>1, RenderFits
  <2>2. CASE UNCHANGED flags
      BY <2>2 DEF FitInv, flags
  <2> QED BY <2>1, <2>2, StepsOfView
<1>3. ChartInv /\ ChartInv' /\ FitInv /\ [Next]_vars =>
        [userView /\ ~userView' /\ fits > 0 =>
           \/ <<ui'.key, ui'.interval, ui'.chartType>> # <<ui.key, ui.interval, ui.chartType>>
           \/ ~paneFilled /\ paneFilled']_vars
    BY StepsOfView, RenderTakesView
<1> QED BY <1>1, <1>2, <1>3, ChartInvInit, ChartInvStep, PTL DEF Spec, UserViewKept

-----------------------------------------------------------------------------
\* A render leaves the chart as wide as its container.
LEMMA RenderFills ==
    ASSUME TypeOK, ChartFillsContainer, NEW u, NEW s, Render(u, s)
    PROVE  ChartFillsContainer'
<1> DEFINE base == IF createsChart(u) THEN chartCreated ELSE chart
<1>1. /\ base = [main |-> base.main, vol |-> base.vol, ma |-> base.ma,
                 width |-> base.width]
      /\ activeTab = "terminal" => base.width = width
    BY DEF chartCreated, clientWidth, ChartFillsContainer, TypeOK
<1>2. chart'.width = base.width
  <2> HIDE DEF base
  <2>1. chartDrawn(u, seriesAfter(u, s), base).width = base.width
      BY <1>1 DEF chartDrawn
  <2> QED BY <2>1 DEF Render, base
<1> QED BY <1>1, <1>2 DEF ChartFillsContainer, Render, panels

\* The chart fills its container whenever the terminal is the panel shown,
\* although a resize on another panel gives it the width 0.
THEOREM ChartFillsTheorem == Spec => []ChartFillsContainer
<1>1. Init => ChartFillsContainer
    BY DEF Init, chartCreated, clientWidth, ChartFillsContainer
<1>2. ChartInv /\ ChartFillsContainer /\ [Next]_vars => ChartFillsContainer'
  <2> SUFFICES ASSUME ChartInv, ChartFillsContainer, [Next]_vars
               PROVE  ChartFillsContainer'
      OBVIOUS
  <2>0. TypeOK
      BY DEF ChartInv
  <2>1. CASE \E u, s : Render(u, s)
      BY <2>0, <2>1, RenderFills
  <2>2. ASSUME NEW tab \in Tabs, setActiveTab(tab) PROVE ChartFillsContainer'
    <3>1. chart'.width = widthAfterTab(tab)
        BY <2>0, <2>2 DEF setActiveTab, TypeOK
    <3> QED BY <2>2, <3>1 DEF setActiveTab, widthAfterTab, clientWidth, ChartFillsContainer
  <2>3. ASSUME NEW w \in Widths, handleResize(w) PROVE ChartFillsContainer'
    <3>1. chart'.width = clientWidth(activeTab, w)
        BY <2>0, <2>3 DEF handleResize, TypeOK
    <3> QED BY <2>3, <3>1 DEF handleResize, clientWidth, ChartFillsContainer
  <2>4. CASE UNCHANGED <<chart, panels>>
      BY <2>4 DEF ChartFillsContainer, panels
  <2> QED
      BY <2>1, <2>2, <2>3, <2>4
      DEF Next, Flush, SeriesRendered, selectTicker, selectInterval, selectGranularity,
          setChartType, setShowMa, toggleVolume, toggleMacd, toggleTradeMarkers, Choose,
          DataArrives, SelectedByAnswer, TradesArrive, Commit, crosshairMove, chartClick,
          moveView, dismissCard, Mouse, vars, panels
<1> QED BY <1>1, <1>2, ChartInvInit, ChartInvStep, PTL DEF Spec

-----------------------------------------------------------------------------
\* What the charts show is of the bars that liveChartContextRef finds, or nothing.
LEMMA ShowsInspected ==
    ASSUME ChartInv
    PROVE  /\ {chart.main, chart.ma.bars} \subseteq {inspected, Blank}
           /\ inspected # Blank => chart.vol.key \in {inspected.key, "none"}
           /\ inspected # Blank /\ ~pending /\ pane.shown => pane.data = inspected
<1>1. ui \in UIState /\ series.type \in Types \cup {"none"}
    BY DEF ChartInv, TypeOK
<1>2. /\ inspected # Blank => HasData(ui) /\ inspected.key = ui.key
      /\ Volumes(ui).key \in {ui.key, "none"}
      /\ Blank.key = "none"
    BY DEF inspected, Bars, HasData, Volumes, Blank
<1>3. CASE pending
  <2>1. chart.main = Blank /\ chart.ma.bars \in {Blank, Bars(ui)} /\ chart.vol \in {Blank, Volumes(ui)}
      BY <1>3 DEF ChartInv, BlankOrCurrent
  <2> QED BY <1>2, <1>3, <2>1 DEF inspected
<1>4. CASE ~pending
  <2>1. /\ chart.main = Bars(ui) /\ chart.vol = Volumes(ui)
        /\ chart.ma.bars \in {Blank, Bars(ui)}
        /\ pane.shown /\ HasData(ui) => pane.data = Bars(ui)
      BY <1>4 DEF ChartInv, DrawnIsCurrent
  <2> QED BY <1>2, <1>4, <2>1 DEF inspected
<1> QED BY <1>3, <1>4

\* The bars looked up for the mouse are those on the screen, also between a render
\* and its effects (getBarDetailAtTime, liveChartContextRef).
THEOREM InspectsShownTheorem == Spec => InspectsShown
<1>1. [Next]_vars =>
        {hoverBarInfo', pinnedBarInfo'} \subseteq {hoverBarInfo, pinnedBarInfo, NoInfo, inspected}
    BY DEF Next, Flush, SeriesRendered, selectTicker, selectInterval, selectGranularity,
           setChartType, setShowMa, toggleVolume, toggleMacd, toggleTradeMarkers, Choose,
           DataArrives, SelectedByAnswer, TradesArrive, Commit, Render, crosshairMove,
           chartClick, moveView, dismissCard, Mouse, setActiveTab, handleResize, vars, cards
<1>2. ChartInv /\ [Next]_vars =>
        [\A b \in {hoverBarInfo', pinnedBarInfo'} \ {hoverBarInfo, pinnedBarInfo, NoInfo} :
           /\ {chart.main, chart.ma.bars} \subseteq {b, Blank}
           /\ b # Blank => chart.vol.key \in {b.key, "none"}
           /\ b # Blank /\ ~pending /\ pane.shown => pane.data = b]_vars
    BY <1>1, ShowsInspected
<1> QED BY <1>2, ChartInvInit, ChartInvStep, PTL DEF Spec, InspectsShown

\* On a chart at least 330 pixels wide and 328 high the card of every shield
\* stays inside it (getSmartPopoverPosition).
THEOREM CardInsideTheorem ==
    ASSUME \A w \in Widths : w >= 330, Height >= 328
    PROVE  Spec => []CardInside
<1>1. ChartInv => CardInside
  <2> SUFFICES ASSUME width \in Widths PROVE CardInside
      BY DEF ChartInv, TypeOK
  <2>1. width \in Nat /\ width >= 330 /\ Height \in Nat
      BY WebChartAssumption
  <2>2. ASSUME NEW x \in filterVisibleShieldMarkers(width)
        PROVE  /\ cardLeft(x, width) >= 0 - TagHalf
               /\ cardLeft(x, width) + POPOVER_CARD_WIDTH_PX <= width
    <3>1. x \in Nat /\ x <= width - 65
        BY WebChartAssumption DEF filterVisibleShieldMarkers, CHART_PRICE_SCALE_WIDTH_PX
    <3> QED BY <2>1, <3>1 DEF cardLeft, alignHorizontal, TagHalf, POPOVER_CARD_WIDTH_PX
  <2>3. ASSUME NEW y \in ShieldY, NEW isBuy \in BOOLEAN
        PROVE  /\ cardTop(y, isBuy) >= 0
               /\ cardTop(y, isBuy) + POPOVER_CARD_HEIGHT_PX <= Height
    <3>1. y \in 0..Height
        BY WebChartAssumption
    <3> QED
        BY <2>1, <3>1 DEF cardTop, isAbove, tagTop, TagHeight, POPOVER_CARD_HEIGHT_PX
  <2> QED BY <2>2, <2>3 DEF CardInside
<1> QED BY <1>1, ChartInvInit, ChartInvStep, PTL DEF Spec
=============================================================================
