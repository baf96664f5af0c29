------------------------------ MODULE WebChart ------------------------------
(***************************************************************************)
(* The chart of the web terminal (web/src/App.tsx): the React state it is  *)
(* drawn from, and the imperative chart objects that the effects of a      *)
(* render keep in step with it.                                            *)
(*                                                                         *)
(* An effect runs when one of its dependencies changed, the effects of a   *)
(* render in the order of the code.  A click is rendered and its effects   *)
(* are run at once (React flushes them with a discrete event).  What data  *)
(* or an answer changes is rendered first, and its effects run later:      *)
(* before the next render, but perhaps after a resize or a move of the     *)
(* mouse over the charts, whose handlers are not React's.  setActiveSeries,*)
(* called inside an effect, is rendered later still: a click is rendered   *)
(* before it, without it, data that arrives together with it.              *)
(*                                                                         *)
(* Bars are versions of a store, 0 for none; what a pane shows is the key  *)
(* and version it was last given.  Calls on a chart that was removed have  *)
(* no visible effect.                                                      *)
(***************************************************************************)
EXTENDS Integers, FiniteSets

CONSTANTS Keys,        \* selectedTicker_selectedGranularity
          NoKey,       \* the key as long as no ticker is selected
          Intervals,
          Versions,    \* versions of bars and of trades, 0 for none
          Widths,      \* widths of the container
          Height,      \* height of the chart
          ShieldX, ShieldY,   \* coordinates of shields on the canvas
          MaxEvents    \* bound: events

ASSUME WebChartAssumption ==
    /\ NoKey \notin Keys
    /\ 0 \in Versions /\ Versions \subseteq Nat
    /\ Widths \subseteq Nat \ {0}
    /\ Height \in Nat
    /\ ShieldX \subseteq Nat /\ ShieldY \subseteq 0..Height
    /\ MaxEvents \in Nat

VARIABLES ui,          \* React state of the last render whose effects have run,
                       \* which liveChartContextRef holds
          series,      \* its activeSeries
          committed,   \* the last render
          pending,     \* setActiveSeries of the live series is still to be rendered
          chart,       \* what the live main chart shows, and its width
          pane,        \* the MACD pane, if there is one
          shields,     \* shieldMarkers
          shouldFit,   \* shouldFitContentRef
          fits,        \* history: fits since the selection or the type changed
          userView,    \* history: what the main chart shows is what the user chose
          hoverBarInfo, pinnedBarInfo,
          activeTab, width,
          events

vars == <<ui, series, committed, pending, chart, pane, shields, shouldFit, fits,
          userView, hoverBarInfo, pinnedBarInfo, activeTab, width, events>>
panels == <<activeTab, width>>
cards == <<hoverBarInfo, pinnedBarInfo>>
flags == <<shouldFit, fits>>

Types == {"line", "candlestick"}
Tabs == {"terminal", "backtest", "admin"}
Averages == {"ema", "sma", "none"}
Blank == [key |-> "none", ver |-> 0]
NoSeries == [type |-> "none", live |-> FALSE]
NoPane == [shown |-> FALSE, data |-> Blank, synced |-> FALSE, width |-> 0]
NoShields == [key |-> "none", ver |-> 0, trades |-> 0]
NoInfo == [key |-> "off", ver |-> 0]

Bars(u) == IF u.store[u.key] = 0 THEN Blank ELSE [key |-> u.key, ver |-> u.store[u.key]]
HasData(u) == u.store[u.key] # 0

\* Volumes are a store of their own, which only history fills.
Volumes(u) ==
    IF u.showVolume /\ u.volumes[u.key] # 0
    THEN [key |-> u.key, ver |-> u.volumes[u.key]]
    ELSE Blank

\* A hidden panel has no width.
clientWidth(tab, w) == IF tab = "terminal" THEN w ELSE 0

-----------------------------------------------------------------------------
(***************************************************************************)
(* The effects of a render: u and s are the new state and activeSeries     *)
(***************************************************************************)

\* [chartType]: the old chart is removed and a blank one created, with series
\* of the new type.
createsChart(u) == u.chartType # ui.chartType

chartCreated ==
    [main |-> Blank, vol |-> Blank, ma |-> [kind |-> "none", bars |-> Blank],
     width |-> clientWidth(activeTab, width)]

\* After a change of type every older series is one of a removed chart.
seriesAfter(u, s) == IF createsChart(u) THEN [s EXCEPT !.live = FALSE] ELSE s

\* [selectedTicker, selectedGranularity, selectedInterval, chartType]
flagsFit(u) ==
    <<u.key, u.interval, u.chartType>> # <<ui.key, ui.interval, ui.chartType>>

\* [showMacd]: the pane is created, synced with the main chart of the moment, or
\* removed.  A new main chart is not synced with an old pane.
paneAfter(u) ==
    CASE u.showMacd /\ ~pane.shown ->
           [shown |-> TRUE, data |-> Blank, synced |-> TRUE,
            width |-> clientWidth(activeTab, width)]
      [] ~u.showMacd -> NoPane
      [] OTHER -> [pane EXCEPT !.synced = @ /\ ~createsChart(u)]

\* MUTANT: the series is missing from the dependencies.
redraws_NoSeries(u, s) == u # [ui EXCEPT !.interval = u.interval, !.marks = u.marks]
\* The dependencies of the effect that draws: all but the interval and the
\* switch of the trade markers.
redraws(u, s) ==
    \/ u # [ui EXCEPT !.interval = u.interval, !.marks = u.marks]
    \/ s # series

\* It returns early when the series is not yet of the type of the chart.
draws(u, s) == redraws(u, s) /\ s # NoSeries /\ s.type = u.chartType

\* The main series only if activeSeries belongs to the live chart; the volume
\* and the averages of the live chart in any case.
chartDrawn(u, s, c) ==
    [c EXCEPT !.main = IF s.live THEN Bars(u) ELSE @,
              !.vol  = Volumes(u),
              !.ma   = IF u.showMa # "none" /\ HasData(u)
                       THEN [kind |-> u.showMa, bars |-> Bars(u)]
                       ELSE [kind |-> "none", bars |-> Blank]]

\* Without bars the MACD is emptied if there are older bars of the ticker to
\* compute it from, and keeps what it showed if there are none.
paneDrawn(u, p) ==
    CASE ~u.showMacd -> {p}
      [] u.showMacd /\ HasData(u) -> {[p EXCEPT !.data = Bars(u)]}
      [] OTHER -> {p, [p EXCEPT !.data = Blank]}

\* MUTANT: the flag is not cleared by a fit.
flagAfter_Kept(u, s) == shouldFit \/ flagsFit(u)
\* shouldFitContentRef after the render: set by a change of what is selected,
\* cleared by the drawing of bars, which fits them.
flagAfter(u, s) == (shouldFit \/ flagsFit(u)) /\ ~(draws(u, s) /\ HasData(u))

fitsNow(u, s) == (shouldFit \/ flagsFit(u)) /\ draws(u, s) /\ HasData(u)

\* [selectedTicker, selectedGranularity, candleData, trades, activeSeries,
\*  showTradeMarkers, chartType]
reshields(u, s) ==
    \/ <<u.key, u.store, u.trades, u.marks, u.chartType>>
         # <<ui.key, ui.store, ui.trades, ui.marks, ui.chartType>>
    \/ s # series

\* updateShields: nothing without a series or with the markers off.
shieldsOf(u) ==
    IF u.marks THEN [key |-> u.key, ver |-> u.store[u.key], trades |-> u.trades]
    ELSE NoShields
shieldsAt(u, s) == IF s = NoSeries THEN NoShields ELSE shieldsOf(u)

\* A pane in step with the main chart moves it when it gets its first bars.
movesView(u) ==
    LET p == paneAfter(u) IN p.shown /\ p.synced /\ p.data = Blank /\ pane'.data # Blank

\* What the user chose to see is lost with the chart and by a fit.
viewsAfter(u, s) ==
    IF createsChart(u) \/ fitsNow(u, s) THEN {FALSE}
    ELSE {userView} \cup (IF movesView(u) THEN {FALSE} ELSE {})

\* The effects of the render of state u with activeSeries s.
Render(u, s) ==
    LET base == IF createsChart(u) THEN chartCreated ELSE chart
        seen == seriesAfter(u, s)
    IN  /\ ui' = u
        /\ series' = seen
        /\ committed' = [u |-> u, s |-> seen]
        /\ pending' = (createsChart(u) \/ (pending /\ s = series))
        /\ chart' = IF draws(u, s) THEN chartDrawn(u, seen, base) ELSE base
        /\ pane' \in IF draws(u, s) THEN paneDrawn(u, paneAfter(u)) ELSE {paneAfter(u)}
        /\ shouldFit' = flagAfter(u, s)
        /\ fits' = (IF flagsFit(u) THEN 0 ELSE fits) + (IF fitsNow(u, s) THEN 1 ELSE 0)
        /\ userView' \in viewsAfter(u, s)
        /\ shields' = IF reshields(u, s) THEN shieldsAt(u, s) ELSE shields
        /\ UNCHANGED <<cards, panels>>

Event == events < MaxEvents /\ events' = events + 1

\* No effects are left to be run: every render waits for those of the last one.
settled == committed = [u |-> ui, s |-> series]

\* A render outside a discrete event; its effects are left to Flush.
Commit(u, s) ==
    /\ Event
    /\ settled
    /\ committed' = [u |-> u, s |-> s]
    /\ UNCHANGED <<ui, series, pending, chart, pane, shields, flags, userView, cards, panels>>

liveSeries == [type |-> ui.chartType, live |-> TRUE]
latestSeries == IF pending THEN liveSeries ELSE series

-----------------------------------------------------------------------------
\* After the first render, whose effects created the chart and the pane.
Init ==
    /\ \E i \in Intervals :
         ui = [key |-> NoKey, interval |-> i, chartType |-> "candlestick",
               showVolume |-> TRUE, showMa |-> "ema", showMacd |-> TRUE, marks |-> TRUE,
               store |-> [k \in Keys \cup {NoKey} |-> 0],
               volumes |-> [k \in Keys \cup {NoKey} |-> 0], trades |-> 0]
    /\ \E w \in Widths : width = w
    /\ activeTab = "terminal"
    /\ series = NoSeries
    /\ committed = [u |-> ui, s |-> series]
    /\ pending = TRUE
    /\ chart = chartCreated
    /\ pane = [NoPane EXCEPT !.shown = TRUE, !.synced = TRUE, !.width = width]
    /\ shields = NoShields
    /\ shouldFit = TRUE
    /\ fits = 0
    /\ userView = FALSE
    /\ hoverBarInfo = NoInfo /\ pinnedBarInfo = NoInfo
    /\ events = 0

-----------------------------------------------------------------------------
(***************************************************************************)
(* Events                                                                  *)
(***************************************************************************)

\* The effects that a render outside a discrete event has left.
Flush ==
    /\ ~settled
    /\ Render(committed.u, committed.s)
    /\ UNCHANGED events

\* The render that setActiveSeries asked for.
SeriesRendered == pending /\ Commit(ui, liveSeries)

\* A click or a choice in the toolbar, the watchlist or under the chart.
Choose(u) ==
    /\ activeTab = "terminal"
    /\ u # ui
    /\ Event
    /\ settled
    /\ Render(u, series)

selectTicker(k) == Choose([ui EXCEPT !.key = k])
selectInterval(i) == Choose([ui EXCEPT !.interval = i])
\* i is the interval recommended for the granularity.
selectGranularity(k, i) == Choose([ui EXCEPT !.key = k, !.interval = i])
setChartType(t) == Choose([ui EXCEPT !.chartType = t])
toggleVolume == Choose([ui EXCEPT !.showVolume = ~@])
setShowMa(m) == Choose([ui EXCEPT !.showMa = m])
toggleMacd == Choose([ui EXCEPT !.showMacd = ~@])
toggleTradeMarkers == Choose([ui EXCEPT !.marks = ~@])

\* History brings bars and volumes; a tick changes the bars alone, a failed
\* request empties them and leaves the volumes.  A tick of a stale handler may
\* also touch the live series first, and is drawn over in the same render.
DataArrives(k, v) ==
    /\ v # ui.store[k]
    /\ \E n \in ({v} \ {0}) \cup {ui.volumes[k]} :
         Commit([ui EXCEPT !.store[k] = v, !.volumes[k] = n], latestSeries)

\* The answer to fetchMdgConfig or to a change of the watchlist selects a symbol.
SelectedByAnswer(k) ==
    /\ k # ui.key
    /\ Commit([ui EXCEPT !.key = k], latestSeries)

TradesArrive(v) ==
    /\ v # ui.trades
    /\ Commit([ui EXCEPT !.trades = v], latestSeries)

-----------------------------------------------------------------------------
(***************************************************************************)
(* The charts under the mouse                                              *)
(***************************************************************************)

\* MUTANT: liveChartContextRef is assigned in the render, not in an effect.
inspected_InRender == Bars(committed.u)
\* getBarDetailAtTime reads liveChartContextRef, not the closure of the handler;
\* without bars it answers with a detail of none.
inspected == Bars(ui)

mainFilled == chart.main # Blank \/ chart.vol # Blank \/ chart.ma.bars # Blank
paneFilled == pane.shown /\ pane.data # Blank

\* A handler of a chart is given a time where that chart has bars.
finds == ui.key # NoKey /\ (mainFilled \/ paneFilled)

Mouse ==
    /\ Event
    /\ activeTab = "terminal"
    /\ UNCHANGED <<ui, series, committed, pending, chart, pane, shields, flags, panels>>

\* The crosshair over a bar of the main chart or of the MACD, or off the bars.
crosshairMove ==
    /\ Mouse
    /\ hoverBarInfo' \in {NoInfo} \cup (IF finds THEN {inspected} ELSE {})
    /\ UNCHANGED <<pinnedBarInfo, userView>>

\* A click on a bar pins it, a click on the pinned bar or beside unpins.
chartClick ==
    /\ Mouse
    /\ pinnedBarInfo' \in {NoInfo} \cup (IF finds THEN {inspected} ELSE {})
    /\ UNCHANGED <<hoverBarInfo, userView>>

\* The user drags or zooms the main chart, or the MACD in step with it, or jumps
\* to a trade (jumpChartToTrade).
moveView == Mouse /\ mainFilled /\ ~userView /\ userView' = TRUE /\ UNCHANGED cards

\* The click handler of the container and the button of the card.
dismissCard == Mouse /\ pinnedBarInfo' = NoInfo /\ UNCHANGED <<hoverBarInfo, userView>>

-----------------------------------------------------------------------------
(***************************************************************************)
(* Panels and widths                                                       *)
(***************************************************************************)

\* MUTANT: nothing is done on the return to the terminal.
widthAfterTab_Kept(tab) == chart.width
\* [activeTab]: the width is applied again on the return to the terminal.
widthAfterTab(tab) == IF tab = "terminal" THEN clientWidth(tab, width) ELSE chart.width

setActiveTab(tab) ==
    /\ Event
    /\ settled
    /\ tab # activeTab
    /\ activeTab' = tab
    /\ chart' = [chart EXCEPT !.width = widthAfterTab(tab)]
    /\ UNCHANGED <<ui, series, committed, pending, pane, shields, flags, userView, cards,
                   width>>

\* Both charts listen to the window, whatever panel is shown.
handleResize(w) ==
    /\ Event
    /\ w # width
    /\ width' = w
    /\ chart' = [chart EXCEPT !.width = clientWidth(activeTab, w)]
    /\ pane' = IF pane.shown THEN [pane EXCEPT !.width = clientWidth(activeTab, w)] ELSE pane
    /\ UNCHANGED <<ui, series, committed, pending, shields, flags, userView, cards,
                   activeTab>>

-----------------------------------------------------------------------------
(***************************************************************************)
(* The card of a shield                                                    *)
(***************************************************************************)
CHART_PRICE_SCALE_WIDTH_PX == 65
POPOVER_CARD_WIDTH_PX == 210
POPOVER_CARD_HEIGHT_PX == 135

\* Shields over the price scale are not shown.
filterVisibleShieldMarkers(w) == {x \in ShieldX : x <= w - CHART_PRICE_SCALE_WIDTH_PX}

\* MUTANT: the card of a shield near the right edge is centred as the others.
alignHorizontal_NoRight(x, w) ==
    IF x < POPOVER_CARD_WIDTH_PX \div 2 + 30 THEN "left" ELSE "center"
alignHorizontal(x, w) ==
    CASE x > w - POPOVER_CARD_WIDTH_PX \div 2 - 30 -> "right"
      [] x <= w - POPOVER_CARD_WIDTH_PX \div 2 - 30 /\ x < POPOVER_CARD_WIDTH_PX \div 2 + 30
           -> "left"
      [] OTHER -> "center"

isAbove(y, isBuy) ==
    CASE y > Height - POPOVER_CARD_HEIGHT_PX - 30 -> TRUE
      [] y <= Height - POPOVER_CARD_HEIGHT_PX - 30 /\ y < POPOVER_CARD_HEIGHT_PX + 30 -> FALSE
      [] OTHER -> ~isBuy

\* The tag of a shield is about 30 by 21 pixels, centred at x, under the point
\* of a buy and above that of a sell.
TagHalf == 15
TagHeight == 21
tagTop(y, isBuy) == IF isBuy THEN y + 2 ELSE y - 2 - TagHeight

cardLeft(x, w) ==
    CASE alignHorizontal(x, w) = "right" -> x + TagHalf - POPOVER_CARD_WIDTH_PX
      [] alignHorizontal(x, w) = "left" -> x - TagHalf
      [] OTHER -> x - POPOVER_CARD_WIDTH_PX \div 2
cardTop(y, isBuy) ==
    IF isAbove(y, isBuy)
    THEN tagTop(y, isBuy) - 6 - POPOVER_CARD_HEIGHT_PX
    ELSE tagTop(y, isBuy) + TagHeight + 6

-----------------------------------------------------------------------------
Next ==
    \/ Flush
    \/ SeriesRendered
    \/ \E k \in Keys : selectTicker(k) \/ SelectedByAnswer(k)
    \/ \E i \in Intervals : selectInterval(i)
    \/ \E k \in Keys, i \in Intervals : selectGranularity(k, i)
    \/ \E t \in Types : setChartType(t)
    \/ \E m \in Averages : setShowMa(m)
    \/ toggleVolume
    \/ toggleMacd
    \/ toggleTradeMarkers
    \/ \E k \in Keys, v \in Versions : DataArrives(k, v)
    \/ \E v \in Versions : TradesArrive(v)
    \/ crosshairMove
    \/ chartClick
    \/ moveView
    \/ dismissCard
    \/ \E tab \in Tabs : setActiveTab(tab)
    \/ \E w \in Widths : handleResize(w)

Spec == Init /\ [][Next]_vars

-----------------------------------------------------------------------------
(***************************************************************************)
(* Properties                                                              *)
(***************************************************************************)
AllKeys == Keys \cup {NoKey}
UIState ==
    [key : AllKeys, interval : Intervals, chartType : Types,
     showVolume : BOOLEAN, showMa : Averages, showMacd : BOOLEAN, marks : BOOLEAN,
     store : [AllKeys -> Versions], volumes : [AllKeys -> Versions], trades : Versions]
Shown == [key : AllKeys \cup {"none"}, ver : Versions]

TypeOK ==
    /\ ui \in UIState
    /\ series \in [type : Types \cup {"none"}, live : BOOLEAN]
    /\ committed \in [u : UIState, s : [type : Types \cup {"none"}, live : BOOLEAN]]
    /\ pending \in BOOLEAN /\ shouldFit \in BOOLEAN /\ fits \in Nat
    /\ chart \in [main : Shown, vol : Shown, ma : [kind : Averages, bars : Shown],
                   width : Nat]
    /\ pane \in [shown : BOOLEAN, data : Shown, synced : BOOLEAN, width : Nat]
    /\ activeTab \in Tabs /\ width \in Widths

\* The panes show the selected bars: whatever the order of type switches, of
\* toggles, of data, of the renders they cause and of their effects, once the
\* effects of a render have run and no render of the series is left, the live
\* series is the active one and is of the selected type, the
\* main series and the averages show the bars of the selected key and the volume
\* pane its volumes, or nothing where they are switched off, the shields belong
\* to that key, its bars and the trades of the moment, and the MACD shows the
\* same bars; if there are none it is empty or shows what it showed before.
DrawnIsCurrent ==
    ~pending =>
        /\ series = liveSeries
        /\ chart.main = Bars(ui)
        /\ chart.vol = Volumes(ui)
        /\ chart.ma = (IF ui.showMa # "none" /\ HasData(ui)
                       THEN [kind |-> ui.showMa, bars |-> Bars(ui)]
                       ELSE [kind |-> "none", bars |-> Blank])
        /\ pane.shown = ui.showMacd
        /\ pane.shown /\ HasData(ui) => pane.data = Bars(ui)
        /\ shields = shieldsOf(ui)

\* What a series still to be rendered leaves of the panes: nothing of other bars.
BlankOrCurrent ==
    pending =>
        /\ chart.main = Blank
        /\ series.type # ui.chartType => chart.vol = Blank /\ chart.ma.bars = Blank
        /\ series.type = ui.chartType =>
             chart.vol = Volumes(ui) /\ chart.ma.bars \in {Blank, Bars(ui)}

\* A render whose effects are left brings new data with the same series, or the
\* live series that was pending.
CommittedInv ==
    \/ committed.s = series
    \/ pending /\ committed.s = liveSeries /\ committed.u.chartType = ui.chartType

\* The strengthening of DrawnIsCurrent: activeSeries is of a removed chart, or of
\* none, exactly as long as a render of the live series is still to come.
ChartInv ==
    /\ TypeOK
    /\ series.live = ~pending
    /\ pane.shown = ui.showMacd
    /\ CommittedInv
    /\ BlankOrCurrent
    /\ DrawnIsCurrent

\* The view the user chose, once the bars of a selection have been fitted, is
\* taken away only by another symbol, granularity, interval or type, or by a MACD
\* that gets its first bars and moves the main chart to its own range: never by
\* ticks, trades, the other toggles or the renders they cause.
UserViewKept ==
    [][userView /\ ~userView' /\ fits > 0 =>
         \/ <<ui'.key, ui'.interval, ui'.chartType>> # <<ui.key, ui.interval, ui.chartType>>
         \/ ~paneFilled /\ paneFilled']_vars

\* The bars looked up for the mouse are those on the screen, although the handlers
\* belong to the render that created the chart and may be called between a render
\* and its effects: the main chart shows nothing of other bars, nor does the MACD
\* once the live series is rendered.
InspectsShown ==
    [][\A b \in {hoverBarInfo', pinnedBarInfo'} \ {hoverBarInfo, pinnedBarInfo, NoInfo} :
         /\ {chart.main, chart.ma.bars} \subseteq {b, Blank}
         /\ b # Blank => chart.vol.key \in {b.key, "none"}
         /\ b # Blank /\ ~pending /\ pane.shown => pane.data = b]_vars

\* The chart fills its container whenever it can be seen, also after the window
\* was resized while another panel hid it.
ChartFillsContainer == activeTab = "terminal" => chart.width = width

\* The card of every shield that is shown stays inside the chart, but for half
\* a tag at the left edge.
CardInside ==
    /\ \A x \in filterVisibleShieldMarkers(width) :
          /\ cardLeft(x, width) >= 0 - TagHalf
          /\ cardLeft(x, width) + POPOVER_CARD_WIDTH_PX <= width
    /\ \A y \in ShieldY, isBuy \in BOOLEAN :
          /\ cardTop(y, isBuy) >= 0
          /\ cardTop(y, isBuy) + POPOVER_CARD_HEIGHT_PX <= Height
=============================================================================
